-------------------------- MODULE Pipeline_proofs --------------------------
(***************************************************************************)
(* Theorems about Pipeline, for any sources, any nodes a program builds    *)
(* over them and any observations.                                         *)
(***************************************************************************)
EXTENDS Pipeline, Recursion, FiniteSetTheorems, SequenceTheorems

-----------------------------------------------------------------------------
(* Sequences *)

\* A sequence, of whatever it holds.
IsSeq(s) == s \in Seq(Range(s))

LEMMA SeqByDomain ==
  ASSUME NEW s, NEW n \in Nat, s = [k \in 1..n |-> s[k]]
  PROVE  IsSeq(s) /\ Len(s) = n /\ DOMAIN s = 1..n
<1>1. s \in [1..n -> Range(s)]
  BY DEF Range
<1>2. QED
  BY <1>1 DEF IsSeq

LEMMA SeqFacts ==
  ASSUME NEW s, IsSeq(s)
  PROVE  Len(s) \in Nat /\ DOMAIN s = 1..Len(s) /\ s = [k \in 1..Len(s) |-> s[k]]
BY DEF IsSeq

LEMMA Appended ==
  ASSUME NEW s, NEW x, IsSeq(s)
  PROVE  /\ IsSeq(Append(s, x)) /\ Len(Append(s, x)) = Len(s) + 1
         /\ Append(s, x)[Len(s) + 1] = x
         /\ \A k \in 1..Len(s) : Append(s, x)[k] = s[k]
<1> DEFINE S == Range(s) \union {x}
<1>1. s \in Seq(S) /\ x \in S
  BY DEF IsSeq
<1>2. Append(s, x) \in Seq(S) /\ Len(Append(s, x)) = Len(s) + 1
  BY <1>1
<1>3. /\ Append(s, x)[Len(s) + 1] = x
      /\ \A k \in 1..Len(s) : Append(s, x)[k] = s[k]
  BY <1>1
<1>4. ASSUME NEW t \in Seq(S) PROVE IsSeq(t)
  <2>1. Len(t) \in Nat /\ t = [k \in 1..Len(t) |-> t[k]]
    BY <1>4
  <2>2. QED
    BY <2>1, SeqByDomain
<1>5. IsSeq(Append(s, x))
  BY <1>2, <1>4
<1>6. QED
  BY <1>2, <1>3, <1>5

-----------------------------------------------------------------------------
(* InOrder *)

\* The place of a member: how many are below it, and one.
LOCAL Below(S, x) == {y \in S : y < x}

LEMMA Places ==
  ASSUME NEW S, IsFiniteSet(S), S \subseteq Int
  PROVE  /\ Cardinality(S) \in Nat
         /\ \A x \in S : Cardinality(Below(S, x)) \in 0..(Cardinality(S) - 1)
         /\ \A x, y \in S : x < y => Cardinality(Below(S, x)) < Cardinality(Below(S, y))
         /\ \A k \in 1..Cardinality(S) : \E x \in S : Cardinality(Below(S, x)) = k - 1
<1> DEFINE n == Cardinality(S)
<1>1. n \in Nat
  BY FS_CardinalityType
<1>2. ASSUME NEW x PROVE IsFiniteSet(Below(S, x)) /\ Cardinality(Below(S, x)) \in Nat
  <2>1. Below(S, x) \subseteq S
    BY DEF Below
  <2>2. QED
    BY <2>1, FS_Subset, FS_CardinalityType
<1>3. ASSUME NEW x \in S PROVE Cardinality(Below(S, x)) \in 0..(n - 1)
  <2>1. Below(S, x) \subseteq S \ {x}
    BY DEF Below
  <2>2. IsFiniteSet(S \ {x}) /\ Cardinality(S \ {x}) = n - 1
    BY FS_RemoveElement
  <2>3. Cardinality(Below(S, x)) <= n - 1
    BY <2>1, <2>2, FS_Subset
  <2>4. QED
    BY <1>1, <1>2, <2>3
<1>4. ASSUME NEW x \in S, NEW y \in S, x < y
      PROVE  Cardinality(Below(S, x)) < Cardinality(Below(S, y))
  <2> DEFINE B == Below(S, x)
             C == Below(S, y)
  <2>1. x \notin B /\ B \union {x} \subseteq C
    <3>1. x \in Int /\ y \in Int
      OBVIOUS
    <3>2. x \notin B /\ x \in C
      BY <1>4, <3>1 DEF Below
    <3>3. ASSUME NEW z \in B PROVE z \in C
      <4>1. z \in S /\ z \in Int /\ z < x
        BY DEF Below
      <4>2. z < y
        BY <1>4, <3>1, <4>1
      <4>3. QED
        BY <4>1, <4>2 DEF Below
    <3> HIDE DEF B, C
    <3>4. QED
      BY <3>2, <3>3
  <2>2. IsFiniteSet(B) /\ Cardinality(B) \in Nat /\ IsFiniteSet(C) /\ Cardinality(C) \in Nat
    BY <1>2
  <2> HIDE DEF B, C
  <2>3. Cardinality(B \union {x}) = Cardinality(B) + 1
    BY <2>1, <2>2, FS_AddElement
  <2>4. Cardinality(B \union {x}) <= Cardinality(C)
    BY <2>1, <2>2, FS_Subset
  <2>5. Cardinality(B) < Cardinality(C)
    BY <2>2, <2>3, <2>4
  <2>6. QED
    BY <2>5 DEF B, C
<1>5. ASSUME NEW k \in 1..n PROVE \E x \in S : Cardinality(Below(S, x)) = k - 1
  <2> DEFINE f == [x \in S |-> Cardinality(Below(S, x)) + 1]
  <2>1. f \in [S -> 1..n]
    BY <1>1, <1>3
  <2>2. ASSUME NEW x \in S, NEW y \in S, x # y PROVE f[x] # f[y]
    <3>1. x < y \/ y < x
      BY <2>2
    <3>2. f[x] \in Int /\ f[y] \in Int /\ (f[x] < f[y] \/ f[y] < f[x])
      BY <1>2, <1>4, <3>1
    <3>3. QED
      BY <3>2
  <2>3. f \in Injection(S, 1..n)
    <3> HIDE DEF f
    <3>1. QED
      BY <2>1, <2>2 DEF Injection, IsInjective
  <2>4. IsFiniteSet(1..n) /\ Cardinality(1..n) = n
    BY <1>1, FS_Interval
  <2>5. f \in Surjection(S, 1..n)
    <3> HIDE DEF f
    <3>1. QED
      BY <2>3, <2>4, FS_Injection
  <2>6. PICK x \in S : f[x] = k
    <3> HIDE DEF f
    <3>1. QED
      BY <2>5 DEF Surjection
  <2>7. Cardinality(Below(S, x)) \in Nat /\ Cardinality(Below(S, x)) + 1 = k
    BY <1>2, <2>6
  <2>8. QED
    BY <2>7
<1>6. QED
  BY <1>1, <1>3, <1>4, <1>5

\* InOrder lists every member once, from the least to the greatest.
LEMMA InOrderFacts ==
  ASSUME NEW S, IsFiniteSet(S), S \subseteq Int
  PROVE  /\ Cardinality(S) \in Nat /\ DOMAIN InOrder(S) = 1..Cardinality(S)
         /\ IsSeq(InOrder(S)) /\ Len(InOrder(S)) = Cardinality(S)
         /\ \A k \in 1..Cardinality(S) : InOrder(S)[k] \in S /\ InOrder(S)[k] \in Int
         /\ \A j, k \in 1..Cardinality(S) : j < k => InOrder(S)[j] < InOrder(S)[k]
         /\ \A x \in S : \E k \in 1..Cardinality(S) : InOrder(S)[k] = x
<1> DEFINE n == Cardinality(S)
           f == InOrder(S)
           Place(x) == Cardinality(Below(S, x))
<1>1. f = [k \in 1..n |-> CHOOSE x \in S : Place(x) = k - 1]
  BY DEF InOrder, Below
<1>2. /\ n \in Nat /\ \A x \in S : Place(x) \in 0..(n - 1)
      /\ \A x, y \in S : x < y => Place(x) < Place(y)
      /\ \A k \in 1..n : \E x \in S : Place(x) = k - 1
  BY Places
<1> HIDE DEF Place, f, n
<1>3. DOMAIN f = 1..n /\ \A k \in 1..n : f[k] \in S /\ Place(f[k]) = k - 1
  BY <1>1, <1>2
<1>4. \A k \in 1..n : f[k] \in Int
  BY <1>3
<1>5. ASSUME NEW j \in 1..n, NEW k \in 1..n, j < k PROVE f[j] < f[k]
  <2>1. Place(f[j]) < Place(f[k])
    BY <1>2, <1>3, <1>5
  <2>2. f[k] < f[j] => Place(f[k]) < Place(f[j])
    BY <1>2, <1>3
  <2>3. Place(f[j]) \in Int /\ Place(f[k]) \in Int
    BY <1>2, <1>3
  <2>4. f[j] # f[k] /\ ~(f[k] < f[j])
    BY <2>1, <2>2, <2>3
  <2>5. QED
    BY <1>4, <2>4
<1>6. ASSUME NEW x \in S PROVE \E k \in 1..n : f[k] = x
  <2>1. PICK p \in 0..(n - 1) : p = Place(x)
    BY <1>2
  <2>2. p + 1 \in 1..n /\ p \in Int
    BY <1>2
  <2>3. f[p + 1] \in S /\ Place(f[p + 1]) = p
    BY <1>3, <2>2
  <2>4. x \in Int /\ f[p + 1] \in Int
    BY <2>3
  <2>5. ~(x < f[p + 1]) /\ ~(f[p + 1] < x)
    <3>1. ~(Place(x) < Place(f[p + 1])) /\ ~(Place(f[p + 1]) < Place(x))
      BY <2>1, <2>2, <2>3
    <3>2. QED
      BY <1>2, <2>3, <3>1
  <2>6. f[p + 1] = x
    BY <2>4, <2>5
  <2>7. QED
    BY <2>2, <2>6
<1>7. IsSeq(f) /\ Len(f) = n
  BY <1>1, <1>2, <1>3, SeqByDomain
<1>8. QED
  BY <1>2, <1>3, <1>4, <1>5, <1>6, <1>7 DEF f, n

\* Nothing else does.
Increasing(f, n, S) ==
  /\ f = [k \in 1..n |-> f[k]]
  /\ \A k \in 1..n : f[k] \in S /\ f[k] \in Int
  /\ \A j, k \in 1..n : j < k => f[j] < f[k]
  /\ \A x \in S : \E k \in 1..n : f[k] = x

LEMMA InOrderUnique ==
  ASSUME NEW S, NEW n \in Nat, NEW f, Increasing(f, n, S)
  PROVE  /\ IsFiniteSet(S) /\ S \subseteq Int /\ Cardinality(S) = n
         /\ InOrder(S) = f
<1> USE DEF Increasing
<1>1. ASSUME NEW j \in 1..n, NEW k \in 1..n, f[j] = f[k] PROVE j = k
  <2>1. ~(j < k) /\ ~(k < j)
    BY <1>1
  <2>2. QED
    BY <2>1
<1>2. \A m \in 0..n : ExistsBijection(1..m, {f[k] : k \in 1..m})
  <2> SUFFICES ASSUME NEW m \in 0..n PROVE ExistsBijection(1..m, {f[k] : k \in 1..m})
    OBVIOUS
  <2> DEFINE g == [k \in 1..m |-> f[k]]
             T == {f[k] : k \in 1..m}
  <2>1. 1..m \subseteq 1..n
    OBVIOUS
  <2>2. g \in [1..m -> T] /\ (\A t \in T : \E k \in 1..m : g[k] = t)
    OBVIOUS
  <2>3. \A j, k \in 1..m : g[j] = g[k] => j = k
    BY <1>1, <2>1
  <2> HIDE DEF g, T
  <2>4. g \in Bijection(1..m, T)
    BY <2>2, <2>3 DEF Bijection, Injection, Surjection, IsInjective
  <2>5. ExistsBijection(1..m, T)
    BY <2>4 DEF ExistsBijection
  <2>6. QED
    BY <2>5 DEF T
<1>3. \A m \in 0..n : Cardinality({f[k] : k \in 1..m}) = m
  <2> SUFFICES ASSUME NEW m \in 0..n PROVE Cardinality({f[k] : k \in 1..m}) = m
    OBVIOUS
  <2> DEFINE T == {f[k] : k \in 1..m}
  <2>1. m \in Nat /\ ExistsBijection(1..m, T)
    BY <1>2
  <2> HIDE DEF T
  <2>2. Cardinality(T) = m
    BY <2>1, FS_CountingElements
  <2>3. QED
    BY <2>2 DEF T
<1>4. S = {f[k] : k \in 1..n} /\ n \in 0..n
  OBVIOUS
<1>5. Cardinality(S) = n /\ IsFiniteSet(S) /\ S \subseteq Int
  <2>1. ExistsBijection(1..n, S) /\ Cardinality(S) = n
    BY <1>2, <1>3, <1>4
  <2>2. QED
    BY <2>1, <1>4, FS_NatBijection
<1>6. \A k \in 1..n : {y \in S : y < f[k]} = {f[j] : j \in 1..(k - 1)}
  <2> SUFFICES ASSUME NEW k \in 1..n PROVE {y \in S : y < f[k]} = {f[j] : j \in 1..(k - 1)}
    OBVIOUS
  <2>1. ASSUME NEW y \in S, y < f[k] PROVE \E j \in 1..(k - 1) : y = f[j]
    <3>1. PICK j \in 1..n : f[j] = y
      OBVIOUS
    <3>2. f[j] \in Int /\ f[k] \in Int /\ f[j] < f[k]
      BY <2>1, <3>1
    <3>3. j # k /\ ~(k < j)
      BY <3>2
    <3>4. j \in 1..(k - 1)
      BY <3>3
    <3>5. QED
      BY <3>1, <3>4
  <2>2. ASSUME NEW j \in 1..(k - 1) PROVE f[j] \in S /\ f[j] < f[k]
    <3>1. j \in 1..n /\ j < k
      OBVIOUS
    <3>2. QED
      BY <3>1
  <2>3. QED
    BY <2>1, <2>2
<1>7. \A k \in 1..n : Cardinality({y \in S : y < f[k]}) = k - 1
  <2> SUFFICES ASSUME NEW k \in 1..n PROVE Cardinality({y \in S : y < f[k]}) = k - 1
    OBVIOUS
  <2>1. k - 1 \in 0..n
    OBVIOUS
  <2>2. QED
    BY <1>3, <1>6, <2>1
<1>8. \A k \in 1..n : (CHOOSE x \in S : Cardinality({y \in S : y < x}) = k - 1) = f[k]
  <2> SUFFICES ASSUME NEW k \in 1..n
               PROVE  (CHOOSE x \in S : Cardinality({y \in S : y < x}) = k - 1) = f[k]
    OBVIOUS
  <2> DEFINE Place(x) == Cardinality({y \in S : y < x})
             c == CHOOSE x \in S : Place(x) = k - 1
  <2>1. \A j \in 1..n : Place(f[j]) = j - 1
    BY <1>7
  <2> HIDE DEF Place
  <2>2. c \in S /\ Place(c) = k - 1
    BY <2>1
  <2> HIDE DEF c
  <2>3. PICK j \in 1..n : f[j] = c
    BY <2>2
  <2>4. j - 1 = k - 1
    BY <2>1, <2>2, <2>3
  <2>5. c = f[k]
    BY <2>3, <2>4
  <2>6. QED
    BY <2>5 DEF c, Place
<1>9. InOrder(S) = [k \in 1..n |-> f[k]]
  <2>1. InOrder(S) = [k \in 1..n |-> CHOOSE x \in S : Cardinality({y \in S : y < x}) = k - 1]
    BY <1>5 DEF InOrder
  <2>2. QED
    BY <1>8, <2>1, Zenon
<1>10. QED
  BY <1>5, <1>9

LEMMA MinFacts ==
  ASSUME NEW S, IsFiniteSet(S), S \subseteq Int, S # {}
  PROVE  Min(S) \in S /\ \A y \in S : Min(S) <= y
<1> DEFINE n == Cardinality(S)
           f == InOrder(S)
<1>1. /\ n \in Nat /\ \A k \in 1..n : f[k] \in S /\ f[k] \in Int
      /\ \A j, k \in 1..n : j < k => f[j] < f[k]
      /\ \A x \in S : \E k \in 1..n : f[k] = x
  BY InOrderFacts
<1> HIDE DEF n, f
<1>2. n >= 1
  <2>1. PICK k \in 1..n : TRUE
    BY <1>1
  <2>2. QED
    BY <1>1, <2>1
<1>3. \A y \in S : f[1] <= y
  <2> SUFFICES ASSUME NEW y \in S PROVE f[1] <= y
    OBVIOUS
  <2>1. PICK k \in 1..n : f[k] = y
    BY <1>1
  <2>2. k = 1 \/ 1 < k
    BY <1>1
  <2>3. QED
    BY <1>1, <1>2, <2>1, <2>2
<1>4. f[1] \in S
  BY <1>1, <1>2
<1>5. QED
  BY <1>3, <1>4 DEF Min

LEMMA MaxFacts ==
  ASSUME NEW S, IsFiniteSet(S), S \subseteq Int, S # {}
  PROVE  Max(S) \in S /\ \A y \in S : Max(S) >= y
<1> DEFINE n == Cardinality(S)
           f == InOrder(S)
<1>1. /\ n \in Nat /\ \A k \in 1..n : f[k] \in S /\ f[k] \in Int
      /\ \A j, k \in 1..n : j < k => f[j] < f[k]
      /\ \A x \in S : \E k \in 1..n : f[k] = x
  BY InOrderFacts
<1> HIDE DEF n, f
<1>2. n \in 1..n
  <2>1. PICK k \in 1..n : TRUE
    BY <1>1
  <2>2. QED
    BY <1>1, <2>1
<1>3. \A y \in S : f[n] >= y
  <2> SUFFICES ASSUME NEW y \in S PROVE f[n] >= y
    OBVIOUS
  <2>1. PICK k \in 1..n : f[k] = y
    BY <1>1
  <2>2. k = n \/ k < n
    BY <1>1
  <2>3. QED
    BY <1>1, <1>2, <2>1, <2>2
<1>4. f[n] \in S
  BY <1>1, <1>2
<1>5. QED
  BY <1>3, <1>4 DEF Max

\* A set of positions is finite.
LEMMA PositionsFinite ==
  ASSUME NEW n \in Nat, NEW S, S \subseteq 1..n
  PROVE  IsFiniteSet(S) /\ S \subseteq Int
<1>1. IsFiniteSet(1..n)
  BY FS_Interval
<1>2. IsFiniteSet(S)
  BY <1>1, FS_Subset
<1>3. QED
  BY <1>2

-----------------------------------------------------------------------------
(* Programs: nodes that bind nodes built before, and their IDs *)

Acyclic(nodes) == \A n \in 1..Len(nodes) : \A p \in ParentsOf(nodes[n]) : p \in 1..(n - 1)
Identified(nodes, ids) ==
  \A n \in 1..Len(nodes) :
    /\ ids[n] \in 1..n /\ ids[ids[n]] = ids[n]
    /\ SameDefinition(ids, nodes[ids[n]], nodes[n])
Program(nodes, ids) ==
  /\ IsSeq(nodes) /\ IsSeq(ids) /\ Len(ids) = Len(nodes)
  /\ Acyclic(nodes) /\ Identified(nodes, ids)

LEMMA SameDefinitionIsEquivalence ==
  ASSUME NEW ids, NEW x, NEW y, NEW z
  PROVE  /\ SameDefinition(ids, x, x)
         /\ SameDefinition(ids, x, y) => SameDefinition(ids, y, x)
         /\ SameDefinition(ids, x, y) /\ SameDefinition(ids, y, z) => SameDefinition(ids, x, z)
BY DEF SameDefinition, SameFunction

\* IDs of nodes built later do not matter.
LEMMA SameDefinitionStays ==
  ASSUME NEW ids, NEW more, NEW x, NEW y, NEW n,
         \A p \in 1..n : more[p] = ids[p],
         \A p \in ParentsOf(x) \union ParentsOf(y) : p \in 1..n
  PROVE  SameDefinition(more, x, y) <=> SameDefinition(ids, x, y)
<1>1. ASSUME NEW i \in Bound(x) PROVE more[ParentOf(x, i)] = ids[ParentOf(x, i)]
  BY DEF ParentsOf
<1>2. ASSUME NEW i \in Bound(y) PROVE more[ParentOf(y, i)] = ids[ParentOf(y, i)]
  BY DEF ParentsOf
<1>3. QED
  BY <1>1, <1>2 DEF SameDefinition

\* Building a node over a program makes a program.
LEMMA BuiltProgram ==
  ASSUME NEW nodes, NEW ids, NEW node, Program(nodes, ids),
         \A p \in ParentsOf(node) : p \in 1..Len(nodes)
  PROVE  Program(Append(nodes, node), Append(ids, IdOf(nodes, ids, node)))
<1> DEFINE n == Len(nodes)
           more == Append(nodes, node)
           new == IdOf(nodes, ids, node)
           names == Append(ids, new)
<1>1. IsSeq(nodes) /\ IsSeq(ids) /\ Len(ids) = n /\ n \in Nat
  BY SeqFacts DEF Program
<1>2. /\ IsSeq(more) /\ Len(more) = n + 1 /\ more[n + 1] = node
      /\ \A k \in 1..n : more[k] = nodes[k]
  BY <1>1, Appended
<1>3. /\ IsSeq(names) /\ Len(names) = n + 1 /\ names[n + 1] = new
      /\ \A k \in 1..n : names[k] = ids[k]
  BY <1>1, Appended
<1> HIDE DEF more, names
<1>4. Acyclic(more)
  <2> SUFFICES ASSUME NEW k \in 1..(n + 1), NEW p \in ParentsOf(more[k]) PROVE p \in 1..(k - 1)
    BY <1>2 DEF Acyclic
  <2>1. CASE k = n + 1
    BY <1>1, <1>2, <2>1
  <2>2. CASE k \in 1..n
    BY <1>2, <2>2 DEF Program, Acyclic
  <2>3. QED
    BY <1>1, <2>1, <2>2
<1>5. ASSUME NEW k \in 1..n
      PROVE  /\ names[k] \in 1..k /\ names[names[k]] = names[k]
             /\ SameDefinition(names, more[names[k]], more[k])
  <2>1. ids[k] \in 1..k /\ ids[k] \in 1..n /\ ids[ids[k]] = ids[k] /\ SameDefinition(ids, nodes[ids[k]], nodes[k])
    BY <1>1 DEF Program, Identified
  <2>2. names[k] = ids[k] /\ more[ids[k]] = nodes[ids[k]] /\ more[k] = nodes[k]
    BY <1>2, <1>3, <2>1
  <2>3. \A p \in ParentsOf(nodes[ids[k]]) \union ParentsOf(nodes[k]) : p \in 1..n
    BY <1>1, <2>1 DEF Program, Acyclic
  <2>4. SameDefinition(names, nodes[ids[k]], nodes[k])
    BY <1>3, <2>1, <2>3, SameDefinitionStays
  <2>5. names[ids[k]] = ids[k]
    BY <1>3, <2>1
  <2>6. QED
    BY <2>1, <2>2, <2>4, <2>5
<1>6. /\ names[n + 1] \in 1..(n + 1) /\ names[names[n + 1]] = names[n + 1]
      /\ SameDefinition(names, more[names[n + 1]], more[n + 1])
  <2> DEFINE same == {m \in 1..n : SameDefinition(ids, nodes[m], node)}
  <2>1. new = IF same = {} THEN n + 1 ELSE Min(same)
    BY DEF IdOf
  <2>2. CASE same = {}
    <3>1. names[n + 1] = n + 1
      BY <1>3, <2>1, <2>2
    <3>2. QED
      BY <1>1, <3>1, SameDefinitionIsEquivalence
  <2>3. CASE same # {}
    <3>1. IsFiniteSet(same) /\ same \subseteq Int
      BY <1>1, PositionsFinite
    <3> HIDE DEF same
    <3>2. new \in same /\ \A m \in same : new <= m
      BY <2>1, <2>3, <3>1, MinFacts
    <3>3. new \in 1..n /\ SameDefinition(ids, nodes[new], node)
      BY <3>2 DEF same
    <3> HIDE DEF new
    <3>4. ids[new] \in 1..new /\ ids[new] \in 1..n /\ SameDefinition(ids, nodes[ids[new]], nodes[new])
      BY <1>1, <3>3 DEF Program, Identified
    <3>5. SameDefinition(ids, nodes[ids[new]], node)
      BY <3>3, <3>4, SameDefinitionIsEquivalence
    <3>6. ids[new] \in same
      BY <3>4, <3>5 DEF same
    <3>7. ids[new] = new
      BY <3>2, <3>3, <3>4, <3>6
    <3>8. \A p \in ParentsOf(nodes[new]) \union ParentsOf(node) : p \in 1..n
      BY <1>1, <3>3 DEF Program, Acyclic
    <3>9. SameDefinition(names, nodes[new], node)
      BY <1>3, <3>3, <3>8, SameDefinitionStays
    <3>10. names[n + 1] = new /\ names[new] = new /\ more[new] = nodes[new]
      BY <1>2, <1>3, <3>3, <3>7
    <3>11. QED
      BY <1>1, <1>2, <3>3, <3>9, <3>10
  <2>4. QED
    BY <2>2, <2>3
<1>7. Identified(more, names)
  <2>1. \A k \in 1..(n + 1) : k \in 1..n \/ k = n + 1
    BY <1>1
  <2> HIDE DEF n
  <2>2. QED
    BY <1>2, <1>5, <1>6, <2>1 DEF Identified
<1>8. QED
  BY <1>2, <1>3, <1>4, <1>7 DEF Program, more, names

\* Nodes of one ID have one function but for its volatile parameters, so one
\* signature and one operation.
SameSignature(f, g) == f.op = g.op /\ f.in = g.in /\ f.out = g.out

LEMMA SharedFunctions ==
  ASSUME NEW nodes, NEW ids, Program(nodes, ids),
         NEW m \in 1..Len(nodes), NEW n \in 1..Len(nodes), ids[m] = ids[n]
  PROVE  SameDefinition(ids, nodes[m], nodes[n]) /\ SameSignature(nodes[m].fn, nodes[n].fn)
<1>1. SameDefinition(ids, nodes[ids[n]], nodes[m]) /\ SameDefinition(ids, nodes[ids[n]], nodes[n])
  BY DEF Program, Identified
<1>2. SameDefinition(ids, nodes[m], nodes[n])
  BY <1>1, SameDefinitionIsEquivalence
<1>3. QED
  BY <1>2 DEF SameDefinition, SameFunction, SameSignature

-----------------------------------------------------------------------------
(* Execute, node by node *)

\* f[k] is what there is when the first k nodes of the order were evaluated.
Executions(f, nodes, ids, sources, order, n) ==
  f = [k \in 0..n |-> IF k = 0 THEN [m \in 1..Len(nodes) |-> NotRun] ELSE [f[k - 1] EXCEPT ![ids[order[k]]] = Evaluate(nodes, ids, f[k - 1], sources, nodes[order[k]])]]

LEMMA ExecutionsExist ==
  ASSUME NEW nodes, NEW ids, NEW sources, NEW order, NEW n, n \in Nat
  PROVE  \E f : Executions(f, nodes, ids, sources, order, n)
<1> DEFINE first == [m \in 1..Len(nodes) |-> NotRun]
           Step(x, k) == [x EXCEPT ![ids[order[k]]] = Evaluate(nodes, ids, x, sources, nodes[order[k]])]
           Steps(f, m) == f = [k \in 0..m |-> IF k = 0 THEN first ELSE Step(f[k - 1], k)]
           S == {m \in Nat : \E f : Steps(f, m)}
<1>1. \A f : Executions(f, nodes, ids, sources, order, n) <=> Steps(f, n)
  BY DEF Executions
<1> HIDE DEF first, Step
<1>2. 0 \in S
  <2> DEFINE f == [k \in 0..0 |-> first]
  <2>1. f = [k \in 0..0 |-> IF k = 0 THEN first ELSE Step(f[k - 1], k)]
    OBVIOUS
  <2> HIDE DEF f
  <2>2. QED
    BY <2>1
<1>3. ASSUME NEW m \in Nat, m \in S PROVE m + 1 \in S
  <2>1. PICK f : f = [k \in 0..m |-> IF k = 0 THEN first ELSE Step(f[k - 1], k)]
    BY <1>3
  <2> DEFINE g == [k \in 0..(m + 1) |-> IF k = m + 1 THEN Step(f[m], m + 1) ELSE f[k]]
  <2>2. ASSUME NEW k \in 0..(m + 1)
        PROVE  g[k] = IF k = 0 THEN first ELSE Step(g[k - 1], k)
    <3>1. CASE k = m + 1
      BY <3>1
    <3>2. CASE k # m + 1
      <4>1. k \in 0..m /\ g[k] = f[k] /\ (k # 0 => k - 1 \in 0..m /\ g[k - 1] = f[k - 1])
        BY <3>2
      <4> HIDE DEF g
      <4>2. QED
        BY <2>1, <4>1
    <3>3. QED
      BY <3>1, <3>2
  <2>3. g = [k \in 0..(m + 1) |-> IF k = 0 THEN first ELSE Step(g[k - 1], k)]
    <3>1. g = [k \in 0..(m + 1) |-> g[k]]
      OBVIOUS
    <3> HIDE DEF g
    <3>2. QED
      BY <2>2, <3>1
  <2> HIDE DEF g
  <2>4. QED
    BY <2>3
<1>4. n \in S
  <2> HIDE DEF S
  <2>1. QED
    BY <1>2, <1>3, SetInduction
<1>5. QED
  BY <1>1, <1>4

ExecutionOf(nodes, ids, sources, order) ==
  CHOOSE f : Executions(f, nodes, ids, sources, order, Len(order))

LEMMA ExecutionSteps ==
  ASSUME NEW nodes, NEW ids, NEW sources,
         Len(OrderOf(nodes, ids, Listed(nodes), Rank(nodes))) \in Nat
  PROVE  LET order == OrderOf(nodes, ids, Listed(nodes), Rank(nodes))
             n == Len(order)
             f == ExecutionOf(nodes, ids, sources, order)
         IN  /\ f[0] = [m \in 1..Len(nodes) |-> NotRun]
             /\ \A k \in 1..n :
                  f[k] = [f[k - 1] EXCEPT ![ids[order[k]]] =
                            Evaluate(nodes, ids, f[k - 1], sources, nodes[order[k]])]
             /\ Execute(nodes, ids, sources) = f[n]
<1> DEFINE order == OrderOf(nodes, ids, Listed(nodes), Rank(nodes))
           n == Len(order)
           f == ExecutionOf(nodes, ids, sources, order)
           first == [m \in 1..Len(nodes) |-> NotRun]
           Step(x, k) == [x EXCEPT ![ids[order[k]]] = Evaluate(nodes, ids, x, sources, nodes[order[k]])]
<1>1. Executions(f, nodes, ids, sources, order, n)
  BY ExecutionsExist DEF ExecutionOf
<1>2. Execute(nodes, ids, sources) = f[n]
  BY DEF Execute, ExecutionOf, Executions
<1> HIDE DEF f, order, n
<1>3. f = [k \in 0..n |-> IF k = 0 THEN first ELSE Step(f[k - 1], k)] /\ n \in Nat
  BY <1>1 DEF Executions, order, n
<1> HIDE DEF first, Step
<1>4. \A k \in 0..n : f[k] = IF k = 0 THEN first ELSE Step(f[k - 1], k)
  BY <1>3, Zenon
<1>5. 0 \in 0..n /\ \A k \in 1..n : k \in 0..n /\ k # 0
  BY <1>3
<1>6. f[0] = first /\ \A k \in 1..n : f[k] = Step(f[k - 1], k)
  BY <1>4, <1>5
<1>7. QED
  BY <1>2, <1>6 DEF f, order, n, first, Step

-----------------------------------------------------------------------------
(* Where and the parents of a node *)

\* The rows at a set of positions: each of them once.
LEMMA WhereFacts ==
  ASSUME NEW rows, IsSeq(rows), NEW at, at \subseteq DOMAIN rows
  PROVE  /\ IsSeq(Where(rows, at)) /\ Len(Where(rows, at)) = Cardinality(at)
         /\ DOMAIN Where(rows, at) = 1..Cardinality(at) /\ Cardinality(at) \in Nat
         /\ \A k \in 1..Cardinality(at) :
              InOrder(at)[k] \in at /\ Where(rows, at)[k] = rows[InOrder(at)[k]]
         /\ \A a \in at : \E k \in 1..Cardinality(at) : Where(rows, at)[k] = rows[a]
         /\ Range(Where(rows, at)) = {rows[a] : a \in at}
<1> DEFINE n == Cardinality(at)
           order == InOrder(at)
           w == Where(rows, at)
<1>1. IsFiniteSet(at) /\ at \subseteq Int
  BY SeqFacts, PositionsFinite
<1>2. /\ n \in Nat /\ DOMAIN order = 1..n /\ (\A k \in 1..n : order[k] \in at)
      /\ (\A a \in at : \E k \in 1..n : order[k] = a)
  BY <1>1, InOrderFacts
<1>3. w = [k \in DOMAIN order |-> rows[order[k]]]
  BY DEF Where
<1> HIDE DEF n, order, w
<1>4. w = [k \in 1..n |-> w[k]] /\ (\A k \in 1..n : w[k] = rows[order[k]]) /\ DOMAIN w = 1..n
  BY <1>2, <1>3
<1>5. IsSeq(w) /\ Len(w) = n
  BY <1>2, <1>4, SeqByDomain
<1>6. \A a \in at : \E k \in 1..n : w[k] = rows[a]
  BY <1>2, <1>4
<1>7. Range(w) = {rows[a] : a \in at}
  BY <1>2, <1>4, <1>6 DEF Range
<1>8. QED
  BY <1>2, <1>4, <1>5, <1>6, <1>7 DEF n, order, w

\* Each input of a node is among the names.
NamesInputs(nodes) == \A n \in 1..Len(nodes) : Bound(nodes[n]) \subseteq Range(Names)

\* The names of a node's inputs, in order.
LOCAL InputsOf(node) == Where(Names, {k \in DOMAIN Names : Names[k] \in Bound(node)})

LEMMA CanonicalParentsFacts ==
  ASSUME NEW node
  PROVE  LET parents == CanonicalParents(node, Names)
             inputs == InputsOf(node)
         IN  /\ Len(parents) \in Nat /\ DOMAIN parents = 1..Len(parents)
             /\ Len(parents) = Len(inputs)
             /\ \A k \in 1..Len(parents) :
                  inputs[k] \in Bound(node) /\ parents[k] = ParentOf(node, inputs[k])
             /\ \A k \in 1..Len(parents) : parents[k] \in ParentsOf(node)
             /\ Bound(node) \subseteq Range(Names) =>
                  \A p \in ParentsOf(node) : \E k \in 1..Len(parents) : parents[k] = p
<1> DEFINE at == {k \in DOMAIN Names : Names[k] \in Bound(node)}
           n == Cardinality(at)
           inputs == InputsOf(node)
           parents == CanonicalParents(node, Names)
<1>1. IsSeq(Names) /\ at \subseteq DOMAIN Names
  BY NamesAssumption DEF IsSeq
<1>2. inputs = Where(Names, at) /\ parents = [k \in DOMAIN inputs |-> ParentOf(node, inputs[k])]
  BY DEF InputsOf, CanonicalParents
<1>3. /\ n \in Nat /\ Len(inputs) = n /\ DOMAIN inputs = 1..n
      /\ \A k \in 1..n : InOrder(at)[k] \in at /\ inputs[k] = Names[InOrder(at)[k]]
      /\ \A a \in at : \E k \in 1..n : inputs[k] = Names[a]
  <2> HIDE DEF at, inputs, parents
  <2>1. QED
    BY <1>1, <1>2, WhereFacts
<1>4. \A k \in 1..n : inputs[k] \in Bound(node)
  BY <1>3
<1>5. parents = [k \in 1..n |-> parents[k]] /\ \A k \in 1..n : parents[k] = ParentOf(node, inputs[k])
  <2> HIDE DEF inputs, parents, n
  <2>1. QED
    BY <1>2, <1>3
<1>6. Len(parents) = n /\ DOMAIN parents = 1..n
  <2> HIDE DEF inputs, parents, n
  <2>1. QED
    BY <1>3, <1>5, SeqByDomain
<1>7. \A k \in 1..n : parents[k] \in ParentsOf(node)
  <2> HIDE DEF inputs, parents, n
  <2>1. QED
    BY <1>4, <1>5 DEF ParentsOf
<1>8. ASSUME Bound(node) \subseteq Range(Names), NEW p \in ParentsOf(node)
      PROVE  \E k \in 1..n : parents[k] = p
  <2>1. PICK i \in Bound(node) : p = ParentOf(node, i)
    BY DEF ParentsOf
  <2>2. PICK a \in DOMAIN Names : Names[a] = i
    BY <1>8 DEF Range
  <2>3. a \in at
    BY <2>2
  <2> HIDE DEF inputs, parents, n, at
  <2>4. PICK k \in 1..n : inputs[k] = Names[a]
    BY <1>3, <2>3
  <2>5. QED
    BY <1>5, <2>1, <2>2, <2>4
<1> HIDE DEF inputs, parents, n
<1>9. QED
  BY <1>3, <1>4, <1>5, <1>6, <1>7, <1>8 DEF inputs, parents

-----------------------------------------------------------------------------
(* InTurn, node by node *)

\* f[k] is the order when the first k nodes are done.
Turns(f, visit, order, nodes, n) ==
  f = [k \in 0..n |-> IF k = 0 THEN order ELSE visit[nodes[k]][f[k - 1]]]

LEMMA TurnsExist ==
  ASSUME NEW visit, NEW order, NEW nodes, NEW n \in Nat
  PROVE  \E f : Turns(f, visit, order, nodes, n)
<1> DEFINE first == order
           Step(x, k) == visit[nodes[k]][x]
           Steps(f, m) == f = [k \in 0..m |-> IF k = 0 THEN first ELSE Step(f[k - 1], k)]
           S == {m \in Nat : \E f : Steps(f, m)}
<1>1. \A f : Turns(f, visit, order, nodes, n) <=> Steps(f, n)
  BY DEF Turns
<1> HIDE DEF first, Step
<1>2. 0 \in S
  <2> DEFINE f == [k \in 0..0 |-> first]
  <2>1. f = [k \in 0..0 |-> IF k = 0 THEN first ELSE Step(f[k - 1], k)]
    OBVIOUS
  <2> HIDE DEF f
  <2>2. QED
    BY <2>1
<1>3. ASSUME NEW m \in Nat, m \in S PROVE m + 1 \in S
  <2>1. PICK f : f = [k \in 0..m |-> IF k = 0 THEN first ELSE Step(f[k - 1], k)]
    BY <1>3
  <2> DEFINE g == [k \in 0..(m + 1) |-> IF k = m + 1 THEN Step(f[m], m + 1) ELSE f[k]]
  <2>2. ASSUME NEW k \in 0..(m + 1)
        PROVE  g[k] = IF k = 0 THEN first ELSE Step(g[k - 1], k)
    <3>1. CASE k = m + 1
      BY <3>1
    <3>2. CASE k # m + 1
      <4>1. k \in 0..m /\ g[k] = f[k] /\ (k # 0 => k - 1 \in 0..m /\ g[k - 1] = f[k - 1])
        BY <3>2
      <4> HIDE DEF g
      <4>2. QED
        BY <2>1, <4>1
    <3>3. QED
      BY <3>1, <3>2
  <2>3. g = [k \in 0..(m + 1) |-> IF k = 0 THEN first ELSE Step(g[k - 1], k)]
    <3>1. g = [k \in 0..(m + 1) |-> g[k]]
      OBVIOUS
    <3> HIDE DEF g
    <3>2. QED
      BY <2>2, <3>1
  <2> HIDE DEF g
  <2>4. QED
    BY <2>3
<1>4. n \in S
  <2> HIDE DEF S
  <2>1. QED
    BY <1>2, <1>3, SetInduction
<1>5. QED
  BY <1>1, <1>4

Run(f, visit, order, nodes) ==
  /\ f[0] = order /\ \A k \in 1..Len(nodes) : f[k] = visit[nodes[k]][f[k - 1]]
  /\ InTurn(visit, order, nodes) = f[Len(nodes)]

LEMMA InTurnSteps ==
  ASSUME NEW visit, NEW order, NEW nodes, Len(nodes) \in Nat
  PROVE  \E f : Run(f, visit, order, nodes)
<1> DEFINE n == Len(nodes)
           f == CHOOSE g : Turns(g, visit, order, nodes, n)
<1>1. Turns(f, visit, order, nodes, n)
  BY TurnsExist
<1>2. InTurn(visit, order, nodes) = f[n]
  BY DEF InTurn, Turns
<1> HIDE DEF f, n
<1>3. f[0] = order /\ \A k \in 1..n : f[k] = visit[nodes[k]][f[k - 1]]
  <2> DEFINE Step(x, k) == visit[nodes[k]][x]
  <2>1. f = [k \in 0..n |-> IF k = 0 THEN order ELSE Step(f[k - 1], k)] /\ n \in Nat
    BY <1>1 DEF Turns, n
  <2> HIDE DEF Step
  <2>2. \A k \in 0..n : f[k] = IF k = 0 THEN order ELSE Step(f[k - 1], k)
    BY <2>1, Zenon
  <2>3. 0 \in 0..n /\ \A k \in 1..n : k \in 0..n /\ k # 0
    BY <2>1
  <2>4. f[0] = order /\ \A k \in 1..n : f[k] = Step(f[k - 1], k)
    BY <2>2, <2>3
  <2>5. QED
    BY <2>4 DEF Step
<1>4. QED
  BY <1>2, <1>3 DEF n, Run

\* What each visit keeps is so in the end: S[k] is what may be after k nodes.
LEMMA InTurnInvariant ==
  ASSUME NEW visit, NEW order, NEW nodes, Len(nodes) \in Nat, NEW S, order \in S[0],
         \A k \in 1..Len(nodes) : \A o \in S[k - 1] : visit[nodes[k]][o] \in S[k]
  PROVE  InTurn(visit, order, nodes) \in S[Len(nodes)]
<1> DEFINE n == Len(nodes)
<1>0. PICK f : Run(f, visit, order, nodes)
  BY InTurnSteps
<1>1. /\ f[0] = order /\ \A k \in 1..n : f[k] = visit[nodes[k]][f[k - 1]]
      /\ InTurn(visit, order, nodes) = f[n]
  BY <1>0 DEF Run
<1> DEFINE T == {k \in 0..n : f[k] \in S[k]}
<1>2. 0 \in T
  BY <1>1
<1>3. ASSUME NEW k \in 1..n, k - 1 \in T PROVE k \in T
  <2>1. f[k - 1] \in S[k - 1] /\ f[k] = visit[nodes[k]][f[k - 1]]
    BY <1>1, <1>3
  <2>2. f[k] \in S[k]
    BY <2>1
  <2>3. QED
    BY <2>2
<1>4. 0..n \subseteq T
  <2> HIDE DEF T
  <2>1. QED
    BY <1>2, <1>3, IntervalInduction
<1>5. n \in 0..n
  OBVIOUS
<1>6. QED
  BY <1>1, <1>4, <1>5

\* Only the visits of the nodes matter.
LEMMA InTurnOf ==
  ASSUME NEW visit, NEW other, NEW order, NEW nodes, Len(nodes) \in Nat,
         \A k \in 1..Len(nodes) : visit[nodes[k]] = other[nodes[k]]
  PROVE  InTurn(visit, order, nodes) = InTurn(other, order, nodes)
<1> DEFINE n == Len(nodes)
           Is(f) == f = [k \in 0..n |-> IF k = 0 THEN order ELSE visit[nodes[k]][f[k - 1]]]
           Was(f) == f = [k \in 0..n |-> IF k = 0 THEN order ELSE other[nodes[k]][f[k - 1]]]
<1>1. ASSUME NEW f, NEW k \in 0..n
      PROVE  (IF k = 0 THEN order ELSE visit[nodes[k]][f[k - 1]])
               = (IF k = 0 THEN order ELSE other[nodes[k]][f[k - 1]])
  BY k # 0 => k \in 1..n
<1>2. ASSUME NEW f
      PROVE  [k \in 0..n |-> IF k = 0 THEN order ELSE visit[nodes[k]][f[k - 1]]]
               = [k \in 0..n |-> IF k = 0 THEN order ELSE other[nodes[k]][f[k - 1]]]
  BY <1>1
<1>3. \A f : Is(f) <=> Was(f)
  BY <1>2
<1>4. InTurn(visit, order, nodes) = (CHOOSE f : Is(f))[n]
  BY DEF InTurn
<1>5. InTurn(other, order, nodes) = (CHOOSE f : Was(f))[n]
  BY DEF InTurn
<1> HIDE DEF Is, Was
<1>6. (CHOOSE f : Is(f)) = (CHOOSE f : Was(f))
  BY <1>3
<1>7. QED
  BY <1>4, <1>5, <1>6

-----------------------------------------------------------------------------
(* Traversal *)

\* What visiting a node makes of an order, given how nodes built before are visited.
LOCAL VisitOf(nodes, ids, visit, n) ==
  [order \in Seq(1..Len(nodes)) |->
     IF \E m \in Range(order) : ids[m] = ids[n] THEN order
     ELSE Append(InTurn(visit, order, CanonicalParents(nodes[n], Names)), n)]

LEMMA VisitOfSame ==
  ASSUME NEW nodes, NEW ids, NEW visit, NEW other, NEW n,
         \A p \in ParentsOf(nodes[n]) : visit[p] = other[p]
  PROVE  VisitOf(nodes, ids, visit, n) = VisitOf(nodes, ids, other, n)
<1> DEFINE parents == CanonicalParents(nodes[n], Names)
<1>1. Len(parents) \in Nat /\ \A k \in 1..Len(parents) : parents[k] \in ParentsOf(nodes[n])
  BY CanonicalParentsFacts
<1>2. \A k \in 1..Len(parents) : visit[parents[k]] = other[parents[k]]
  BY <1>1
<1> HIDE DEF parents
<1>3. \A order : InTurn(visit, order, parents) = InTurn(other, order, parents)
  BY <1>1, <1>2, InTurnOf
<1>4. QED
  BY <1>3 DEF VisitOf, parents

LEMMA TraversalExists ==
  ASSUME NEW nodes, NEW ids, Len(nodes) \in Nat, Acyclic(nodes)
  PROVE  \E visit : visit = [n \in 1..Len(nodes) |-> VisitOf(nodes, ids, visit, n)]
<1> DEFINE N == Len(nodes)
           Visits(v, m) == v = [n \in 1..m |-> VisitOf(nodes, ids, v, n)]
           S == {m \in 0..N : \E v : Visits(v, m)}
<1>1. 0 \in S
  <2> DEFINE v == [n \in 1..0 |-> N]
  <2>1. v = [n \in 1..0 |-> VisitOf(nodes, ids, v, n)]
    OBVIOUS
  <2>2. 0 \in 0..N
    OBVIOUS
  <2>3. QED
    BY <2>1, <2>2
<1>2. ASSUME NEW m \in 1..N, m - 1 \in S PROVE m \in S
  <2>1. PICK v : Visits(v, m - 1)
    BY <1>2
  <2> DEFINE w == [n \in 1..m |-> IF n = m THEN VisitOf(nodes, ids, v, m) ELSE v[n]]
  <2>2. \A n \in 1..(m - 1) : v[n] = VisitOf(nodes, ids, v, n)
    <3> HIDE DEF S
    <3>1. v = [n \in 1..(m - 1) |-> VisitOf(nodes, ids, v, n)]
      BY <2>1
    <3>2. QED
      BY <3>1, Zenon
  <2>3. \A n \in 1..(m - 1) : w[n] = v[n]
    OBVIOUS
  <2>4. w[m] = VisitOf(nodes, ids, v, m) /\ w = [n \in 1..m |-> w[n]]
    OBVIOUS
  <2> HIDE DEF w
  <2>5. ASSUME NEW n \in 1..m PROVE VisitOf(nodes, ids, w, n) = VisitOf(nodes, ids, v, n)
    <3>1. \A p \in ParentsOf(nodes[n]) : p \in 1..(m - 1)
      <4>1. n \in 1..N
        OBVIOUS
      <4>2. \A p \in ParentsOf(nodes[n]) : p \in 1..(n - 1)
        BY <4>1 DEF Acyclic
      <4>3. QED
        BY <4>2
    <3>2. \A p \in ParentsOf(nodes[n]) : w[p] = v[p]
      BY <2>3, <3>1
    <3>3. QED
      BY <3>2, VisitOfSame
  <2>6. ASSUME NEW n \in 1..m PROVE w[n] = VisitOf(nodes, ids, w, n)
    <3>1. CASE n = m
      BY <2>4, <2>5, <3>1
    <3>2. CASE n \in 1..(m - 1)
      BY <2>2, <2>3, <2>5, <3>2
    <3>3. QED
      BY <3>1, <3>2
  <2>7. w = [n \in 1..m |-> VisitOf(nodes, ids, w, n)]
    BY <2>4, <2>6
  <2>8. QED
    BY <2>7
<1>3. 0..N \subseteq S
  <2> HIDE DEF S
  <2>1. QED
    BY <1>1, <1>2, IntervalInduction
<1>4. N \in S
  BY <1>3
<1>5. QED
  BY <1>4

\* Traversal is what its definition says it is.
LEMMA TraversalVisits ==
  ASSUME NEW nodes, NEW ids, Len(nodes) \in Nat, Acyclic(nodes),
         NEW n \in 1..Len(nodes), NEW order \in Seq(1..Len(nodes))
  PROVE  Traversal(nodes, ids, Names)[n][order]
           = IF \E m \in Range(order) : ids[m] = ids[n] THEN order
             ELSE Append(InTurn(Traversal(nodes, ids, Names), order,
                                CanonicalParents(nodes[n], Names)), n)
<1> DEFINE visit == Traversal(nodes, ids, Names)
<1>1. visit = CHOOSE v : v = [m \in 1..Len(nodes) |-> VisitOf(nodes, ids, v, m)]
  BY DEF Traversal, VisitOf
<1> HIDE DEF visit
<1>2. visit = [m \in 1..Len(nodes) |-> VisitOf(nodes, ids, visit, m)]
  BY <1>1, TraversalExists
<1>3. visit[n] = VisitOf(nodes, ids, visit, n)
  BY <1>2, Zenon
<1>4. QED
  BY <1>3 DEF VisitOf, visit

\* A parent comes before the node in IDs as well.
LEMMA ParentIDs ==
  ASSUME NEW nodes, NEW ids, Program(nodes, ids),
         NEW n \in 1..Len(nodes), NEW p \in ParentsOf(nodes[n])
  PROVE  p \in 1..(n - 1) /\ p \in 1..Len(nodes) /\ ids[p] \in 1..(ids[n] - 1)
<1>1. Len(nodes) \in Nat
  BY SeqFacts DEF Program
<1>2. p \in 1..(n - 1) /\ p \in 1..Len(nodes)
  BY <1>1 DEF Program, Acyclic
<1>3. ids[n] \in 1..n /\ SameDefinition(ids, nodes[ids[n]], nodes[n])
  BY DEF Program, Identified
<1>4. PICK i \in Bound(nodes[n]) : p = ParentOf(nodes[n], i)
  BY DEF ParentsOf
<1> DEFINE q == ParentOf(nodes[ids[n]], i)
<1>5. i \in Bound(nodes[ids[n]]) /\ ids[q] = ids[p]
  BY <1>3, <1>4 DEF SameDefinition
<1>6. q \in ParentsOf(nodes[ids[n]]) /\ ids[n] \in 1..Len(nodes)
  BY <1>1, <1>3, <1>5 DEF ParentsOf
<1>7. q \in 1..(ids[n] - 1)
  BY <1>6 DEF Program, Acyclic
<1> HIDE DEF q
<1>8. q \in 1..Len(nodes)
  BY <1>1, <1>6, <1>7
<1>9. ids[q] \in 1..q
  BY <1>8 DEF Program, Identified
<1>10. QED
  BY <1>1, <1>2, <1>5, <1>6, <1>7, <1>9

\* Sound orders: sequences of nodes with an ID once, each after parents of its
\* parents' IDs.
Ordered(nodes, ids, order) ==
  /\ order \in Seq(1..Len(nodes))
  /\ \A j, k \in 1..Len(order) : ids[order[j]] = ids[order[k]] => j = k
  /\ \A k \in 1..Len(order) : \A p \in ParentsOf(nodes[order[k]]) :
       \E j \in 1..(k - 1) : ids[order[j]] = ids[p]

\* A later order, whose new nodes have IDs below the bound.
Extends(ids, order, later, bound) ==
  /\ Len(order) <= Len(later)
  /\ \A k \in 1..Len(order) : later[k] = order[k]
  /\ \A k \in (Len(order) + 1)..Len(later) : ids[later[k]] < bound

Holds(ids, order, x) == \E k \in 1..Len(order) : ids[order[k]] = x

LEMMA ExtendsFacts ==
  ASSUME NEW nodes, NEW ids, NEW bound \in Int, NEW o, NEW q, NEW r,
         o \in Seq(1..Len(nodes)), q \in Seq(1..Len(nodes)), r \in Seq(1..Len(nodes)),
         \A n \in 1..Len(nodes) : ids[n] \in Int
  PROVE  /\ Extends(ids, o, o, bound)
         /\ Extends(ids, o, q, bound) /\ Extends(ids, q, r, bound) => Extends(ids, o, r, bound)
         /\ \A least \in Int : least <= bound /\ Extends(ids, o, q, least) => Extends(ids, o, q, bound)
         /\ \A x : Extends(ids, o, q, bound) /\ Holds(ids, o, x) => Holds(ids, q, x)
<1>1. /\ Len(o) \in Nat /\ \A k \in 1..Len(o) : o[k] \in 1..Len(nodes)
      /\ Len(q) \in Nat /\ \A k \in 1..Len(q) : q[k] \in 1..Len(nodes)
      /\ Len(r) \in Nat /\ \A k \in 1..Len(r) : r[k] \in 1..Len(nodes)
  OBVIOUS
<1> DEFINE N == Len(nodes)
           a == Len(o)
           b == Len(q)
           c == Len(r)
<1>2. /\ a \in Nat /\ (\A k \in 1..a : ids[o[k]] \in Int)
      /\ b \in Nat /\ (\A k \in 1..b : ids[q[k]] \in Int)
      /\ c \in Nat /\ (\A k \in 1..c : ids[r[k]] \in Int)
  BY <1>1
<1>3. Extends(ids, o, o, bound)
  BY <1>2 DEF Extends
<1>4. ASSUME Extends(ids, o, q, bound), Extends(ids, q, r, bound) PROVE Extends(ids, o, r, bound)
  <2>1. /\ a <= b /\ (\A k \in 1..a : q[k] = o[k])
        /\ \A k \in (a + 1)..b : ids[q[k]] < bound
        /\ b <= c /\ (\A k \in 1..b : r[k] = q[k])
        /\ \A k \in (b + 1)..c : ids[r[k]] < bound
    BY <1>4 DEF Extends
  <2> HIDE DEF a, b, c
  <2>2. a <= c /\ \A k \in 1..a : r[k] = o[k]
    BY <1>2, <2>1
  <2>3. ASSUME NEW k \in (a + 1)..c PROVE ids[r[k]] < bound
    <3>1. CASE k <= b
      <4>1. k \in 1..b /\ k \in (a + 1)..b
        BY <1>2, <3>1
      <4>2. QED
        BY <2>1, <4>1
    <3>2. CASE ~(k <= b)
      <4>1. k \in (b + 1)..c
        BY <1>2, <3>2
      <4>2. QED
        BY <2>1, <4>1
    <3>3. QED
      BY <3>1, <3>2
  <2>4. QED
    BY <2>2, <2>3 DEF Extends, a, b, c
<1>5. ASSUME NEW least \in Int, least <= bound, Extends(ids, o, q, least)
      PROVE  Extends(ids, o, q, bound)
  <2>1. ASSUME NEW k \in (a + 1)..b PROVE ids[q[k]] < bound
    <3>1. k \in 1..b /\ ids[q[k]] < least
      BY <1>2, <1>5 DEF Extends
    <3>2. ids[q[k]] \in Int
      BY <1>2, <3>1
    <3> HIDE DEF b
    <3>3. QED
      BY <1>5, <3>1, <3>2
  <2>2. QED
    BY <1>5, <2>1 DEF Extends
<1>6. ASSUME NEW x, Extends(ids, o, q, bound), Holds(ids, o, x) PROVE Holds(ids, q, x)
  <2>1. PICK k \in 1..a : ids[o[k]] = x
    BY <1>6 DEF Holds
  <2>2. k \in 1..b /\ q[k] = o[k]
    BY <1>2, <1>6 DEF Extends
  <2>3. QED
    BY <2>1, <2>2 DEF Holds
<1>7. QED
  BY <1>3, <1>4, <1>5, <1>6

\* What a node and its IDs are.
LEMMA ProgramFacts ==
  ASSUME NEW nodes, NEW ids, Program(nodes, ids)
  PROVE  /\ Len(nodes) \in Nat /\ Acyclic(nodes)
         /\ \A n \in 1..Len(nodes) :
              /\ ids[n] \in 1..n /\ ids[n] \in 1..Len(nodes) /\ ids[n] \in Int
              /\ ids[ids[n]] = ids[n]
<1>1. Len(nodes) \in Nat /\ Acyclic(nodes)
  BY SeqFacts DEF Program
<1>2. ASSUME NEW n \in 1..Len(nodes)
      PROVE  ids[n] \in 1..n /\ ids[n] \in 1..Len(nodes) /\ ids[n] \in Int /\ ids[ids[n]] = ids[n]
  <2>1. ids[n] \in 1..n /\ ids[ids[n]] = ids[n]
    BY DEF Program, Identified
  <2>2. QED
    BY <1>1, <2>1
<1>3. QED
  BY <1>1, <1>2

\* A node after a sound order that holds its parents.
LEMMA OrderedAppend ==
  ASSUME NEW nodes, NEW ids, Program(nodes, ids), NEW order, Ordered(nodes, ids, order),
         NEW n \in 1..Len(nodes), ~Holds(ids, order, ids[n]),
         \A p \in ParentsOf(nodes[n]) : Holds(ids, order, ids[p])
  PROVE  /\ Ordered(nodes, ids, Append(order, n))
         /\ Extends(ids, order, Append(order, n), ids[n] + 1)
         /\ Holds(ids, Append(order, n), ids[n])
<1> DEFINE N == Len(nodes)
           m == Len(order)
           later == Append(order, n)
<1>1. order \in Seq(1..N) /\ N \in Nat /\ ids[n] \in Int
  BY ProgramFacts DEF Ordered
<1>2. /\ m \in Nat /\ later \in Seq(1..N) /\ Len(later) = m + 1 /\ later[m + 1] = n
      /\ \A k \in 1..m : later[k] = order[k]
  BY <1>1
<1> HIDE DEF later, m, N
<1>3. \A k \in 1..(m + 1) : k \in 1..m \/ k = m + 1
  BY <1>2
<1>4. ASSUME NEW j \in 1..(m + 1), NEW k \in 1..(m + 1), ids[later[j]] = ids[later[k]]
      PROVE  j = k
  <2>1. \A i \in 1..m : ids[order[i]] # ids[n]
    BY DEF Holds, m
  <2>2. CASE j = m + 1 \/ k = m + 1
    BY <1>2, <1>3, <1>4, <2>1, <2>2
  <2>3. CASE j \in 1..m /\ k \in 1..m
    BY <1>2, <1>4, <2>3 DEF Ordered, m
  <2>4. QED
    BY <1>3, <2>2, <2>3
<1>5. ASSUME NEW k \in 1..(m + 1), NEW p \in ParentsOf(nodes[later[k]])
      PROVE  \E j \in 1..(k - 1) : ids[later[j]] = ids[p]
  <2>1. CASE k = m + 1
    <3>1. Holds(ids, order, ids[p])
      BY <1>2, <2>1
    <3>2. PICK j \in 1..m : ids[order[j]] = ids[p]
      BY <3>1 DEF Holds, m
    <3>3. j \in 1..(k - 1) /\ later[j] = order[j]
      BY <1>2, <2>1
    <3>4. QED
      BY <3>2, <3>3
  <2>2. CASE k \in 1..m
    <3>1. later[k] = order[k]
      BY <1>2, <2>2
    <3>2. PICK j \in 1..(k - 1) : ids[order[j]] = ids[p]
      BY <2>2, <3>1 DEF Ordered, m
    <3>3. j \in 1..m
      BY <1>2, <2>2
    <3>4. later[j] = order[j]
      BY <1>2, <3>3
    <3>5. QED
      BY <3>2, <3>4
  <2>3. QED
    BY <1>3, <2>1, <2>2
<1>6. Ordered(nodes, ids, later)
  BY <1>2, <1>4, <1>5 DEF Ordered, N
<1>7. Extends(ids, order, later, ids[n] + 1)
  <2>1. ASSUME NEW k \in (m + 1)..(m + 1) PROVE ids[later[k]] < ids[n] + 1
    <3>1. k = m + 1
      BY <1>2
    <3>2. QED
      BY <1>1, <1>2, <3>1
  <2>2. QED
    BY <1>2, <2>1 DEF Extends, m
<1>8. m + 1 \in 1..(m + 1)
  BY <1>2
<1>9. Holds(ids, later, ids[n])
  BY <1>2, <1>8 DEF Holds
<1>10. QED
  BY <1>6, <1>7, <1>9 DEF later

\* A visit keeps an order sound, adds the node's ID and IDs below it.
LEMMA VisitSound ==
  ASSUME NEW nodes, NEW ids, Program(nodes, ids), NamesInputs(nodes),
         NEW n \in 1..Len(nodes), NEW order, Ordered(nodes, ids, order)
  PROVE  LET later == Traversal(nodes, ids, Names)[n][order]
         IN  /\ Ordered(nodes, ids, later) /\ Holds(ids, later, ids[n])
             /\ Extends(ids, order, later, ids[n] + 1)
<1> DEFINE N == Len(nodes)
           visit == Traversal(nodes, ids, Names)
           Sound(m) == \A o : Ordered(nodes, ids, o) =>
                         /\ Ordered(nodes, ids, visit[m][o]) /\ Holds(ids, visit[m][o], ids[m])
                         /\ Extends(ids, o, visit[m][o], ids[m] + 1)
           S == {m \in 0..N : \A k \in 1..m : Sound(k)}
<1>1. /\ N \in Nat /\ Acyclic(nodes)
      /\ \A m \in 1..N : ids[m] \in Int
  BY ProgramFacts
<1>2. 0 \in S
  BY <1>1
<1>3. ASSUME NEW m \in 1..N, m - 1 \in S PROVE m \in S
  <2>1. ASSUME NEW o, Ordered(nodes, ids, o)
        PROVE  /\ Ordered(nodes, ids, visit[m][o]) /\ Holds(ids, visit[m][o], ids[m])
               /\ Extends(ids, o, visit[m][o], ids[m] + 1)
    <3> DEFINE parents == CanonicalParents(nodes[m], Names)
               after == InTurn(visit, o, parents)
    <3>1. o \in Seq(1..N)
      BY <2>1 DEF Ordered
    <3>2. visit[m][o] = IF \E j \in Range(o) : ids[j] = ids[m] THEN o ELSE Append(after, m)
      BY <1>1, <3>1, TraversalVisits
    <3>3. (\E j \in Range(o) : ids[j] = ids[m]) <=> Holds(ids, o, ids[m])
      <4>1. DOMAIN o = 1..Len(o)
        BY <3>1
      <4>2. QED
        BY <4>1, Zenon DEF Range, Holds
    <3>4. CASE Holds(ids, o, ids[m])
      <4>1. visit[m][o] = o
        BY <3>2, <3>3, <3>4
      <4>2. Extends(ids, o, o, ids[m] + 1)
        BY <1>1, <3>1, ExtendsFacts
      <4>3. QED
        BY <2>1, <3>4, <4>1, <4>2
    <3>5. CASE ~Holds(ids, o, ids[m])
      <4>1. /\ Len(parents) \in Nat
            /\ \A k \in 1..Len(parents) : parents[k] \in ParentsOf(nodes[m])
            /\ \A p \in ParentsOf(nodes[m]) : \E k \in 1..Len(parents) : parents[k] = p
        BY CanonicalParentsFacts DEF NamesInputs
      <4>2. \A p \in ParentsOf(nodes[m]) :
              p \in 1..(m - 1) /\ p \in 1..N /\ ids[p] \in Int /\ ids[p] + 1 <= ids[m]
        BY <1>1, ParentIDs
      <4> DEFINE T == [k \in 0..Len(parents) |->
                         {r \in Seq(1..N) :
                            /\ Ordered(nodes, ids, r) /\ Extends(ids, o, r, ids[m])
                            /\ \A j \in 1..k : Holds(ids, r, ids[parents[j]])}]
      <4> HIDE DEF parents, visit
      <4>3. o \in T[0]
        BY <1>1, <2>1, <3>1, <4>1, ExtendsFacts
      <4>4. ASSUME NEW k \in 1..Len(parents), NEW r \in T[k - 1] PROVE visit[parents[k]][r] \in T[k]
        <5> DEFINE p == parents[k]
                   q == visit[p][r]
        <5>1. /\ r \in Seq(1..N) /\ Ordered(nodes, ids, r) /\ Extends(ids, o, r, ids[m])
              /\ \A j \in 1..(k - 1) : Holds(ids, r, ids[parents[j]])
          BY <4>1
        <5>2. p \in 1..(m - 1) /\ ids[p] \in Int /\ ids[p] + 1 <= ids[m] /\ ids[m] \in Int
          BY <1>1, <4>1, <4>2
        <5>3. Sound(p)
          BY <1>3, <5>2
        <5>4. Ordered(nodes, ids, q) /\ Holds(ids, q, ids[p]) /\ Extends(ids, r, q, ids[p] + 1)
          BY <5>1, <5>3
        <5> HIDE DEF q
        <5>5. q \in Seq(1..N)
          BY <5>4 DEF Ordered
        <5> HIDE DEF p
        <5>6. Extends(ids, r, q, ids[m]) /\ Extends(ids, o, q, ids[m])
          <6>1. ids[p] + 1 \in Int
            BY <5>2
          <6>2. Extends(ids, r, q, ids[m])
            BY <1>1, <5>1, <5>2, <5>4, <5>5, <6>1, ExtendsFacts
          <6>3. QED
            BY <1>1, <3>1, <5>1, <5>2, <5>5, <6>2, ExtendsFacts
        <5>7. ASSUME NEW j \in 1..k PROVE Holds(ids, q, ids[parents[j]])
          <6>1. CASE j = k
            BY <5>4, <6>1 DEF p
          <6>2. CASE j \in 1..(k - 1)
            BY <1>1, <5>1, <5>2, <5>5, <5>6, <6>2, ExtendsFacts
          <6>3. QED
            BY <4>1, <6>1, <6>2
        <5>8. q \in T[k]
          BY <4>1, <5>4, <5>5, <5>6, <5>7
        <5>9. QED
          BY <5>8 DEF q, p
      <4> HIDE DEF T, Sound, S
      <4>5. after \in T[Len(parents)]
        BY <4>1, <4>3, <4>4, InTurnInvariant
      <4>6. /\ after \in Seq(1..N) /\ Ordered(nodes, ids, after) /\ Extends(ids, o, after, ids[m])
            /\ \A j \in 1..Len(parents) : Holds(ids, after, ids[parents[j]])
        BY <4>1, <4>5 DEF T
      <4> HIDE DEF after
      <4>7. ~Holds(ids, after, ids[m])
        <5> SUFFICES ASSUME NEW k \in 1..Len(after), ids[after[k]] = ids[m] PROVE FALSE
          BY DEF Holds
        <5>1. Len(o) \in Nat /\ Len(after) \in Nat /\ ids[m] \in Int
          BY <1>1, <3>1, <4>6
        <5>2. CASE k <= Len(o)
          <6>1. k \in 1..Len(o)
            BY <5>1, <5>2
          <6>2. after[k] = o[k]
            BY <4>6, <6>1 DEF Extends
          <6>3. QED
            BY <3>5, <6>1, <6>2 DEF Holds
        <5>3. CASE ~(k <= Len(o))
          <6>1. k \in (Len(o) + 1)..Len(after)
            BY <5>1, <5>3
          <6>2. ids[after[k]] < ids[m]
            BY <4>6, <6>1 DEF Extends
          <6>3. QED
            BY <5>1, <6>2
        <5>4. QED
          BY <5>2, <5>3
      <4>8. \A p \in ParentsOf(nodes[m]) : Holds(ids, after, ids[p])
        BY <4>1, <4>6
      <4> DEFINE r == Append(after, m)
      <4>9. Ordered(nodes, ids, r) /\ Extends(ids, after, r, ids[m] + 1) /\ Holds(ids, r, ids[m])
        BY <4>6, <4>7, <4>8, OrderedAppend
      <4>10. r \in Seq(1..N)
        BY <4>9 DEF Ordered
      <4> HIDE DEF r
      <4>11. Extends(ids, o, after, ids[m] + 1)
        <5>1. ids[m] \in Int /\ ids[m] + 1 \in Int /\ ids[m] <= ids[m] + 1
          BY <1>1
        <5>2. QED
          BY <1>1, <3>1, <4>6, <5>1, ExtendsFacts
      <4>12. Extends(ids, o, r, ids[m] + 1)
        <5>1. ids[m] + 1 \in Int
          BY <1>1
        <5>2. QED
          BY <1>1, <3>1, <4>6, <4>9, <4>10, <4>11, <5>1, ExtendsFacts
      <4>13. visit[m][o] = r
        BY <3>2, <3>3, <3>5 DEF r
      <4>14. QED
        BY <4>9, <4>12, <4>13
    <3>6. QED
      BY <3>4, <3>5
  <2>2. Sound(m)
    BY <2>1
  <2> HIDE DEF Sound
  <2>3. \A k \in 1..m : k \in 1..(m - 1) \/ k = m
    BY <1>1
  <2>4. QED
    BY <1>1, <1>3, <2>2, <2>3
<1>4. 0..N \subseteq S
  <2> HIDE DEF S
  <2>1. QED
    BY <1>1, <1>2, <1>3, IntervalInduction
<1>5. Sound(n)
  <2> HIDE DEF Sound
  <2>1. N \in S /\ n \in 1..N
    BY <1>1, <1>4
  <2>2. QED
    BY <2>1
<1>6. QED
  BY <1>5

-----------------------------------------------------------------------------
(* The order of a graph *)

\* Nodes of one ID have parents of the same IDs.
LEMMA SharedParents ==
  ASSUME NEW nodes, NEW ids, Program(nodes, ids),
         NEW m \in 1..Len(nodes), NEW n \in 1..Len(nodes), ids[m] = ids[n],
         NEW p \in ParentsOf(nodes[m])
  PROVE  \E q \in ParentsOf(nodes[n]) : ids[q] = ids[p]
<1>1. SameDefinition(ids, nodes[m], nodes[n])
  BY SharedFunctions
<1>2. PICK i \in Bound(nodes[m]) : p = ParentOf(nodes[m], i)
  BY DEF ParentsOf
<1>3. i \in Bound(nodes[n]) /\ ids[ParentOf(nodes[n], i)] = ids[p]
  BY <1>1, <1>2 DEF SameDefinition
<1>4. QED
  BY <1>3 DEF ParentsOf

\* The IDs of a graph, and those that no node is bound to.
IDsOf(nodes, ids) == {ids[n] : n \in 1..Len(nodes)}
Tops(nodes, ids) ==
  {x \in IDsOf(nodes, ids) :
     \A n \in 1..Len(nodes) : \A p \in ParentsOf(nodes[n]) : ids[p] # x}

\* A listing of the nodes of a graph.
Listing(nodes, listed) == listed \in Seq(1..Len(nodes)) /\ Range(listed) = 1..Len(nodes)

LEMMA MembersFacts ==
  ASSUME NEW nodes, NEW ids, Program(nodes, ids), NEW listed, Listing(nodes, listed)
  PROVE  LET members == Members(ids, listed)
         IN  /\ IsSeq(members) /\ Range(members) \subseteq 1..Len(nodes)
             /\ {ids[m] : m \in Range(members)} = IDsOf(nodes, ids)
<1> DEFINE N == Len(nodes)
           at == {k \in DOMAIN listed : \A j \in 1..(k - 1) : ids[listed[j]] # ids[listed[k]]}
           members == Members(ids, listed)
<1>1. /\ listed \in Seq(1..N) /\ Len(listed) \in Nat /\ DOMAIN listed = 1..Len(listed)
      /\ \A k \in 1..Len(listed) : listed[k] \in 1..N
      /\ \A n \in 1..N : \E k \in 1..Len(listed) : listed[k] = n
  <2>1. /\ listed \in Seq(1..N) /\ Len(listed) \in Nat /\ DOMAIN listed = 1..Len(listed)
        /\ \A k \in 1..Len(listed) : listed[k] \in 1..N
    BY DEF Listing
  <2>2. ASSUME NEW n \in 1..N PROVE \E k \in 1..Len(listed) : listed[k] = n
    <3>1. n \in {listed[k] : k \in DOMAIN listed}
      BY DEF Listing, Range
    <3>2. QED
      BY <2>1, <3>1
  <2>3. QED
    BY <2>1, <2>2
<1>2. IsSeq(listed)
  <2>1. listed = [k \in 1..Len(listed) |-> listed[k]]
    BY <1>1
  <2>2. QED
    BY <1>1, <2>1, SeqByDomain
<1>3. at \subseteq DOMAIN listed /\ members = Where(listed, at)
  BY DEF Members
<1> HIDE DEF at, members
<1>4. IsSeq(members) /\ Range(members) = {listed[k] : k \in at}
  BY <1>2, <1>3, WhereFacts
<1>5. Range(members) \subseteq 1..N
  BY <1>1, <1>3, <1>4
<1>6. ASSUME NEW n \in 1..N PROVE \E m \in Range(members) : ids[m] = ids[n]
  <2> DEFINE same == {k \in 1..Len(listed) : ids[listed[k]] = ids[n]}
             k == Min(same)
  <2>1. same # {}
    <3>1. PICK j \in 1..Len(listed) : listed[j] = n
      BY <1>1
    <3>2. QED
      BY <3>1
  <2>2. IsFiniteSet(same) /\ same \subseteq Int
    BY <1>1, PositionsFinite
  <2>3. k \in same /\ \A j \in same : k <= j
    <3> HIDE DEF same
    <3>1. QED
      BY <2>1, <2>2, MinFacts
  <2> HIDE DEF k
  <2>4. k \in 1..Len(listed) /\ ids[listed[k]] = ids[n]
    BY <2>3
  <2>5. ASSUME NEW j \in 1..(k - 1) PROVE ids[listed[j]] # ids[listed[k]]
    <3>1. j \in 1..Len(listed) /\ j < k
      BY <1>1, <2>4
    <3>2. j \notin same
      BY <2>3, <2>4, <3>1
    <3>3. QED
      BY <2>4, <3>1, <3>2
  <2>6. k \in at
    BY <1>1, <2>4, <2>5 DEF at
  <2>7. QED
    BY <1>4, <2>4, <2>6
<1>7. {ids[m] : m \in Range(members)} = IDsOf(nodes, ids)
  BY <1>5, <1>6 DEF IDsOf
<1>8. QED
  BY <1>4, <1>5, <1>7 DEF members

LEMMA TerminalsFacts ==
  ASSUME NEW nodes, NEW ids, Program(nodes, ids), NEW listed, Listing(nodes, listed)
  PROVE  LET terminals == Terminals(nodes, ids, Members(ids, listed))
         IN  /\ Range(terminals) \subseteq 1..Len(nodes)
             /\ {ids[m] : m \in Range(terminals)} = Tops(nodes, ids)
<1> DEFINE N == Len(nodes)
           members == Members(ids, listed)
           consumed == UNION {{ids[p] : p \in ParentsOf(nodes[m])} : m \in Range(members)}
           at == {k \in DOMAIN members : ids[members[k]] \notin consumed}
           terminals == Terminals(nodes, ids, members)
<1>1. /\ IsSeq(members) /\ Range(members) \subseteq 1..N
      /\ {ids[m] : m \in Range(members)} = IDsOf(nodes, ids)
  BY MembersFacts
<1>2. terminals = Where(members, at) /\ at \subseteq DOMAIN members
  BY DEF Terminals
<1> HIDE DEF members, terminals
<1>3. Range(terminals) = {members[k] : k \in at}
  <2> HIDE DEF at
  <2>1. QED
    BY <1>1, <1>2, WhereFacts
<1>4. Range(terminals) = {m \in Range(members) : ids[m] \notin consumed}
  <2> HIDE DEF consumed
  <2>1. QED
    BY <1>3 DEF Range
<1>5. ASSUME NEW x PROVE x \in consumed <=> \E n \in 1..N : \E p \in ParentsOf(nodes[n]) : ids[p] = x
  <2>1. ASSUME NEW n \in 1..N, NEW p \in ParentsOf(nodes[n]), ids[p] = x PROVE x \in consumed
    <3>1. PICK m \in Range(members) : ids[m] = ids[n]
      <4>1. ids[n] \in {ids[m] : m \in Range(members)}
        BY <1>1, Zenon DEF IDsOf
      <4>2. QED
        BY <4>1
    <3>2. m \in 1..N
      BY <1>1, <3>1
    <3>3. PICK q \in ParentsOf(nodes[m]) : ids[q] = ids[p]
      BY <3>1, <3>2, SharedParents
    <3>4. QED
      BY <2>1, <3>1, <3>3
  <2>2. ASSUME x \in consumed PROVE \E n \in 1..N : \E p \in ParentsOf(nodes[n]) : ids[p] = x
    <3>1. PICK m \in Range(members) : x \in {ids[p] : p \in ParentsOf(nodes[m])}
      BY <2>2
    <3>2. m \in 1..N
      BY <1>1, <3>1
    <3>3. QED
      BY <3>1, <3>2
  <2>3. QED
    BY <2>1, <2>2
<1> HIDE DEF consumed
<1>6. {ids[m] : m \in Range(terminals)} = {x \in IDsOf(nodes, ids) : x \notin consumed}
  BY <1>1, <1>4
<1>7. {x \in IDsOf(nodes, ids) : x \notin consumed} = Tops(nodes, ids)
  BY <1>5 DEF Tops
<1>8. Range(terminals) \subseteq 1..N
  BY <1>1, <1>4
<1>9. QED
  BY <1>6, <1>7, <1>8 DEF terminals, members

\* An order of the hashes: one rank for each ID.
Ranking(nodes, rank) ==
  /\ \A x \in 1..Len(nodes) : rank[x] \in Int
  /\ \A x, y \in 1..Len(nodes) : rank[x] = rank[y] => x = y

RanksOf(nodes, ids, rank) == {rank[x] : x \in Tops(nodes, ids)}

LEMMA SortedFacts ==
  ASSUME NEW nodes, NEW ids, Program(nodes, ids), NEW listed, Listing(nodes, listed),
         NEW rank, Ranking(nodes, rank)
  PROVE  LET sorted == Sorted(ids, Terminals(nodes, ids, Members(ids, listed)), rank)
             n == Cardinality(RanksOf(nodes, ids, rank))
         IN  /\ n \in Nat /\ sorted \in Seq(1..Len(nodes)) /\ Len(sorted) = n
             /\ \A k \in 1..n :
                  /\ ids[sorted[k]] \in Tops(nodes, ids)
                  /\ rank[ids[sorted[k]]] = InOrder(RanksOf(nodes, ids, rank))[k]
             /\ \A x \in Tops(nodes, ids) : \E k \in 1..n : ids[sorted[k]] = x
<1> DEFINE N == Len(nodes)
           R == RanksOf(nodes, ids, rank)
           n == Cardinality(R)
           terminals == Terminals(nodes, ids, Members(ids, listed))
           sorted == Sorted(ids, terminals, rank)
           ranks == InOrder(R)
<1>1. Range(terminals) \subseteq 1..N /\ {ids[m] : m \in Range(terminals)} = Tops(nodes, ids)
  BY TerminalsFacts
<1>2. N \in Nat /\ \A m \in 1..N : ids[m] \in 1..N
  BY ProgramFacts
<1>3. Tops(nodes, ids) \subseteq 1..N
  BY <1>2 DEF Tops, IDsOf
<1>4. IsFiniteSet(R) /\ R \subseteq Int
  <2>1. IsFiniteSet(Tops(nodes, ids))
    BY <1>2, <1>3, PositionsFinite
  <2>2. IsFiniteSet(R)
    <3> DEFINE f == [x \in Tops(nodes, ids) |-> rank[x]]
    <3>1. f \in Surjection(Tops(nodes, ids), R)
      BY DEF RanksOf, Surjection
    <3>2. QED
      BY <2>1, <3>1, FS_Surjection
  <2>3. QED
    BY <1>3, <2>2 DEF RanksOf, Ranking
<1> HIDE DEF R, terminals
<1>5. {rank[ids[m]] : m \in Range(terminals)} = R
  BY <1>1 DEF R, RanksOf
<1>6. /\ n \in Nat /\ DOMAIN ranks = 1..n /\ (\A k \in 1..n : ranks[k] \in R)
      /\ \A x \in R : \E k \in 1..n : ranks[k] = x
  BY <1>4, InOrderFacts
<1>7. sorted = [k \in DOMAIN ranks |-> CHOOSE m \in Range(terminals) : rank[ids[m]] = ranks[k]]
  <2> DEFINE Q == {rank[ids[m]] : m \in Range(terminals)}
  <2>1. sorted = [k \in DOMAIN InOrder(Q) |->
                    CHOOSE m \in Range(terminals) : rank[ids[m]] = InOrder(Q)[k]]
    BY DEF Sorted
  <2>2. Q = R
    BY <1>5
  <2> HIDE DEF Q
  <2>3. QED
    BY <2>1, <2>2
<1> HIDE DEF ranks, sorted, n
<1>8. sorted = [k \in 1..n |-> sorted[k]] /\ DOMAIN sorted = 1..n
  BY <1>6, <1>7
<1>9. ASSUME NEW k \in 1..n
      PROVE  sorted[k] \in Range(terminals) /\ rank[ids[sorted[k]]] = ranks[k]
  <2>1. \E m \in Range(terminals) : rank[ids[m]] = ranks[k]
    BY <1>5, <1>6
  <2>2. sorted[k] = CHOOSE m \in Range(terminals) : rank[ids[m]] = ranks[k]
    BY <1>6, <1>7
  <2>3. QED
    BY <2>1, <2>2
<1>10. sorted \in Seq(1..N) /\ Len(sorted) = n
  <2>1. sorted \in [1..n -> 1..N]
    BY <1>1, <1>8, <1>9
  <2>2. QED
    BY <1>6, <2>1
<1>11. ASSUME NEW x \in Tops(nodes, ids) PROVE \E k \in 1..n : ids[sorted[k]] = x
  <2>1. rank[x] \in R
    BY DEF R, RanksOf
  <2>2. PICK k \in 1..n : ranks[k] = rank[x]
    BY <1>6, <2>1
  <2>3. rank[ids[sorted[k]]] = rank[x] /\ ids[sorted[k]] \in 1..N /\ x \in 1..N
    BY <1>1, <1>2, <1>3, <1>9, <2>2
  <2>4. ids[sorted[k]] = x
    BY <2>3 DEF Ranking
  <2>5. QED
    BY <2>4
<1>12. QED
  BY <1>1, <1>6, <1>9, <1>10, <1>11 DEF sorted, terminals, n, ranks, R

\* The order of a graph is sound and holds every ID.
LEMMA OrderSound ==
  ASSUME NEW nodes, NEW ids, Program(nodes, ids), NamesInputs(nodes),
         NEW listed, Listing(nodes, listed), NEW rank, Ranking(nodes, rank)
  PROVE  LET order == OrderOf(nodes, ids, listed, rank)
         IN  /\ Ordered(nodes, ids, order)
             /\ \A n \in 1..Len(nodes) : Holds(ids, order, ids[n])
<1> DEFINE N == Len(nodes)
           visit == Traversal(nodes, ids, Names)
           sorted == Sorted(ids, Terminals(nodes, ids, Members(ids, listed)), rank)
           c == Len(sorted)
           order == OrderOf(nodes, ids, listed, rank)
           T == [k \in 0..c |-> {r \in Seq(1..N) :
                                   /\ Ordered(nodes, ids, r)
                                   /\ \A j \in 1..k : Holds(ids, r, ids[sorted[j]])}]
<1>1. N \in Nat /\ \A m \in 1..N : ids[m] \in 1..N /\ ids[m] \in Int
  BY ProgramFacts
<1>2. /\ c \in Nat /\ sorted \in Seq(1..N)
      /\ \A x \in Tops(nodes, ids) : \E k \in 1..c : ids[sorted[k]] = x
  <2>1. c = Cardinality(RanksOf(nodes, ids, rank))
    BY SortedFacts
  <2>2. QED
    BY <2>1, SortedFacts
<1>3. order = InTurn(visit, <<>>, sorted)
  BY DEF OrderOf, Order
<1> HIDE DEF order, visit, sorted
<1>4. <<>> \in T[0]
  <2>1. Ordered(nodes, ids, <<>>)
    BY DEF Ordered
  <2>2. QED
    BY <1>2, <2>1
<1>5. ASSUME NEW k \in 1..c, NEW r \in T[k - 1] PROVE visit[sorted[k]][r] \in T[k]
  <2> DEFINE p == sorted[k]
             q == visit[p][r]
  <2>1. p \in 1..N /\ ids[p] + 1 \in Int
    <3> HIDE DEF T
    <3>1. p \in 1..N
      BY <1>2
    <3>2. QED
      BY <1>1, <3>1
  <2>2. /\ r \in Seq(1..N) /\ Ordered(nodes, ids, r)
        /\ \A j \in 1..(k - 1) : Holds(ids, r, ids[sorted[j]])
    BY <1>2
  <2>3. Ordered(nodes, ids, q) /\ Holds(ids, q, ids[p]) /\ Extends(ids, r, q, ids[p] + 1)
    BY <2>1, <2>2, VisitSound DEF visit
  <2> HIDE DEF q
  <2>4. q \in Seq(1..N)
    BY <2>3 DEF Ordered
  <2>5. ASSUME NEW j \in 1..k PROVE Holds(ids, q, ids[sorted[j]])
    <3>1. CASE j = k
      BY <2>3, <3>1
    <3>2. CASE j \in 1..(k - 1)
      BY <1>1, <2>1, <2>2, <2>3, <2>4, <3>2, ExtendsFacts
    <3>3. QED
      BY <1>2, <3>1, <3>2
  <2>6. q \in T[k]
    BY <1>2, <2>3, <2>4, <2>5
  <2>7. QED
    BY <2>6 DEF q
<1>6. order \in T[c]
  <2> HIDE DEF T
  <2>1. QED
    BY <1>2, <1>3, <1>4, <1>5, InTurnInvariant
<1>7. /\ order \in Seq(1..N) /\ Ordered(nodes, ids, order)
      /\ \A j \in 1..c : Holds(ids, order, ids[sorted[j]])
  BY <1>2, <1>6
<1> HIDE DEF T
<1>8. \A n \in 1..N : Holds(ids, order, ids[n])
  <2> DEFINE missing == {x \in 1..N : x \in IDsOf(nodes, ids) /\ ~Holds(ids, order, x)}
             x == Max(missing)
  <2> SUFFICES ASSUME missing # {} PROVE FALSE
    <3>1. \A n \in 1..N : ids[n] \in IDsOf(nodes, ids)
      BY DEF IDsOf
    <3>2. QED
      BY <1>1, <3>1
  <2>1. IsFiniteSet(missing) /\ missing \subseteq Int
    BY <1>1, PositionsFinite
  <2>2. x \in missing /\ \A y \in missing : x >= y
    <3> HIDE DEF missing
    <3>1. QED
      BY <2>1, MaxFacts
  <2> HIDE DEF x
  <2>3. x \in 1..N /\ x \in IDsOf(nodes, ids) /\ ~Holds(ids, order, x)
    BY <2>2
  <2>4. x \notin Tops(nodes, ids)
    BY <1>2, <1>7, <2>3
  <2>0. PICK m \in 1..N : \E p \in ParentsOf(nodes[m]) : ids[p] = x
    BY <2>3, <2>4 DEF Tops
  <2>5. PICK p \in ParentsOf(nodes[m]) : ids[p] = x
    BY <2>0
  <2>6. x < ids[m]
    BY <1>1, <2>5, ParentIDs
  <2>7. ids[m] \in 1..N /\ ids[m] \in IDsOf(nodes, ids) /\ ids[m] \in Int
    BY <1>1 DEF IDsOf
  <2>8. Holds(ids, order, ids[m])
    <3>1. ids[m] \notin missing
      BY <2>2, <2>3, <2>6, <2>7
    <3>2. QED
      BY <2>7, <3>1
  <2>9. PICK k \in 1..Len(order) : ids[order[k]] = ids[m]
    BY <2>8 DEF Holds
  <2>10. order[k] \in 1..N
    BY <1>7
  <2>11. PICK q \in ParentsOf(nodes[order[k]]) : ids[q] = x
    BY <2>5, <2>9, <2>10, SharedParents
  <2>12. PICK j \in 1..(k - 1) : ids[order[j]] = x
    BY <1>7, <2>11 DEF Ordered
  <2>13. j \in 1..Len(order)
    BY <1>7
  <2>14. QED
    BY <2>3, <2>12, <2>13 DEF Holds
<1>9. QED
  BY <1>7, <1>8 DEF order

\* Orders of the same IDs.
Alike(ids, o, q) == Len(o) = Len(q) /\ \A k \in 1..Len(o) : ids[o[k]] = ids[q[k]]

\* Nodes of one ID, visited from orders of the same IDs.
VisitsAlike(nodes, ids, m, n) ==
  LET visit == Traversal(nodes, ids, Names)
  IN  \A o, q \in Seq(1..Len(nodes)) :
        Alike(ids, o, q) =>
          /\ visit[m][o] \in Seq(1..Len(nodes)) /\ visit[n][q] \in Seq(1..Len(nodes))
          /\ Alike(ids, visit[m][o], visit[n][q])

LEMMA InTurnAlike ==
  ASSUME NEW nodes, NEW ids, NEW xs, NEW ys, Len(xs) \in Nat, Len(ys) = Len(xs),
         \A k \in 1..Len(xs) : VisitsAlike(nodes, ids, xs[k], ys[k]),
         NEW o \in Seq(1..Len(nodes)), NEW q \in Seq(1..Len(nodes)), Alike(ids, o, q)
  PROVE  LET visit == Traversal(nodes, ids, Names)
             later == InTurn(visit, o, xs)
             other == InTurn(visit, q, ys)
         IN  /\ later \in Seq(1..Len(nodes)) /\ other \in Seq(1..Len(nodes))
             /\ Alike(ids, later, other)
<1> DEFINE visit == Traversal(nodes, ids, Names)
           n == Len(xs)
<1> HIDE DEF visit
<1>1. PICK f : Run(f, visit, o, xs)
  BY InTurnSteps
<1>2. PICK g : Run(g, visit, q, ys)
  BY InTurnSteps
<1> DEFINE S == {k \in 0..n : /\ f[k] \in Seq(1..Len(nodes)) /\ g[k] \in Seq(1..Len(nodes))
                              /\ Alike(ids, f[k], g[k])}
<1>3. 0 \in S
  BY <1>1, <1>2 DEF Run
<1>4. ASSUME NEW k \in 1..n, k - 1 \in S PROVE k \in S
  <2>1. VisitsAlike(nodes, ids, xs[k], ys[k])
    OBVIOUS
  <2>2. /\ visit[xs[k]][f[k - 1]] \in Seq(1..Len(nodes))
        /\ visit[ys[k]][g[k - 1]] \in Seq(1..Len(nodes))
        /\ Alike(ids, visit[xs[k]][f[k - 1]], visit[ys[k]][g[k - 1]])
    BY <1>4, <2>1 DEF VisitsAlike, visit
  <2>3. QED
    BY <1>1, <1>2, <2>2 DEF Run
<1>5. 0..n \subseteq S
  <2> HIDE DEF S
  <2>1. QED
    BY <1>3, <1>4, IntervalInduction
<1>6. n \in S
  BY <1>5
<1>7. QED
  BY <1>1, <1>2, <1>6 DEF Run, visit

LEMMA VisitAlike ==
  ASSUME NEW nodes, NEW ids, Program(nodes, ids),
         NEW m \in 1..Len(nodes), NEW n \in 1..Len(nodes), ids[m] = ids[n]
  PROVE  VisitsAlike(nodes, ids, m, n)
<1> DEFINE N == Len(nodes)
           visit == Traversal(nodes, ids, Names)
           S == {x \in 0..N : \A i, j \in 1..N :
                                ids[i] = ids[j] /\ ids[i] <= x => VisitsAlike(nodes, ids, i, j)}
<1>1. N \in Nat /\ Acyclic(nodes) /\ \A i \in 1..N : ids[i] \in 1..N
  BY ProgramFacts
<1>2. 0 \in S
  BY <1>1
<1>3. ASSUME NEW x \in 1..N, x - 1 \in S PROVE x \in S
  <2>1. ASSUME NEW i \in 1..N, NEW j \in 1..N, ids[i] = ids[j], ids[i] <= x
        PROVE  VisitsAlike(nodes, ids, i, j)
    <3> SUFFICES ASSUME NEW o \in Seq(1..N), NEW q \in Seq(1..N), Alike(ids, o, q)
                 PROVE  /\ visit[i][o] \in Seq(1..N) /\ visit[j][q] \in Seq(1..N)
                        /\ Alike(ids, visit[i][o], visit[j][q])
      BY DEF VisitsAlike
    <3> DEFINE xs == CanonicalParents(nodes[i], Names)
               ys == CanonicalParents(nodes[j], Names)
               later == InTurn(visit, o, xs)
               other == InTurn(visit, q, ys)
    <3>1. /\ visit[i][o] = IF \E k \in Range(o) : ids[k] = ids[i] THEN o ELSE Append(later, i)
          /\ visit[j][q] = IF \E k \in Range(q) : ids[k] = ids[j] THEN q ELSE Append(other, j)
      BY <1>1, TraversalVisits
    <3>2. (\E k \in Range(o) : ids[k] = ids[i]) <=> (\E k \in Range(q) : ids[k] = ids[j])
      <4>1. DOMAIN o = 1..Len(o) /\ DOMAIN q = 1..Len(o)
        BY DEF Alike
      <4>2. QED
        <5>1. (\E k \in 1..Len(o) : ids[o[k]] = ids[i])
                <=> (\E k \in 1..Len(o) : ids[q[k]] = ids[j])
          BY <2>1 DEF Alike
        <5>2. (\E k \in Range(o) : ids[k] = ids[i]) <=> \E k \in 1..Len(o) : ids[o[k]] = ids[i]
          BY <4>1, Zenon DEF Range
        <5>3. (\E k \in Range(q) : ids[k] = ids[j]) <=> \E k \in 1..Len(o) : ids[q[k]] = ids[j]
          BY <4>1, Zenon DEF Range
        <5>4. QED
          BY <5>1, <5>2, <5>3
    <3>3. CASE \E k \in Range(o) : ids[k] = ids[i]
      BY <3>1, <3>2, <3>3
    <3>4. CASE ~\E k \in Range(o) : ids[k] = ids[i]
      <4>1. /\ Len(xs) \in Nat /\ Len(xs) = Len(InputsOf(nodes[i]))
            /\ \A k \in 1..Len(xs) :
                 /\ InputsOf(nodes[i])[k] \in Bound(nodes[i])
                 /\ xs[k] = ParentOf(nodes[i], InputsOf(nodes[i])[k])
                 /\ xs[k] \in ParentsOf(nodes[i])
        BY CanonicalParentsFacts
      <4>2. /\ Len(ys) \in Nat /\ Len(ys) = Len(InputsOf(nodes[j]))
            /\ \A k \in 1..Len(ys) :
                 /\ ys[k] = ParentOf(nodes[j], InputsOf(nodes[j])[k])
                 /\ ys[k] \in ParentsOf(nodes[j])
        BY CanonicalParentsFacts
      <4>3. SameDefinition(ids, nodes[i], nodes[j])
        BY <2>1, SharedFunctions
      <4>4. InputsOf(nodes[i]) = InputsOf(nodes[j])
        BY <4>3 DEF InputsOf, SameDefinition
      <4> HIDE DEF xs, ys
      <4>5. ASSUME NEW k \in 1..Len(xs) PROVE VisitsAlike(nodes, ids, xs[k], ys[k])
        <5>1. ids[xs[k]] = ids[ys[k]]
          BY <4>1, <4>2, <4>3, <4>4 DEF SameDefinition
        <5>2. xs[k] \in 1..N /\ ys[k] \in 1..N /\ ids[xs[k]] \in 1..(ids[i] - 1)
          BY <4>1, <4>2, <4>4, ParentIDs
        <5>3. ids[xs[k]] <= x - 1
          <6>1. ids[i] \in Nat /\ ids[i] <= x /\ x \in Nat
            BY <1>1, <2>1
          <6>2. ASSUME NEW low, NEW high, high \in Nat, high <= x, x \in Nat, low \in 1..(high - 1)
                PROVE  low <= x - 1
            BY <6>2
          <6>3. QED
            BY <5>2, <6>1, <6>2
        <5>4. QED
          BY <1>3, <5>1, <5>2, <5>3
      <4> HIDE DEF later, other
      <4>6. later \in Seq(1..N) /\ other \in Seq(1..N) /\ Alike(ids, later, other)
        BY <4>1, <4>2, <4>4, <4>5, InTurnAlike DEF later, other
      <4>7. Append(later, i) \in Seq(1..N) /\ Append(other, j) \in Seq(1..N)
        BY <4>6
      <4>8. Alike(ids, Append(later, i), Append(other, j))
        <5>1. Len(later) \in Nat /\ Len(other) = Len(later)
          BY <4>6 DEF Alike
        <5>5. ASSUME NEW s \in Seq(1..N), NEW e \in 1..N, Len(s) = Len(later)
              PROVE  /\ Len(Append(s, e)) = Len(later) + 1 /\ Append(s, e)[Len(later) + 1] = e
                     /\ \A k \in 1..Len(later) : Append(s, e)[k] = s[k]
          BY <5>5
        <5>2. ASSUME NEW k \in 1..(Len(later) + 1)
              PROVE  ids[Append(later, i)[k]] = ids[Append(other, j)[k]]
          <6>1. CASE k = Len(later) + 1
            <7>1. Append(later, i)[k] = i /\ Append(other, j)[k] = j
              BY <4>6, <5>1, <5>5, <6>1
            <7>2. QED
              BY <2>1, <7>1
          <6>2. CASE k \in 1..Len(later)
            <7>1. Append(later, i)[k] = later[k] /\ Append(other, j)[k] = other[k]
              BY <4>6, <5>1, <5>5, <6>2
            <7>2. QED
              BY <4>6, <6>2, <7>1 DEF Alike
          <6>3. QED
            BY <5>1, <6>1, <6>2
        <5>3. Len(Append(later, i)) = Len(later) + 1 /\ Len(Append(other, j)) = Len(later) + 1
          BY <4>6, <5>1, <5>5
        <5>4. QED
          BY <5>2, <5>3 DEF Alike
      <4>9. QED
        BY <3>1, <3>2, <3>4, <4>7, <4>8
    <3>5. QED
      BY <3>3, <3>4
  <2>2. QED
    BY <2>1
<1>4. 0..N \subseteq S
  <2> HIDE DEF S
  <2>1. QED
    BY <1>1, <1>2, <1>3, IntervalInduction
<1>5. N \in S
  BY <1>1, <1>4
<1>6. QED
  BY <1>1, <1>5

\* However its nodes are listed, a graph has one order of IDs.
LEMMA OrdersAlike ==
  ASSUME NEW nodes, NEW ids, Program(nodes, ids), NEW rank, Ranking(nodes, rank),
         NEW listed, Listing(nodes, listed), NEW other, Listing(nodes, other)
  PROVE  LET order == OrderOf(nodes, ids, listed, rank)
             same == OrderOf(nodes, ids, other, rank)
         IN  /\ order \in Seq(1..Len(nodes)) /\ same \in Seq(1..Len(nodes))
             /\ Alike(ids, order, same)
<1> DEFINE N == Len(nodes)
           xs == Sorted(ids, Terminals(nodes, ids, Members(ids, listed)), rank)
           ys == Sorted(ids, Terminals(nodes, ids, Members(ids, other)), rank)
           n == Cardinality(RanksOf(nodes, ids, rank))
           ranks == InOrder(RanksOf(nodes, ids, rank))
<1>1. /\ n \in Nat /\ xs \in Seq(1..N) /\ Len(xs) = n
      /\ \A k \in 1..n : ids[xs[k]] \in Tops(nodes, ids) /\ rank[ids[xs[k]]] = ranks[k]
  BY SortedFacts
<1>2. /\ ys \in Seq(1..N) /\ Len(ys) = n
      /\ \A k \in 1..n : ids[ys[k]] \in Tops(nodes, ids) /\ rank[ids[ys[k]]] = ranks[k]
  BY SortedFacts
<1>3. \A m \in 1..N : ids[m] \in 1..N
  BY ProgramFacts
<1> HIDE DEF xs, ys, n, ranks
<1>4. ASSUME NEW k \in 1..n PROVE VisitsAlike(nodes, ids, xs[k], ys[k])
  <2>1. xs[k] \in 1..N /\ ys[k] \in 1..N
    BY <1>1, <1>2
  <2>2. rank[ids[xs[k]]] = rank[ids[ys[k]]] /\ ids[xs[k]] \in 1..N /\ ids[ys[k]] \in 1..N
    BY <1>1, <1>2, <1>3, <2>1
  <2>3. ids[xs[k]] = ids[ys[k]]
    BY <2>2 DEF Ranking
  <2>4. QED
    BY <2>1, <2>3, VisitAlike
<1>5. <<>> \in Seq(1..N) /\ Alike(ids, <<>>, <<>>)
  BY DEF Alike
<1> DEFINE visit == Traversal(nodes, ids, Names)
<1>6. /\ InTurn(visit, <<>>, xs) \in Seq(1..N) /\ InTurn(visit, <<>>, ys) \in Seq(1..N)
      /\ Alike(ids, InTurn(visit, <<>>, xs), InTurn(visit, <<>>, ys))
  BY <1>1, <1>2, <1>4, <1>5, InTurnAlike
<1>7. QED
  BY <1>6 DEF OrderOf, Order, xs, ys

-----------------------------------------------------------------------------
(* What every program is *)

\* The order the executor takes.
OrderTaken(nodes, ids) == OrderOf(nodes, ids, Listed(nodes), Rank(nodes))

LEMMA ListingsAndRankings ==
  ASSUME NEW nodes, Len(nodes) \in Nat
  PROVE  /\ Listing(nodes, Listed(nodes))
         /\ Ranking(nodes, Rank(nodes)) /\ Ranking(nodes, Listed(nodes))
         /\ \A listed \in SetToSeqs(1..Len(nodes)) : Listing(nodes, listed)
<1> DEFINE N == Len(nodes)
<1>1. Listing(nodes, Listed(nodes))
  <2>1. Listed(nodes) \in [1..N -> 1..N] /\ Range(Listed(nodes)) = 1..N
    BY DEF Listed, Range
  <2>2. QED
    BY <2>1 DEF Listing
<1>2. Ranking(nodes, Rank(nodes)) /\ Ranking(nodes, Listed(nodes))
  BY DEF Ranking, Rank, Listed
<1>3. ASSUME NEW listed \in SetToSeqs(1..N) PROVE Listing(nodes, listed)
  <2>1. IsFiniteSet(1..N) /\ Cardinality(1..N) = N
    BY FS_Interval
  <2>2. listed \in [1..N -> 1..N] /\ \A i, j \in 1..N : i # j => listed[i] # listed[j]
    BY <2>1 DEF SetToSeqs
  <2>3. listed \in Injection(1..N, 1..N)
    BY <2>2 DEF Injection, IsInjective
  <2>4. listed \in Surjection(1..N, 1..N)
    BY <2>1, <2>3, FS_Injection
  <2>5. \A n \in 1..N : \E k \in 1..N : listed[k] = n
    BY <2>4 DEF Surjection
  <2>6. Range(listed) = 1..N
    <3>1. Range(listed) = {listed[k] : k \in 1..N}
      BY <2>2 DEF Range
    <3>2. \A n \in Range(listed) : n \in 1..N
      BY <2>2, <3>1
    <3>3. \A n \in 1..N : n \in Range(listed)
      BY <2>5, <3>1
    <3>4. QED
      BY <3>2, <3>3
  <2>7. listed \in Seq(1..N)
    BY <2>2
  <2>8. QED
    BY <2>6, <2>7 DEF Listing
<1>4. QED
  BY <1>1, <1>2, <1>3

\* Nodes bind what was built before under known names, an ID is that of the first
\* node of its definition, and what there is was computed by the last execution
\* of an accepted graph.
ProgramInv ==
  /\ Program(d, id) /\ NamesInputs(d) /\ now \in Nat
  /\ now = 0 => frames = <<>>
  /\ now > 0 => frames = Execute(d, id, seen) /\ Accepted(d, OrderTaken(d, id))

LEMMA SourcesProgram == Init => Program(d, id) /\ NamesInputs(d)
<1> SUFFICES ASSUME Init PROVE Program(d, id) /\ NamesInputs(d)
  OBVIOUS
<1> DEFINE N == Len(Sources)
<1>1. N \in Nat /\ DOMAIN Sources = 1..N
  BY SourcesAssumption
<1>2. d = [n \in 1..N |-> Built(<<>>, Sources[n])] /\ id = [n \in 1..N |-> n]
  BY <1>1 DEF Init
<1> HIDE DEF N
<1>3. d = [n \in 1..N |-> d[n]] /\ id = [n \in 1..N |-> id[n]]
  BY <1>2
<1>4. IsSeq(d) /\ IsSeq(id) /\ Len(d) = N /\ Len(id) = N
  BY <1>1, <1>3, SeqByDomain
<1>5. \A n \in 1..N : Bound(d[n]) = {} /\ id[n] = n
  BY <1>1, <1>2, SourcesAssumption DEF Bound, Built
<1>6. \A n \in 1..N : ParentsOf(d[n]) = {}
  BY <1>5 DEF ParentsOf
<1>7. Acyclic(d) /\ NamesInputs(d)
  BY <1>4, <1>5, <1>6 DEF Acyclic, NamesInputs
<1>8. ASSUME NEW n \in 1..N
      PROVE  id[n] \in 1..n /\ id[id[n]] = id[n] /\ SameDefinition(id, d[id[n]], d[n])
  <2>1. id[n] = n /\ n \in 1..n
    BY <1>1, <1>5
  <2>2. QED
    BY <2>1, SameDefinitionIsEquivalence
<1>9. Identified(d, id)
  BY <1>4, <1>8 DEF Identified
<1>10. QED
  BY <1>4, <1>7, <1>9 DEF Program

LEMMA DeclaredProgram ==
  ASSUME Program(d, id), NamesInputs(d), Declare
  PROVE  Program(d', id') /\ NamesInputs(d')
<1>1. PICK decl \in Nodes(d) :
        /\ Constructible(d, decl) /\ DOMAIN decl.bindings \subseteq Range(Names)
        /\ d' = Append(d, Built(d, decl)) /\ id' = Append(id, IdOf(d, id, Built(d, decl)))
  BY DEF Declare
<1> DEFINE node == Built(d, decl)
<1>2. Bound(node) = DOMAIN decl.bindings /\ node.bindings = decl.bindings
  BY DEF Bound, Built
<1>3. IsSeq(d) /\ Len(d) \in Nat /\ DOMAIN d = 1..Len(d)
  BY SeqFacts DEF Program
<1>4. \A p \in ParentsOf(node) : p \in 1..Len(d)
  BY <1>1, <1>2, <1>3 DEF ParentsOf, ParentOf, Constructible
<1> HIDE DEF node
<1>5. Program(d', id')
  BY <1>1, <1>4, BuiltProgram DEF node
<1>6. /\ Len(d') = Len(d) + 1 /\ d'[Len(d) + 1] = node
      /\ \A n \in 1..Len(d) : d'[n] = d[n]
  BY <1>1, <1>3, Appended DEF node
<1>7. ASSUME NEW n \in 1..(Len(d) + 1) PROVE Bound(d'[n]) \subseteq Range(Names)
  <2>1. CASE n = Len(d) + 1
    BY <1>1, <1>2, <1>6, <2>1
  <2>2. CASE n \in 1..Len(d)
    BY <1>6, <2>2 DEF NamesInputs
  <2>3. QED
    BY <1>3, <2>1, <2>2
<1>8. NamesInputs(d')
  BY <1>6, <1>7 DEF NamesInputs
<1>9. QED
  BY <1>5, <1>8

\* ProgramInv holds from the sources through every declaration and observation.
THEOREM ProgramInvariant == Spec => []ProgramInv
<1>1. Init => ProgramInv
  BY SourcesProgram DEF Init, ProgramInv
<1>2. ProgramInv /\ [Next]_vars => ProgramInv'
  <2> SUFFICES ASSUME ProgramInv, [Next]_vars PROVE ProgramInv'
    OBVIOUS
  <2>1. CASE Declare
    <3>1. Program(d', id') /\ NamesInputs(d')
      BY <2>1, DeclaredProgram DEF ProgramInv
    <3>2. now' = 0 /\ frames' = <<>>
      BY <2>1 DEF Declare, ProgramInv
    <3>3. QED
      BY <3>1, <3>2 DEF ProgramInv
  <2>2. CASE Observe
    <3>1. /\ d' = d /\ id' = id /\ now' = now + 1 /\ frames' = Execute(d, id, seen')
          /\ Accepted(d, OrderTaken(d, id))
      BY <2>2 DEF Observe, OrderTaken
    <3>2. now' \in Nat /\ now' # 0
      BY <3>1 DEF ProgramInv
    <3>3. frames' = Execute(d', id', seen') /\ Accepted(d', OrderTaken(d', id'))
      BY <3>1
    <3>4. Program(d', id') /\ NamesInputs(d')
      BY <3>1 DEF ProgramInv
    <3>5. QED
      BY <3>2, <3>3, <3>4 DEF ProgramInv
  <2>3. CASE UNCHANGED vars
    BY <2>3 DEF vars, ProgramInv
  <2>4. QED
    BY <2>1, <2>2, <2>3 DEF Next
<1>3. QED
  BY <1>1, <1>2, PTL DEF Spec

\* What the executor takes is sound and complete.
LEMMA OrderTakenSound ==
  ASSUME NEW nodes, NEW ids, Program(nodes, ids), NamesInputs(nodes)
  PROVE  LET order == OrderTaken(nodes, ids)
         IN  /\ Ordered(nodes, ids, order) /\ Len(order) \in Nat
             /\ \A k \in 1..Len(order) : order[k] \in 1..Len(nodes)
             /\ \A n \in 1..Len(nodes) : Holds(ids, order, ids[n])
<1> DEFINE order == OrderTaken(nodes, ids)
<1>1. Len(nodes) \in Nat
  BY ProgramFacts
<1>2. Listing(nodes, Listed(nodes)) /\ Ranking(nodes, Rank(nodes))
  BY <1>1, ListingsAndRankings
<1>3. Ordered(nodes, ids, order) /\ \A n \in 1..Len(nodes) : Holds(ids, order, ids[n])
  BY <1>2, OrderSound DEF OrderTaken
<1> HIDE DEF order
<1>4. order \in Seq(1..Len(nodes))
  BY <1>3 DEF Ordered
<1>5. QED
  BY <1>3, <1>4 DEF order

\* The evaluation order does not depend on how the members are listed.
THEOREM OrdersAreCanonical == Spec => []OrderIsCanonical
<1>1. ProgramInv => OrderIsCanonical
  <2> SUFFICES ASSUME ProgramInv, NEW listed \in SetToSeqs(1..Len(d)), NEW rank \in {Rank(d), Listed(d)}
               PROVE  LET Ids(order) == [k \in DOMAIN order |-> id[order[k]]]
                      IN  Ids(OrderOf(d, id, listed, rank)) = Ids(OrderOf(d, id, Listed(d), rank))
    BY DEF OrderIsCanonical
  <2>1. Program(d, id) /\ Len(d) \in Nat
    BY ProgramFacts DEF ProgramInv
  <2>2. Listing(d, Listed(d)) /\ Listing(d, listed) /\ Ranking(d, rank)
    BY <2>1, ListingsAndRankings
  <2> DEFINE o == OrderOf(d, id, listed, rank)
             q == OrderOf(d, id, Listed(d), rank)
  <2>3. o \in Seq(1..Len(d)) /\ q \in Seq(1..Len(d)) /\ Alike(id, o, q)
    BY <2>1, <2>2, OrdersAlike
  <2> HIDE DEF o, q
  <2>4. DOMAIN o = 1..Len(o) /\ DOMAIN q = 1..Len(o) /\ \A k \in 1..Len(o) : id[o[k]] = id[q[k]]
    BY <2>3 DEF Alike
  <2>5. [k \in DOMAIN o |-> id[o[k]]] = [k \in DOMAIN q |-> id[q[k]]]
    BY <2>4
  <2>6. QED
    BY <2>5 DEF o, q
<1>2. QED
  BY <1>1, ProgramInvariant, PTL

\* A node looks at what its parents computed and at nothing else.
LEMMA EvaluateLooksAtParents ==
  ASSUME NEW nodes, NEW ids, NEW r, NEW s, NEW sources, NEW node,
         \A p \in ParentsOf(node) : r[ids[p]] = s[ids[p]]
  PROVE  Evaluate(nodes, ids, r, sources, node) = Evaluate(nodes, ids, s, sources, node)
<1>1. \A i \in Bound(node) : r[ids[ParentOf(node, i)]] = s[ids[ParentOf(node, i)]]
  BY DEF ParentsOf
<1>2. Bindings(ids, r, node) = Bindings(ids, s, node)
  BY <1>1 DEF Bindings
<1>3. Prepared(ids, r, node) = Prepared(ids, s, node)
  BY <1>2 DEF Prepared
<1> DEFINE NoParent(x) == \E i \in Bound(node) : x[ids[ParentOf(node, i)]] = NotRun
           Upstream(x) == \E i \in Bound(node) : x[ids[ParentOf(node, i)]].status # "ok"
           Raises(x) == Prepared(ids, x, node).raised
           Made(x) == Outcome(node, Apply(node.fn, Prepared(ids, x, node).rows))
           Out(i) == nodes[ParentOf(node, i)].fn.out
           NoFrame == Bound(node) = {}
           Time == \E i \in Bound(node) : node.fn.in.time = NoTime \/ Out(i).time # node.fn.in.time
           Column == \E i \in Bound(node) : node.bindings[i].output \notin DOMAIN Out(i).columns
           Missing == ~(Expected(node) \subseteq Bound(node))
           Type == \E i \in Expected(node) :
                     Out(i).columns[node.bindings[i].output] # node.fn.in.columns[i]
           Fill == \E i \in Expected(node) : Handlers(node)[i] = "fill" /\ i \notin DOMAIN node.fills
           Source == IF node.fn.op = "source" THEN Ok(sources[node.fn.args.feed])
                     ELSE Failure("no input frame")
           Value(x) ==
             IF NoFrame THEN Source ELSE IF NoParent(x) THEN Failure("parent")
             ELSE IF Upstream(x) THEN Failure("upstream") ELSE IF Time THEN Failure("time")
             ELSE IF Column THEN Failure("column") ELSE IF Missing THEN Failure("column")
             ELSE IF Type THEN Failure("type") ELSE IF Fill THEN Failure("fill")
             ELSE IF Raises(x) THEN Failure("nulls") ELSE Made(x)
<1>4. \A x : Evaluate(nodes, ids, x, sources, node) = Value(x)
  BY DEF Evaluate
<1>5. NoParent(r) = NoParent(s) /\ Upstream(r) = Upstream(s)
  BY <1>1
<1>6. Made(r) = Made(s) /\ Raises(r) = Raises(s)
  BY <1>3
<1> HIDE DEF NoFrame, NoParent, Upstream, Time, Column, Missing, Type, Fill, Source, Made, Raises
<1>7. Value(r) = Value(s)
  BY <1>5, <1>6
<1> HIDE DEF Value
<1>8. QED
  BY <1>4, <1>7

\* The node that stands for the ID of a node: the one the executor takes.
Taken(nodes, ids, n) ==
  CHOOSE m \in 1..Len(nodes) : m \in Range(OrderTaken(nodes, ids)) /\ ids[m] = ids[n]

LEMMA TakenFacts ==
  ASSUME NEW nodes, NEW ids, Program(nodes, ids), NamesInputs(nodes), NEW n \in 1..Len(nodes)
  PROVE  LET m == Taken(nodes, ids, n)
         IN  m \in 1..Len(nodes) /\ m \in Range(OrderTaken(nodes, ids)) /\ ids[m] = ids[n]
<1> DEFINE order == OrderTaken(nodes, ids)
<1>1. /\ Ordered(nodes, ids, order) /\ Holds(ids, order, ids[n])
      /\ \A k \in 1..Len(order) : order[k] \in 1..Len(nodes)
  BY OrderTakenSound
<1> HIDE DEF order
<1>2. DOMAIN order = 1..Len(order)
  BY <1>1 DEF Ordered
<1>3. PICK k \in 1..Len(order) : ids[order[k]] = ids[n]
  BY <1>1 DEF Holds
<1>4. order[k] \in 1..Len(nodes) /\ order[k] \in Range(order)
  BY <1>1, <1>2 DEF Range
<1>5. QED
  BY <1>3, <1>4 DEF Taken, order

\* An execution gives each ID what the node that stands for it makes of the results
\* of the execution.
LEMMA ExecutionIsFixpoint ==
  ASSUME NEW nodes, NEW ids, NEW sources, Program(nodes, ids), NamesInputs(nodes)
  PROVE  LET results == Execute(nodes, ids, sources)
         IN  /\ DOMAIN results = 1..Len(nodes)
             /\ \A n \in 1..Len(nodes) :
                  results[ids[n]]
                    = Evaluate(nodes, ids, results, sources, nodes[Taken(nodes, ids, n)])
<1> DEFINE N == Len(nodes)
           order == OrderTaken(nodes, ids)
           c == Len(order)
           f == ExecutionOf(nodes, ids, sources, order)
           results == Execute(nodes, ids, sources)
           Eval(x, n) == Evaluate(nodes, ids, x, sources, nodes[n])
<1>1. /\ Ordered(nodes, ids, order) /\ c \in Nat
      /\ \A k \in 1..c : order[k] \in 1..N
      /\ \A n \in 1..N : Holds(ids, order, ids[n])
  BY OrderTakenSound
<1>2. /\ f[0] = [m \in 1..N |-> NotRun]
      /\ \A k \in 1..c : f[k] = [f[k - 1] EXCEPT ![ids[order[k]]] = Eval(f[k - 1], order[k])]
      /\ results = f[c]
  BY <1>1, ExecutionSteps DEF OrderTaken
<1>3. N \in Nat /\ \A n \in 1..N : ids[n] \in 1..N
  BY ProgramFacts
<1> HIDE DEF order, f, c, results
<1>4. \A k \in 1..c : ids[order[k]] \in 1..N
  BY <1>1, <1>3
<1>5. \A j, k \in 1..c : ids[order[j]] = ids[order[k]] => j = k
  BY <1>1 DEF Ordered, c
<1> HIDE DEF Eval, N
<1> DEFINE S == {k \in 0..c : /\ DOMAIN f[k] = 1..N
                              /\ \A j \in 1..k : f[k][ids[order[j]]] = Eval(f[j - 1], order[j])}
<1>6. 0 \in S
  BY <1>1, <1>2
<1>7. ASSUME NEW k \in 1..c, k - 1 \in S PROVE k \in S
  <2>1. /\ DOMAIN f[k - 1] = 1..N
        /\ \A j \in 1..(k - 1) : f[k - 1][ids[order[j]]] = Eval(f[j - 1], order[j])
    BY <1>7
  <2>2. f[k] = [f[k - 1] EXCEPT ![ids[order[k]]] = Eval(f[k - 1], order[k])]
    BY <1>2
  <2>3. DOMAIN f[k] = 1..N
    BY <2>1, <2>2
  <2>4. ASSUME NEW j \in 1..k PROVE f[k][ids[order[j]]] = Eval(f[j - 1], order[j])
    <3>1. CASE j = k
      BY <1>4, <2>1, <2>2, <3>1
    <3>2. CASE j \in 1..(k - 1)
      <4>1. j \in 1..c /\ j # k
        BY <1>1, <3>2
      <4>2. ids[order[j]] # ids[order[k]]
        BY <1>5, <4>1
      <4>3. QED
        BY <1>4, <2>1, <2>2, <3>2, <4>1, <4>2
    <3>3. QED
      BY <1>1, <3>1, <3>2
  <2>5. QED
    BY <2>3, <2>4
<1>8. 0..c \subseteq S
  <2> HIDE DEF S
  <2>1. QED
    BY <1>1, <1>6, <1>7, IntervalInduction
<1>9. \A k \in 0..c : /\ DOMAIN f[k] = 1..N
                      /\ \A j \in 1..k : f[k][ids[order[j]]] = Eval(f[j - 1], order[j])
  BY <1>8
<1>10. c \in 0..c
  BY <1>1
<1>11. ASSUME NEW k \in 1..c PROVE results[ids[order[k]]] = Eval(results, order[k])
  <2>1. results[ids[order[k]]] = Eval(f[k - 1], order[k])
    BY <1>2, <1>9, <1>10
  <2>2. ASSUME NEW p \in ParentsOf(nodes[order[k]]) PROVE f[k - 1][ids[p]] = results[ids[p]]
    <3>1. PICK j \in 1..(k - 1) : ids[order[j]] = ids[p]
      BY <1>1 DEF Ordered, c
    <3>2. k - 1 \in 0..c /\ j \in 1..c
      BY <1>1
    <3>3. f[k - 1][ids[order[j]]] = Eval(f[j - 1], order[j])
      BY <1>9, <3>2
    <3>4. results[ids[order[j]]] = Eval(f[j - 1], order[j])
      BY <1>2, <1>9, <1>10, <3>2
    <3>5. QED
      BY <3>1, <3>3, <3>4
  <2>3. Eval(f[k - 1], order[k]) = Eval(results, order[k])
    BY <2>2, EvaluateLooksAtParents DEF Eval
  <2>4. QED
    BY <2>1, <2>3
<1>12. ASSUME NEW n \in 1..N PROVE results[ids[n]] = Eval(results, Taken(nodes, ids, n))
  <2> DEFINE m == Taken(nodes, ids, n)
  <2>1. m \in Range(order) /\ ids[m] = ids[n]
    BY TakenFacts DEF N, order
  <2> HIDE DEF m
  <2>2. DOMAIN order = 1..c
    BY <1>1 DEF Ordered, c
  <2>3. PICK k \in 1..c : order[k] = m
    BY <2>1, <2>2 DEF Range
  <2>4. QED
    BY <1>11, <2>1, <2>3 DEF m
<1>13. DOMAIN results = 1..N
  BY <1>2, <1>9, <1>10
<1>14. QED
  BY <1>12, <1>13 DEF results, Eval, N

-----------------------------------------------------------------------------
(* Typed frames: what alignment and the null policies make of them *)

\* A row, and a frame, with cells of these columns' types.
Typed(row, columns) ==
  /\ row = [time |-> row.time, cells |-> row.cells]
  /\ row.time \in Int /\ DOMAIN row.cells = DOMAIN columns
  /\ row.cells = [c \in DOMAIN columns |-> row.cells[c]]
  /\ \A c \in DOMAIN columns : Fits(row.cells[c], columns[c])
Frame(rows, columns) == IsSeq(rows) /\ \A k \in 1..Len(rows) : Typed(rows[k], columns)

LEMMA AsOfFacts ==
  ASSUME NEW frame, IsSeq(frame), NEW column, NEW time, NEW tolerance
  PROVE  \/ AsOf(frame, column, time, tolerance) = Null
         \/ \E k \in 1..Len(frame) :
              AsOf(frame, column, time, tolerance) = frame[k].cells[column]
<1> DEFINE past == {k \in DOMAIN frame : frame[k].time <= time}
<1>1. Len(frame) \in Nat /\ DOMAIN frame = 1..Len(frame)
  BY SeqFacts
<1>2. past \subseteq 1..Len(frame)
  BY <1>1
<1>3. IsFiniteSet(past) /\ past \subseteq Int
  BY <1>1, <1>2, PositionsFinite
<1>4. past # {} => Max(past) \in 1..Len(frame)
  <2> HIDE DEF past
  <2>1. QED
    BY <1>2, <1>3, MaxFacts
<1>5. QED
  BY <1>4 DEF AsOf

LEMMA TimesFinite ==
  ASSUME NEW frame, IsSeq(frame)
  PROVE  IsFiniteSet({frame[k].time : k \in DOMAIN frame})
<1>1. DOMAIN frame = 1..Len(frame) /\ IsFiniteSet(1..Len(frame))
  BY SeqFacts, FS_Interval
<1> DEFINE T == {frame[k].time : k \in DOMAIN frame}
           f == [k \in DOMAIN frame |-> frame[k].time]
<1>2. f \in Surjection(DOMAIN frame, T)
  BY DEF Surjection
<1>3. QED
  BY <1>1, <1>2, FS_Surjection

LEMMA AlignFrame ==
  ASSUME NEW sources, IsFiniteSet(DOMAIN sources), NEW types, DOMAIN types = DOMAIN sources,
         \A i \in DOMAIN sources :
           /\ IsSeq(sources[i].frame)
           /\ \A k \in 1..Len(sources[i].frame) :
                /\ sources[i].frame[k].time \in Int
                /\ Fits(sources[i].frame[k].cells[sources[i].column], types[i])
  PROVE  Frame(Align(sources), types)
<1> DEFINE Of(i) == {sources[i].frame[k].time : k \in DOMAIN sources[i].frame}
           timeline == UNION {Of(i) : i \in DOMAIN sources}
           times == InOrder(timeline)
           aligned == Align(sources)
<1>1. \A i \in DOMAIN sources : IsFiniteSet(Of(i)) /\ Of(i) \subseteq Int
  <2> SUFFICES ASSUME NEW i \in DOMAIN sources PROVE IsFiniteSet(Of(i)) /\ Of(i) \subseteq Int
    OBVIOUS
  <2>1. IsFiniteSet(Of(i))
    BY TimesFinite
  <2>2. DOMAIN sources[i].frame = 1..Len(sources[i].frame)
    BY SeqFacts
  <2>3. QED
    BY <2>1, <2>2
<1>2. IsFiniteSet(timeline) /\ timeline \subseteq Int
  <2> DEFINE f == [i \in DOMAIN sources |-> Of(i)]
             all == {Of(i) : i \in DOMAIN sources}
  <2> HIDE DEF Of
  <2>1. f \in Surjection(DOMAIN sources, all)
    BY DEF Surjection
  <2>2. IsFiniteSet(all)
    BY <2>1, FS_Surjection
  <2>3. \A s \in all : IsFiniteSet(s) /\ s \subseteq Int
    BY <1>1
  <2> HIDE DEF all
  <2>4. IsFiniteSet(UNION all) /\ UNION all \subseteq Int
    BY <2>2, <2>3, FS_UNION
  <2>5. QED
    BY <2>4 DEF all
<1>3. /\ Cardinality(timeline) \in Nat /\ DOMAIN times = 1..Cardinality(timeline)
      /\ \A k \in 1..Cardinality(timeline) : times[k] \in Int
  <2> HIDE DEF timeline
  <2>1. QED
    BY <1>2, InOrderFacts
<1> DEFINE n == Cardinality(timeline)
           Cell(i, k) == AsOf(sources[i].frame, sources[i].column, times[k], sources[i].tolerance)
<1>4. aligned = [k \in DOMAIN times |->
                   [time |-> times[k], cells |-> [i \in DOMAIN sources |-> Cell(i, k)]]]
  BY DEF Align, TimesOf
<1> HIDE DEF timeline, times, n, aligned
<1>5. ASSUME NEW i \in DOMAIN sources, NEW k PROVE Fits(Cell(i, k), types[i])
  <2>1. \/ Cell(i, k) = Null
        \/ \E j \in 1..Len(sources[i].frame) :
             Cell(i, k) = sources[i].frame[j].cells[sources[i].column]
    BY AsOfFacts
  <2> HIDE DEF Cell
  <2>2. CASE Cell(i, k) = Null
    BY <2>2 DEF Fits
  <2>3. CASE \E j \in 1..Len(sources[i].frame) :
               Cell(i, k) = sources[i].frame[j].cells[sources[i].column]
    <3>1. PICK j \in 1..Len(sources[i].frame) :
                 Cell(i, k) = sources[i].frame[j].cells[sources[i].column]
      BY <2>3
    <3>2. Fits(sources[i].frame[j].cells[sources[i].column], types[i])
      OBVIOUS
    <3>3. QED
      BY <3>1, <3>2
  <2>4. QED
    BY <2>1, <2>2, <2>3
<1> HIDE DEF Cell
<1>6. aligned = [k \in 1..n |-> aligned[k]] /\ DOMAIN times = 1..n /\ n \in Nat
  BY <1>3, <1>4 DEF n
<1>7. IsSeq(aligned) /\ Len(aligned) = n
  BY <1>6, SeqByDomain
<1>8. ASSUME NEW k \in 1..n PROVE Typed(aligned[k], types)
  <2>1. aligned[k] = [time |-> times[k], cells |-> [i \in DOMAIN sources |-> Cell(i, k)]]
    BY <1>4, <1>6
  <2>2. times[k] \in Int
    BY <1>3 DEF n
  <2>3. QED
    BY <1>5, <2>1, <2>2 DEF Typed
<1>9. Frame(aligned, types)
  BY <1>7, <1>8 DEF Frame
<1>10. QED
  BY <1>9 DEF aligned

\* The fill of a column, null when there is none.
FillOf(fills, c) == IF c \in DOMAIN fills THEN fills[c] ELSE Null

\* f[k] is the rows when the lazy policies of the first k columns are done.
LazyRuns(f, rows, columns, widths, policies, fills, n) ==
  f = [k \in 0..n |-> IF k = 0 THEN rows ELSE Lazily(f[k - 1], columns[k], widths[columns[k]], policies[columns[k]], FillOf(fills, columns[k]))]

LEMMA LazyRunsExist ==
  ASSUME NEW rows, NEW columns, NEW widths, NEW policies, NEW fills, NEW n \in Nat
  PROVE  \E f : LazyRuns(f, rows, columns, widths, policies, fills, n)
<1> DEFINE first == rows
           Step(x, k) == Lazily(x, columns[k], widths[columns[k]], policies[columns[k]], FillOf(fills, columns[k]))
           Steps(f, m) == f = [k \in 0..m |-> IF k = 0 THEN first ELSE Step(f[k - 1], k)]
           S == {m \in Nat : \E f : Steps(f, m)}
<1>1. \A f : LazyRuns(f, rows, columns, widths, policies, fills, n) <=> Steps(f, n)
  BY DEF LazyRuns
<1> HIDE DEF first, Step
<1>2. 0 \in S
  <2> DEFINE f == [k \in 0..0 |-> first]
  <2>1. f = [k \in 0..0 |-> IF k = 0 THEN first ELSE Step(f[k - 1], k)]
    OBVIOUS
  <2> HIDE DEF f
  <2>2. QED
    BY <2>1
<1>3. ASSUME NEW m \in Nat, m \in S PROVE m + 1 \in S
  <2>1. PICK f : f = [k \in 0..m |-> IF k = 0 THEN first ELSE Step(f[k - 1], k)]
    BY <1>3
  <2> DEFINE g == [k \in 0..(m + 1) |-> IF k = m + 1 THEN Step(f[m], m + 1) ELSE f[k]]
  <2>2. ASSUME NEW k \in 0..(m + 1)
        PROVE  g[k] = IF k = 0 THEN first ELSE Step(g[k - 1], k)
    <3>1. CASE k = m + 1
      BY <3>1
    <3>2. CASE k # m + 1
      <4>1. k \in 0..m /\ g[k] = f[k] /\ (k # 0 => k - 1 \in 0..m /\ g[k - 1] = f[k - 1])
        BY <3>2
      <4> HIDE DEF g
      <4>2. QED
        BY <2>1, <4>1
    <3>3. QED
      BY <3>1, <3>2
  <2>3. g = [k \in 0..(m + 1) |-> IF k = 0 THEN first ELSE Step(g[k - 1], k)]
    <3>1. g = [k \in 0..(m + 1) |-> g[k]]
      OBVIOUS
    <3> HIDE DEF g
    <3>2. QED
      BY <2>2, <3>1
  <2> HIDE DEF g
  <2>4. QED
    BY <2>3
<1>4. n \in S
  <2> HIDE DEF S
  <2>1. QED
    BY <1>2, <1>3, SetInduction
<1>5. QED
  BY <1>1, <1>4

\* f[k] is what the eager policies of the first k columns leave.
EagerRuns(f, rows, columns, widths, policies, n) ==
  f = [k \in 0..n |-> IF k = 0 THEN Rows(rows) ELSE Eagerly(f[k - 1], columns[k], widths[columns[k]], policies[columns[k]])]

LEMMA EagerRunsExist ==
  ASSUME NEW rows, NEW columns, NEW widths, NEW policies, NEW n \in Nat
  PROVE  \E f : EagerRuns(f, rows, columns, widths, policies, n)
<1> DEFINE first == Rows(rows)
           Step(x, k) == Eagerly(x, columns[k], widths[columns[k]], policies[columns[k]])
           Steps(f, m) == f = [k \in 0..m |-> IF k = 0 THEN first ELSE Step(f[k - 1], k)]
           S == {m \in Nat : \E f : Steps(f, m)}
<1>1. \A f : EagerRuns(f, rows, columns, widths, policies, n) <=> Steps(f, n)
  BY DEF EagerRuns
<1> HIDE DEF first, Step
<1>2. 0 \in S
  <2> DEFINE f == [k \in 0..0 |-> first]
  <2>1. f = [k \in 0..0 |-> IF k = 0 THEN first ELSE Step(f[k - 1], k)]
    OBVIOUS
  <2> HIDE DEF f
  <2>2. QED
    BY <2>1
<1>3. ASSUME NEW m \in Nat, m \in S PROVE m + 1 \in S
  <2>1. PICK f : f = [k \in 0..m |-> IF k = 0 THEN first ELSE Step(f[k - 1], k)]
    BY <1>3
  <2> DEFINE g == [k \in 0..(m + 1) |-> IF k = m + 1 THEN Step(f[m], m + 1) ELSE f[k]]
  <2>2. ASSUME NEW k \in 0..(m + 1)
        PROVE  g[k] = IF k = 0 THEN first ELSE Step(g[k - 1], k)
    <3>1. CASE k = m + 1
      BY <3>1
    <3>2. CASE k # m + 1
      <4>1. k \in 0..m /\ g[k] = f[k] /\ (k # 0 => k - 1 \in 0..m /\ g[k - 1] = f[k - 1])
        BY <3>2
      <4> HIDE DEF g
      <4>2. QED
        BY <2>1, <4>1
    <3>3. QED
      BY <3>1, <3>2
  <2>3. g = [k \in 0..(m + 1) |-> IF k = 0 THEN first ELSE Step(g[k - 1], k)]
    <3>1. g = [k \in 0..(m + 1) |-> g[k]]
      OBVIOUS
    <3> HIDE DEF g
    <3>2. QED
      BY <2>2, <3>1
  <2> HIDE DEF g
  <2>4. QED
    BY <2>3
<1>4. n \in S
  <2> HIDE DEF S
  <2>1. QED
    BY <1>2, <1>3, SetInduction
<1>5. QED
  BY <1>1, <1>4

\* Both, column by column.
Preparation(f, g, rows, columns, widths, policies, fills) ==
  /\ f[0] = rows
  /\ \A k \in 1..Len(columns) :
       f[k] = Lazily(f[k - 1], columns[k], widths[columns[k]], policies[columns[k]],
                     FillOf(fills, columns[k]))
  /\ g[0] = Rows(f[Len(columns)])
  /\ \A k \in 1..Len(columns) :
       g[k] = Eagerly(g[k - 1], columns[k], widths[columns[k]], policies[columns[k]])

LEMMA PrepareSteps ==
  ASSUME NEW rows, NEW columns, NEW widths, NEW policies, NEW fills, Len(columns) \in Nat
  PROVE  \E f, g : /\ Preparation(f, g, rows, columns, widths, policies, fills)
                   /\ Prepare(rows, columns, widths, policies, fills) = g[Len(columns)]
<1> DEFINE n == Len(columns)
           f == CHOOSE h : LazyRuns(h, rows, columns, widths, policies, fills, n)
           g == CHOOSE h : EagerRuns(h, f[n], columns, widths, policies, n)
<1>1. LazyRuns(f, rows, columns, widths, policies, fills, n)
  BY LazyRunsExist
<1>2. EagerRuns(g, f[n], columns, widths, policies, n)
  <2> HIDE DEF f
  <2>1. QED
    BY EagerRunsExist
<1>3. Prepare(rows, columns, widths, policies, fills) = g[n]
  BY DEF Prepare, LazyRuns, EagerRuns, FillOf
<1> HIDE DEF f, g, n
<1> DEFINE L(x, k) == Lazily(x, columns[k], widths[columns[k]], policies[columns[k]],
                             FillOf(fills, columns[k]))
           E(x, k) == Eagerly(x, columns[k], widths[columns[k]], policies[columns[k]])
<1>4. f = [k \in 0..n |-> IF k = 0 THEN rows ELSE L(f[k - 1], k)] /\ n \in Nat
  BY <1>1 DEF LazyRuns, n
<1>5. g = [k \in 0..n |-> IF k = 0 THEN Rows(f[n]) ELSE E(g[k - 1], k)]
  BY <1>2 DEF EagerRuns
<1> HIDE DEF L, E
<1>6. \A k \in 0..n : f[k] = IF k = 0 THEN rows ELSE L(f[k - 1], k)
  BY <1>4, Zenon
<1>7. \A k \in 0..n : g[k] = IF k = 0 THEN Rows(f[n]) ELSE E(g[k - 1], k)
  BY <1>5, Zenon
<1>8. 0 \in 0..n /\ \A k \in 1..n : k \in 0..n /\ k # 0
  BY <1>4
<1>9. /\ f[0] = rows /\ (\A k \in 1..n : f[k] = L(f[k - 1], k))
      /\ g[0] = Rows(f[n]) /\ (\A k \in 1..n : g[k] = E(g[k - 1], k))
  BY <1>6, <1>7, <1>8
<1>10. Preparation(f, g, rows, columns, widths, policies, fills)
  BY <1>9 DEF Preparation, L, E, n
<1>11. QED
  BY <1>3, <1>10 DEF n

LEMMA NoFrame ==
  ASSUME NEW columns PROVE Frame(<<>>, columns)
<1>1. <<>> = [k \in 1..0 |-> <<>>[k]] /\ Len(<<>>) = 0
  OBVIOUS
<1>2. IsSeq(<<>>)
  BY DEF IsSeq
<1>3. QED
  BY <1>1, <1>2 DEF Frame

LEMMA FrameWhere ==
  ASSUME NEW rows, NEW columns, Frame(rows, columns), NEW at, at \subseteq DOMAIN rows
  PROVE  Frame(Where(rows, at), columns)
<1> DEFINE w == Where(rows, at)
           n == Cardinality(at)
<1>1. /\ IsSeq(w) /\ Len(w) = n
      /\ \A k \in 1..n : InOrder(at)[k] \in at /\ w[k] = rows[InOrder(at)[k]]
  BY WhereFacts DEF Frame
<1>2. DOMAIN rows = 1..Len(rows)
  BY SeqFacts DEF Frame
<1> HIDE DEF w, n
<1>3. \A k \in 1..n : \E j \in 1..Len(rows) : w[k] = rows[j]
  BY <1>1, <1>2
<1>4. Frame(w, columns)
  BY <1>1, <1>3 DEF Frame
<1>5. QED
  BY <1>4 DEF w

\* A row with another cell of the type in a column.
WithCell(row, column, cell) == [row EXCEPT !.cells[column] = cell]
Changed(row, later, column, type) ==
  later = row \/ \E cell : Fits(cell, type) /\ later = WithCell(row, column, cell)

LEMMA TypedWith ==
  ASSUME NEW row, NEW columns, Typed(row, columns), NEW column \in DOMAIN columns, NEW later,
         Changed(row, later, column, columns[column])
  PROVE  Typed(later, columns)
<1>1. CASE later = row
  BY <1>1
<1>2. CASE \E cell : Fits(cell, columns[column]) /\ later = WithCell(row, column, cell)
  <2>1. PICK cell : Fits(cell, columns[column]) /\ later = WithCell(row, column, cell)
    BY <1>2
  <2> DEFINE time == row.time
             cells == row.cells
  <2>2. /\ row = [time |-> time, cells |-> cells]
        /\ time \in Int /\ DOMAIN cells = DOMAIN columns
        /\ cells = [c \in DOMAIN columns |-> cells[c]]
        /\ \A c \in DOMAIN columns : Fits(cells[c], columns[c])
    BY DEF Typed
  <2> HIDE DEF time, cells
  <2>3. later = [row EXCEPT !.cells = [row.cells EXCEPT ![column] = cell]]
    BY <2>1 DEF WithCell
  <2>4. later = [time |-> time, cells |-> [cells EXCEPT ![column] = cell]]
    BY <2>2, <2>3
  <2> DEFINE new == [cells EXCEPT ![column] = cell]
  <2>5. /\ DOMAIN new = DOMAIN columns /\ new = [c \in DOMAIN columns |-> new[c]]
        /\ \A c \in DOMAIN columns : Fits(new[c], columns[c])
    BY <2>1, <2>2
  <2> HIDE DEF new
  <2>6. later.time = time /\ later.cells = new
    BY <2>4 DEF new
  <2>7. QED
    BY <2>2, <2>4, <2>5, <2>6 DEF Typed, new
<1>3. QED
  BY <1>1, <1>2 DEF Changed

LEMMA FrameWith ==
  ASSUME NEW rows, NEW columns, Frame(rows, columns), NEW column \in DOMAIN columns, NEW later,
         later = [k \in DOMAIN rows |-> later[k]],
         \A k \in 1..Len(rows) : Changed(rows[k], later[k], column, columns[column])
  PROVE  Frame(later, columns)
<1> DEFINE n == Len(rows)
<1>1. n \in Nat /\ DOMAIN rows = 1..n
  BY SeqFacts DEF Frame
<1>2. IsSeq(later) /\ Len(later) = n
  BY <1>1, SeqByDomain
<1>3. \A k \in 1..n : Typed(later[k], columns)
  BY TypedWith DEF Frame
<1>4. QED
  BY <1>2, <1>3 DEF Frame

LEMMA LazilyFrame ==
  ASSUME NEW rows, NEW columns, Frame(rows, columns), NEW column \in DOMAIN columns,
         NEW policy, NEW fill
  PROVE  Frame(Lazily(rows, column, columns[column].width, policy, fill), columns)
<1> DEFINE width == columns[column].width
           later == Lazily(rows, column, width, policy, fill)
<1>1. DOMAIN rows = 1..Len(rows)
  BY SeqFacts DEF Frame
<1>2. CASE policy = "drop"
  <2> DEFINE at == {k \in DOMAIN rows : ~IsMissing(rows[k].cells[column], width)}
  <2>1. later = Where(rows, at)
    BY <1>2 DEF Lazily
  <2>2. at \subseteq DOMAIN rows
    OBVIOUS
  <2> HIDE DEF at, later
  <2>3. QED
    BY <2>1, <2>2, FrameWhere DEF later
<1>3. CASE policy = "fill"
  <2> DEFINE Cell(k) == Filled(rows[k].cells[column], width, fill)
  <2>1. later = [k \in DOMAIN rows |-> WithCell(rows[k], column, Cell(k))]
    BY <1>3 DEF Lazily, WithCell
  <2>2. ASSUME NEW k \in 1..Len(rows) PROVE Fits(Cell(k), columns[column])
    <3>1. Fits(rows[k].cells[column], columns[column])
      BY DEF Frame, Typed
    <3>2. QED
      BY <3>1 DEF Fits, Filled
  <2> HIDE DEF later, Cell
  <2>3. later = [k \in DOMAIN rows |-> later[k]]
    BY <2>1
  <2>4. \A k \in 1..Len(rows) : Changed(rows[k], later[k], column, columns[column])
    BY <1>1, <2>1, <2>2 DEF Changed
  <2>5. Frame(later, columns)
    BY <2>3, <2>4, FrameWith
  <2>6. QED
    BY <2>5 DEF later
<1>4. CASE policy # "drop" /\ policy # "fill"
  BY <1>4 DEF Lazily
<1>5. QED
  BY <1>2, <1>3, <1>4

LEMMA HandledFrame ==
  ASSUME NEW rows, NEW columns, Frame(rows, columns), NEW column \in DOMAIN columns
  PROVE  Frame(Handled(rows, column, columns[column].width), columns)
<1> DEFINE width == columns[column].width
           later == Handled(rows, column, width)
           known(k) == {j \in 1..k : ~IsMissing(rows[j].cells[column], width)}
<1>1. DOMAIN rows = 1..Len(rows) /\ Len(rows) \in Nat
  BY SeqFacts DEF Frame
<1>2. later = [k \in DOMAIN rows |->
                 IF known(k) = {} THEN rows[k]
                 ELSE WithCell(rows[k], column, rows[Max(known(k))].cells[column])]
  BY DEF Handled, WithCell
<1>3. ASSUME NEW k \in 1..Len(rows), known(k) # {} PROVE Max(known(k)) \in 1..Len(rows)
  <2>1. k \in Nat /\ known(k) \subseteq 1..k
    BY <1>1
  <2>2. IsFiniteSet(known(k)) /\ known(k) \subseteq Int
    BY <2>1, PositionsFinite
  <2> HIDE DEF known
  <2>3. Max(known(k)) \in known(k)
    BY <1>3, <2>2, MaxFacts
  <2>4. QED
    BY <1>1, <2>1, <2>3
<1> HIDE DEF later, known
<1>4. later = [k \in DOMAIN rows |-> later[k]]
  BY <1>2
<1>5. ASSUME NEW k \in 1..Len(rows) PROVE Changed(rows[k], later[k], column, columns[column])
  <2>1. CASE known(k) = {}
    BY <1>1, <1>2, <2>1 DEF Changed
  <2>2. CASE known(k) # {}
    <3>1. Fits(rows[Max(known(k))].cells[column], columns[column])
      BY <1>3, <2>2 DEF Frame, Typed
    <3>2. later[k] = WithCell(rows[k], column, rows[Max(known(k))].cells[column])
      BY <1>1, <1>2, <2>2
    <3>3. QED
      BY <3>1, <3>2 DEF Changed
  <2>3. QED
    BY <2>1, <2>2
<1>6. Frame(later, columns)
  BY <1>4, <1>5, FrameWith
<1>7. QED
  BY <1>6 DEF later

LEMMA EagerlyFrame ==
  ASSUME NEW prepared, NEW columns, Frame(prepared.rows, columns), NEW column \in DOMAIN columns,
         NEW policy
  PROVE  Frame(Eagerly(prepared, column, columns[column].width, policy).rows, columns)
<1> DEFINE width == columns[column].width
           later == Eagerly(prepared, column, width, policy)
<1>1. \/ later = Raised \/ later = Rows(Handled(prepared.rows, column, width))
      \/ later = prepared
  BY DEF Eagerly
<1> HIDE DEF later
<1>2. CASE later = Raised
  BY <1>2, NoFrame DEF Raised, later
<1>3. CASE later = Rows(Handled(prepared.rows, column, width))
  BY <1>3, HandledFrame DEF Rows, later
<1>4. CASE later = prepared
  BY <1>4 DEF later
<1>5. QED
  BY <1>1, <1>2, <1>3, <1>4

LEMMA PrepareFrame ==
  ASSUME NEW rows, NEW types, Frame(rows, types), NEW columns, Len(columns) \in Nat,
         \A k \in 1..Len(columns) : columns[k] \in DOMAIN types,
         NEW widths, \A c \in DOMAIN types : widths[c] = types[c].width,
         NEW policies, NEW fills
  PROVE  Frame(Prepare(rows, columns, widths, policies, fills).rows, types)
<1> DEFINE n == Len(columns)
<1>1. PICK f, g : /\ Preparation(f, g, rows, columns, widths, policies, fills)
                  /\ Prepare(rows, columns, widths, policies, fills) = g[n]
  BY PrepareSteps, Zenon
<1>2. \A k \in 1..n : columns[k] \in DOMAIN types /\ widths[columns[k]] = types[columns[k]].width
  OBVIOUS
<1> DEFINE S == {k \in 0..n : Frame(f[k], types)}
           T == {k \in 0..n : Frame(g[k].rows, types)}
<1>3. 0 \in S /\ \A k \in 1..n : k - 1 \in S => k \in S
  <2>1. 0 \in S
    BY <1>1 DEF Preparation
  <2>2. ASSUME NEW k \in 1..n, Frame(f[k - 1], types) PROVE Frame(f[k], types)
    <3> DEFINE c == columns[k]
               p == policies[c]
               v == FillOf(fills, c)
    <3>1. f[k] = Lazily(f[k - 1], c, types[c].width, p, v) /\ c \in DOMAIN types
      BY <1>1, <1>2 DEF Preparation
    <3> HIDE DEF c, p, v
    <3>2. QED
      BY <2>2, <3>1, LazilyFrame
  <2>3. QED
    BY <2>1, <2>2
<1>4. 0..n \subseteq S
  <2> HIDE DEF S
  <2>1. QED
    BY <1>3, IntervalInduction
<1>5. 0 \in T
  BY <1>1, <1>4 DEF Preparation, Rows
<1>6. \A k \in 1..n : k - 1 \in T => k \in T
  <2>1. ASSUME NEW k \in 1..n, Frame(g[k - 1].rows, types) PROVE Frame(g[k].rows, types)
    <3> DEFINE c == columns[k]
               p == policies[c]
               q == g[k - 1]
    <3>1. g[k] = Eagerly(q, c, types[c].width, p) /\ c \in DOMAIN types
      BY <1>1, <1>2 DEF Preparation
    <3> HIDE DEF c, p, q
    <3>2. Frame(q.rows, types)
      BY <2>1 DEF q
    <3>3. QED
      BY <3>1, <3>2, EagerlyFrame
  <2>2. QED
    BY <2>1
<1>7. 0..n \subseteq T
  <2> HIDE DEF T
  <2>1. QED
    BY <1>5, <1>6, IntervalInduction
<1>8. QED
  BY <1>1, <1>7

-----------------------------------------------------------------------------
(* What a function makes of typed rows has the columns it declared *)

Itemwise == {"abs", "sign", "sqrt", "power", "clip", "negate", "log", "logit"}
Struct == {"spread", "product", "ratio", "log_ratio"}
Shifts == {"lag", "lead", "delta"}
Returns == {"pct_change", "log_return"}
Rolling ==
  {"rolling_sum", "rolling_mean", "rolling_max", "rolling_min", "rolling_median",
   "rolling_quantile", "rolling_var", "rolling_std", "rolling_z_score",
   "rolling_percentile_rank"}
Ewm == {"ewm_mean", "ewm_std"}
Metrics == {"total_return", "max_drawdown", "sharpe"}
ErrorMetrics == {"mse", "mae"}
Models == {"model", "trainer"}

LEMMA Kinds ==
  ASSUME NEW op \in Operations
  PROVE  /\ op \in Itemwise => Kind(op) = "itemwise"
         /\ op \in Struct => Kind(op) = "struct"
         /\ op \in Shifts => Kind(op) = "shift"
         /\ op \in Returns => Kind(op) = "return"
         /\ op \in Rolling => Kind(op) = "rolling"
         /\ op \in Ewm => Kind(op) = "ewm"
         /\ op \in Metrics => Kind(op) = "metric"
         /\ op \in ErrorMetrics => Kind(op) = "error_metric"
         /\ op \in Models => Kind(op) = "supervised"
         /\ op \notin Itemwise \union Struct \union Shifts \union Returns \union Rolling
                        \union Ewm \union Metrics \union ErrorMetrics \union Models =>
              /\ Kind(op) = op
              /\ op \in {"source", "rolling_cov", "rolling_cov_matrix", "feature_packer",
                         "feature_unpacker", "backtest"}
  BY Zenon DEF Operations, Kind, Itemwise, Struct, Shifts, Returns, Rolling, Ewm, Metrics,
         ErrorMetrics, Models

\* One cell of a column per row.
OutOf(rows, column) ==
  [k \in DOMAIN rows |-> [time |-> rows[k].time, cells |-> [value |-> column[k]]]]

LEMMA OutFrame ==
  ASSUME NEW rows, NEW columns, Frame(rows, columns), NEW types, DOMAIN types = {"value"},
         NEW column, \A k \in 1..Len(rows) : Fits(column[k], types["value"])
  PROVE  Frame(OutOf(rows, column), types)
<1> DEFINE out == OutOf(rows, column)
           n == Len(rows)
<1>1. DOMAIN rows = 1..n /\ n \in Nat
  BY SeqFacts DEF Frame
<1>2. out = [k \in 1..n |-> [time |-> rows[k].time, cells |-> [value |-> column[k]]]]
  BY <1>1 DEF OutOf
<1> HIDE DEF out, n
<1>3. IsSeq(out) /\ Len(out) = n
  BY <1>1, <1>2, SeqByDomain
<1>4. ASSUME NEW k \in 1..n PROVE Typed(out[k], types)
  <2>1. out[k] = [time |-> rows[k].time, cells |-> [value |-> column[k]]]
    BY <1>2
  <2>2. rows[k].time \in Int
    BY DEF Frame, Typed, n
  <2>3. Fits(column[k], types["value"])
    BY DEF n
  <2>4. QED
    BY <2>1, <2>2, <2>3 DEF Typed
<1>5. Frame(out, types)
  BY <1>3, <1>4 DEF Frame
<1>6. QED
  BY <1>5 DEF out

\* Any cell is a cell of a scalar column.
LEMMA ScalarFrame ==
  ASSUME NEW rows, NEW columns, Frame(rows, columns), NEW column
  PROVE  Frame(OutOf(rows, column), [value |-> Float])
<1>1. \A k \in 1..Len(rows) : Fits(column[k], [value |-> Float]["value"])
  BY DEF Fits, Float
<1>2. DOMAIN [value |-> Float] = {"value"}
  OBVIOUS
<1>3. QED
  BY <1>1, <1>2, OutFrame

LEMMA Shapes ==
  ASSUME NEW op \in Operations, op # "source", NEW args, NEW bound
  PROVE  /\ op \in Itemwise \union Shifts =>
              /\ InputColumns(op, args, bound) = [value |-> FloatOf(bound, "value")]
              /\ OutputColumns(op, args, bound) = [value |-> FloatOf(bound, "value")]
         /\ op \in Struct =>
              /\ InputColumns(op, args, bound)
                   = [left |-> FloatOf(bound, "left"), right |-> FloatOf(bound, "right")]
              /\ OutputColumns(op, args, bound) = [value |-> FloatOf(bound, "left")]
         /\ op \in Returns \union Rolling \union Ewm \union Metrics =>
              /\ InputColumns(op, args, bound) = [value |-> Float]
              /\ OutputColumns(op, args, bound) = [value |-> Float]
         /\ op \in ErrorMetrics \union {"rolling_cov"} =>
              /\ InputColumns(op, args, bound) = [left |-> Float, right |-> Float]
              /\ OutputColumns(op, args, bound) = [value |-> Float]
         /\ op = "rolling_cov_matrix" =>
              /\ InputColumns(op, args, bound) = [c \in Range(args.input_columns) |-> Float]
              /\ OutputColumns(op, args, bound)
                   = [value |-> Vector(Len(args.input_columns) * Len(args.input_columns))]
         /\ op \in Models =>
              /\ InputColumns(op, args, bound)
                   = [features |-> FloatOf(bound, "features"), target |-> FloatOf(bound, "target")]
              /\ op = "model" => OutputColumns(op, args, bound)
                                  = [value |-> Vector(FlatSize(bound.target.width))]
              /\ op = "trainer" => OutputColumns(op, args, bound) = [c \in {} |-> Float]
         /\ op = "backtest" =>
              /\ InputColumns(op, args, bound) = [signal |-> Float]
              /\ OutputColumns(op, args, bound) = [value |-> Float]
<1>1. /\ op \in Itemwise => Kind(op) = "itemwise"
      /\ op \in Struct => Kind(op) = "struct"
      /\ op \in Shifts => Kind(op) = "shift"
      /\ op \in Returns => Kind(op) = "return"
      /\ op \in Rolling => Kind(op) = "rolling"
      /\ op \in Ewm => Kind(op) = "ewm"
      /\ op \in Metrics => Kind(op) = "metric"
      /\ op \in ErrorMetrics => Kind(op) = "error_metric"
      /\ op \in Models => Kind(op) = "supervised"
      /\ op \in {"rolling_cov", "rolling_cov_matrix", "backtest"} => Kind(op) = op
  BY Kinds DEF Itemwise, Struct, Shifts, Returns, Rolling, Ewm, Metrics, ErrorMetrics, Models
<1>2. CASE op \in Itemwise
  BY <1>1, <1>2 DEF InputColumns, OutputColumns, Itemwise, Struct, Shifts, Returns, Rolling, Ewm, Metrics, ErrorMetrics, Models
<1>3. CASE op \in Shifts
  BY <1>1, <1>3 DEF InputColumns, OutputColumns, Itemwise, Struct, Shifts, Returns, Rolling, Ewm, Metrics, ErrorMetrics, Models
<1>4. CASE op \in Struct
  BY <1>1, <1>4 DEF InputColumns, OutputColumns, Itemwise, Struct, Shifts, Returns, Rolling, Ewm, Metrics, ErrorMetrics, Models
<1>5. CASE op \in Returns \union Rolling \union Ewm \union Metrics
  BY <1>1, <1>5 DEF InputColumns, OutputColumns, Itemwise, Struct, Shifts, Returns, Rolling, Ewm, Metrics, ErrorMetrics, Models
<1>6. CASE op \in ErrorMetrics \union {"rolling_cov"}
  BY <1>1, <1>6 DEF InputColumns, OutputColumns, Itemwise, Struct, Shifts, Returns, Rolling, Ewm, Metrics, ErrorMetrics, Models
<1>7. CASE op \in Models
  BY <1>1, <1>7 DEF InputColumns, OutputColumns, Itemwise, Struct, Shifts, Returns, Rolling, Ewm, Metrics, ErrorMetrics, Models
<1>8. CASE op \in {"rolling_cov_matrix", "backtest"}
  BY <1>1, <1>8 DEF InputColumns, OutputColumns, Itemwise, Struct, Shifts, Returns, Rolling, Ewm, Metrics, ErrorMetrics, Models
<1>9. QED
  BY <1>2, <1>3, <1>4, <1>5, <1>6, <1>7, <1>8

\* Functions that make a scalar column of their rows, whatever it holds.
Columnar == Returns \union Rolling \union Ewm \union {"rolling_cov", "backtest"}

\* The cells of an input, and the column each of these functions makes.
Column(rows, i) == [k \in DOMAIN rows |-> rows[k].cells[i]]
ColumnOf(op, args, rows) ==
  CASE op = "pct_change" -> PctChange(Column(rows, "value"), args.periods)
    [] op = "log_return" -> LogReturn(Column(rows, "value"), args.periods)
    [] op = "rolling_sum" -> RollingSum(Column(rows, "value"), args)
    [] op = "rolling_mean" -> RollingMean(Column(rows, "value"), args)
    [] op = "rolling_max" -> RollingMax(Column(rows, "value"), args)
    [] op = "rolling_min" -> RollingMin(Column(rows, "value"), args)
    [] op = "rolling_median" -> RollingMedian(Column(rows, "value"), args)
    [] op = "rolling_quantile" -> RollingQuantile(Column(rows, "value"), args)
    [] op = "rolling_var" -> RollingVar(Column(rows, "value"), args)
    [] op = "rolling_std" -> RollingStd(Column(rows, "value"), args)
    [] op = "rolling_z_score" -> RollingZScore(Column(rows, "value"), args)
    [] op = "rolling_percentile_rank" -> RollingPercentileRank(Column(rows, "value"), args)
    [] op = "ewm_mean" -> EwmMean(Column(rows, "value"), args)
    [] op = "ewm_std" -> EwmStd(Column(rows, "value"), args)
    [] op = "rolling_cov" -> RollingCov(Column(rows, "left"), Column(rows, "right"), args)
    [] op = "backtest" -> Column(rows, "signal")

LEMMA ColumnarApply ==
  ASSUME NEW fn, fn.op \in Columnar, NEW rows
  PROVE  Apply(fn, rows) = OutOf(rows, ColumnOf(fn.op, fn.args, rows))
<1>1. fn.op \in Operations
  BY DEF Columnar, Operations, Returns, Rolling, Ewm
<1>2. Kind(fn.op) \notin {"metric", "error_metric", "supervised"}
  BY <1>1, Kinds DEF Columnar, Returns, Rolling, Ewm, Itemwise, Struct, Shifts, Metrics,
                     ErrorMetrics, Models
<1>3. CASE fn.op = "pct_change"
  BY <1>2, <1>3 DEF Apply, OutOf, ColumnOf, Column
<1>4. CASE fn.op = "log_return"
  BY <1>2, <1>4 DEF Apply, OutOf, ColumnOf, Column
<1>5. CASE fn.op = "rolling_sum"
  BY <1>2, <1>5 DEF Apply, OutOf, ColumnOf, Column
<1>6. CASE fn.op = "rolling_mean"
  BY <1>2, <1>6 DEF Apply, OutOf, ColumnOf, Column
<1>7. CASE fn.op = "rolling_max"
  BY <1>2, <1>7 DEF Apply, OutOf, ColumnOf, Column
<1>8. CASE fn.op = "rolling_min"
  BY <1>2, <1>8 DEF Apply, OutOf, ColumnOf, Column
<1>9. CASE fn.op = "rolling_median"
  BY <1>2, <1>9 DEF Apply, OutOf, ColumnOf, Column
<1>10. CASE fn.op = "rolling_quantile"
  BY <1>2, <1>10 DEF Apply, OutOf, ColumnOf, Column
<1>11. CASE fn.op = "rolling_var"
  BY <1>2, <1>11 DEF Apply, OutOf, ColumnOf, Column
<1>12. CASE fn.op = "rolling_std"
  BY <1>2, <1>12 DEF Apply, OutOf, ColumnOf, Column
<1>13. CASE fn.op = "rolling_z_score"
  BY <1>2, <1>13 DEF Apply, OutOf, ColumnOf, Column
<1>14. CASE fn.op = "rolling_percentile_rank"
  BY <1>2, <1>14 DEF Apply, OutOf, ColumnOf, Column
<1>15. CASE fn.op = "ewm_mean"
  BY <1>2, <1>15 DEF Apply, OutOf, ColumnOf, Column
<1>16. CASE fn.op = "ewm_std"
  BY <1>2, <1>16 DEF Apply, OutOf, ColumnOf, Column
<1>17. CASE fn.op = "rolling_cov"
  BY <1>2, <1>17 DEF Apply, OutOf, ColumnOf, Column
<1>18. CASE fn.op = "backtest"
  BY <1>2, <1>18 DEF Apply, OutOf, ColumnOf, Column
<1>19. QED
  BY <1>3, <1>4, <1>5, <1>6, <1>7, <1>8, <1>9, <1>10, <1>11, <1>12, <1>13, <1>14,
     <1>15, <1>16, <1>17, <1>18
     DEF Columnar, Returns, Rolling, Ewm

\* What a function of one value makes of a scalar, and of a cell.
Item(op, args, c) ==
  CASE op = "log" -> Log(c)
    [] op = "logit" -> Logit(c)
    [] op = "sqrt" -> Sqrt(c)
    [] op = "abs" -> Abs(c)
    [] op = "sign" -> Sign(c)
    [] op = "negate" -> Negate(c)
    [] op = "clip" -> Clip(c, args.lower, args.upper)
    [] op = "power" -> Power(c, args.exponent)
EachItem(op, args, cell, width) ==
  IF width = 0 THEN Item(op, args, cell)
  ELSE IF cell = Null THEN Null ELSE [j \in DOMAIN cell |-> Item(op, args, cell[j])]

LEMMA ItemwiseApply ==
  ASSUME NEW fn, fn.op \in Itemwise, NEW rows, fn.in.columns["value"].width \in Nat
  PROVE  Apply(fn, rows) =
           OutOf(rows, [k \in DOMAIN rows |->
                          EachItem(fn.op, fn.args, rows[k].cells["value"],
                                   fn.in.columns["value"].width)])
<1> DEFINE width == fn.in.columns["value"].width
           args == fn.args
           op == fn.op
           Cell(k) == rows[k].cells["value"]
           column == [k \in DOMAIN rows |-> EachItem(op, args, Cell(k), width)]
<1>1. op \in Operations
  BY DEF Itemwise, Operations
<1>2. Kind(op) \notin {"metric", "error_metric", "supervised"}
  BY <1>1, Kinds DEF Itemwise
<1>3. CASE op = "log"
  <2>1. Apply(fn, rows) = OutOf(rows, [k \in DOMAIN rows |-> Each(Log, Cell(k), width)])
    BY <1>2, <1>3 DEF Apply, OutOf
  <2>2. \A k : Each(Log, Cell(k), width) = EachItem(op, args, Cell(k), width)
    BY <1>3 DEF Each, EachItem, Item
  <2>3. QED
    BY <2>1, <2>2
<1>4. CASE op = "logit"
  <2>1. Apply(fn, rows) = OutOf(rows, [k \in DOMAIN rows |-> Each(Logit, Cell(k), width)])
    BY <1>2, <1>4 DEF Apply, OutOf
  <2>2. \A k : Each(Logit, Cell(k), width) = EachItem(op, args, Cell(k), width)
    BY <1>4 DEF Each, EachItem, Item
  <2>3. QED
    BY <2>1, <2>2
<1>5. CASE op = "sqrt"
  <2>1. Apply(fn, rows) = OutOf(rows, [k \in DOMAIN rows |-> Each(Sqrt, Cell(k), width)])
    BY <1>2, <1>5 DEF Apply, OutOf
  <2>2. \A k : Each(Sqrt, Cell(k), width) = EachItem(op, args, Cell(k), width)
    BY <1>5 DEF Each, EachItem, Item
  <2>3. QED
    BY <2>1, <2>2
<1>6. CASE op = "abs"
  <2>1. Apply(fn, rows) = OutOf(rows, [k \in DOMAIN rows |-> Each(Abs, Cell(k), width)])
    BY <1>2, <1>6 DEF Apply, OutOf
  <2>2. \A k : Each(Abs, Cell(k), width) = EachItem(op, args, Cell(k), width)
    BY <1>6 DEF Each, EachItem, Item
  <2>3. QED
    BY <2>1, <2>2
<1>7. CASE op = "sign"
  <2>1. Apply(fn, rows) = OutOf(rows, [k \in DOMAIN rows |-> Each(Sign, Cell(k), width)])
    BY <1>2, <1>7 DEF Apply, OutOf
  <2>2. \A k : Each(Sign, Cell(k), width) = EachItem(op, args, Cell(k), width)
    BY <1>7 DEF Each, EachItem, Item
  <2>3. QED
    BY <2>1, <2>2
<1>8. CASE op = "negate"
  <2>1. Apply(fn, rows) = OutOf(rows, [k \in DOMAIN rows |-> Each(Negate, Cell(k), width)])
    BY <1>2, <1>8 DEF Apply, OutOf
  <2>2. \A k : Each(Negate, Cell(k), width) = EachItem(op, args, Cell(k), width)
    BY <1>8 DEF Each, EachItem, Item
  <2>3. QED
    BY <2>1, <2>2
<1>9. CASE op = "clip"
  <2>1. Apply(fn, rows) = OutOf(rows, [k \in DOMAIN rows |-> Each(LAMBDA c : Clip(c, args.lower, args.upper), Cell(k), width)])
    BY <1>2, <1>9 DEF Apply, OutOf
  <2>2. \A k : Each(LAMBDA c : Clip(c, args.lower, args.upper), Cell(k), width) = EachItem(op, args, Cell(k), width)
    BY <1>9 DEF Each, EachItem, Item
  <2>3. QED
    BY <2>1, <2>2
<1>10. CASE op = "power"
  <2>1. Apply(fn, rows) = OutOf(rows, [k \in DOMAIN rows |-> Each(LAMBDA c : Power(c, args.exponent), Cell(k), width)])
    BY <1>2, <1>10 DEF Apply, OutOf
  <2>2. \A k : Each(LAMBDA c : Power(c, args.exponent), Cell(k), width) = EachItem(op, args, Cell(k), width)
    BY <1>10 DEF Each, EachItem, Item
  <2>3. QED
    BY <2>1, <2>2
<1>11. QED
  BY <1>3, <1>4, <1>5, <1>6, <1>7, <1>8, <1>9, <1>10 DEF Itemwise

LEMMA ItemwiseFits ==
  ASSUME NEW op, NEW args, NEW cell, NEW type, type.width \in Nat, Fits(cell, type)
  PROVE  Fits(EachItem(op, args, cell, type.width), type)
  BY DEF Fits, EachItem

\* What a function of two values makes of two scalars, and of two cells.
PairItem(op, a, b) ==
  CASE op = "spread" -> Lift(Minus, a, b)
    [] op = "product" -> Lift(Times, a, b)
    [] op = "ratio" -> LET quotient == Lift(Over, a, b)
                       IN  IF IsInfinite(quotient) THEN Null ELSE quotient
EachPair(op, a, b, width) ==
  IF width = 0 THEN PairItem(op, a, b)
  ELSE IF a = Null \/ b = Null THEN Null ELSE [j \in DOMAIN a |-> PairItem(op, a[j], b[j])]

LEMMA StructApply ==
  ASSUME NEW fn, fn.op \in {"spread", "product", "ratio"}, NEW rows,
         fn.in.columns["left"].width \in Nat,
         \A k \in DOMAIN rows : Fits(rows[k].cells["left"], fn.in.columns["left"])
  PROVE  Apply(fn, rows) =
           OutOf(rows, [k \in DOMAIN rows |->
                          EachPair(fn.op, rows[k].cells["left"], rows[k].cells["right"],
                                   fn.in.columns["left"].width)])
<1> DEFINE width == fn.in.columns["left"].width
           op == fn.op
           L(k) == rows[k].cells["left"]
           R(k) == rows[k].cells["right"]
<1>1. op \in Operations
  BY DEF Operations
<1>2. Kind(op) \notin {"metric", "error_metric", "supervised"}
  BY <1>1, Kinds DEF Struct
<1>3. CASE op = "spread"
  <2>1. Apply(fn, rows) = OutOf(rows, [k \in DOMAIN rows |-> Pairwise(Spread, L(k), R(k), width)])
    BY <1>2, <1>3 DEF Apply, OutOf
  <2>2. \A k : Pairwise(Spread, L(k), R(k), width) = EachPair(op, L(k), R(k), width)
    BY <1>3 DEF Pairwise, EachPair, PairItem, Spread
  <2>3. QED
    BY <2>1, <2>2
<1>4. CASE op = "product"
  <2>1. Apply(fn, rows) = OutOf(rows, [k \in DOMAIN rows |-> Pairwise(Product, L(k), R(k), width)])
    BY <1>2, <1>4 DEF Apply, OutOf
  <2>2. \A k : Pairwise(Product, L(k), R(k), width) = EachPair(op, L(k), R(k), width)
    BY <1>4 DEF Pairwise, EachPair, PairItem, Product
  <2>3. QED
    BY <2>1, <2>2
<1>5. CASE op = "ratio"
  <2>1. Apply(fn, rows) = OutOf(rows, [k \in DOMAIN rows |-> Ratio(L(k), R(k), width)])
    BY <1>2, <1>5 DEF Apply, OutOf
  <2>2. ASSUME NEW k \in DOMAIN rows
        PROVE  Ratio(L(k), R(k), width) = EachPair(op, L(k), R(k), width)
    <3> DEFINE a == L(k)
               b == R(k)
    <3>1. width > 0 => a = Null \/ DOMAIN a = 1..width
      BY DEF Fits
    <3> SUFFICES Ratio(a, b, width) = EachPair(op, a, b, width)
      OBVIOUS
    <3> HIDE DEF a, b, width
    <3>2. width \in Nat
      BY DEF width
    <3>3. CASE width = 0
      BY <1>5, <3>3 DEF Ratio, Each, Pairwise, EachPair, PairItem
    <3>4. CASE width > 0 /\ (a = Null \/ b = Null)
      BY <1>5, <3>2, <3>4 DEF Ratio, Each, Pairwise, EachPair, PairItem
    <3>5. CASE width > 0 /\ ~(a = Null \/ b = Null)
      <4> DEFINE q == [j \in DOMAIN a |-> Lift(Over, a[j], b[j])]
      <4>1. DOMAIN a = 1..width /\ 1 \in DOMAIN a
        BY <3>1, <3>2, <3>5
      <4>2. q # Null
        <5>1. 1 \in DOMAIN q
          BY <4>1
        <5> HIDE DEF q
        <5>2. QED
          BY <5>1 DEF Null
      <4>3. Ratio(a, b, width) = [j \in DOMAIN a |-> IF IsInfinite(q[j]) THEN Null ELSE q[j]]
        <5> HIDE DEF q
        <5>1. DOMAIN q = DOMAIN a
          BY DEF q
        <5>2. width # 0
          BY <3>5
        <5>3. QED
          BY <3>2, <3>5, <4>2, <5>1, <5>2 DEF Ratio, Each, Pairwise, q
      <4>4. \A j \in DOMAIN a : q[j] = Lift(Over, a[j], b[j])
        OBVIOUS
      <4> HIDE DEF q
      <4>5. \A j \in DOMAIN a :
              (IF IsInfinite(q[j]) THEN Null ELSE q[j]) = PairItem(op, a[j], b[j])
        BY <1>5, <4>4 DEF PairItem
      <4>6. EachPair(op, a, b, width) = [j \in DOMAIN a |-> PairItem(op, a[j], b[j])]
        BY <3>5 DEF EachPair
      <4>7. QED
        BY <4>3, <4>5, <4>6
    <3>6. QED
      BY <3>2, <3>3, <3>4, <3>5 DEF a, b, width
  <2>3. QED
    BY <2>1, <2>2
<1>6. QED
  BY <1>3, <1>4, <1>5

LEMMA StructFits ==
  ASSUME NEW op, NEW a, NEW b, NEW type, type.width \in Nat, Fits(a, type)
  PROVE  Fits(EachPair(op, a, b, type.width), type)
  BY DEF Fits, EachPair

LEMMA LogRatioApply ==
  ASSUME NEW fn, fn.op = "log_ratio", NEW rows
  PROVE  Apply(fn, rows) =
           OutOf(rows, [k \in DOMAIN rows |->
                          LogRatio(rows[k].cells["left"], rows[k].cells["right"],
                                   fn.in.columns["left"].width)])
<1>1. Kind(fn.op) \notin {"metric", "error_metric", "supervised"}
  BY DEF Kind
<1>2. QED
  BY <1>1 DEF Apply, OutOf

LEMMA LogRatioFits ==
  ASSUME NEW a, NEW b, NEW type, type.width \in Nat, Fits(a, type)
  PROVE  Fits(LogRatio(a, b, type.width), type)
<1> DEFINE width == type.width
<1>1. width > 0 => a = Null \/ DOMAIN a = 1..width
  BY DEF Fits
<1> HIDE DEF width
<1>2. width \in Nat
  BY DEF width
<1>3. CASE width = 0
  BY <1>3 DEF Fits, width
<1>4. CASE width > 0 /\ (a = Null \/ b = Null)
  BY <1>4 DEF Fits, LogRatio, width
<1>5. CASE width > 0 /\ ~(a = Null \/ b = Null)
  <2> DEFINE q == [j \in DOMAIN a |-> Lift(Over, a[j], b[j])]
  <2>1. DOMAIN a = 1..width /\ 1 \in DOMAIN a /\ DOMAIN q = 1..width
    BY <1>1, <1>2, <1>5
  <2>2. q # Null
    <3>1. 1 \in DOMAIN q
      BY <2>1
    <3> HIDE DEF q
    <3>2. QED
      BY <3>1 DEF Null
  <2>3. DOMAIN LogRatio(a, b, width) = DOMAIN q
    <3> HIDE DEF q
    <3>1. width # 0
      BY <1>5
    <3>2. QED
      BY <1>2, <1>5, <2>2, <3>1 DEF LogRatio, Each, Pairwise, q
  <2>4. QED
    BY <2>1, <2>3 DEF Fits, width
<1>6. QED
  BY <1>2, <1>3, <1>4, <1>5

\* What a shift makes of a column at a row.
Earlier(column, k) == IF k \in DOMAIN column THEN column[k] ELSE Null
LagOf(column, k, width) ==
  IF width > 0 /\ Earlier(column, k) = Null THEN [j \in 1..width |-> Null]
  ELSE Earlier(column, k)
EachShift(op, periods, column, k, width) ==
  CASE op = "lag" -> LagOf(column, k - periods, width)
    [] op = "lead" -> Earlier(column, k - (-periods))
    [] op = "delta" ->
         LET lag == LagOf(column, k - periods, width) IN
         IF width = 0 THEN Lift(Minus, column[k], lag)
         ELSE IF column[k] = Null \/ lag = Null THEN Null
         ELSE [j \in DOMAIN column[k] |-> Lift(Minus, column[k][j], lag[j])]

LEMMA ShiftApply ==
  ASSUME NEW fn, fn.op \in Shifts, NEW rows, fn.in.columns["value"].width \in Nat
  PROVE  Apply(fn, rows) =
           OutOf(rows, [k \in DOMAIN rows |->
                          EachShift(fn.op, fn.args.periods,
                                    [j \in DOMAIN rows |-> rows[j].cells["value"]], k,
                                    fn.in.columns["value"].width)])
<1> DEFINE width == fn.in.columns["value"].width
           periods == fn.args.periods
           op == fn.op
           column == [j \in DOMAIN rows |-> rows[j].cells["value"]]
           Of(k) == EachShift(op, periods, column, k, width)
<1>1. op \in Operations
  BY DEF Shifts, Operations
<1>2. Kind(op) \notin {"metric", "error_metric", "supervised"}
  BY <1>1, Kinds DEF Shifts
<1>3. DOMAIN column = DOMAIN rows
  OBVIOUS
<1>4. CASE op = "lag"
  <2>1. Apply(fn, rows) = OutOf(rows, Lag(column, width, periods))
    BY <1>2, <1>4 DEF Apply, OutOf
  <2> HIDE DEF column
  <2>2. Lag(column, width, periods) = [k \in DOMAIN rows |-> Of(k)]
    BY <1>3, <1>4 DEF Lag, Shift, EachShift, LagOf, Earlier
  <2>3. QED
    BY <2>1, <2>2 DEF column
<1>5. CASE op = "lead"
  <2>1. Apply(fn, rows) = OutOf(rows, Lead(column, width, periods))
    BY <1>2, <1>5 DEF Apply, OutOf
  <2> HIDE DEF column
  <2>2. Lead(column, width, periods) = [k \in DOMAIN rows |-> Of(k)]
    BY <1>3, <1>5 DEF Lead, Shift, EachShift, Earlier
  <2>3. QED
    BY <2>1, <2>2 DEF column
<1>6. CASE op = "delta"
  <2>1. Apply(fn, rows) = OutOf(rows, Delta(column, width, periods))
    BY <1>2, <1>6 DEF Apply, OutOf
  <2> HIDE DEF column
  <2>2. \A k \in DOMAIN rows : Lag(column, width, periods)[k] = LagOf(column, k - periods, width)
    BY <1>3 DEF Lag, Shift, LagOf, Earlier
  <2> DEFINE Given(a, b) == Pairwise(LAMBDA x, y : Lift(Minus, x, y), a, b, width)
             Made(a, b) == IF width = 0 THEN Lift(Minus, a, b)
                           ELSE IF a = Null \/ b = Null THEN Null
                           ELSE [j \in DOMAIN a |-> Lift(Minus, a[j], b[j])]
  <2>3. \A a, b : Given(a, b) = Made(a, b)
    BY DEF Pairwise
  <2>4. Delta(column, width, periods) = [k \in DOMAIN rows |-> Of(k)]
    <3>1. Delta(column, width, periods) =
            [k \in DOMAIN column |-> Given(column[k], Lag(column, width, periods)[k])]
      BY DEF Delta
    <3>2. \A k : Of(k) = Made(column[k], LagOf(column, k - periods, width))
      BY <1>6 DEF EachShift
    <3> HIDE DEF Given, Made, Of
    <3>3. QED
      BY <1>3, <2>2, <2>3, <3>1, <3>2
  <2>5. QED
    BY <2>1, <2>4 DEF column
<1>7. QED
  BY <1>4, <1>5, <1>6 DEF Shifts

LEMMA ShiftFits ==
  ASSUME NEW op \in Shifts, NEW periods, NEW column, NEW k \in DOMAIN column, NEW type,
         type.width \in Nat, \A j \in DOMAIN column : Fits(column[j], type)
  PROVE  Fits(EachShift(op, periods, column, k, type.width), type)
<1> DEFINE width == type.width
<1>1. \A j : Earlier(column, j) = Null \/ (width > 0 => DOMAIN Earlier(column, j) = 1..width)
  BY DEF Earlier, Fits
<1>2. \A j : width > 0 => LagOf(column, j, width) = Null \/ DOMAIN LagOf(column, j, width) = 1..width
  BY <1>1 DEF LagOf
<1>3. width > 0 => column[k] = Null \/ DOMAIN column[k] = 1..width
  BY DEF Fits
<1>4. QED
  BY <1>1, <1>2, <1>3 DEF EachShift, Shifts, Fits

LEMMA MatrixApply ==
  ASSUME NEW fn, fn.op = "rolling_cov_matrix", NEW rows, NEW n \in Nat,
         DOMAIN fn.args.input_columns = 1..n, n >= 1, Len(fn.args.input_columns) = n
  PROVE  \E column : /\ Apply(fn, rows) = OutOf(rows, column)
                     /\ \A k \in DOMAIN rows : DOMAIN column[k] = 1..(n * n)
<1> DEFINE listed == fn.args.input_columns
           Col(i) == [k \in DOMAIN rows |-> rows[k].cells[i]]
           columns == [c \in DOMAIN listed |-> Col(listed[c])]
           column == RollingCovMatrix(columns, fn.args)
<1>1. Kind(fn.op) \notin {"metric", "error_metric", "supervised"}
  BY DEF Kind
<1>2. Apply(fn, rows) = OutOf(rows, column)
  BY <1>1 DEF Apply, OutOf
<1>3. columns = [c \in 1..n |-> columns[c]] /\ DOMAIN columns[1] = DOMAIN rows
  OBVIOUS
<1> HIDE DEF columns
<1>4. Len(columns) = n
  BY <1>3, SeqByDomain
<1>5. DOMAIN column = DOMAIN rows /\ \A k \in DOMAIN rows : DOMAIN column[k] = 1..(n * n)
  <2> DEFINE m == Len(columns)
             Of(i, j) == IF i = j THEN RollingVar(columns[i], fn.args)
                         ELSE RollingCov(columns[Min({i, j})], columns[Max({i, j})], fn.args)
             Entry(k, e) == Of((e - 1) \div m + 1, ((e - 1) % m) + 1)[k]
  <2>1. column = [k \in DOMAIN columns[1] |-> [e \in 1..(m * m) |-> Entry(k, e)]]
    BY DEF RollingCovMatrix
  <2> HIDE DEF Entry, Of, column
  <2>2. QED
    BY <1>3, <1>4, <2>1
<1> HIDE DEF column
<1>6. QED
  BY <1>2, <1>5

\* A metric that is not undefined looked at one row at least.
MetricRow(rows, value) == <<[time |-> rows[Len(rows)].time, cells |-> [value |-> value]]>>
LEMMA MetricApply ==
  ASSUME NEW fn, fn.op \in Metrics \union ErrorMetrics, NEW rows, NEW columns,
         Frame(rows, columns)
  PROVE  \/ Apply(fn, rows) = <<>>
         \/ Len(rows) >= 1 /\ \E value : Apply(fn, rows) = MetricRow(rows, value)
<1> DEFINE inputs == IF Kind(fn.op) = "metric" THEN <<"value">> ELSE <<"left", "right">>
           given == [k \in DOMAIN rows |-> [c \in DOMAIN inputs |-> rows[k].cells[inputs[c]]]]
           value == Measured(fn.op, fn.args, given)
<1>1. fn.op \in Operations
  BY DEF Metrics, ErrorMetrics, Operations
<1>2. Kind(fn.op) \in {"metric", "error_metric"}
  BY <1>1, Kinds DEF Metrics, ErrorMetrics
<1>3. Apply(fn, rows) = IF value = Null THEN <<>> ELSE MetricRow(rows, value)
  BY <1>2 DEF Apply, MetricRow, Metrics, ErrorMetrics
<1>4. ASSUME value # Null PROVE Len(rows) >= 1
  <2> DEFINE n == Len(rows)
  <2>1. n \in Nat /\ DOMAIN rows = 1..n
    BY SeqFacts DEF Frame
  <2> DEFINE Sound(r) == \A c \in DOMAIN r : r[c] # Null /\ IsFinite(r[c])
             at == {k \in DOMAIN given : Sound(given[k])}
             kept == Where(given, at)
             least == IF fn.op \in {"mse", "mae"} THEN 1 ELSE 2
  <2>2. value = IF \/ ~fn.args.drop_nonfinite /\ Len(kept) < Len(given)
                   \/ Len(kept) < least
                  THEN Null ELSE Metric(fn.op, kept)
    BY DEF Measured
  <2>3. IsSeq(given) /\ at \subseteq DOMAIN given /\ DOMAIN given = DOMAIN rows
    BY <2>1, SeqByDomain
  <2> HIDE DEF value, given
  <2>4. Len(kept) = Cardinality(at) /\ Cardinality(at) \in Nat
    <3> HIDE DEF at
    <3>1. Len(kept) = Cardinality(at)
      BY <2>3, WhereFacts
    <3>2. IsFiniteSet(at)
      BY <2>1, <2>3, PositionsFinite
    <3>3. QED
      BY <3>1, <3>2, FS_CardinalityType
  <2>5. Len(kept) >= 1
    <3> HIDE DEF kept, at
    <3>1. QED
      BY <1>4, <2>2, <2>4
  <2> HIDE DEF kept, at
  <2>6. at # {}
    BY <2>4, <2>5, FS_EmptySet
  <2>7. QED
    BY <2>1, <2>3, <2>6
<1> HIDE DEF value
<1>5. QED
  BY <1>3, <1>4

LEMMA MetricFrame ==
  ASSUME NEW rows, NEW columns, Frame(rows, columns), Len(rows) >= 1, NEW value
  PROVE  Frame(MetricRow(rows, value), [value |-> Float])
<1> DEFINE n == Len(rows)
           row == [time |-> rows[n].time, cells |-> [value |-> value]]
           made == <<row>>
<1>1. rows[n].time \in Int
  <2>1. n \in 1..n
    BY SeqFacts DEF Frame
  <2>2. QED
    BY <2>1 DEF Frame, Typed
<1>2. Typed(row, [value |-> Float])
  BY <1>1 DEF Typed, Fits, Float
<1> HIDE DEF row
<1>3. Len(made) = 1 /\ made[1] = row /\ made = [k \in 1..1 |-> made[k]]
  OBVIOUS
<1> HIDE DEF made
<1>4. IsSeq(made)
  BY <1>3, SeqByDomain
<1>5. Frame(made, [value |-> Float])
  BY <1>2, <1>3, <1>4 DEF Frame
<1>6. QED
  BY <1>5 DEF made, row, MetricRow

\* f[k] is the number of values in the first k listed columns.
SizeRuns(f, in, listed, n) ==
  f = [k \in 0..n |-> IF k = 0 THEN 0 ELSE f[k - 1] + FlatSize(in[listed[k]].width)]

LEMMA SizeRunsExist ==
  ASSUME NEW in, NEW listed, NEW n \in Nat
  PROVE  \E f : SizeRuns(f, in, listed, n)
<1> DEFINE first == 0
           Step(x, k) == x + FlatSize(in[listed[k]].width)
           Steps(f, m) == f = [k \in 0..m |-> IF k = 0 THEN first ELSE Step(f[k - 1], k)]
           S == {m \in Nat : \E f : Steps(f, m)}
<1>1. \A f : SizeRuns(f, in, listed, n) <=> Steps(f, n)
  BY DEF SizeRuns
<1> HIDE DEF first, Step
<1>2. 0 \in S
  <2> DEFINE f == [k \in 0..0 |-> first]
  <2>1. f = [k \in 0..0 |-> IF k = 0 THEN first ELSE Step(f[k - 1], k)]
    OBVIOUS
  <2> HIDE DEF f
  <2>2. QED
    BY <2>1
<1>3. ASSUME NEW m \in Nat, m \in S PROVE m + 1 \in S
  <2>1. PICK f : f = [k \in 0..m |-> IF k = 0 THEN first ELSE Step(f[k - 1], k)]
    BY <1>3
  <2> DEFINE g == [k \in 0..(m + 1) |-> IF k = m + 1 THEN Step(f[m], m + 1) ELSE f[k]]
  <2>2. ASSUME NEW k \in 0..(m + 1)
        PROVE  g[k] = IF k = 0 THEN first ELSE Step(g[k - 1], k)
    <3>1. CASE k = m + 1
      BY <3>1
    <3>2. CASE k # m + 1
      <4>1. k \in 0..m /\ g[k] = f[k] /\ (k # 0 => k - 1 \in 0..m /\ g[k - 1] = f[k - 1])
        BY <3>2
      <4> HIDE DEF g
      <4>2. QED
        BY <2>1, <4>1
    <3>3. QED
      BY <3>1, <3>2
  <2>3. g = [k \in 0..(m + 1) |-> IF k = 0 THEN first ELSE Step(g[k - 1], k)]
    <3>1. g = [k \in 0..(m + 1) |-> g[k]]
      OBVIOUS
    <3> HIDE DEF g
    <3>2. QED
      BY <2>2, <3>1
  <2> HIDE DEF g
  <2>4. QED
    BY <2>3
<1>4. n \in S
  <2> HIDE DEF S
  <2>1. QED
    BY <1>2, <1>3, SetInduction
<1>5. QED
  BY <1>1, <1>4

LEMMA PackedSize ==
  ASSUME NEW args, NEW bound, NEW n \in Nat, Len(args.input_columns) = n
  PROVE  LET in == InputColumns("feature_packer", args, bound)
             listed == args.input_columns
         IN  \E size :
               /\ OutputColumns("feature_packer", args, bound) = [value |-> Vector(size[n])]
               /\ size[0] = 0
               /\ \A k \in 1..n : size[k] = size[k - 1] + FlatSize(in[listed[k]].width)
<1> DEFINE in == InputColumns("feature_packer", args, bound)
           listed == args.input_columns
           size == CHOOSE f : SizeRuns(f, in, listed, n)
           Amount(k) == FlatSize(in[listed[k]].width)
<1>1. Kind("feature_packer") = "feature_packer"
  BY DEF Kind
<1>2. OutputColumns("feature_packer", args, bound) = [value |-> Vector(size[n])]
  BY <1>1 DEF OutputColumns, SizeRuns
<1>3. SizeRuns(size, in, listed, n)
  <2> HIDE DEF in, listed
  <2>1. QED
    BY SizeRunsExist
<1> HIDE DEF size
<1>4. size = [k \in 0..n |-> IF k = 0 THEN 0 ELSE size[k - 1] + Amount(k)]
  BY <1>3 DEF SizeRuns
<1> HIDE DEF Amount
<1>5. size[0] = 0 /\ \A k \in 1..n : size[k] = size[k - 1] + Amount(k)
  BY <1>4
<1>6. QED
  BY <1>2, <1>5 DEF Amount

\* f[k] is the first k cells side by side.
PackRuns(f, cells, widths, n) ==
  f = [k \in 0..n |-> IF k = 0 THEN <<>> ELSE f[k - 1] \o [j \in 1..FlatSize(widths[k]) |-> Component(cells[k], widths[k], j)]]

LEMMA PackRunsExist ==
  ASSUME NEW cells, NEW widths, NEW n \in Nat
  PROVE  \E f : PackRuns(f, cells, widths, n)
<1> DEFINE first == <<>>
           Step(x, k) == x \o [j \in 1..FlatSize(widths[k]) |-> Component(cells[k], widths[k], j)]
           Steps(f, m) == f = [k \in 0..m |-> IF k = 0 THEN first ELSE Step(f[k - 1], k)]
           S == {m \in Nat : \E f : Steps(f, m)}
<1>1. \A f : PackRuns(f, cells, widths, n) <=> Steps(f, n)
  BY DEF PackRuns
<1> HIDE DEF first, Step
<1>2. 0 \in S
  <2> DEFINE f == [k \in 0..0 |-> first]
  <2>1. f = [k \in 0..0 |-> IF k = 0 THEN first ELSE Step(f[k - 1], k)]
    OBVIOUS
  <2> HIDE DEF f
  <2>2. QED
    BY <2>1
<1>3. ASSUME NEW m \in Nat, m \in S PROVE m + 1 \in S
  <2>1. PICK f : f = [k \in 0..m |-> IF k = 0 THEN first ELSE Step(f[k - 1], k)]
    BY <1>3
  <2> DEFINE g == [k \in 0..(m + 1) |-> IF k = m + 1 THEN Step(f[m], m + 1) ELSE f[k]]
  <2>2. ASSUME NEW k \in 0..(m + 1)
        PROVE  g[k] = IF k = 0 THEN first ELSE Step(g[k - 1], k)
    <3>1. CASE k = m + 1
      BY <3>1
    <3>2. CASE k # m + 1
      <4>1. k \in 0..m /\ g[k] = f[k] /\ (k # 0 => k - 1 \in 0..m /\ g[k - 1] = f[k - 1])
        BY <3>2
      <4> HIDE DEF g
      <4>2. QED
        BY <2>1, <4>1
    <3>3. QED
      BY <3>1, <3>2
  <2>3. g = [k \in 0..(m + 1) |-> IF k = 0 THEN first ELSE Step(g[k - 1], k)]
    <3>1. g = [k \in 0..(m + 1) |-> g[k]]
      OBVIOUS
    <3> HIDE DEF g
    <3>2. QED
      BY <2>2, <3>1
  <2> HIDE DEF g
  <2>4. QED
    BY <2>3
<1>4. n \in S
  <2> HIDE DEF S
  <2>1. QED
    BY <1>2, <1>3, SetInduction
<1>5. QED
  BY <1>1, <1>4

LEMMA Concatenated ==
  ASSUME NEW s, IsSeq(s), NEW t, IsSeq(t)
  PROVE  IsSeq(s \o t) /\ Len(s \o t) = Len(s) + Len(t)
<1> DEFINE A == Range(s) \union Range(t)
           u == s \o t
<1>1. s \in Seq(A) /\ t \in Seq(A)
  <2>1. \A k \in 1..Len(s) : s[k] \in A
    BY SeqFacts DEF Range
  <2>2. \A k \in 1..Len(t) : t[k] \in A
    BY SeqFacts DEF Range
  <2>3. s = [k \in 1..Len(s) |-> s[k]] /\ t = [k \in 1..Len(t) |-> t[k]]
        /\ Len(s) \in Nat /\ Len(t) \in Nat
    BY SeqFacts
  <2> HIDE DEF A
  <2>4. QED
    BY <2>1, <2>2, <2>3
<1> HIDE DEF A
<1>2. u \in Seq(A) /\ Len(u) = Len(s) + Len(t)
  BY <1>1
<1> HIDE DEF u
<1>3. u = [k \in 1..Len(u) |-> u[k]] /\ Len(u) \in Nat
  BY <1>2
<1>4. IsSeq(u)
  BY <1>3, SeqByDomain
<1>5. QED
  BY <1>2, <1>4 DEF u

\* The packed vector has as many values as the columns have together.
Sizes(size, widths, n) ==
  /\ size[0] = 0
  /\ \A k \in 1..n : widths[k] \in Nat /\ size[k] = size[k - 1] + FlatSize(widths[k])

LEMMA PackLength ==
  ASSUME NEW cells, NEW widths, NEW n \in Nat, Len(cells) = n, NEW size, Sizes(size, widths, n)
  PROVE  size[n] \in Nat /\ DOMAIN Pack(cells, widths) = 1..size[n]
<1> DEFINE f == CHOOSE h : PackRuns(h, cells, widths, n)
           Part(k) == [j \in 1..FlatSize(widths[k]) |-> Component(cells[k], widths[k], j)]
<1>0. /\ size[0] = 0
      /\ \A k \in 1..n : widths[k] \in Nat /\ size[k] = size[k - 1] + FlatSize(widths[k])
  BY DEF Sizes
<1>1. Pack(cells, widths) = f[n]
  BY DEF Pack, PackRuns
<1>2. PackRuns(f, cells, widths, n)
  BY PackRunsExist
<1> HIDE DEF f
<1>3. f = [k \in 0..n |-> IF k = 0 THEN <<>> ELSE f[k - 1] \o Part(k)]
  BY <1>2 DEF PackRuns
<1>4. ASSUME NEW k \in 1..n PROVE /\ FlatSize(widths[k]) \in Nat
                                  /\ IsSeq(Part(k)) /\ Len(Part(k)) = FlatSize(widths[k])
  <2>1. FlatSize(widths[k]) \in Nat
    BY <1>0 DEF FlatSize
  <2>2. QED
    BY <2>1, SeqByDomain
<1> HIDE DEF Part
<1>5. \A k \in 0..n : f[k] = IF k = 0 THEN <<>> ELSE f[k - 1] \o Part(k)
  BY <1>3, Zenon
<1>6. f[0] = <<>> /\ \A k \in 1..n : f[k] = f[k - 1] \o Part(k)
  <2>1. 0 \in 0..n /\ \A k \in 1..n : k \in 0..n /\ k # 0
    OBVIOUS
  <2>2. QED
    BY <1>5, <2>1
<1> DEFINE S == {k \in 0..n : IsSeq(f[k]) /\ size[k] \in Nat /\ Len(f[k]) = size[k]}
<1>7. 0 \in S
  <2>1. IsSeq(<<>>) /\ Len(<<>>) = 0
    BY NoFrame, {} = {} DEF Frame
  <2>2. QED
    BY <1>0, <1>6, <2>1
<1>8. ASSUME NEW k \in 1..n, k - 1 \in S PROVE k \in S
  <2>1. IsSeq(f[k - 1]) /\ size[k - 1] \in Nat /\ Len(f[k - 1]) = size[k - 1]
    BY <1>8
  <2>2. f[k] = f[k - 1] \o Part(k) /\ size[k] = size[k - 1] + FlatSize(widths[k])
    BY <1>0, <1>6
  <2>3. IsSeq(f[k]) /\ Len(f[k]) = Len(f[k - 1]) + Len(Part(k))
    BY <1>4, <2>1, <2>2, Concatenated
  <2>4. FlatSize(widths[k]) \in Nat /\ Len(Part(k)) = FlatSize(widths[k]) /\ k \in 0..n
    BY <1>4
  <2>5. size[k] \in Nat /\ Len(f[k]) = size[k]
    BY <2>1, <2>2, <2>3, <2>4
  <2>6. QED
    BY <2>3, <2>4, <2>5
<1>9. 0..n \subseteq S
  <2> HIDE DEF S
  <2>1. QED
    BY <1>7, <1>8, IntervalInduction
<1>10. IsSeq(f[n]) /\ size[n] \in Nat /\ Len(f[n]) = size[n]
  BY <1>9
<1>11. QED
  BY <1>1, <1>10, SeqFacts

\* The inputs' widths, whatever is bound.
Sized(bound) == \A i \in DOMAIN bound : bound[i].width \in Nat

LEMMA SizedWidths ==
  ASSUME NEW bound, Sized(bound), NEW i
  PROVE  FloatOf(bound, i).width \in Nat /\ FloatOf(bound, i) = Vector(FloatOf(bound, i).width)
  BY DEF Sized, FloatOf, WidthOf, Vector

LEMMA PackerFrame ==
  ASSUME NEW args, NEW bound, Sized(bound), ValidConfig("feature_packer", args),
         NEW rows, Frame(rows, InputColumns("feature_packer", args, bound))
  PROVE  LET fn == Function("feature_packer", args, bound)
         IN  /\ Frame(Apply(fn, rows), fn.out.columns)
             /\ fn.out.columns["value"].width \in Nat /\ DOMAIN fn.out.columns = {"value"}
<1> DEFINE op == "feature_packer"
           fn == Function(op, args, bound)
           in == InputColumns(op, args, bound)
           listed == args.input_columns
           n == Len(listed)
<1>1. Kind(op) = op /\ op \in Operations
  BY DEF Kind, Operations
<1>2. listed \in Seq(Range(listed))
  BY <1>1 DEF ValidConfig, ValidColumns
<1>3. n \in Nat /\ DOMAIN listed = 1..n
  BY <1>2
<1>4. in = [c \in Range(listed) |-> IF c \in DOMAIN bound THEN bound[c] ELSE Float]
  BY <1>1 DEF InputColumns
<1>5. fn.op = op /\ fn.args = args /\ fn.in.columns = in
      /\ fn.out.columns = OutputColumns(op, args, bound)
  BY DEF Function
<1> HIDE DEF fn, in
<1>6. \A k \in 1..n : listed[k] \in Range(listed) /\ in[listed[k]].width \in Nat
  BY <1>3, <1>4 DEF Range, Sized, Float
<1>7. PICK size : /\ OutputColumns(op, args, bound) = [value |-> Vector(size[n])]
                  /\ size[0] = 0
                  /\ \A k \in 1..n : size[k] = size[k - 1] + FlatSize(in[listed[k]].width)
  BY <1>3, PackedSize DEF in
<1> DEFINE Cells(k) == [c \in DOMAIN listed |-> rows[k].cells[listed[c]]]
           widths == [c \in DOMAIN listed |-> in[listed[c]].width]
           column == [k \in DOMAIN rows |-> Pack(Cells(k), widths)]
<1>8. Apply(fn, rows) = OutOf(rows, column)
  BY <1>1, <1>5 DEF Apply, OutOf
<1>9. ASSUME NEW k PROVE size[n] \in Nat /\ DOMAIN Pack(Cells(k), widths) = 1..size[n]
  <2> DEFINE cells == Cells(k)
  <2>1. cells = [c \in 1..n |-> cells[c]]
    BY <1>3
  <2>2. \A c \in 1..n : widths[c] = in[listed[c]].width
    BY <1>3
  <2> SUFFICES size[n] \in Nat /\ DOMAIN Pack(cells, widths) = 1..size[n]
    OBVIOUS
  <2> HIDE DEF cells, widths
  <2>3. Len(cells) = n
    BY <1>3, <2>1, SeqByDomain
  <2>4. Sizes(size, widths, n)
    BY <1>6, <1>7, <2>2 DEF Sizes
  <2> HIDE DEF n, listed
  <2>5. QED
    BY <1>3, <2>3, <2>4, PackLength
<1> DEFINE type == Vector(size[n])
           types == [value |-> type]
<1>10. \A k \in DOMAIN rows : Fits(column[k], type)
  <2> HIDE DEF Cells, widths
  <2>1. QED
    BY <1>9 DEF Fits, Vector
<1>11. DOMAIN types = {"value"} /\ types["value"] = type /\ DOMAIN rows = 1..Len(rows)
  BY SeqFacts DEF Frame
<1>12. Frame(OutOf(rows, column), types)
  <2> HIDE DEF column, types, type
  <2>1. QED
    BY <1>10, <1>11, OutFrame
<1>13. type.width \in Nat
  BY <1>9 DEF Vector
<1>14. QED
  <2> HIDE DEF column, type
  <2>1. QED
    BY <1>5, <1>7, <1>8, <1>11, <1>12, <1>13 DEF fn, type

LEMMA UnpackerFrame ==
  ASSUME NEW args, NEW bound, NEW rows, Frame(rows, InputColumns("feature_unpacker", args, bound))
  PROVE  LET fn == Function("feature_unpacker", args, bound)
         IN  /\ Frame(Apply(fn, rows), fn.out.columns)
             /\ \A c \in DOMAIN fn.out.columns : fn.out.columns[c].width \in Nat
<1> DEFINE op == "feature_unpacker"
           fn == Function(op, args, bound)
           in == InputColumns(op, args, bound)
           width == in.value.width
           names == {FeatureNames[j] : j \in 1..FlatSize(width)}
           n == Len(rows)
<1>1. Kind(op) = op
  BY DEF Kind
<1>2. fn.op = op /\ fn.in.columns = in /\ fn.out.columns = OutputColumns(op, args, bound)
  BY DEF Function
<1>3. OutputColumns(op, args, bound) = [c \in names |-> Float]
  BY <1>1 DEF OutputColumns
<1>4. in["value"] = in.value
  OBVIOUS
<1> HIDE DEF fn, in
<1> DEFINE Cells(k) == Unpack(rows[k].cells["value"], width)
<1>5. Apply(fn, rows) = [k \in DOMAIN rows |-> [time |-> rows[k].time, cells |-> Cells(k)]]
  BY <1>1, <1>2 DEF Apply
<1>6. \A k : DOMAIN Cells(k) = names /\ Cells(k) = [c \in names |-> Cells(k)[c]]
  BY DEF Unpack
<1> HIDE DEF Cells, names
<1> DEFINE made == [k \in DOMAIN rows |-> [time |-> rows[k].time, cells |-> Cells(k)]]
           types == [c \in names |-> Float]
<1>7. DOMAIN rows = 1..n /\ n \in Nat
  BY SeqFacts DEF Frame
<1>8. IsSeq(made) /\ Len(made) = n
  BY <1>7, SeqByDomain
<1>9. ASSUME NEW k \in 1..n PROVE Typed(made[k], types)
  <2>1. made[k] = [time |-> rows[k].time, cells |-> Cells(k)] /\ rows[k].time \in Int
    BY <1>7 DEF Frame, Typed
  <2>2. \A c \in names : Fits(Cells(k)[c], types[c])
    BY DEF Fits, Float
  <2>3. DOMAIN types = names
    OBVIOUS
  <2> HIDE DEF made, types
  <2>4. made[k].time = rows[k].time /\ made[k].cells = Cells(k)
    BY <2>1
  <2>5. QED
    BY <1>6, <2>1, <2>2, <2>3, <2>4 DEF Typed
<1>10. Frame(made, types)
  <2> HIDE DEF made, types
  <2>1. QED
    BY <1>8, <1>9 DEF Frame
<1>11. \A c \in DOMAIN types : types[c].width \in Nat
  BY DEF Float
<1>12. QED
  <2> HIDE DEF made
  <2>1. QED
    BY <1>2, <1>3, <1>5, <1>10, <1>11 DEF fn, made

\* A model predicts a row of features at a time, a trainer makes no row.
Predicted(in, out, row) ==
  [j \in 1..out.columns.value.width |->
     Component(row.cells["features"], in.columns["features"].width, 1)]
Predictions(in, out, rows) == [k \in DOMAIN rows |-> Predicted(in, out, rows[k])]

LEMMA ModelApply ==
  ASSUME NEW fn, fn.op \in Models, NEW rows
  PROVE  /\ fn.op = "model" => Apply(fn, rows) = OutOf(rows, Predictions(fn.in, fn.out, rows))
         /\ fn.op = "trainer" => Apply(fn, rows) = <<>>
<1>1. Kind(fn.op) = "supervised"
  BY Kinds DEF Models, Operations
<1>2. QED
  BY <1>1 DEF Apply, OutOf, Models, Predictions, Predicted

LEMMA ModelFrame ==
  ASSUME NEW op \in Models, NEW args, NEW bound, Sized(bound), Resolvable(op, args, bound),
         NEW rows, Frame(rows, InputColumns(op, args, bound))
  PROVE  LET fn == Function(op, args, bound)
         IN  /\ Frame(Apply(fn, rows), fn.out.columns) /\ Sized(fn.out.columns)
<1> DEFINE fn == Function(op, args, bound)
           type == Vector(FlatSize(bound.target.width))
           types == [value |-> type]
<1>1. op \in Operations /\ op # "source" /\ Kind(op) = "supervised"
  BY Kinds DEF Models, Operations
<1>2. fn.op = op /\ fn.out.columns = OutputColumns(op, args, bound)
  BY <1>1 DEF Function
<1>3. CASE op = "trainer"
  <2>1. fn.out.columns = [c \in {} |-> Float]
    BY <1>1, <1>2, <1>3, Shapes
  <2>2. Sized(fn.out.columns)
    BY <2>1 DEF Sized
  <2>3. Apply(fn, rows) = <<>>
    BY <1>2, <1>3, ModelApply
  <2>4. QED
    BY <2>2, <2>3, NoFrame
<1>4. CASE op = "model"
  <2>1. fn.out.columns = types
    BY <1>1, <1>2, <1>4, Shapes
  <2>2. "target" \in DOMAIN bound
    BY <1>1 DEF Resolvable
  <2>3. type.width \in Nat
    BY <2>2 DEF Sized, Vector, FlatSize
  <2> HIDE DEF fn, type
  <2> DEFINE column == Predictions(fn.in, fn.out, rows)
  <2>4. Apply(fn, rows) = OutOf(rows, column)
    BY <1>2, <1>4, ModelApply
  <2>5. \A k \in DOMAIN rows : Fits(column[k], type)
    BY <2>1 DEF Fits, Predictions, Predicted
  <2>6. DOMAIN types = {"value"} /\ types["value"] = type /\ DOMAIN rows = 1..Len(rows)
    BY SeqFacts DEF Frame
  <2> HIDE DEF column
  <2>7. Sized(types)
    BY <2>3, <2>6 DEF Sized
  <2>8. Frame(OutOf(rows, column), types)
    <3> HIDE DEF types
    <3>1. QED
      BY <2>5, <2>6, OutFrame
  <2>9. QED
    BY <2>1, <2>4, <2>7, <2>8 DEF fn
<1>5. QED
  BY <1>3, <1>4 DEF Models

\* Rows of the columns a function expects become rows of the columns it declares.
LEMMA AppliedFrame ==
  ASSUME NEW op \in Operations, op # "source", NEW args, NEW bound, Sized(bound),
         ValidConfig(op, args), Resolvable(op, args, bound),
         NEW rows, Frame(rows, Function(op, args, bound).in.columns)
  PROVE  LET fn == Function(op, args, bound)
         IN  Frame(Apply(fn, rows), fn.out.columns)
<1> DEFINE fn == Function(op, args, bound)
           in == InputColumns(op, args, bound)
           out == OutputColumns(op, args, bound)
           n == Len(rows)
<1> SUFFICES Frame(Apply(fn, rows), fn.out.columns)
  OBVIOUS
<1>1. /\ fn.op = op /\ fn.args = args /\ fn.in.columns = in /\ fn.out.columns = out
      /\ Frame(rows, in)
  BY DEF Function
<1>2. n \in Nat /\ DOMAIN rows = 1..n
  BY <1>1, SeqFacts DEF Frame
<1>3. \A i \in DOMAIN in, k \in 1..n : Fits(rows[k].cells[i], in[i])
  BY <1>1 DEF Frame, Typed
<1> HIDE DEF fn, in, out, n
<1>4. CASE op \in Columnar
  <2> DEFINE column == ColumnOf(op, args, rows)
  <2>1. Apply(fn, rows) = OutOf(rows, column)
    BY <1>1, <1>4, ColumnarApply
  <2> HIDE DEF column
  <2>2. out = [value |-> Float]
    BY <1>4, Shapes DEF Columnar, out
  <2>3. QED
    BY <1>1, <2>1, <2>2, ScalarFrame
<1>5. CASE op \in Itemwise
  <2> DEFINE type == FloatOf(bound, "value")
             types == [value |-> type]
  <2>1. in = types /\ out = types
    BY <1>5, Shapes DEF in, out
  <2>2. type.width \in Nat
    BY SizedWidths
  <2> HIDE DEF type
  <2> DEFINE Cell(k) == rows[k].cells["value"]
             column == [k \in DOMAIN rows |-> EachItem(op, args, Cell(k), type.width)]
  <2>3. Apply(fn, rows) = OutOf(rows, column)
    BY <1>1, <1>5, <2>1, <2>2, ItemwiseApply
  <2>4. \A k \in 1..n : Fits(Cell(k), type)
    BY <1>3, <2>1
  <2> HIDE DEF Cell
  <2>5. \A k \in 1..n : Fits(column[k], type)
    BY <1>2, <2>2, <2>4, ItemwiseFits
  <2>6. DOMAIN types = {"value"} /\ types["value"] = type
    OBVIOUS
  <2> HIDE DEF types, column
  <2>7. QED
    BY <1>1, <2>1, <2>3, <2>5, <2>6, OutFrame DEF n
<1>6. CASE op \in Shifts
  <2> DEFINE type == FloatOf(bound, "value")
             types == [value |-> type]
             given == [j \in DOMAIN rows |-> rows[j].cells["value"]]
             column == [k \in DOMAIN rows |->
                          EachShift(op, args.periods, given, k, type.width)]
  <2>1. in = types /\ out = types
    BY <1>6, Shapes DEF in, out
  <2>2. type.width \in Nat
    BY SizedWidths
  <2> HIDE DEF type
  <2>3. Apply(fn, rows) = OutOf(rows, column)
    BY <1>1, <1>6, <2>1, <2>2, ShiftApply
  <2>4. DOMAIN given = 1..n /\ \A k \in DOMAIN given : Fits(given[k], type)
    BY <1>2, <1>3, <2>1
  <2> HIDE DEF given
  <2>5. \A k \in 1..n : Fits(column[k], type)
    BY <1>2, <1>6, <2>2, <2>4, ShiftFits
  <2>6. DOMAIN types = {"value"} /\ types["value"] = type
    OBVIOUS
  <2> HIDE DEF types, column
  <2>7. QED
    BY <1>1, <2>1, <2>3, <2>5, <2>6, OutFrame DEF n
<1>7. CASE op \in Struct
  <2> DEFINE type == FloatOf(bound, "left")
             types == [value |-> type]
             A(k) == rows[k].cells["left"]
             B(k) == rows[k].cells["right"]
  <2>1. in = [left |-> type, right |-> FloatOf(bound, "right")] /\ out = types
    BY <1>7, Shapes DEF in, out
  <2>2. type.width \in Nat
    BY SizedWidths
  <2> HIDE DEF type
  <2>3. \A k \in 1..n : Fits(A(k), type)
    BY <1>3, <2>1
  <2>4. in["left"] = type
    BY <2>1
  <2>5. \E column : Apply(fn, rows) = OutOf(rows, column) /\ \A k \in 1..n : Fits(column[k], type)
    <3>1. CASE op = "log_ratio"
      <4> DEFINE column == [k \in DOMAIN rows |-> LogRatio(A(k), B(k), type.width)]
      <4>1. Apply(fn, rows) = OutOf(rows, column)
        BY <1>1, <2>4, <3>1, LogRatioApply
      <4> HIDE DEF A, B
      <4>2. \A k \in 1..n : Fits(column[k], type)
        BY <1>2, <2>2, <2>3, LogRatioFits
      <4> HIDE DEF column
      <4>3. QED
        BY <4>1, <4>2
    <3>2. CASE op # "log_ratio"
      <4> DEFINE column == [k \in DOMAIN rows |-> EachPair(op, A(k), B(k), type.width)]
      <4>1. op \in {"spread", "product", "ratio"}
        BY <1>7, <3>2 DEF Struct
      <4>2. Apply(fn, rows) = OutOf(rows, column)
        BY <1>1, <1>2, <2>2, <2>3, <2>4, <4>1, StructApply
      <4> HIDE DEF A, B
      <4>3. \A k \in 1..n : Fits(column[k], type)
        BY <1>2, <2>2, <2>3, StructFits
      <4> HIDE DEF column
      <4>4. QED
        BY <4>2, <4>3
    <3>3. QED
      BY <3>1, <3>2
  <2>6. PICK column : Apply(fn, rows) = OutOf(rows, column) /\ \A k \in 1..n : Fits(column[k], type)
    BY <2>5
  <2>7. DOMAIN types = {"value"} /\ types["value"] = type
    OBVIOUS
  <2> HIDE DEF types
  <2>8. QED
    BY <1>1, <2>1, <2>6, <2>7, OutFrame DEF n
<1>8. CASE op \in Metrics \union ErrorMetrics
  <2>1. out = [value |-> Float]
    BY <1>8, Shapes DEF out
  <2>2. \/ Apply(fn, rows) = <<>>
        \/ Len(rows) >= 1 /\ \E value : Apply(fn, rows) = MetricRow(rows, value)
    BY <1>1, <1>8, MetricApply
  <2>3. QED
    BY <1>1, <2>1, <2>2, NoFrame, MetricFrame
<1>9. CASE op = "rolling_cov_matrix"
  <2> DEFINE listed == args.input_columns
             m == Len(listed)
             type == Vector(m * m)
             types == [value |-> type]
  <2>1. ValidColumns(args, 2)
    BY <1>9 DEF ValidConfig, Kind
  <2>2. m \in Nat /\ DOMAIN listed = 1..m /\ m >= 1
    BY <2>1 DEF ValidColumns
  <2>3. out = types
    BY <1>9, Shapes DEF out
  <2>4. Len(fn.args.input_columns) = m /\ DOMAIN fn.args.input_columns = 1..m
    BY <1>1, <2>2
  <2> HIDE DEF m
  <2>5. PICK column : Apply(fn, rows) = OutOf(rows, column)
                      /\ \A k \in DOMAIN rows : DOMAIN column[k] = 1..(m * m)
    BY <1>1, <1>9, <2>2, <2>4, MatrixApply
  <2>6. \A k \in 1..n : Fits(column[k], type)
    BY <1>2, <2>5 DEF Fits, Vector
  <2>7. DOMAIN types = {"value"} /\ types["value"] = type
    OBVIOUS
  <2> HIDE DEF types, type
  <2>8. QED
    BY <1>1, <2>3, <2>5, <2>6, <2>7, OutFrame DEF n
<1>10. CASE op = "feature_packer"
  BY <1>1, <1>10, PackerFrame DEF fn, in
<1>11. CASE op = "feature_unpacker"
  BY <1>1, <1>11, UnpackerFrame DEF fn, in
<1>12. CASE op \in Models
  BY <1>1, <1>12, ModelFrame DEF fn, in
<1>13. op \in Columnar \union Itemwise \union Shifts \union Struct \union Metrics
            \union ErrorMetrics \union Models
       \/ op \in {"rolling_cov_matrix", "feature_packer", "feature_unpacker"}
  BY DEF Operations, Columnar, Itemwise, Shifts, Struct, Metrics, ErrorMetrics, Models, Returns,
         Rolling, Ewm
<1>14. QED
  BY <1>4, <1>5, <1>6, <1>7, <1>8, <1>9, <1>10, <1>11, <1>12, <1>13

-----------------------------------------------------------------------------
(* Graphs that validate execute *)

LEMMA OutputSized ==
  ASSUME NEW op \in Operations, op # "source", NEW args, NEW bound, Sized(bound),
         ValidConfig(op, args), Resolvable(op, args, bound)
  PROVE  Sized(Function(op, args, bound).out.columns)
<1> DEFINE fn == Function(op, args, bound)
           out == OutputColumns(op, args, bound)
<1>1. fn.out.columns = out
  BY DEF Function
<1>2. Sized([value |-> Float])
  BY DEF Sized, Float
<1>3. CASE op \in Returns \union Rolling \union Ewm \union Metrics \union ErrorMetrics
                   \union {"rolling_cov", "backtest"}
  BY <1>1, <1>2, <1>3, Shapes
<1>4. CASE op \in Itemwise \union Shifts \union Struct
  <2>1. FloatOf(bound, "value").width \in Nat /\ FloatOf(bound, "left").width \in Nat
    BY SizedWidths
  <2>2. \/ out = [value |-> FloatOf(bound, "value")] \/ out = [value |-> FloatOf(bound, "left")]
    BY <1>4, Shapes
  <2>3. QED
    BY <1>1, <2>1, <2>2 DEF Sized
<1>5. CASE op = "rolling_cov_matrix"
  <2>1. ValidColumns(args, 2)
    BY <1>5 DEF ValidConfig, Kind
  <2>2. Len(args.input_columns) \in Nat
    BY <2>1 DEF ValidColumns
  <2>3. out = [value |-> Vector(Len(args.input_columns) * Len(args.input_columns))]
    BY <1>5, Shapes
  <2>4. QED
    BY <1>1, <2>2, <2>3 DEF Sized, Vector
<1>6. CASE op = "feature_packer"
  <2>1. Frame(<<>>, InputColumns(op, args, bound))
    BY NoFrame
  <2>2. fn.out.columns["value"].width \in Nat /\ DOMAIN fn.out.columns = {"value"}
    BY <1>6, <2>1, PackerFrame
  <2>3. QED
    BY <2>2 DEF Sized
<1>7. CASE op = "feature_unpacker"
  <2>1. Frame(<<>>, InputColumns(op, args, bound))
    BY NoFrame
  <2>2. QED
    BY <1>7, <2>1, UnpackerFrame DEF Sized
<1>8. CASE op \in Models
  <2>1. Frame(<<>>, InputColumns(op, args, bound))
    BY NoFrame
  <2>2. QED
    BY <1>8, <2>1, ModelFrame
<1>9. QED
  BY <1>3, <1>4, <1>5, <1>6, <1>7, <1>8 DEF Operations, Itemwise, Shifts, Struct, Metrics,
     ErrorMetrics, Models, Returns, Rolling, Ewm

\* A node has the signatures its configured function resolved, against columns of
\* known widths.
Resolved(node) ==
  LET op == node.fn.op
      args == node.fn.args
  IN  /\ op \in Operations
      /\ \E bound :
           /\ Sized(bound) /\ node.fn = Function(op, args, bound)
           /\ op # "source" => ValidConfig(op, args) /\ Resolvable(op, args, bound)
      /\ op = "source" => args.feed \in DOMAIN Feeds /\ args.type = Feeds[args.feed]
      /\ Sized(node.fn.out.columns)

LEMMA BuiltResolved ==
  ASSUME NEW nodes, NEW decl, Constructible(nodes, decl), DeclaresFeed(decl),
         \A n \in DOMAIN nodes : Sized(nodes[n].fn.out.columns)
  PROVE  Resolved(Built(nodes, decl))
<1> DEFINE op == decl.op
           args == decl.args
           bound == BoundColumns(nodes, decl.bindings)
           node == Built(nodes, decl)
<1>1. op \in Operations
  BY DEF Constructible
<1>2. node.fn = Function(op, args, bound) /\ node.fn.op = op /\ node.fn.args = args
  BY DEF Built, Function
<1>3. Sized(bound)
  BY DEF Constructible, BoundColumns, Sized
<1>4. op # "source" => ValidConfig(op, args) /\ Resolvable(op, args, bound)
  BY DEF Constructible
<1>5. op = "source" => args.feed \in DOMAIN Feeds /\ args.type = Feeds[args.feed]
  BY DEF DeclaresFeed
<1> HIDE DEF bound, node
<1>6. CASE op = "source"
  <2>1. node.fn.out.columns = [value |-> args.type]
    BY <1>2, <1>6 DEF Function
  <2>2. args.type.width \in Nat
    BY <1>5, <1>6, FeedsAssumption
  <2>3. Sized(node.fn.out.columns)
    BY <2>1, <2>2 DEF Sized
  <2>4. QED
    BY <1>1, <1>2, <1>3, <1>4, <1>5, <2>3 DEF Resolved, node
<1>7. CASE op # "source"
  <2>1. Sized(node.fn.out.columns)
    BY <1>1, <1>2, <1>3, <1>4, <1>7, OutputSized
  <2>2. QED
    BY <1>1, <1>2, <1>3, <1>4, <1>5, <2>1 DEF Resolved, node
<1>8. QED
  BY <1>6, <1>7

\* The sources have seen cells of their feeds' types.
Fed(sources) ==
  /\ DOMAIN sources = DOMAIN Feeds
  /\ \A s \in DOMAIN Feeds : Frame(sources[s], [value |-> Feeds[s]])

LEMMA FrameAppend ==
  ASSUME NEW rows, NEW columns, Frame(rows, columns), NEW row, Typed(row, columns)
  PROVE  Frame(Append(rows, row), columns)
<1> DEFINE n == Len(rows)
           more == Append(rows, row)
<1>1. n \in Nat
  BY SeqFacts DEF Frame
<1>2. /\ IsSeq(more) /\ Len(more) = n + 1 /\ more[n + 1] = row
      /\ \A k \in 1..n : more[k] = rows[k]
  BY Appended DEF Frame
<1> HIDE DEF more
<1>3. \A k \in 1..(n + 1) : Typed(more[k], columns)
  BY <1>1, <1>2 DEF Frame
<1>4. QED
  BY <1>2, <1>3 DEF Frame, more

\* What a node without issues is like.
LEMMA NoIssues ==
  ASSUME NEW nodes, NEW node, NodeIssues(nodes, node) = {}
  PROVE  /\ Bound(node) = {} => IsEmpty(node.fn.in)
         /\ Bound(node) # {} => Expected(node) \subseteq Bound(node) /\ node.fn.in.time # NoTime
         /\ Bound(node) \subseteq Expected(node)
         /\ \A i \in DOMAIN Handlers(node) : Handlers(node)[i] = "fill" => i \in DOMAIN node.fills
         /\ \A i \in Bound(node) : BindingIssues(nodes, node, i) = {}
<1> DEFINE bound == Bound(node)
           expected == Expected(node)
           a == When(bound = {} /\ ~IsEmpty(node.fn.in), "NON_EMPTY_INPUT_WITHOUT_BINDINGS")
           b == When(\E i \in DOMAIN Handlers(node) :
                       Handlers(node)[i] = "fill" /\ i \notin DOMAIN node.fills,
                     "MISSING_NULL_FILL_VALUE")
           c == When(bound # {} /\ ~(expected \subseteq bound), "MISSING_BINDING")
           e == When(~(bound \subseteq expected), "UNEXPECTED_BINDING")
           f == When(bound # {} /\ node.fn.in.time = NoTime, "BOUND_INPUT_TIME_AXIS_MISSING")
           g == {BindingIssues(nodes, node, i) : i \in bound}
           h == When(~(DOMAIN node.handlers \subseteq expected), "UNEXPECTED_NULL_HANDLER")
           j == When(~(DOMAIN node.fills \subseteq expected), "UNEXPECTED_NULL_FILL_VALUE")
           l == When(node.fn.batch /\ ~node.mat, "REQUIRED_MATERIALIZATION_DISABLED")
           m == LookaheadIssues(nodes, node)
<1>1. UNION {a, h, j, b, c, e, f, l, m, UNION g} = {}
  BY DEF NodeIssues
<1> HIDE DEF a, b, c, e, f, g, h, j, l, m
<1>2. a = {} /\ b = {} /\ c = {} /\ e = {} /\ f = {} /\ UNION g = {}
  BY <1>1
<1>3. bound = {} => IsEmpty(node.fn.in)
  BY <1>2 DEF a, When
<1>4. \A i \in DOMAIN Handlers(node) : Handlers(node)[i] = "fill" => i \in DOMAIN node.fills
  BY <1>2 DEF b, When
<1>5. bound # {} => expected \subseteq bound
  BY <1>2 DEF c, When
<1>6. bound \subseteq expected
  BY <1>2 DEF e, When
<1>7. bound # {} => node.fn.in.time # NoTime
  BY <1>2 DEF f, When
<1>8. \A i \in bound : BindingIssues(nodes, node, i) = {}
  BY <1>2 DEF g
<1>9. QED
  BY <1>3, <1>4, <1>5, <1>6, <1>7, <1>8

LEMMA NoBindingIssues ==
  ASSUME NEW nodes, NEW node, NEW i \in Expected(node), node.fn.in.time # NoTime,
         BindingIssues(nodes, node, i) = {}
  PROVE  LET parent == nodes[ParentOf(node, i)].fn.out
             output == node.bindings[i].output
         IN  /\ output \in DOMAIN parent.columns /\ parent.columns[output] = node.fn.in.columns[i]
             /\ parent.time = node.fn.in.time
<1> DEFINE parent == nodes[ParentOf(node, i)].fn.out
           output == node.bindings[i].output
           type == IF parent.columns[output] # node.fn.in.columns[i]
                     THEN {"INPUT_TYPE_MISMATCH"} ELSE {}
           time == TimeIssues(node.fn.in, parent)
<1>1. output \in DOMAIN parent.columns
  BY DEF BindingIssues
<1>2. type \union time = {}
  BY <1>1 DEF BindingIssues
<1> HIDE DEF parent, output
<1>3. type = {} /\ time = {}
  <2> HIDE DEF type, time
  <2>1. QED
    BY <1>2
<1>4. parent.columns[output] = node.fn.in.columns[i]
  BY <1>3
<1>5. parent.time = node.fn.in.time
  BY <1>3 DEF TimeIssues
<1>6. QED
  BY <1>1, <1>4, <1>5 DEF parent, output

\* What an accepted graph's node may end as: without a row unless it is well.
Fine == {"ok", "nulls", "data", "upstream"}
Settled(result, fn) == result.status \in Fine /\ Frame(result.rows, fn.out.columns)

\* Columns of the types, with the widths they have.
Among(columns, types) == Len(columns) \in Nat /\ \A k \in 1..Len(columns) : columns[k] \in DOMAIN types
WidthsOf(widths, types) == \A c \in DOMAIN types : widths[c] = types[c].width

ColumnsTo(node) == Where(Names, {k \in DOMAIN Names : Names[k] \in Expected(node)})
WidthsTo(node) == [i \in Expected(node) |-> node.fn.in.columns[i].width]

LEMMA AlignedFrame ==
  ASSUME NEW nodes, NEW ids, NEW results, NEW node, Bound(node) = Expected(node),
         Bound(node) \subseteq Range(Names),
         \A i \in Expected(node) :
           LET parent == nodes[ParentOf(node, i)].fn.out
               output == node.bindings[i].output
           IN  /\ output \in DOMAIN parent.columns
               /\ parent.columns[output] = node.fn.in.columns[i]
               /\ Frame(results[ids[ParentOf(node, i)]].rows, parent.columns)
  PROVE  /\ DOMAIN Bindings(ids, results, node) = Bound(node) /\ IsFiniteSet(Bound(node))
         /\ Frame(Align(Bindings(ids, results, node)), node.fn.in.columns)
         /\ Among(ColumnsTo(node), node.fn.in.columns)
         /\ WidthsOf(WidthsTo(node), node.fn.in.columns)
<1> DEFINE types == node.fn.in.columns
           bindings == Bindings(ids, results, node)
           columns == ColumnsTo(node)
           widths == WidthsTo(node)
           at == {k \in DOMAIN Names : Names[k] \in Expected(node)}
<1>1. DOMAIN bindings = DOMAIN types /\ DOMAIN types = Bound(node)
  BY DEF Bindings, Expected
<1>2. IsFiniteSet(DOMAIN bindings)
  <2>1. IsSeq(Names) /\ IsFiniteSet(DOMAIN Names)
    <3>1. IsSeq(Names)
      BY NamesAssumption DEF IsSeq
    <3>2. Len(Names) \in Nat /\ DOMAIN Names = 1..Len(Names)
      BY <3>1, SeqFacts
    <3>3. IsFiniteSet(1..Len(Names))
      BY <3>2, FS_Interval
    <3>4. QED
      BY <3>1, <3>2, <3>3
  <2>2. Names \in Surjection(DOMAIN Names, Range(Names))
    BY <2>1, SeqFacts DEF Surjection, Range
  <2>3. IsFiniteSet(Range(Names))
    BY <2>1, <2>2, FS_Surjection
  <2>4. QED
    BY <1>1, <2>3, FS_Subset
<1>3. ASSUME NEW i \in DOMAIN bindings
      PROVE  /\ IsSeq(bindings[i].frame)
             /\ \A k \in 1..Len(bindings[i].frame) :
                  /\ bindings[i].frame[k].time \in Int
                  /\ Fits(bindings[i].frame[k].cells[bindings[i].column], types[i])
  <2> DEFINE rows == results[ids[ParentOf(node, i)]].rows
             output == node.bindings[i].output
             parent == nodes[ParentOf(node, i)].fn.out
  <2>1. bindings[i].frame = rows /\ bindings[i].column = output
    BY <1>1 DEF Bindings
  <2>2. i \in Expected(node)
    BY <1>1
  <2>3. output \in DOMAIN parent.columns /\ parent.columns[output] = types[i]
        /\ Frame(rows, parent.columns)
    BY <2>2
  <2> HIDE DEF rows, output, parent, bindings
  <2>4. QED
    BY <2>1, <2>3 DEF Frame, Typed
<1> HIDE DEF bindings
<1>4. Frame(Align(bindings), types)
  BY <1>1, <1>2, <1>3, AlignFrame
<1>5. Len(columns) \in Nat /\ \A k \in 1..Len(columns) : columns[k] \in DOMAIN types
  <2>1. IsSeq(Names) /\ at \subseteq DOMAIN Names
    BY NamesAssumption DEF IsSeq
  <2>2. /\ Len(columns) = Cardinality(at) /\ Cardinality(at) \in Nat
        /\ \A k \in 1..Cardinality(at) : InOrder(at)[k] \in at /\ columns[k] = Names[InOrder(at)[k]]
    <3>1. columns = Where(Names, at)
      BY DEF ColumnsTo
    <3> HIDE DEF at, columns
    <3>2. QED
      BY <2>1, <3>1, WhereFacts
  <2> HIDE DEF columns
  <2>3. \A k \in 1..Cardinality(at) : columns[k] \in Expected(node)
    BY <2>2
  <2>4. QED
    BY <2>2, <2>3 DEF Expected
<1>6. \A c \in DOMAIN types : widths[c] = types[c].width
  BY DEF Expected, WidthsTo
<1> HIDE DEF columns, widths
<1>7. Among(columns, types) /\ WidthsOf(widths, types)
  BY <1>5, <1>6 DEF Among, WidthsOf
<1> HIDE DEF types
<1>8. QED
  BY <1>1, <1>2, <1>4, <1>7 DEF types, columns, widths, bindings

LEMMA PreparedFrame ==
  ASSUME NEW node, NEW ids, NEW results,
         Frame(Align(Bindings(ids, results, node)), node.fn.in.columns),
         Among(ColumnsTo(node), node.fn.in.columns), WidthsOf(WidthsTo(node), node.fn.in.columns)
  PROVE  Frame(Prepared(ids, results, node).rows, node.fn.in.columns)
<1> DEFINE types == node.fn.in.columns
           aligned == Align(Bindings(ids, results, node))
           columns == ColumnsTo(node)
           widths == WidthsTo(node)
<1>1. Prepared(ids, results, node)
        = Prepare(aligned, columns, widths, Handlers(node), node.fills)
  BY DEF Prepared, ColumnsTo, WidthsTo
<1>2. /\ Len(columns) \in Nat /\ \A k \in 1..Len(columns) : columns[k] \in DOMAIN types
      /\ \A c \in DOMAIN types : widths[c] = types[c].width
  BY DEF Among, WidthsOf
<1>3. Frame(aligned, types)
  OBVIOUS
<1> HIDE DEF aligned, columns, widths, types
<1>4. Frame(Prepare(aligned, columns, widths, Handlers(node), node.fills).rows, types)
  BY <1>2, <1>3, PrepareFrame
<1>5. QED
  BY <1>1, <1>4 DEF types

LEMMA OutcomeSettled ==
  ASSUME NEW node, NEW computed, Frame(computed, node.fn.out.columns)
  PROVE  Settled(Outcome(node, computed), node.fn)
<1> DEFINE declared == node.fn.out.columns
           failed == Refuses(node.fn, computed)
<1>1. \A k \in DOMAIN computed :
        /\ DOMAIN computed[k].cells = DOMAIN declared
        /\ \A c \in DOMAIN declared : Fits(computed[k].cells[c], declared[c])
  BY SeqFacts DEF Frame, Typed
<1>2. Outcome(node, computed) = IF failed THEN Failure("data") ELSE Ok(computed)
  BY <1>1 DEF Outcome
<1> HIDE DEF failed
<1>3. QED
  BY <1>2, NoFrame DEF Settled, Failure, Ok, Fine

\* What a node without issues makes of what parents that ended well made.
EvaluatedOver(ids, results, node) ==
  IF \E i \in Bound(node) : results[ids[ParentOf(node, i)]].status # "ok" THEN Failure("upstream")
  ELSE IF Prepared(ids, results, node).raised THEN Failure("nulls")
  ELSE Outcome(node, Apply(node.fn, Prepared(ids, results, node).rows))

LEMMA EvaluateBound ==
  ASSUME NEW nodes, NEW ids, NEW results, NEW sources, NEW node, Resolved(node),
         NodeIssues(nodes, node) = {}, Bound(node) \subseteq Range(Names), Bound(node) # {},
         \A p \in ParentsOf(node) : Settled(results[ids[p]], nodes[p].fn)
  PROVE  /\ node.fn.op # "source"
         /\ Evaluate(nodes, ids, results, sources, node) = EvaluatedOver(ids, results, node)
         /\ DOMAIN Bindings(ids, results, node) = Bound(node) /\ IsFiniteSet(Bound(node))
         /\ Frame(Align(Bindings(ids, results, node)), node.fn.in.columns)
         /\ Among(ColumnsTo(node), node.fn.in.columns)
         /\ WidthsOf(WidthsTo(node), node.fn.in.columns)
         /\ Frame(Prepared(ids, results, node).rows, node.fn.in.columns)
<1> DEFINE op == node.fn.op
           args == node.fn.args
           Up(i) == results[ids[ParentOf(node, i)]]
           Parent(i) == nodes[ParentOf(node, i)].fn.out
           Output(i) == node.bindings[i].output
           made == Evaluate(nodes, ids, results, sources, node)
           prepared == Prepared(ids, results, node)
<1>1. \E bound : node.fn = Function(op, args, bound)
  BY DEF Resolved
<1>2. /\ Bound(node) # {} => Expected(node) \subseteq Bound(node) /\ node.fn.in.time # NoTime
      /\ Bound(node) \subseteq Expected(node)
      /\ \A i \in DOMAIN Handlers(node) : Handlers(node)[i] = "fill" => i \in DOMAIN node.fills
      /\ \A i \in Bound(node) : BindingIssues(nodes, node, i) = {}
  BY NoIssues
<1>3. op # "source" /\ Bound(node) = Expected(node) /\ node.fn.in.time # NoTime
  <2>1. Bound(node) = Expected(node) /\ node.fn.in.time # NoTime
    BY <1>2
  <2>2. QED
    BY <1>1, <2>1 DEF Function
<1>4. ASSUME NEW i \in Expected(node)
      PROVE  /\ Output(i) \in DOMAIN Parent(i).columns
             /\ Parent(i).columns[Output(i)] = node.fn.in.columns[i]
             /\ Parent(i).time = node.fn.in.time
  BY <1>2, <1>3, NoBindingIssues
<1>5. ASSUME NEW i \in Bound(node) PROVE Settled(Up(i), nodes[ParentOf(node, i)].fn)
  BY DEF ParentsOf
<1>6. \A i \in Bound(node) : Up(i) # NotRun
  <2>1. NotRun.status \notin Fine
    BY DEF NotRun, Failure, Fine
  <2> HIDE DEF Up
  <2>2. QED
    BY <1>5, <2>1 DEF Settled
<1>7. made = EvaluatedOver(ids, results, node)
  <2>1. \A i \in Expected(node) : i \in DOMAIN Handlers(node)
    BY DEF Handlers
  <2>2. /\ ~(\E i \in Bound(node) : Up(i) = NotRun)
        /\ ~(\E i \in Bound(node) : node.fn.in.time = NoTime \/ Parent(i).time # node.fn.in.time)
        /\ ~(\E i \in Bound(node) : Output(i) \notin DOMAIN Parent(i).columns)
        /\ Expected(node) \subseteq Bound(node)
        /\ ~(\E i \in Expected(node) : Parent(i).columns[Output(i)] # node.fn.in.columns[i])
        /\ ~(\E i \in Expected(node) : Handlers(node)[i] = "fill" /\ i \notin DOMAIN node.fills)
    BY <1>2, <1>3, <1>4, <1>6, <2>1
  <2>3. QED
    BY <2>2 DEF Evaluate, EvaluatedOver
<1>8. \A i \in Expected(node) : Frame(Up(i).rows, Parent(i).columns)
  BY <1>3, <1>5 DEF Settled
<1>9. /\ DOMAIN Bindings(ids, results, node) = Bound(node) /\ IsFiniteSet(Bound(node))
      /\ Frame(Align(Bindings(ids, results, node)), node.fn.in.columns)
      /\ Among(ColumnsTo(node), node.fn.in.columns)
      /\ WidthsOf(WidthsTo(node), node.fn.in.columns)
  <2>1. \A i \in Expected(node) :
          /\ Output(i) \in DOMAIN Parent(i).columns
          /\ Parent(i).columns[Output(i)] = node.fn.in.columns[i]
          /\ Frame(Up(i).rows, Parent(i).columns)
    BY <1>4, <1>8
  <2>2. QED
    BY <1>3, <2>1, AlignedFrame
<1>10. Frame(prepared.rows, node.fn.in.columns)
  BY <1>9, PreparedFrame
<1>11. QED
  BY <1>3, <1>7, <1>9, <1>10

\* A node without issues, over parents that ended well, ends well: with a frame of
\* the columns it declared, or raising on its data.
LEMMA EvaluateSettled ==
  ASSUME NEW nodes, NEW ids, NEW results, NEW sources, Fed(sources), NEW node, Resolved(node),
         NodeIssues(nodes, node) = {}, Bound(node) \subseteq Range(Names),
         \A p \in ParentsOf(node) : Settled(results[ids[p]], nodes[p].fn)
  PROVE  Settled(Evaluate(nodes, ids, results, sources, node), node.fn)
<1> DEFINE op == node.fn.op
           args == node.fn.args
           made == Evaluate(nodes, ids, results, sources, node)
           prepared == Prepared(ids, results, node)
<1>1. PICK bound : /\ op \in Operations /\ Sized(bound) /\ node.fn = Function(op, args, bound)
                   /\ op # "source" => ValidConfig(op, args) /\ Resolvable(op, args, bound)
                   /\ op = "source" => args.feed \in DOMAIN Feeds /\ args.type = Feeds[args.feed]
  BY DEF Resolved
<1>2. Bound(node) = {} => IsEmpty(node.fn.in)
  BY NoIssues
<1>3. op # "source" => node.fn.in.time = Utc
  BY <1>1 DEF Function
<1>4. CASE Bound(node) = {}
  <2>1. op = "source"
    BY <1>2, <1>3, <1>4 DEF IsEmpty, Utc, NoTime
  <2>2. made = Ok(sources[args.feed])
    BY <1>4, <2>1 DEF Evaluate
  <2>3. node.fn.out.columns = [value |-> args.type]
    BY <1>1, <2>1 DEF Function
  <2>4. Frame(sources[args.feed], node.fn.out.columns)
    BY <1>1, <2>1, <2>3 DEF Fed
  <2>5. Ok(sources[args.feed]).status = "ok" /\ Ok(sources[args.feed]).rows = sources[args.feed]
    BY DEF Ok
  <2>6. QED
    BY <2>2, <2>4, <2>5 DEF Settled, Fine
<1>5. CASE Bound(node) # {}
  <2>1. /\ op # "source" /\ made = EvaluatedOver(ids, results, node)
        /\ Frame(prepared.rows, node.fn.in.columns)
    BY <1>5, EvaluateBound
  <2> DEFINE rows == prepared.rows
  <2> HIDE DEF prepared, made
  <2>2. Frame(Apply(node.fn, rows), node.fn.out.columns)
    <3> HIDE DEF rows
    <3>1. Frame(rows, Function(op, args, bound).in.columns)
      BY <1>1, <2>1 DEF rows
    <3> HIDE DEF op, args
    <3>2. Frame(Apply(Function(op, args, bound), rows), Function(op, args, bound).out.columns)
      BY <1>1, <2>1, <3>1, AppliedFrame
    <3>3. QED
      BY <1>1, <3>2 DEF rows
  <2>3. Settled(Outcome(node, Apply(node.fn, rows)), node.fn)
    BY <2>2, OutcomeSettled
  <2>4. Settled(Failure("nulls"), node.fn) /\ Settled(Failure("upstream"), node.fn)
    BY NoFrame DEF Settled, Failure, Fine
  <2>5. \/ made = Failure("upstream") \/ made = Failure("nulls")
        \/ made = Outcome(node, Apply(node.fn, rows))
    BY <2>1 DEF EvaluatedOver, prepared
  <2>6. QED
    BY <2>3, <2>4, <2>5 DEF made
<1>6. QED
  BY <1>4, <1>5

LEMMA ExecutionSettled ==
  ASSUME NEW nodes, NEW ids, Program(nodes, ids), NamesInputs(nodes),
         NEW sources, Fed(sources), \A n \in 1..Len(nodes) : Resolved(nodes[n]),
         Accepted(nodes, OrderTaken(nodes, ids))
  PROVE  \A n \in 1..Len(nodes) : Settled(Execute(nodes, ids, sources)[ids[n]], nodes[n].fn)
<1> DEFINE N == Len(nodes)
           order == OrderTaken(nodes, ids)
           c == Len(order)
           results == Execute(nodes, ids, sources)
<1>1. /\ Ordered(nodes, ids, order) /\ c \in Nat
      /\ \A k \in 1..c : order[k] \in 1..N
      /\ \A n \in 1..N : Holds(ids, order, ids[n])
  BY OrderTakenSound
<1>2. ASSUME NEW k \in 1..c
      PROVE  results[ids[order[k]]] = Evaluate(nodes, ids, results, sources, nodes[order[k]])
  <2> DEFINE m == Taken(nodes, ids, order[k])
  <2>1. m \in Range(order) /\ ids[m] = ids[order[k]] /\ order[k] \in 1..N
    BY <1>1, TakenFacts
  <2>2. results[ids[order[k]]] = Evaluate(nodes, ids, results, sources, nodes[m])
    BY <2>1, ExecutionIsFixpoint
  <2> HIDE DEF m, results, order, c
  <2>3. DOMAIN order = 1..c /\ \A i, j \in 1..c : ids[order[i]] = ids[order[j]] => i = j
    BY <1>1 DEF Ordered, c
  <2>4. m = order[k]
    BY <2>1, <2>3 DEF Range
  <2>5. QED
    BY <2>2, <2>4
<1>3. \A k \in Range(order) : NodeIssues(nodes, nodes[k]) = {}
  BY DEF Accepted
<1> HIDE DEF order, results, c, N
<1>4. \A k \in 1..c : NodeIssues(nodes, nodes[order[k]]) = {}
  <2>1. DOMAIN order = 1..c
    BY <1>1 DEF Ordered, c
  <2>2. QED
    BY <1>3, <2>1 DEF Range
<1>5. ASSUME NEW m \in 1..N, NEW n \in 1..N, ids[m] = ids[n] PROVE nodes[m].fn.out = nodes[n].fn.out
  BY <1>5, SharedFunctions DEF N, SameSignature
<1> DEFINE Good(n) == Settled(results[ids[n]], nodes[n].fn)
           S == {k \in 0..c : \A j \in 1..k : Good(order[j])}
<1>6. 0 \in S
  BY <1>1
<1>7. ASSUME NEW k \in 1..c, k - 1 \in S PROVE k \in S
  <2> DEFINE n == order[k]
  <2>1. n \in 1..N /\ \A j \in 1..(k - 1) : Good(order[j])
    BY <1>1, <1>7
  <2>2. ASSUME NEW p \in ParentsOf(nodes[n]) PROVE Good(p)
    <3>1. PICK j \in 1..(k - 1) : ids[order[j]] = ids[p]
      BY <1>1 DEF Ordered, c
    <3>2. p \in 1..N /\ j \in 1..c
      BY <1>1, <2>1, ParentIDs DEF N
    <3>3. order[j] \in 1..N
      BY <1>1, <3>2
    <3>4. nodes[order[j]].fn.out = nodes[p].fn.out
      BY <1>5, <3>1, <3>2, <3>3
    <3>5. Good(order[j])
      BY <2>1
    <3>6. QED
      BY <3>1, <3>4, <3>5 DEF Settled
  <2>3. Resolved(nodes[n]) /\ Bound(nodes[n]) \subseteq Range(Names)
    BY <2>1 DEF NamesInputs, N
  <2>4. NodeIssues(nodes, nodes[n]) = {}
    BY <1>4
  <2> HIDE DEF n
  <2>5. Settled(Evaluate(nodes, ids, results, sources, nodes[n]), nodes[n].fn)
    BY <2>2, <2>3, <2>4, EvaluateSettled
  <2>6. Good(n)
    BY <1>2, <2>1, <2>5 DEF n
  <2> HIDE DEF Good
  <2>7. \A j \in 1..k : Good(order[j])
    <3>1. \A j \in 1..k : j = k \/ j \in 1..(k - 1)
      BY <1>1
    <3>2. QED
      BY <2>1, <2>6, <3>1 DEF n
  <2>8. k \in 0..c
    BY <1>1
  <2>9. QED
    BY <2>7, <2>8
<1> HIDE DEF Good
<1>8. 0..c \subseteq S
  <2> HIDE DEF S
  <2>1. QED
    BY <1>1, <1>6, <1>7, IntervalInduction
<1>9. \A k \in 1..c : Good(order[k])
  BY <1>1, <1>8
<1>10. ASSUME NEW n \in 1..N PROVE Good(n)
  <2>1. PICK k \in 1..c : ids[order[k]] = ids[n]
    BY <1>1 DEF Holds, c
  <2>2. order[k] \in 1..N /\ Good(order[k])
    BY <1>1, <1>9
  <2>3. nodes[order[k]].fn.out = nodes[n].fn.out
    BY <1>5, <2>1, <2>2
  <2>4. QED
    BY <2>1, <2>2, <2>3 DEF Good, Settled
<1>11. QED
  BY <1>10 DEF Good, N, results

\* Nodes have the signatures they resolved, feeds hold cells of their types, and
\* every frame an execution of an accepted graph made has the declared columns.
TypedInv ==
  /\ \A n \in 1..Len(d) : Resolved(d[n])
  /\ Fed(seen)
  /\ now > 0 => \A n \in 1..Len(d) : Settled(frames[id[n]], d[n].fn)

LEMMA SourcesTyped == Init => TypedInv
<1> SUFFICES ASSUME Init PROVE TypedInv
  OBVIOUS
<1> DEFINE N == Len(Sources)
<1>1. N \in Nat /\ DOMAIN Sources = 1..N
  BY SourcesAssumption
<1>2. d = [n \in 1..N |-> Built(<<>>, Sources[n])]
  BY <1>1 DEF Init
<1> HIDE DEF N
<1>3. d = [n \in 1..N |-> d[n]]
  BY <1>2
<1>4. Len(d) = N
  BY <1>1, <1>3, SeqByDomain
<1>5. ASSUME NEW n \in 1..N PROVE Resolved(d[n])
  <2>1. Constructible(<<>>, Sources[n]) /\ DeclaresFeed(Sources[n])
    BY <1>1, SourcesAssumption
  <2>2. DOMAIN <<>> = {}
    OBVIOUS
  <2>3. Resolved(Built(<<>>, Sources[n]))
    BY <2>1, <2>2, BuiltResolved
  <2>4. QED
    BY <1>2, <2>3
<1>6. Fed(seen)
  BY NoFrame DEF Init, Fed
<1>7. ~(now > 0)
  BY DEF Init
<1>8. QED
  BY <1>4, <1>5, <1>6, <1>7 DEF TypedInv

LEMMA DeclaredTyped ==
  ASSUME Program(d, id), TypedInv, Declare
  PROVE  TypedInv'
<1>1. PICK decl \in Nodes(d) :
        Constructible(d, decl) /\ DeclaresFeed(decl) /\ d' = Append(d, Built(d, decl))
  BY DEF Declare
<1>2. IsSeq(d) /\ Len(d) \in Nat /\ DOMAIN d = 1..Len(d)
  BY SeqFacts DEF Program
<1>3. \A n \in DOMAIN d : Sized(d[n].fn.out.columns)
  BY <1>2 DEF TypedInv, Resolved
<1>4. Resolved(Built(d, decl))
  BY <1>1, <1>3, BuiltResolved
<1> DEFINE node == Built(d, decl)
<1> HIDE DEF node
<1>5. /\ Len(d') = Len(d) + 1 /\ d'[Len(d) + 1] = node
      /\ \A n \in 1..Len(d) : d'[n] = d[n]
  BY <1>1, <1>2, Appended DEF node
<1>6. ASSUME NEW n \in 1..(Len(d) + 1) PROVE Resolved(d'[n])
  <2>1. n = Len(d) + 1 \/ n \in 1..Len(d)
    BY <1>2
  <2>2. QED
    BY <1>4, <1>5, <2>1 DEF TypedInv, node
<1>7. ~(now' > 0) /\ seen' = seen
  BY DEF Declare
<1>8. QED
  BY <1>5, <1>6, <1>7 DEF TypedInv, Fed

LEMMA ObservedTyped ==
  ASSUME ProgramInv, TypedInv, Observe
  PROVE  TypedInv'
<1>1. /\ now' = now + 1 /\ now \in Nat /\ d' = d /\ id' = id
      /\ frames' = Execute(d, id, seen') /\ Accepted(d, OrderTaken(d, id))
  BY DEF Observe, OrderTaken, ProgramInv
<1>2. PICK o \in Observations :
        seen' = [s \in DOMAIN seen |->
                   IF s \in DOMAIN o
                     THEN Append(seen[s], [time |-> now', cells |-> [value |-> o[s]]])
                     ELSE seen[s]]
  BY DEF Observe
<1>3. DOMAIN seen = DOMAIN Feeds /\ \A s \in DOMAIN Feeds : Frame(seen[s], [value |-> Feeds[s]])
  BY DEF TypedInv, Fed
<1>4. DOMAIN seen' = DOMAIN Feeds
  BY <1>2, <1>3
<1>5. ASSUME NEW s \in DOMAIN Feeds PROVE Frame(seen'[s], [value |-> Feeds[s]])
  <2>1. CASE s \in DOMAIN o
    <3> DEFINE row == [time |-> now', cells |-> [value |-> o[s]]]
               types == [value |-> Feeds[s]]
    <3>1. Fits(o[s], Feeds[s])
      BY <2>1, ObservationsAssumption
    <3>2. Typed(row, types)
      <4>1. now' \in Int
        BY <1>1
      <4>2. QED
        BY <3>1, <4>1 DEF Typed
    <3>3. seen'[s] = Append(seen[s], row) /\ Frame(seen[s], types)
      BY <1>2, <1>3, <2>1
    <3> HIDE DEF row, types
    <3>4. Frame(Append(seen[s], row), types)
      BY <3>2, <3>3, FrameAppend
    <3>5. QED
      BY <3>3, <3>4 DEF types
  <2>2. CASE s \notin DOMAIN o
    BY <1>2, <1>3, <2>2
  <2>3. QED
    BY <2>1, <2>2
<1>6. Fed(seen')
  BY <1>4, <1>5 DEF Fed
<1>7. \A n \in 1..Len(d) : Resolved(d[n])
  BY DEF TypedInv
<1>8. \A n \in 1..Len(d) : Settled(Execute(d, id, seen')[id[n]], d[n].fn)
  BY <1>1, <1>6, <1>7, ExecutionSettled DEF ProgramInv
<1>9. \A n \in 1..Len(d') : Settled(frames'[id'[n]], d'[n].fn)
  BY <1>1, <1>8
<1>10. \A n \in 1..Len(d') : Resolved(d'[n])
  BY <1>1, <1>7
<1>11. QED
  BY <1>6, <1>9, <1>10 DEF TypedInv, Fed

\* TypedInv holds from the sources through every declaration and observation.
THEOREM TypesInvariant == Spec => []TypedInv
<1>1. Init => TypedInv
  BY SourcesTyped
<1>2. ProgramInv /\ TypedInv /\ [Next]_vars => TypedInv'
  <2> SUFFICES ASSUME ProgramInv, TypedInv, [Next]_vars PROVE TypedInv'
    OBVIOUS
  <2>1. CASE Declare
    BY <2>1, DeclaredTyped DEF ProgramInv
  <2>2. CASE Observe
    BY <2>2, ObservedTyped
  <2>3. CASE UNCHANGED vars
    BY <2>3 DEF vars, TypedInv, Fed
  <2>4. QED
    BY <2>1, <2>2, <2>3 DEF Next
<1>3. QED
  BY <1>1, <1>2, ProgramInvariant, PTL DEF Spec

\* A graph that validates never fails on its declaration.
THEOREM AcceptedGraphsRun == Spec => []AcceptedGraphsExecute
<1>1. ProgramInv /\ TypedInv => AcceptedGraphsExecute
  <2> SUFFICES ASSUME ProgramInv, TypedInv, NEW n \in DOMAIN frames, id[n] = n
               PROVE  frames[n].status \in {"ok", "nulls", "data", "upstream"}
    BY DEF AcceptedGraphsExecute
  <2>1. CASE now = 0
    <3>1. frames = <<>>
      BY <2>1 DEF ProgramInv
    <3>2. QED
      BY <3>1
  <2>2. CASE now # 0
    <3>1. now > 0 /\ Program(d, id) /\ NamesInputs(d) /\ frames = Execute(d, id, seen)
      BY <2>2 DEF ProgramInv
    <3>2. n \in 1..Len(d)
      BY <3>1, ExecutionIsFixpoint
    <3>3. Settled(frames[id[n]], d[n].fn)
      BY <3>1, <3>2 DEF TypedInv
    <3>4. QED
      BY <3>3 DEF Settled, Fine
  <2>3. QED
    BY <2>1, <2>2
<1>2. QED
  BY <1>1, ProgramInvariant, TypesInvariant, PTL

-----------------------------------------------------------------------------
(* Nodes of one ID *)

\* Nodes of one ID make of rows what their functions share: the parameters that
\* are left out name the store of a model, and nothing a trainer's frame holds.
OneStore(x, y) == x.fn.op = "model" => x.fn.args.model_dir = y.fn.args.model_dir

LEMMA SharedOutcomes ==
  ASSUME NEW x, NEW y, Resolved(x), Resolved(y), SameFunction(x.fn, y.fn), OneStore(x, y),
         NEW rows
  PROVE  Outcome(x, Apply(x.fn, rows)) = Outcome(y, Apply(y.fn, rows))
<1>1. x.fn.op = y.fn.op /\ x.fn.in = y.fn.in /\ x.fn.out = y.fn.out
  BY DEF SameFunction
<1>2. CASE x.fn.op \notin Models
  <2>1. x.fn.args = y.fn.args
    BY <1>1, <1>2 DEF SameFunction, IdentityParameters, Excluded, Models
  <2> DEFINE Rest(op, in, out, args) ==
               [op |-> op, args |-> args, in |-> in, out |-> out, lookahead |-> op = "lead",
                allows |-> IF Kind(op) = "supervised" THEN {"target"} ELSE {},
                batch |-> op \in Batch, nulls |-> IF op \in Batch THEN "error" ELSE "propagate"]
  <2>2. ASSUME NEW node, Resolved(node)
        PROVE  node.fn = Rest(node.fn.op, node.fn.in, node.fn.out, node.fn.args)
    <3> DEFINE op == node.fn.op
               args == node.fn.args
    <3>1. PICK bound : node.fn = Function(op, args, bound)
      BY <2>2 DEF Resolved
    <3>2. ASSUME NEW o, NEW a, NEW fn, fn = Function(o, a, bound)
          PROVE  fn = Rest(fn.op, fn.in, fn.out, fn.args)
      BY <3>2 DEF Function
    <3> HIDE DEF Rest, op, args
    <3>3. QED
      BY <3>1, <3>2
  <2> HIDE DEF Rest
  <2>4. x.fn = y.fn
    BY <1>1, <2>1, <2>2
  <2>3. QED
    BY <2>4 DEF Outcome
<1>3. CASE x.fn.op \in Models
  <2>1. Apply(x.fn, rows) = Apply(y.fn, rows)
    BY <1>1, <1>3, ModelApply DEF Models
  <2> DEFINE computed == Apply(x.fn, rows)
  <2> HIDE DEF computed
  <2>2. Refuses(x.fn, computed) = Refuses(y.fn, computed)
    BY <1>1 DEF Refuses, OneStore
  <2>3. Outcome(x, computed) = Outcome(y, computed)
    BY <1>1, <2>2 DEF Outcome
  <2>4. QED
    BY <2>1, <2>3 DEF computed
<1>4. QED
  BY <1>2, <1>3

\* Whatever the results are: nodes of one ID make the same of them, models that
\* name one store.
LEMMA SharedEvaluation ==
  ASSUME NEW nodes, NEW ids, NEW results, NEW sources, Program(nodes, ids),
         NEW m \in 1..Len(nodes), NEW n \in 1..Len(nodes), ids[m] = ids[n],
         Resolved(nodes[m]), Resolved(nodes[n]), OneStore(nodes[m], nodes[n])
  PROVE  Evaluate(nodes, ids, results, sources, nodes[m])
           = Evaluate(nodes, ids, results, sources, nodes[n])
<1> DEFINE x == nodes[m]
           y == nodes[n]
<1>1. /\ SameFunction(x.fn, y.fn) /\ Handlers(x) = Handlers(y) /\ x.fills = y.fills /\ Bound(x) = Bound(y)
      /\ x.tolerances = y.tolerances
      /\ \A i \in Bound(y) : /\ ids[ParentOf(x, i)] = ids[ParentOf(y, i)]
                             /\ x.bindings[i].output = y.bindings[i].output
  BY SharedFunctions DEF SameDefinition
<1>2. \A i \in Bound(y) : nodes[ParentOf(x, i)].fn.out = nodes[ParentOf(y, i)].fn.out
  <2> SUFFICES ASSUME NEW i \in Bound(y)
               PROVE  nodes[ParentOf(x, i)].fn.out = nodes[ParentOf(y, i)].fn.out
    OBVIOUS
  <2>1. ParentOf(x, i) \in ParentsOf(x) /\ ParentOf(y, i) \in ParentsOf(y)
    BY <1>1 DEF ParentsOf
  <2>2. ParentOf(x, i) \in 1..(m - 1) /\ ParentOf(y, i) \in 1..(n - 1)
    BY <2>1 DEF Program, Acyclic
  <2>3. ParentOf(x, i) \in 1..Len(nodes) /\ ParentOf(y, i) \in 1..Len(nodes)
    <3>1. Len(nodes) \in Nat
      BY SeqFacts DEF Program
    <3>2. QED
      BY <2>2, <3>1
  <2>4. QED
    BY <1>1, <2>3, SharedFunctions DEF SameSignature
<1>6. \A rows : Outcome(x, Apply(x.fn, rows)) = Outcome(y, Apply(y.fn, rows))
  <2>1. Resolved(x) /\ Resolved(y) /\ OneStore(x, y)
    OBVIOUS
  <2> HIDE DEF x, y
  <2>2. QED
    BY <1>1, <2>1, SharedOutcomes
<1> HIDE DEF x, y
<1>3. Bindings(ids, results, x) = Bindings(ids, results, y)
  BY <1>1 DEF Bindings
<1>8. x.fn.op = y.fn.op /\ x.fn.in = y.fn.in /\ x.fn.out = y.fn.out
  BY <1>1 DEF SameFunction
<1>4. Expected(x) = Expected(y)
  BY <1>8 DEF Expected
<1>5. Prepared(ids, results, x) = Prepared(ids, results, y)
  BY <1>1, <1>3, <1>4, <1>8 DEF Prepared
<1>7. QED
  <2> SUFFICES Evaluate(nodes, ids, results, sources, x) = Evaluate(nodes, ids, results, sources, y)
    BY DEF x, y
  <2> DEFINE Up(z, i) == results[ids[ParentOf(z, i)]]
             Out(z, i) == nodes[ParentOf(z, i)].fn.out
             Rootless(z) == Bound(z) = {}
             Orphan(z) == \E i \in Bound(z) : Up(z, i) = NotRun
             Stopped(z) == \E i \in Bound(z) : Up(z, i).status # "ok"
             Untimed(z) == \E i \in Bound(z) : z.fn.in.time = NoTime \/ Out(z, i).time # z.fn.in.time
             Columnless(z) == \E i \in Bound(z) : z.bindings[i].output \notin DOMAIN Out(z, i).columns
             Unbound(z) == ~(Expected(z) \subseteq Bound(z))
             Mistyped(z) == \E i \in Expected(z) :
                          Out(z, i).columns[z.bindings[i].output] # z.fn.in.columns[i]
             Unfilled(z) == \E i \in Expected(z) : Handlers(z)[i] = "fill" /\ i \notin DOMAIN z.fills
             Read(z) == IF z.fn.op = "source" THEN Ok(sources[z.fn.args.feed])
                          ELSE Failure("no input frame")
             Results(z) == Outcome(z, Apply(z.fn, Prepared(ids, results, z).rows))
             Raising(z) == Prepared(ids, results, z).raised
             Chosen(z) ==
               IF Rootless(z) THEN Read(z) ELSE IF Orphan(z) THEN Failure("parent")
               ELSE IF Stopped(z) THEN Failure("upstream") ELSE IF Untimed(z) THEN Failure("time")
               ELSE IF Columnless(z) THEN Failure("column") ELSE IF Unbound(z) THEN Failure("column")
               ELSE IF Mistyped(z) THEN Failure("type") ELSE IF Unfilled(z) THEN Failure("fill")
               ELSE IF Raising(z) THEN Failure("nulls") ELSE Results(z)
  <2>1. \A z : Evaluate(nodes, ids, results, sources, z) = Chosen(z)
    BY DEF Evaluate
  <2>2. /\ Rootless(x) = Rootless(y) /\ Orphan(x) = Orphan(y) /\ Stopped(x) = Stopped(y)
        /\ Untimed(x) = Untimed(y) /\ Columnless(x) = Columnless(y) /\ Unbound(x) = Unbound(y)
    BY <1>1, <1>2, <1>4, <1>8
  <2>3. Mistyped(x) \/ Mistyped(y) => Unbound(x) \/ Mistyped(x) = Mistyped(y)
    BY <1>1, <1>2, <1>4, <1>8
  <2>4. Unfilled(x) = Unfilled(y)
    BY <1>1, <1>4
  <2>8. Read(x) = Read(y)
    BY <1>1 DEF SameFunction, IdentityParameters, Excluded
  <2>5. Results(x) = Results(y) /\ Raising(x) = Raising(y)
    BY <1>5, <1>6
  <2> HIDE DEF Rootless, Orphan, Stopped, Untimed, Columnless, Unbound, Mistyped, Unfilled, Read, Results, Raising
  <2>6. Chosen(x) = Chosen(y)
    BY <2>2, <2>3, <2>4, <2>5, <2>8
  <2> HIDE DEF Chosen
  <2>7. QED
    BY <2>1, <2>6

\* Nodes of one ID make one frame, whatever program built them, models that name one
\* store: what a graph computes for an ID is what each of its nodes would compute.
THEOREM SharedIDsAreInterchangeable == Spec => []SharedIDsShareFrames
<1>1. ProgramInv /\ TypedInv => SharedIDsShareFrames
  <2> SUFFICES ASSUME ProgramInv, TypedInv, now > 0, NEW m \in DOMAIN frames, NEW n \in DOMAIN frames,
                      id[m] = id[n],
                      d[n].fn.op = "model" => d[m].fn.args.model_dir = d[n].fn.args.model_dir
               PROVE  Evaluate(d, id, frames, seen, d[m]) = Evaluate(d, id, frames, seen, d[n])
    BY DEF SharedIDsShareFrames
  <2>1. Program(d, id) /\ NamesInputs(d) /\ frames = Execute(d, id, seen)
    BY DEF ProgramInv
  <2>2. DOMAIN frames = 1..Len(d)
    BY <2>1, ExecutionIsFixpoint
  <2>3. Resolved(d[m]) /\ Resolved(d[n])
    BY <2>2 DEF TypedInv
  <2>4. OneStore(d[m], d[n])
    BY <2>1, <2>2, SharedFunctions DEF OneStore, SameSignature
  <2>5. QED
    BY <2>1, <2>2, <2>3, <2>4, SharedEvaluation
<1>2. QED
  BY <1>1, ProgramInvariant, TypesInvariant, PTL

-----------------------------------------------------------------------------
(* The components of shaped computations *)

\* A node's inputs are bound to columns of their types.
Joined(nodes, node) ==
  node.fn.op # "source" =>
    /\ Bound(node) = Expected(node)
    /\ \A i \in Expected(node) :
         LET parent == nodes[ParentOf(node, i)].fn.out
             output == node.bindings[i].output
         IN  output \in DOMAIN parent.columns /\ parent.columns[output] = node.fn.in.columns[i]

LEMMA IssuesJoined ==
  ASSUME NEW nodes, NEW node, Resolved(node), NodeIssues(nodes, node) = {}
  PROVE  Joined(nodes, node)
<1> SUFFICES ASSUME node.fn.op # "source" PROVE Joined(nodes, node)
  BY DEF Joined
<1>1. node.fn.in.time = Utc
  BY DEF Resolved, Function
<1>2. Bound(node) # {}
  BY <1>1, NoIssues DEF IsEmpty, Utc, NoTime
<1>3. Bound(node) = Expected(node) /\ node.fn.in.time # NoTime
  BY <1>2, NoIssues
<1>4. \A i \in Expected(node) : BindingIssues(nodes, node, i) = {}
  BY <1>3, NoIssues
<1>5. QED
  BY <1>3, <1>4, NoBindingIssues DEF Joined

LEMMA SharedJoined ==
  ASSUME NEW nodes, NEW ids, Program(nodes, ids),
         NEW m \in 1..Len(nodes), NEW n \in 1..Len(nodes), ids[m] = ids[n],
         Joined(nodes, nodes[m])
  PROVE  Joined(nodes, nodes[n])
<1> DEFINE x == nodes[m]
           y == nodes[n]
<1>1. /\ SameSignature(x.fn, y.fn) /\ Bound(x) = Bound(y)
      /\ \A i \in Bound(y) : /\ ids[ParentOf(x, i)] = ids[ParentOf(y, i)]
                             /\ x.bindings[i].output = y.bindings[i].output
  BY SharedFunctions DEF SameDefinition
<1>2. \A i \in Bound(y) : nodes[ParentOf(x, i)].fn.out = nodes[ParentOf(y, i)].fn.out
  <2> SUFFICES ASSUME NEW i \in Bound(y)
               PROVE  nodes[ParentOf(x, i)].fn.out = nodes[ParentOf(y, i)].fn.out
    OBVIOUS
  <2>1. ParentOf(x, i) \in ParentsOf(x) /\ ParentOf(y, i) \in ParentsOf(y)
    BY <1>1 DEF ParentsOf
  <2>2. ParentOf(x, i) \in 1..Len(nodes) /\ ParentOf(y, i) \in 1..Len(nodes)
    BY <2>1, ParentIDs
  <2>3. QED
    BY <1>1, <2>2, SharedFunctions DEF SameSignature
<1>3. Expected(x) = Expected(y)
  BY <1>1 DEF Expected, SameSignature
<1> SUFFICES ASSUME y.fn.op # "source" PROVE Joined(nodes, y)
  BY DEF Joined
<1>4. Bound(x) = Expected(x)
      /\ \A i \in Expected(x) :
           LET parent == nodes[ParentOf(x, i)].fn.out
               output == x.bindings[i].output
           IN  output \in DOMAIN parent.columns /\ parent.columns[output] = x.fn.in.columns[i]
  <2>1. x.fn.op # "source" /\ Joined(nodes, x)
    BY <1>1 DEF SameSignature
  <2> HIDE DEF x, y
  <2>2. QED
    BY <2>1 DEF Joined
<1> HIDE DEF x, y
<1>5. ASSUME NEW i \in Expected(y)
      PROVE  LET parent == nodes[ParentOf(y, i)].fn.out
                 output == y.bindings[i].output
             IN  output \in DOMAIN parent.columns /\ parent.columns[output] = y.fn.in.columns[i]
  <2> DEFINE p == nodes[ParentOf(x, i)].fn.out
             q == nodes[ParentOf(y, i)].fn.out
             o == x.bindings[i].output
  <2>1. i \in Bound(y) /\ i \in Expected(x)
    BY <1>1, <1>3, <1>4
  <2>2. p = q /\ o = y.bindings[i].output /\ x.fn.in.columns[i] = y.fn.in.columns[i]
    BY <1>1, <1>2, <2>1 DEF SameSignature
  <2>3. o \in DOMAIN p.columns /\ p.columns[o] = x.fn.in.columns[i]
    BY <1>4, <2>1
  <2> HIDE DEF p, q, o
  <2>4. o \in DOMAIN q.columns /\ q.columns[o] = y.fn.in.columns[i]
    BY <2>2, <2>3
  <2>5. QED
    BY <2>2, <2>4 DEF q
<1>6. Bound(y) = Expected(y)
  BY <1>1, <1>3, <1>4
<1>7. Joined(nodes, y)
  BY <1>5, <1>6 DEF Joined
<1>8. QED
  BY <1>7 DEF y

\* In an accepted graph a node of each ID has no issue.
HasTwin(nodes, ids, n) ==
  \E m \in 1..Len(nodes) : ids[m] = ids[n] /\ NodeIssues(nodes, nodes[m]) = {}

LEMMA AcceptedTwin ==
  ASSUME NEW nodes, NEW ids, Program(nodes, ids), NamesInputs(nodes),
         Accepted(nodes, OrderTaken(nodes, ids)), NEW n \in 1..Len(nodes)
  PROVE  HasTwin(nodes, ids, n)
<1> DEFINE order == OrderTaken(nodes, ids)
           c == Len(order)
<1>1. /\ Ordered(nodes, ids, order) /\ Holds(ids, order, ids[n])
      /\ \A k \in 1..c : order[k] \in 1..Len(nodes)
  BY OrderTakenSound
<1>2. \A k \in Range(order) : NodeIssues(nodes, nodes[k]) = {}
  BY DEF Accepted
<1> HIDE DEF order
<1>3. DOMAIN order = 1..c
  BY <1>1 DEF Ordered
<1>4. PICK k \in 1..c : ids[order[k]] = ids[n]
  BY <1>1 DEF Holds
<1>5. order[k] \in 1..Len(nodes) /\ NodeIssues(nodes, nodes[order[k]]) = {}
  BY <1>1, <1>2, <1>3 DEF Range
<1>6. QED
  BY <1>4, <1>5 DEF HasTwin

LEMMA AcceptedJoined ==
  ASSUME NEW nodes, NEW ids, Program(nodes, ids), NamesInputs(nodes),
         \A n \in 1..Len(nodes) : Resolved(nodes[n]), Accepted(nodes, OrderTaken(nodes, ids)),
         NEW n \in 1..Len(nodes)
  PROVE  Joined(nodes, nodes[n])
<1>1. HasTwin(nodes, ids, n)
  BY AcceptedTwin
<1>2. PICK m \in 1..Len(nodes) : ids[m] = ids[n] /\ NodeIssues(nodes, nodes[m]) = {}
  BY <1>1 DEF HasTwin
<1>3. Joined(nodes, nodes[m])
  BY <1>2, IssuesJoined
<1>4. QED
  BY <1>2, <1>3, SharedJoined

LEMMA NullItem ==
  ASSUME NEW op \in Itemwise, NEW args
  PROVE  Item(op, args, Null) = Null
  BY DEF Itemwise, Item, Log, Logit, Sqrt, Abs, Sign, Negate, Clip, Power, Lift

LEMMA NullPairItem ==
  ASSUME NEW op \in {"spread", "product", "ratio"}, NEW a, NEW b, a = Null \/ b = Null
  PROVE  PairItem(op, a, b) = Null
  BY DEF PairItem, Lift, IsInfinite

\* A vector is not the null cell.
LEMMA VectorCell ==
  ASSUME NEW width \in Nat, width > 0, NEW j \in 1..width, NEW f, DOMAIN f = 1..width
  PROVE  f # Null /\ Component(f, width, j) = f[j]
<1>1. j \in DOMAIN f
  OBVIOUS
<1>2. f # Null
  BY <1>1 DEF Null
<1>3. QED
  BY <1>2 DEF Component

LEMMA ItemComponents ==
  ASSUME NEW op \in Itemwise, NEW args, NEW width \in Nat, width > 0, NEW j \in 1..width,
         NEW cell, cell = Null \/ DOMAIN cell = 1..width
  PROVE  Component(EachItem(op, args, cell, width), width, j)
           = EachItem(op, args, Component(cell, width, j), 0)
<1>1. CASE cell = Null
  BY <1>1, NullItem DEF EachItem, Component
<1>2. CASE cell # Null
  <2> DEFINE f == [i \in DOMAIN cell |-> Item(op, args, cell[i])]
  <2>1. DOMAIN f = 1..width /\ f[j] = Item(op, args, cell[j])
    BY <1>2
  <2>2. EachItem(op, args, cell, width) = f /\ Component(cell, width, j) = cell[j]
    BY <1>2 DEF EachItem, Component
  <2> HIDE DEF f
  <2>3. Component(f, width, j) = f[j]
    BY <2>1, VectorCell
  <2>4. QED
    BY <2>1, <2>2, <2>3 DEF EachItem
<1>3. QED
  BY <1>1, <1>2

LEMMA PairComponents ==
  ASSUME NEW op \in {"spread", "product", "ratio"}, NEW width \in Nat, width > 0,
         NEW j \in 1..width, NEW a, a = Null \/ DOMAIN a = 1..width, NEW b
  PROVE  Component(EachPair(op, a, b, width), width, j)
           = EachPair(op, Component(a, width, j), Component(b, width, j), 0)
<1>1. CASE a = Null \/ b = Null
  <2>1. EachPair(op, a, b, width) = Null
    BY <1>1 DEF EachPair
  <2>2. Component(a, width, j) = Null \/ Component(b, width, j) = Null
    BY <1>1 DEF Component
  <2>3. QED
    BY <2>1, <2>2, NullPairItem DEF EachPair, Component
<1>2. CASE ~(a = Null \/ b = Null)
  <2> DEFINE f == [i \in DOMAIN a |-> PairItem(op, a[i], b[i])]
  <2>1. DOMAIN f = 1..width /\ f[j] = PairItem(op, a[j], b[j])
    BY <1>2
  <2>2. EachPair(op, a, b, width) = f
        /\ Component(a, width, j) = a[j] /\ Component(b, width, j) = b[j]
    BY <1>2 DEF EachPair, Component
  <2> HIDE DEF f
  <2>3. Component(f, width, j) = f[j]
    BY <2>1, VectorCell
  <2>4. QED
    BY <2>1, <2>2, <2>3 DEF EachPair
<1>3. QED
  BY <1>1, <1>2

LEMMA ShiftComponents ==
  ASSUME NEW op \in Shifts, NEW periods, NEW width \in Nat, width > 0, NEW j \in 1..width,
         NEW column, \A k \in DOMAIN column : column[k] = Null \/ DOMAIN column[k] = 1..width,
         NEW alone, DOMAIN alone = DOMAIN column,
         \A k \in DOMAIN column : alone[k] = Component(column[k], width, j),
         NEW k \in DOMAIN column
  PROVE  Component(EachShift(op, periods, column, k, width), width, j)
           = EachShift(op, periods, alone, k, 0)
<1>1. \A m : /\ Earlier(alone, m) = Component(Earlier(column, m), width, j)
             /\ Earlier(column, m) = Null \/ DOMAIN Earlier(column, m) = 1..width
  BY DEF Earlier, Component
<1>2. ASSUME NEW m PROVE /\ Component(LagOf(column, m, width), width, j) = LagOf(alone, m, 0)
                         /\ LagOf(column, m, width) # Null
                         /\ DOMAIN LagOf(column, m, width) = 1..width
  <2>1. LagOf(alone, m, 0) = Earlier(alone, m)
    BY DEF LagOf
  <2>2. CASE Earlier(column, m) = Null
    <3> DEFINE f == [i \in 1..width |-> Null]
    <3>1. LagOf(column, m, width) = f /\ DOMAIN f = 1..width /\ f[j] = Null
      BY <2>2 DEF LagOf
    <3> HIDE DEF f
    <3>2. Component(f, width, j) = Null /\ f # Null
      BY <3>1, VectorCell
    <3>3. Earlier(alone, m) = Null
      BY <1>1, <2>2 DEF Component
    <3>4. QED
      BY <2>1, <3>1, <3>2, <3>3
  <2>3. CASE Earlier(column, m) # Null
    BY <1>1, <2>1, <2>3 DEF LagOf
  <2>4. QED
    BY <2>2, <2>3
<1>3. CASE op = "lag"
  BY <1>2, <1>3 DEF EachShift
<1>4. CASE op = "lead"
  BY <1>1, <1>4 DEF EachShift
<1>5. CASE op = "delta"
  <2> DEFINE lag == LagOf(column, k - periods, width)
             cell == column[k]
  <2>1. Component(lag, width, j) = LagOf(alone, k - periods, 0) /\ lag # Null
        /\ DOMAIN lag = 1..width
    BY <1>2
  <2>2. EachShift(op, periods, alone, k, 0) = Lift(Minus, Component(cell, width, j), Component(lag, width, j))
    BY <1>5, <2>1 DEF EachShift
  <2>3. EachShift(op, periods, column, k, width) =
          IF cell = Null THEN Null ELSE [i \in DOMAIN cell |-> Lift(Minus, cell[i], lag[i])]
    BY <1>5, <2>1 DEF EachShift
  <2>4. cell = Null \/ DOMAIN cell = 1..width
    OBVIOUS
  <2> HIDE DEF cell, lag
  <2>5. CASE cell = Null
    BY <2>2, <2>3, <2>5 DEF Component, Lift
  <2>6. CASE cell # Null
    <3> DEFINE f == [i \in DOMAIN cell |-> Lift(Minus, cell[i], lag[i])]
    <3>1. DOMAIN f = 1..width /\ f[j] = Lift(Minus, cell[j], lag[j])
      BY <2>4, <2>6
    <3>2. EachShift(op, periods, column, k, width) = f
      BY <2>3, <2>6
    <3> HIDE DEF f
    <3>3. Component(f, width, j) = f[j]
      BY <3>1, VectorCell
    <3>4. Component(cell, width, j) = cell[j] /\ Component(lag, width, j) = lag[j]
      BY <2>1, <2>6 DEF Component
    <3>5. QED
      BY <2>2, <3>1, <3>2, <3>3, <3>4
  <2>7. QED
    BY <2>5, <2>6
<1>6. QED
  BY <1>3, <1>4, <1>5 DEF Shifts

\* What a function of several components has: one width for all its columns, and
\* on each row what it makes of the cells of that row or of the column.
Shaped(fn) ==
  LET width == fn.out.columns["value"].width IN
  /\ fn.op \in Itemwise \union {"spread", "product", "ratio"} \union Shifts
  /\ DOMAIN fn.in.columns = IF fn.op \in Itemwise \union Shifts THEN {"value"} ELSE {"left", "right"}
  /\ \A i \in DOMAIN fn.in.columns : fn.in.columns[i].width = width
  /\ width \in Nat

\* The function of one component, and the rows of one component.
AloneFn(fn) == [fn EXCEPT !.in.columns = [i \in DOMAIN fn.in.columns |-> Float],
                          !.out.columns = [value |-> Float]]
AloneRows(fn, rows, j) ==
  [k \in DOMAIN rows |->
     [rows[k] EXCEPT !.cells = [i \in DOMAIN fn.in.columns |->
                                  Component(@[i], fn.out.columns.value.width, j)]]]

LEMMA ResolvedShaped ==
  ASSUME NEW node, Resolved(node), Kind(node.fn.op) \in {"itemwise", "struct", "shift"},
         node.fn.op # "log_ratio"
  PROVE  /\ Shaped(node.fn)
         /\ AloneFn(node.fn).op = node.fn.op /\ AloneFn(node.fn).args = node.fn.args
         /\ AloneFn(node.fn).in.columns = [i \in DOMAIN node.fn.in.columns |-> Float]
<1> DEFINE op == node.fn.op
           args == node.fn.args
<1>1. PICK bound : /\ Sized(bound) /\ node.fn = Function(op, args, bound)
                   /\ op # "source" => ValidConfig(op, args) /\ Resolvable(op, args, bound)
  BY DEF Resolved
<1>2. op \in Operations /\ Sized(node.fn.out.columns)
  BY DEF Resolved
<1>3. op \in Itemwise \union {"spread", "product", "ratio"} \union Shifts
  BY <1>2, Kinds DEF Struct
<1>4. op # "source"
  BY <1>3 DEF Itemwise, Shifts
<1>5. /\ node.fn.in.columns = InputColumns(op, args, bound)
      /\ node.fn.out.columns = OutputColumns(op, args, bound)
  BY <1>1, <1>4 DEF Function
<1>6. /\ AloneFn(node.fn).op = op /\ AloneFn(node.fn).args = args
      /\ AloneFn(node.fn).in.columns = [i \in DOMAIN node.fn.in.columns |-> Float]
  <2> DEFINE fn == Function(op, args, bound)
  <2>1. /\ fn.op = op /\ fn.args = args /\ DOMAIN fn.in = {"time", "columns"}
        /\ DOMAIN fn = {"op", "args", "in", "out", "lookahead", "allows", "batch", "nulls"}
    BY <1>4 DEF Function
  <2>2. node.fn = fn
    BY <1>1
  <2> HIDE DEF fn
  <2>3. QED
    BY <2>1, <2>2 DEF AloneFn
<1>7. CASE op \in Itemwise \union Shifts
  <2>1. /\ node.fn.in.columns = [value |-> FloatOf(bound, "value")]
        /\ node.fn.out.columns = [value |-> FloatOf(bound, "value")]
    BY <1>2, <1>4, <1>5, <1>7, Shapes
  <2> DEFINE type == FloatOf(bound, "value")
  <2>2. DOMAIN node.fn.in.columns = {"value"} /\ node.fn.in.columns["value"] = type
        /\ "value" \in DOMAIN node.fn.out.columns /\ node.fn.out.columns["value"] = type
    BY <2>1
  <2> HIDE DEF type
  <2>3. QED
    BY <1>2, <1>3, <1>6, <1>7, <2>2 DEF Shaped, Sized
<1>8. CASE op \in {"spread", "product", "ratio"}
  <2> DEFINE left == FloatOf(bound, "left")
             right == FloatOf(bound, "right")
  <2>1. /\ node.fn.in.columns = [left |-> left, right |-> right]
        /\ node.fn.out.columns = [value |-> left]
    BY <1>2, <1>4, <1>5, <1>8, Shapes DEF Struct
  <2>2. WidthOf(bound, "left") = WidthOf(bound, "right")
    <3>1. Kind(op) = "struct"
      BY <1>2, <1>8, Kinds DEF Struct
    <3>2. op \notin {"feature_packer", "feature_unpacker"} /\ Resolvable(op, args, bound)
      BY <1>1, <1>4, <1>8
    <3> HIDE DEF op, args
    <3>3. QED
      BY <3>1, <3>2 DEF Resolvable
  <2>3. left.width = right.width
    BY <2>2 DEF FloatOf, Vector
  <2> HIDE DEF left, right
  <2>4. /\ DOMAIN node.fn.in.columns = {"left", "right"}
        /\ node.fn.in.columns["left"] = left /\ node.fn.in.columns["right"] = right
        /\ "value" \in DOMAIN node.fn.out.columns /\ node.fn.out.columns["value"] = left
    BY <2>1
  <2>5. op \notin Itemwise \union Shifts
    BY <1>8 DEF Itemwise, Shifts
  <2>6. QED
    BY <1>2, <1>3, <1>6, <2>3, <2>4, <2>5 DEF Shaped, Sized
<1>9. QED
  BY <1>3, <1>7, <1>8

\* The rows of one component have its cells, at the times they were.
LEMMA AloneCells ==
  ASSUME NEW fn, NEW rows, Frame(rows, fn.in.columns), NEW j, NEW k \in DOMAIN rows
  PROVE  /\ DOMAIN AloneRows(fn, rows, j) = DOMAIN rows
         /\ \A i \in DOMAIN fn.in.columns :
              AloneRows(fn, rows, j)[k].cells[i]
                = Component(rows[k].cells[i], fn.out.columns.value.width, j)
<1> DEFINE row == rows[k]
           cells == [i \in DOMAIN fn.in.columns |->
                       Component(row.cells[i], fn.out.columns.value.width, j)]
<1>1. AloneRows(fn, rows, j)[k] = [row EXCEPT !.cells = cells]
  BY DEF AloneRows
<1>2. row = [time |-> row.time, cells |-> row.cells]
  <2>1. k \in 1..Len(rows)
    BY SeqFacts DEF Frame
  <2>2. QED
    BY <2>1 DEF Frame, Typed
<1> HIDE DEF row
<1>3. [row EXCEPT !.cells = cells].cells = cells
  BY <1>2
<1>4. QED
  BY <1>1, <1>3 DEF row, AloneRows

\* What a function of several components makes, component by component.
LEMMA StandAlone ==
  ASSUME NEW fn, Shaped(fn), AloneFn(fn).op = fn.op, AloneFn(fn).args = fn.args,
         AloneFn(fn).in.columns = [i \in DOMAIN fn.in.columns |-> Float],
         NEW rows, Frame(rows, fn.in.columns),
         NEW width, width = fn.out.columns["value"].width, width > 0, NEW j \in 1..width,
         NEW k \in DOMAIN rows
  PROVE  Component(Apply(fn, rows)[k].cells["value"], width, j)
           = Apply(AloneFn(fn), AloneRows(fn, rows, j))[k].cells["value"]
<1> DEFINE scalar == AloneFn(fn)
           only == AloneRows(fn, rows, j)
           inputs == DOMAIN fn.in.columns
<1>1. /\ width \in Nat /\ \A i \in inputs : fn.in.columns[i].width = width
      /\ inputs = IF fn.op \in Itemwise \union Shifts THEN {"value"} ELSE {"left", "right"}
  BY DEF Shaped
<1>2. DOMAIN only = DOMAIN rows
      /\ \A m \in DOMAIN rows, i \in inputs : only[m].cells[i] = Component(rows[m].cells[i], width, j)
  <2>1. ASSUME NEW m \in DOMAIN rows
        PROVE  /\ DOMAIN only = DOMAIN rows
               /\ \A i \in inputs : only[m].cells[i] = Component(rows[m].cells[i], width, j)
    BY AloneCells
  <2> HIDE DEF only, inputs
  <2>2. QED
    BY <2>1
<1>3. \A i \in inputs : scalar.in.columns[i] = Float /\ scalar.in.columns[i].width = 0
  BY DEF Float
<1>4. scalar.op = fn.op /\ scalar.args = fn.args
  OBVIOUS
<1>5. \A m \in DOMAIN rows, i \in inputs :
        /\ Fits(rows[m].cells[i], fn.in.columns[i])
        /\ rows[m].cells[i] = Null \/ DOMAIN rows[m].cells[i] = 1..width
  <2>1. \A m \in DOMAIN rows : Typed(rows[m], fn.in.columns)
    BY SeqFacts DEF Frame
  <2>2. \A m \in DOMAIN rows, i \in inputs : Fits(rows[m].cells[i], fn.in.columns[i])
    BY <2>1 DEF Typed
  <2>3. QED
    BY <1>1, <2>2 DEF Fits
<1> HIDE DEF scalar, only, inputs
<1>6. CASE fn.op \in Itemwise
  <2>1. "value" \in inputs
    BY <1>1, <1>6
  <2>2. Apply(fn, rows) = OutOf(rows, [m \in DOMAIN rows |->
                            EachItem(fn.op, fn.args, rows[m].cells["value"], width)])
    <3>1. fn.in.columns["value"].width = width
      BY <1>1, <2>1
    <3>2. QED
      BY <1>1, <1>6, <3>1, ItemwiseApply
  <2>3. Apply(scalar, only) = OutOf(only, [m \in DOMAIN only |->
                                EachItem(fn.op, fn.args, only[m].cells["value"], 0)])
    <3>1. scalar.in.columns["value"].width = 0
      BY <1>3, <2>1
    <3>2. QED
      BY <1>4, <1>6, <3>1, ItemwiseApply
  <2>4. Apply(fn, rows)[k].cells["value"]
          = EachItem(fn.op, fn.args, rows[k].cells["value"], width)
    BY <2>2 DEF OutOf
  <2>5. Apply(scalar, only)[k].cells["value"]
          = EachItem(fn.op, fn.args, Component(rows[k].cells["value"], width, j), 0)
    BY <1>2, <2>1, <2>3 DEF OutOf
  <2>6. Component(EachItem(fn.op, fn.args, rows[k].cells["value"], width), width, j)
          = EachItem(fn.op, fn.args, Component(rows[k].cells["value"], width, j), 0)
    BY <1>1, <1>5, <1>6, <2>1, ItemComponents
  <2>7. QED
    BY <2>4, <2>5, <2>6 DEF scalar, only
<1>7. CASE fn.op \in {"spread", "product", "ratio"}
  <2>1. "left" \in inputs /\ "right" \in inputs
    BY <1>1, <1>7 DEF Itemwise, Shifts
  <2>2. Apply(fn, rows) = OutOf(rows, [m \in DOMAIN rows |->
                            EachPair(fn.op, rows[m].cells["left"], rows[m].cells["right"], width)])
    <3>1. fn.in.columns["left"].width = width
      BY <1>1, <2>1
    <3>2. \A m \in DOMAIN rows : Fits(rows[m].cells["left"], fn.in.columns["left"])
      BY <1>5, <2>1
    <3>3. QED
      BY <1>1, <1>7, <3>1, <3>2, StructApply
  <2>3. Apply(scalar, only) = OutOf(only, [m \in DOMAIN only |->
                                EachPair(fn.op, only[m].cells["left"], only[m].cells["right"], 0)])
    <3>1. scalar.in.columns["left"].width = 0
      BY <1>3, <2>1
    <3>2. \A m \in DOMAIN only : Fits(only[m].cells["left"], scalar.in.columns["left"])
      BY <3>1 DEF Fits
    <3>3. QED
      BY <1>4, <1>7, <3>1, <3>2, StructApply
  <2>4. Apply(fn, rows)[k].cells["value"]
          = EachPair(fn.op, rows[k].cells["left"], rows[k].cells["right"], width)
    BY <2>2 DEF OutOf
  <2>5. Apply(scalar, only)[k].cells["value"]
          = EachPair(fn.op, Component(rows[k].cells["left"], width, j),
                     Component(rows[k].cells["right"], width, j), 0)
    BY <1>2, <2>1, <2>3 DEF OutOf
  <2>6. Component(EachPair(fn.op, rows[k].cells["left"], rows[k].cells["right"], width), width, j)
          = EachPair(fn.op, Component(rows[k].cells["left"], width, j),
                     Component(rows[k].cells["right"], width, j), 0)
    BY <1>1, <1>5, <1>7, <2>1, PairComponents
  <2>7. QED
    BY <2>4, <2>5, <2>6 DEF scalar, only
<1>8. CASE fn.op \in Shifts
  <2> DEFINE column == [m \in DOMAIN rows |-> rows[m].cells["value"]]
             alone == [m \in DOMAIN only |-> only[m].cells["value"]]
             periods == fn.args.periods
  <2>1. "value" \in inputs
    BY <1>1, <1>8
  <2>2. Apply(fn, rows)
          = OutOf(rows, [m \in DOMAIN rows |-> EachShift(fn.op, periods, column, m, width)])
    <3>1. fn.in.columns["value"].width = width
      BY <1>1, <2>1
    <3>2. QED
      BY <1>1, <1>8, <3>1, ShiftApply
  <2>3. Apply(scalar, only)
          = OutOf(only, [m \in DOMAIN only |-> EachShift(fn.op, periods, alone, m, 0)])
    <3>1. scalar.in.columns["value"].width = 0
      BY <1>3, <2>1
    <3>2. QED
      BY <1>4, <1>8, <3>1, ShiftApply
  <2>4. /\ DOMAIN column = DOMAIN rows /\ DOMAIN alone = DOMAIN rows
        /\ \A m \in DOMAIN rows : column[m] = Null \/ DOMAIN column[m] = 1..width
        /\ \A m \in DOMAIN rows : alone[m] = Component(column[m], width, j)
    BY <1>2, <1>5, <2>1
  <2> HIDE DEF column, alone, periods
  <2>5. Apply(fn, rows)[k].cells["value"] = EachShift(fn.op, periods, column, k, width)
    BY <2>2 DEF OutOf
  <2>6. Apply(scalar, only)[k].cells["value"] = EachShift(fn.op, periods, alone, k, 0)
    BY <1>2, <2>3 DEF OutOf
  <2>7. Component(EachShift(fn.op, periods, column, k, width), width, j)
          = EachShift(fn.op, periods, alone, k, 0)
    BY <1>1, <1>8, <2>4, ShiftComponents
  <2>8. QED
    BY <2>5, <2>6, <2>7 DEF scalar, only
<1>9. QED
  BY <1>6, <1>7, <1>8 DEF Shaped

\* Shaped computations compute their components.
THEOREM ComponentsAreComputations == Spec => []ComponentsStandAlone
<1>1. ProgramInv /\ TypedInv => ComponentsStandAlone
  <2> SUFFICES ASSUME ProgramInv, TypedInv PROVE ComponentsStandAlone
    OBVIOUS
  <2> DEFINE Inputs(n) == DOMAIN d[n].fn.in.columns
             Given(n) == [i \in Inputs(n) |->
                               [frame |-> frames[id[ParentOf(d[n], i)]].rows,
                                column |-> d[n].bindings[i].output, tolerance |-> Null]]
             Aligned(n) == Align(Given(n))
  <2>1. ASSUME NEW n \in Executed,
               Kind(d[n].fn.op) \in {"itemwise", "struct", "shift"}, d[n].fn.op # "log_ratio",
               d[n].fn.out.columns.value.width > 0,
               NEW j \in 1..d[n].fn.out.columns.value.width, NEW k \in DOMAIN Aligned(n)
        PROVE  Component(Apply(d[n].fn, Aligned(n))[k].cells["value"],
                         d[n].fn.out.columns.value.width, j)
                 = Apply(AloneFn(d[n].fn), AloneRows(d[n].fn, Aligned(n), j))[k].cells["value"]
    <3> DEFINE node == d[n]
               fn == d[n].fn
    <3>1. now > 0
      <4>1. CASE now = 0
        BY <4>1 DEF ProgramInv, Executed
      <4>2. QED
        BY <4>1 DEF ProgramInv
    <3>2. /\ Program(d, id) /\ NamesInputs(d) /\ Accepted(d, OrderTaken(d, id))
          /\ frames = Execute(d, id, seen)
      BY <3>1 DEF ProgramInv
    <3>3. n \in 1..Len(d)
      BY <3>2, ExecutionIsFixpoint DEF Executed
    <3>4. /\ \A m \in 1..Len(d) : Resolved(d[m])
          /\ \A m \in 1..Len(d) : Settled(frames[id[m]], d[m].fn)
      BY <3>1 DEF TypedInv
    <3>5. /\ Shaped(fn) /\ AloneFn(fn).op = fn.op /\ AloneFn(fn).args = fn.args
          /\ AloneFn(fn).in.columns = [i \in DOMAIN fn.in.columns |-> Float]
      BY <2>1, <3>3, <3>4, ResolvedShaped
    <3>6. Joined(d, node)
      BY <3>2, <3>3, <3>4, AcceptedJoined
    <3>7. fn.op # "source"
      BY <3>5 DEF Shaped, Itemwise, Shifts
    <3>8. Bound(node) = Inputs(n)
          /\ \A i \in Inputs(n) :
               LET parent == d[ParentOf(node, i)].fn.out
                   output == node.bindings[i].output
               IN  output \in DOMAIN parent.columns /\ parent.columns[output] = fn.in.columns[i]
      BY <3>6, <3>7 DEF Joined, Expected
    <3>9. ASSUME NEW i \in Inputs(n)
          PROVE  LET rows == frames[id[ParentOf(node, i)]].rows IN
                 /\ IsSeq(rows)
                 /\ \A m \in 1..Len(rows) :
                      rows[m].time \in Int
                      /\ Fits(rows[m].cells[node.bindings[i].output], fn.in.columns[i])
      <4> DEFINE p == ParentOf(node, i)
                 rows == frames[id[p]].rows
                 types == d[p].fn.out.columns
                 output == node.bindings[i].output
      <4>1. p \in 1..Len(d)
        <5>1. p \in ParentsOf(node)
          BY <3>8 DEF ParentsOf
        <5>2. QED
          BY <3>2, <3>3, <5>1, ParentIDs
      <4>2. Frame(rows, types)
        BY <3>4, <4>1 DEF Settled
      <4>3. output \in DOMAIN types /\ types[output] = fn.in.columns[i]
        BY <3>8
      <4> HIDE DEF rows, types, output
      <4>4. IsSeq(rows) /\ \A m \in 1..Len(rows) :
              rows[m].time \in Int /\ Fits(rows[m].cells[output], fn.in.columns[i])
        BY <4>2, <4>3 DEF Frame, Typed
      <4>5. QED
        BY <4>4 DEF rows, output
    <3>10. IsFiniteSet(Inputs(n))
      <4>1. Inputs(n) = {"value"} \/ Inputs(n) = {"left", "right"}
        BY <3>5 DEF Shaped
      <4>2. IsFiniteSet({"value"}) /\ IsFiniteSet({"left"})
        BY FS_Singleton
      <4>3. {"left"} \union {"right"} = {"left", "right"}
        OBVIOUS
      <4>4. IsFiniteSet({"left", "right"})
        BY <4>2, <4>3, FS_AddElement
      <4>5. QED
        BY <4>1, <4>2, <4>4
    <3>11. Frame(Aligned(n), fn.in.columns)
      <4> DEFINE sources == Given(n)
      <4>1. DOMAIN sources = DOMAIN fn.in.columns
        OBVIOUS
      <4>2. \A i \in DOMAIN sources :
              /\ IsSeq(sources[i].frame)
              /\ \A m \in 1..Len(sources[i].frame) :
                   /\ sources[i].frame[m].time \in Int
                   /\ Fits(sources[i].frame[m].cells[sources[i].column], fn.in.columns[i])
        BY <3>9
      <4> HIDE DEF sources
      <4>3. Frame(Align(sources), fn.in.columns)
        BY <3>10, <4>1, <4>2, AlignFrame
      <4>4. QED
        BY <4>3 DEF sources
    <3> HIDE DEF fn, node, Aligned
    <3>12. QED
      BY <2>1, <3>5, <3>11, StandAlone DEF fn
  <2> HIDE DEF Aligned, Given, Inputs
  <2>2. QED
    BY <2>1 DEF ComponentsStandAlone, Aligned, Given, Inputs, AloneFn, AloneRows
<1>2. QED
  BY <1>1, ProgramInvariant, TypesInvariant, PTL

-----------------------------------------------------------------------------
(* The null policies of a set of columns, in no order *)

LEMMA WhereAll ==
  ASSUME NEW rows, IsSeq(rows)
  PROVE  Where(rows, DOMAIN rows) = rows
<1> DEFINE n == Len(rows)
           f == [k \in 1..n |-> k]
<1>1. n \in Nat /\ DOMAIN rows = 1..n /\ rows = [k \in 1..n |-> rows[k]]
  BY SeqFacts
<1>2. f = [k \in 1..n |-> f[k]] /\ \A k \in 1..n : f[k] = k
  OBVIOUS
<1> HIDE DEF f, n
<1>3. Cardinality(1..n) = n /\ InOrder(1..n) = f
  <2>1. \A k \in 1..n : f[k] \in 1..n /\ f[k] \in Int
    BY <1>1, <1>2
  <2>2. \A j, k \in 1..n : j < k => f[j] < f[k]
    BY <1>2
  <2>3. \A x \in 1..n : \E k \in 1..n : f[k] = x
    BY <1>2
  <2>4. QED
    <3>1. Increasing(f, n, 1..n)
      BY <1>2, <2>1, <2>2, <2>3 DEF Increasing
    <3>2. QED
      BY <1>1, <3>1, InOrderUnique
<1>4. DOMAIN f = 1..n
  BY <1>2
<1>5. Where(rows, 1..n) = [k \in 1..n |-> rows[f[k]]]
  BY <1>3, <1>4 DEF Where
<1>6. [k \in 1..n |-> rows[f[k]]] = [k \in 1..n |-> rows[k]]
  BY <1>2
<1>7. QED
  BY <1>1, <1>5, <1>6

\* Rows selected from selected rows.
LEMMA WhereWhere ==
  ASSUME NEW rows, IsSeq(rows), NEW at, at \subseteq DOMAIN rows, NEW rest, rest \subseteq at,
         NEW inner, inner = {k \in 1..Cardinality(at) : InOrder(at)[k] \in rest}
  PROVE  Where(Where(rows, at), inner) = Where(rows, rest)
<1> DEFINE o == InOrder(at)
           p == InOrder(inner)
           n == Cardinality(at)
           m == Cardinality(inner)
           f == [k \in 1..m |-> o[p[k]]]
<1>1. DOMAIN rows = 1..Len(rows) /\ Len(rows) \in Nat
  BY SeqFacts
<1>2. /\ n \in Nat /\ DOMAIN o = 1..n /\ IsSeq(o) /\ Len(o) = n
      /\ \A k \in 1..n : o[k] \in at /\ o[k] \in Int
      /\ \A j, k \in 1..n : j < k => o[j] < o[k]
      /\ \A x \in at : \E k \in 1..n : o[k] = x
  <2>1. IsFiniteSet(at) /\ at \subseteq Int
    BY <1>1, PositionsFinite
  <2> HIDE DEF n, o
  <2>2. QED
    BY <2>1, InOrderFacts DEF n, o
<1>3. /\ m \in Nat /\ DOMAIN p = 1..m
      /\ \A k \in 1..m : p[k] \in inner /\ p[k] \in Int
      /\ \A j, k \in 1..m : j < k => p[j] < p[k]
      /\ \A x \in inner : \E k \in 1..m : p[k] = x
  <2>1. IsFiniteSet(inner) /\ inner \subseteq Int
    BY <1>2, PositionsFinite
  <2> HIDE DEF m, p
  <2>2. QED
    BY <2>1, InOrderFacts, Zenon DEF m, p
<1>4. inner = {k \in 1..n : o[k] \in rest}
  OBVIOUS
<1>5. Where(Where(rows, at), inner) = [k \in 1..m |-> Where(rows, at)[p[k]]]
  BY <1>3 DEF Where
<1>6. \A k \in 1..n : Where(rows, at)[k] = rows[o[k]]
  BY <1>2 DEF Where
<1> HIDE DEF n, m, o, p
<1>7. \A k \in 1..m : p[k] \in 1..n /\ o[p[k]] \in rest
  BY <1>3, <1>4
<1>8. f = [k \in 1..m |-> f[k]] /\ \A k \in 1..m : f[k] = o[p[k]]
  OBVIOUS
<1> HIDE DEF f
<1>9. \A k \in 1..m : f[k] \in rest /\ f[k] \in Int
  BY <1>2, <1>7, <1>8
<1>10. \A j, k \in 1..m : j < k => f[j] < f[k]
  BY <1>2, <1>3, <1>7, <1>8
<1>11. ASSUME NEW x \in rest PROVE \E k \in 1..m : f[k] = x
  <2>1. PICK j \in 1..n : o[j] = x
    BY <1>2, <1>11
  <2>2. j \in inner
    BY <1>4, <1>11, <2>1
  <2>3. PICK k \in 1..m : p[k] = j
    BY <1>3, <2>2
  <2>4. QED
    BY <1>8, <2>1, <2>3
<1>12. Cardinality(rest) = m /\ InOrder(rest) = f
  <2>1. f = [k \in 1..m |-> f[k]] /\ m \in Nat
    BY <1>3, <1>8
  <2>2. \A x \in rest : \E k \in 1..m : f[k] = x
    BY <1>11
  <2>3. Increasing(f, m, rest)
    BY <1>9, <1>10, <2>1, <2>2 DEF Increasing
  <2>4. QED
    BY <2>1, <2>3, InOrderUnique
<1>13. DOMAIN f = 1..m
  BY <1>8
<1>14. Where(rows, rest) = [k \in 1..m |-> rows[f[k]]]
  BY <1>12, <1>13 DEF Where
<1>15. [k \in 1..m |-> rows[f[k]]] = [k \in 1..m |-> Where(rows, at)[p[k]]]
  BY <1>6, <1>7, <1>8
<1>16. QED
  BY <1>5, <1>14, <1>15 DEF m, p

\* The rows that the lazy policies of the columns C leave: the "drop" ones select
\* them by the cells they had, the "fill" ones fill their columns.
LazyCell(row, c, C, widths, policies, fills) ==
  IF c \in C /\ policies[c] = "fill"
    THEN Filled(row.cells[c], widths[c], FillOf(fills, c)) ELSE row.cells[c]
LazyRow(row, C, widths, policies, fills) ==
  [time |-> row.time,
   cells |-> [c \in DOMAIN row.cells |-> LazyCell(row, c, C, widths, policies, fills)]]
LazyRows(rows, C, widths, policies, fills) ==
  [k \in DOMAIN rows |-> LazyRow(rows[k], C, widths, policies, fills)]
Spared(rows, C, widths, policies) ==
  {k \in DOMAIN rows :
     \A c \in C : policies[c] = "drop" => ~IsMissing(rows[k].cells[c], widths[c])}
LazyOn(rows, C, widths, policies, fills) ==
  Where(LazyRows(rows, C, widths, policies, fills), Spared(rows, C, widths, policies))

LEMMA LazyRowsSeq ==
  ASSUME NEW rows, NEW C, NEW widths, NEW policies, NEW fills, IsSeq(rows)
  PROVE  /\ IsSeq(LazyRows(rows, C, widths, policies, fills))
         /\ DOMAIN LazyRows(rows, C, widths, policies, fills) = DOMAIN rows
         /\ Spared(rows, C, widths, policies) \subseteq DOMAIN rows
<1> DEFINE lazy == LazyRows(rows, C, widths, policies, fills)
<1>1. Len(rows) \in Nat /\ DOMAIN rows = 1..Len(rows)
  BY SeqFacts
<1>2. DOMAIN lazy = DOMAIN rows /\ lazy = [k \in 1..Len(rows) |-> lazy[k]]
  BY <1>1 DEF LazyRows
<1> HIDE DEF lazy
<1>3. IsSeq(lazy)
  BY <1>1, <1>2, SeqByDomain
<1>4. QED
  BY <1>2, <1>3 DEF lazy, Spared

LEMMA LazyNone ==
  ASSUME NEW rows, NEW types, Frame(rows, types), NEW widths, NEW policies, NEW fills
  PROVE  LazyOn(rows, {}, widths, policies, fills) = rows
<1>1. /\ IsSeq(rows) /\ DOMAIN rows = 1..Len(rows) /\ rows = [k \in DOMAIN rows |-> rows[k]]
      /\ \A k \in DOMAIN rows : Typed(rows[k], types)
  BY SeqFacts DEF Frame
<1>2. ASSUME NEW k \in DOMAIN rows PROVE LazyRow(rows[k], {}, widths, policies, fills) = rows[k]
  <2> DEFINE row == rows[k]
  <2>1. row = [time |-> row.time, cells |-> row.cells]
        /\ row.cells = [c \in DOMAIN row.cells |-> row.cells[c]]
    BY <1>1 DEF Typed
  <2> HIDE DEF row
  <2>2. LazyRow(row, {}, widths, policies, fills)
          = [time |-> row.time, cells |-> [c \in DOMAIN row.cells |-> row.cells[c]]]
    BY DEF LazyRow, LazyCell
  <2>3. QED
    BY <2>1, <2>2 DEF row
<1>3. LazyRows(rows, {}, widths, policies, fills) = rows
  BY <1>1, <1>2 DEF LazyRows
<1>4. Spared(rows, {}, widths, policies) = DOMAIN rows
  BY DEF Spared
<1>5. QED
  BY <1>1, <1>3, <1>4, WhereAll DEF LazyOn

\* One more column's lazy policy.
LEMMA LazyStep ==
  ASSUME NEW rows, NEW types, Frame(rows, types), NEW C, NEW c \in DOMAIN types, c \notin C,
         NEW widths, NEW policies, NEW fills
  PROVE  Lazily(LazyOn(rows, C, widths, policies, fills), c, widths[c], policies[c],
                FillOf(fills, c))
           = LazyOn(rows, C \union {c}, widths, policies, fills)
<1>0. ASSUME NEW X
      PROVE  /\ IsSeq(LazyRows(rows, X, widths, policies, fills))
             /\ DOMAIN LazyRows(rows, X, widths, policies, fills) = DOMAIN rows
             /\ Spared(rows, X, widths, policies) \subseteq DOMAIN rows
  BY LazyRowsSeq DEF Frame
<1> DEFINE D == C \union {c}
           F == LazyRows(rows, C, widths, policies, fills)
           G == LazyRows(rows, D, widths, policies, fills)
           at == Spared(rows, C, widths, policies)
           rest == Spared(rows, D, widths, policies)
           o == InOrder(at)
           n == Cardinality(at)
           w == Where(F, at)
<1>1. /\ IsSeq(rows) /\ DOMAIN rows = 1..Len(rows) /\ Len(rows) \in Nat
      /\ \A k \in DOMAIN rows : Typed(rows[k], types)
  BY SeqFacts DEF Frame
<1>2. \A k \in DOMAIN rows : c \in DOMAIN rows[k].cells
  BY <1>1 DEF Typed
<1>3. /\ IsSeq(F) /\ DOMAIN F = DOMAIN rows /\ at \subseteq DOMAIN rows
      /\ IsSeq(G) /\ DOMAIN G = DOMAIN rows /\ rest \subseteq DOMAIN rows
  BY <1>0
<1>4. DOMAIN w = 1..n /\ \A k \in 1..n : o[k] \in at /\ w[k] = F[o[k]]
  BY <1>3, WhereFacts
<1>5. DOMAIN o = 1..n
  BY DEF InOrder
<1>6. \A k \in DOMAIN rows : F[k].cells[c] = rows[k].cells[c]
  BY <1>2 DEF LazyRows, LazyRow, LazyCell
<1>7. rest = {k \in at : policies[c] = "drop" => ~IsMissing(rows[k].cells[c], widths[c])}
  BY DEF Spared
<1>8. ASSUME policies[c] # "fill" PROVE G = F
  <2>1. \A k \in DOMAIN rows :
          LazyRow(rows[k], D, widths, policies, fills) = LazyRow(rows[k], C, widths, policies, fills)
    BY <1>8 DEF LazyRow, LazyCell
  <2>2. QED
    BY <2>1 DEF LazyRows
<1>9. ASSUME policies[c] # "drop" PROVE rest = at
  BY <1>7, <1>9
<1>10. ASSUME NEW k \in DOMAIN rows, policies[c] = "fill"
       PROVE  [F[k] EXCEPT !.cells[c] = Filled(@, widths[c], FillOf(fills, c))] = G[k]
  <2> DEFINE row == rows[k]
             old == [x \in DOMAIN row.cells |-> LazyCell(row, x, C, widths, policies, fills)]
             new == [x \in DOMAIN row.cells |-> LazyCell(row, x, D, widths, policies, fills)]
             cell == Filled(row.cells[c], widths[c], FillOf(fills, c))
  <2>1. F[k] = [time |-> row.time, cells |-> old] /\ G[k] = [time |-> row.time, cells |-> new]
    BY DEF LazyRows, LazyRow
  <2>2. c \in DOMAIN row.cells /\ DOMAIN old = DOMAIN row.cells /\ DOMAIN new = DOMAIN row.cells
        /\ new = [x \in DOMAIN row.cells |-> new[x]]
    BY <1>2
  <2>3. old[c] = row.cells[c]
    BY <1>2 DEF LazyCell
  <2>4. \A x \in DOMAIN row.cells : new[x] = IF x = c THEN cell ELSE old[x]
    BY <1>10 DEF LazyCell
  <2> HIDE DEF old, new, cell
  <2>5. [old EXCEPT ![c] = cell] = new
    BY <2>2, <2>4
  <2>6. [F[k] EXCEPT !.cells[c] = cell] = [time |-> row.time, cells |-> [old EXCEPT ![c] = cell]]
    BY <2>1
  <2>7. F[k].cells[c] = row.cells[c]
    BY <1>6
  <2>8. QED
    BY <2>1, <2>5, <2>6, <2>7 DEF cell
<1> SUFFICES Lazily(w, c, widths[c], policies[c], FillOf(fills, c)) = Where(G, rest)
  BY DEF LazyOn
<1> HIDE DEF F, G, at, rest, D
<1>11. CASE policies[c] = "drop"
  <2> DEFINE inner == {k \in DOMAIN w : ~IsMissing(w[k].cells[c], widths[c])}
  <2>1. Lazily(w, c, widths[c], policies[c], FillOf(fills, c)) = Where(w, inner)
    BY <1>11 DEF Lazily
  <2>2. G = F
    BY <1>8, <1>11
  <2>3. \A k \in 1..n : w[k].cells[c] = rows[o[k]].cells[c]
    BY <1>3, <1>4, <1>6
  <2>4. inner = {k \in 1..n : o[k] \in rest}
    <3> HIDE DEF w, o, n
    <3>1. QED
      BY <1>4, <1>7, <1>11, <2>3
  <2>5. rest \subseteq at /\ at \subseteq DOMAIN F
    BY <1>3, <1>7
  <2> HIDE DEF inner
  <2>6. Where(w, inner) = Where(F, rest)
    BY <1>3, <2>4, <2>5, WhereWhere
  <2>7. QED
    BY <2>1, <2>2, <2>6
<1>12. CASE policies[c] = "fill"
  <2>1. Lazily(w, c, widths[c], policies[c], FillOf(fills, c))
          = [k \in DOMAIN w |->
               [w[k] EXCEPT !.cells[c] = Filled(@, widths[c], FillOf(fills, c))]]
    BY <1>12 DEF Lazily
  <2>2. rest = at
    BY <1>9, <1>12
  <2>3. Where(G, at) = [k \in 1..n |-> G[o[k]]]
    BY <1>5 DEF Where
  <2>4. \A k \in 1..n :
          [w[k] EXCEPT !.cells[c] = Filled(@, widths[c], FillOf(fills, c))] = G[o[k]]
    BY <1>3, <1>4, <1>10, <1>12
  <2> HIDE DEF w, o, n
  <2>5. QED
    BY <1>4, <2>1, <2>2, <2>3, <2>4
<1>13. CASE policies[c] # "drop" /\ policies[c] # "fill"
  <2>1. Lazily(w, c, widths[c], policies[c], FillOf(fills, c)) = w
    BY <1>13 DEF Lazily
  <2>2. QED
    BY <1>8, <1>9, <1>13, <2>1
<1>14. QED
  BY <1>11, <1>12, <1>13

\* What the eager policies of the columns C make of rows: a raise when an "error"
\* column misses a value, and each "custom" column handled.
Repeated(rows, c, width, k) ==
  LET known == {j \in 1..k : ~IsMissing(rows[j].cells[c], width)}
  IN  IF known = {} THEN rows[k].cells[c] ELSE rows[Max(known)].cells[c]
EagerCell(rows, k, c, C, widths, policies) ==
  IF c \in C /\ policies[c] = "custom" THEN Repeated(rows, c, widths[c], k) ELSE rows[k].cells[c]
EagerRow(rows, k, C, widths, policies) ==
  [time |-> rows[k].time,
   cells |-> [c \in DOMAIN rows[k].cells |-> EagerCell(rows, k, c, C, widths, policies)]]
EagerRows(rows, C, widths, policies) ==
  [k \in DOMAIN rows |-> EagerRow(rows, k, C, widths, policies)]
Misses(rows, c, width) == \E k \in DOMAIN rows : IsMissing(rows[k].cells[c], width)
EagerOn(rows, C, widths, policies) ==
  IF \E c \in C : policies[c] = "error" /\ Misses(rows, c, widths[c]) THEN Raised
  ELSE Rows(EagerRows(rows, C, widths, policies))

LEMMA EagerNone ==
  ASSUME NEW rows, NEW types, Frame(rows, types), NEW widths, NEW policies
  PROVE  EagerOn(rows, {}, widths, policies) = Rows(rows)
<1>1. /\ DOMAIN rows = 1..Len(rows) /\ rows = [k \in DOMAIN rows |-> rows[k]]
      /\ \A k \in DOMAIN rows : Typed(rows[k], types)
  BY SeqFacts DEF Frame
<1>2. ASSUME NEW k \in DOMAIN rows PROVE EagerRow(rows, k, {}, widths, policies) = rows[k]
  <2> DEFINE row == rows[k]
  <2>1. row = [time |-> row.time, cells |-> row.cells]
        /\ row.cells = [c \in DOMAIN row.cells |-> row.cells[c]]
    BY <1>1 DEF Typed
  <2>2. EagerRow(rows, k, {}, widths, policies)
          = [time |-> row.time, cells |-> [c \in DOMAIN row.cells |-> row.cells[c]]]
    BY DEF EagerRow, EagerCell
  <2> HIDE DEF row
  <2>3. QED
    BY <2>1, <2>2 DEF row
<1>3. EagerRows(rows, {}, widths, policies) = rows
  BY <1>1, <1>2 DEF EagerRows
<1>4. QED
  BY <1>3 DEF EagerOn

\* One more column's eager policy.
LEMMA EagerStep ==
  ASSUME NEW rows, NEW types, Frame(rows, types), NEW C, NEW c \in DOMAIN types, c \notin C,
         NEW widths, NEW policies
  PROVE  Eagerly(EagerOn(rows, C, widths, policies), c, widths[c], policies[c])
           = EagerOn(rows, C \union {c}, widths, policies)
<1> DEFINE D == C \union {c}
           F == EagerRows(rows, C, widths, policies)
           G == EagerRows(rows, D, widths, policies)
           before == EagerOn(rows, C, widths, policies)
           width == widths[c]
           known(k) == {j \in 1..k : ~IsMissing(rows[j].cells[c], width)}
<1>1. /\ DOMAIN rows = 1..Len(rows) /\ Len(rows) \in Nat
      /\ \A k \in DOMAIN rows : Typed(rows[k], types)
  BY SeqFacts DEF Frame
<1>2. \A k \in DOMAIN rows : c \in DOMAIN rows[k].cells
  BY <1>1 DEF Typed
<1>3. DOMAIN F = DOMAIN rows /\ DOMAIN G = DOMAIN rows
      /\ F = [k \in DOMAIN rows |-> F[k]] /\ G = [k \in DOMAIN rows |-> G[k]]
  BY DEF EagerRows
<1>4. \A k \in DOMAIN rows : F[k].cells[c] = rows[k].cells[c]
  BY <1>2 DEF EagerRows, EagerRow, EagerCell
<1>5. Misses(F, c, width) <=> Misses(rows, c, width)
  BY <1>3, <1>4 DEF Misses
<1>6. ASSUME NEW k \in DOMAIN rows,
             policies[c] # "custom" \/ Repeated(rows, c, width, k) = rows[k].cells[c]
      PROVE  G[k] = F[k]
  <2>1. \A x \in DOMAIN rows[k].cells :
          EagerCell(rows, k, x, D, widths, policies) = EagerCell(rows, k, x, C, widths, policies)
    BY <1>6 DEF EagerCell
  <2>2. EagerRow(rows, k, D, widths, policies) = EagerRow(rows, k, C, widths, policies)
    BY <2>1 DEF EagerRow
  <2>3. QED
    BY <2>2 DEF EagerRows
<1>7. ASSUME NEW k \in DOMAIN rows, policies[c] = "custom", NEW cell,
             cell = Repeated(rows, c, width, k)
      PROVE  [F[k] EXCEPT !.cells[c] = cell] = G[k]
  <2> DEFINE row == rows[k]
             old == [x \in DOMAIN row.cells |-> EagerCell(rows, k, x, C, widths, policies)]
             new == [x \in DOMAIN row.cells |-> EagerCell(rows, k, x, D, widths, policies)]
  <2>1. F[k] = [time |-> row.time, cells |-> old] /\ G[k] = [time |-> row.time, cells |-> new]
    BY DEF EagerRows, EagerRow
  <2>2. c \in DOMAIN row.cells /\ DOMAIN old = DOMAIN row.cells
        /\ new = [x \in DOMAIN row.cells |-> new[x]]
    BY <1>2
  <2>3. \A x \in DOMAIN row.cells : new[x] = IF x = c THEN cell ELSE old[x]
    BY <1>7 DEF EagerCell
  <2> HIDE DEF old, new
  <2>4. [old EXCEPT ![c] = cell] = new
    BY <2>2, <2>3
  <2>5. [F[k] EXCEPT !.cells[c] = cell] = [time |-> row.time, cells |-> [old EXCEPT ![c] = cell]]
    BY <2>1
  <2>6. QED
    BY <2>1, <2>4, <2>5
<1>8. ASSUME NEW k \in DOMAIN rows
      PROVE  /\ known(k) # {} => Max(known(k)) \in known(k) /\ Max(known(k)) \in DOMAIN rows
             /\ ~Misses(rows, c, width) => Repeated(rows, c, width, k) = rows[k].cells[c]
  <2>1. k \in Nat /\ known(k) \subseteq 1..k /\ 1..k \subseteq DOMAIN rows /\ k \in 1..k
    BY <1>1
  <2>2. IsFiniteSet(known(k)) /\ known(k) \subseteq Int
    BY <2>1, PositionsFinite
  <2>3. known(k) # {} => /\ Max(known(k)) \in known(k) /\ Max(known(k)) \in DOMAIN rows
                         /\ \A j \in known(k) : j <= Max(known(k))
    <3> HIDE DEF known
    <3>1. QED
      BY <2>1, <2>2, MaxFacts
  <2>4. ASSUME ~Misses(rows, c, width) PROVE k \in known(k)
    BY <2>1, <2>4 DEF Misses
  <2>5. Repeated(rows, c, width, k)
          = IF known(k) = {} THEN rows[k].cells[c] ELSE rows[Max(known(k))].cells[c]
    BY DEF Repeated
  <2> HIDE DEF known
  <2>6. ASSUME ~Misses(rows, c, width) PROVE Max(known(k)) = k
    <3>1. k \in known(k)
      BY <2>4, <2>6
    <3>2. Max(known(k)) \in 1..k /\ k <= Max(known(k))
      BY <2>1, <2>3, <3>1
    <3>3. QED
      BY <2>1, <3>2
  <2>7. QED
    BY <2>3, <2>5, <2>6
<1> SUFFICES Eagerly(before, c, width, policies[c]) = EagerOn(rows, D, widths, policies)
  OBVIOUS
<1>9. CASE \E x \in C : policies[x] = "error" /\ Misses(rows, x, widths[x])
  <2>1. before = Raised /\ EagerOn(rows, D, widths, policies) = Raised
    BY <1>9 DEF EagerOn
  <2>2. before.raised
    BY <2>1 DEF Raised
  <2> HIDE DEF before
  <2>3. QED
    BY <2>1, <2>2 DEF Eagerly
<1>10. CASE ~\E x \in C : policies[x] = "error" /\ Misses(rows, x, widths[x])
  <2>1. before = Rows(F)
    BY <1>10 DEF EagerOn
  <2>2. ~before.raised /\ before.rows = F
    BY <2>1 DEF Rows
  <2>3. (\E x \in D : policies[x] = "error" /\ Misses(rows, x, widths[x]))
          <=> policies[c] = "error" /\ Misses(rows, c, width)
    BY <1>10
  <2>4. EagerOn(rows, D, widths, policies)
          = IF policies[c] = "error" /\ Misses(rows, c, width) THEN Raised ELSE Rows(G)
    BY <2>3 DEF EagerOn
  <2>5. (\E k \in DOMAIN before.rows : IsMissing(before.rows[k].cells[c], width))
          <=> Misses(rows, c, width)
    BY <1>5, <2>2 DEF Misses
  <2> HIDE DEF before, F, G, D
  <2>6. CASE policies[c] = "error" /\ Misses(rows, c, width)
    BY <2>2, <2>4, <2>5, <2>6 DEF Eagerly
  <2>7. CASE policies[c] = "custom" /\ Misses(rows, c, width)
    <3>1. Eagerly(before, c, width, policies[c]) = Rows(Handled(F, c, width))
      BY <2>2, <2>5, <2>7 DEF Eagerly
    <3>2. ASSUME NEW k \in DOMAIN rows
          PROVE  {j \in 1..k : ~IsMissing(F[j].cells[c], width)} = known(k)
      <4>1. 1..k \subseteq DOMAIN rows
        BY <1>1
      <4>2. QED
        BY <1>4, <4>1
    <3>3. Handled(F, c, width)
            = [k \in DOMAIN rows |->
                 IF known(k) = {} THEN F[k]
                 ELSE [F[k] EXCEPT !.cells[c] = F[Max(known(k))].cells[c]]]
      BY <1>3, <3>2 DEF Handled
    <3>4. ASSUME NEW k \in DOMAIN rows
          PROVE  (IF known(k) = {} THEN F[k]
                  ELSE [F[k] EXCEPT !.cells[c] = F[Max(known(k))].cells[c]]) = G[k]
      <4>1. Repeated(rows, c, width, k)
              = IF known(k) = {} THEN rows[k].cells[c] ELSE rows[Max(known(k))].cells[c]
        BY DEF Repeated
      <4> HIDE DEF known
      <4>2. CASE known(k) = {}
        BY <1>6, <4>1, <4>2
      <4>3. CASE known(k) # {}
        <5>1. F[Max(known(k))].cells[c] = Repeated(rows, c, width, k)
          BY <1>4, <1>8, <4>1, <4>3
        <5>2. [F[k] EXCEPT !.cells[c] = F[Max(known(k))].cells[c]] = G[k]
          BY <1>7, <2>7, <5>1
        <5>3. QED
          BY <4>3, <5>2
      <4>4. QED
        BY <4>2, <4>3
    <3> HIDE DEF known
    <3>5. Handled(F, c, width) = G
      BY <1>3, <3>3, <3>4
    <3>6. QED
      BY <2>4, <2>7, <3>1, <3>5
  <2>8. CASE ~(policies[c] \in {"error", "custom"} /\ Misses(rows, c, width))
    <3>1. Eagerly(before, c, width, policies[c]) = before
      BY <2>2, <2>5, <2>8 DEF Eagerly
    <3>2. \A k \in DOMAIN rows : G[k] = F[k]
      BY <1>6, <1>8, <2>8
    <3>3. G = F
      BY <1>3, <3>2
    <3>4. QED
      BY <2>1, <2>4, <2>8, <3>1, <3>3
  <2>9. QED
    BY <2>6, <2>7, <2>8
<1>11. QED
  BY <1>9, <1>10

\* Preparing rows depends on the columns there are, not on their order.
PreparedBy(rows, C, widths, policies, fills) ==
  EagerOn(LazyOn(rows, C, widths, policies, fills), C, widths, policies)

\* The sequence lists members of S, none twice; what it lists.
Distinct(s, S) ==
  /\ Len(s) \in Nat /\ \A k \in 1..Len(s) : s[k] \in S
  /\ \A j, k \in 1..Len(s) : s[j] = s[k] => j = k
Items(s) == {s[k] : k \in 1..Len(s)}

LEMMA PrepareInAnyOrder ==
  ASSUME NEW rows, NEW types, Frame(rows, types), NEW columns, Distinct(columns, DOMAIN types),
         NEW widths, WidthsOf(widths, types), NEW policies, NEW fills
  PROVE  Prepare(rows, columns, widths, policies, fills)
           = PreparedBy(rows, Items(columns), widths, policies, fills)
<1> USE DEF Distinct, WidthsOf
<1> DEFINE n == Len(columns)
           First(k) == {columns[j] : j \in 1..k}
<1>1. PICK f, g : /\ Preparation(f, g, rows, columns, widths, policies, fills)
                  /\ Prepare(rows, columns, widths, policies, fills) = g[n]
  BY PrepareSteps
<1>2. \A k \in 1..n : columns[k] \in DOMAIN types /\ widths[columns[k]] = types[columns[k]].width
  OBVIOUS
<1>3. First(0) = {}
  OBVIOUS
<1>4. ASSUME NEW k \in 1..n
      PROVE  columns[k] \notin First(k - 1) /\ First(k) = First(k - 1) \union {columns[k]}
  <2>1. 1..k = (1..(k - 1)) \union {k} /\ k \notin 1..(k - 1) /\ 1..(k - 1) \subseteq 1..n
    OBVIOUS
  <2>2. QED
    BY <2>1
<1> HIDE DEF First
<1> DEFINE Lazy(k) == LazyOn(rows, First(k), widths, policies, fills)
           S == {k \in 0..n : f[k] = Lazy(k) /\ Frame(f[k], types)}
<1>5. 0 \in S
  <2>1. LazyOn(rows, {}, widths, policies, fills) = rows
    BY LazyNone
  <2>2. f[0] = Lazy(0)
    BY <1>1, <1>3, <2>1 DEF Preparation
  <2>3. Frame(f[0], types)
    BY <1>1 DEF Preparation
  <2> HIDE DEF Lazy
  <2>4. QED
    BY <2>2, <2>3
<1>6. ASSUME NEW k \in 1..n, k - 1 \in S PROVE k \in S
  <2> DEFINE c == columns[k]
             p == policies[c]
             v == FillOf(fills, c)
  <2>1. f[k] = Lazily(f[k - 1], c, widths[c], p, v)
    BY <1>1 DEF Preparation
  <2>2. c \in DOMAIN types /\ widths[c] = types[c].width
    BY <1>2
  <2>3. f[k - 1] = Lazy(k - 1) /\ Frame(f[k - 1], types)
    BY <1>6
  <2>4. Lazily(Lazy(k - 1), c, widths[c], p, v) = Lazy(k)
    <3>1. c \notin First(k - 1) /\ First(k) = First(k - 1) \union {c}
      BY <1>4
    <3> DEFINE C == First(k - 1)
    <3>2. Lazily(LazyOn(rows, C, widths, policies, fills), c, widths[c], p, v)
            = LazyOn(rows, C \union {c}, widths, policies, fills)
      <4> HIDE DEF C, c
      <4>1. QED
        BY <2>2, <3>1, LazyStep DEF C
    <3>3. QED
      BY <3>1, <3>2
  <2>5. Frame(Lazily(f[k - 1], c, types[c].width, p, v), types)
    <3> HIDE DEF c, p, v
    <3>1. QED
      BY <2>2, <2>3, LazilyFrame
  <2>6. QED
    BY <2>1, <2>2, <2>3, <2>4, <2>5
<1>7. 0..n \subseteq S
  <2> HIDE DEF S
  <2>1. QED
    BY <1>5, <1>6, IntervalInduction
<1> DEFINE kept == f[n]
           Eager(k) == EagerOn(kept, First(k), widths, policies)
           T == {k \in 0..n : g[k] = Eager(k)}
<1>8. kept = Lazy(n) /\ Frame(kept, types)
  BY <1>7
<1>9. g[0] = Rows(kept) /\ \A k \in 1..n :
        g[k] = Eagerly(g[k - 1], columns[k], widths[columns[k]], policies[columns[k]])
  BY <1>1 DEF Preparation
<1> HIDE DEF kept, Lazy, S
<1>10. 0 \in T
  <2>1. EagerOn(kept, {}, widths, policies) = Rows(kept)
    BY <1>8, EagerNone
  <2>2. g[0] = Eager(0)
    BY <1>3, <1>9, <2>1
  <2> HIDE DEF Eager
  <2>3. QED
    BY <2>2
<1>11. ASSUME NEW k \in 1..n, k - 1 \in T PROVE k \in T
  <2> DEFINE c == columns[k]
             C == First(k - 1)
  <2>1. c \in DOMAIN types /\ c \notin C /\ First(k) = C \union {c}
    BY <1>2, <1>4
  <2>2. Eagerly(EagerOn(kept, C, widths, policies), c, widths[c], policies[c])
          = EagerOn(kept, C \union {c}, widths, policies)
    <3> HIDE DEF c, C
    <3>1. QED
      BY <1>8, <2>1, EagerStep
  <2>3. g[k - 1] = EagerOn(kept, C, widths, policies)
    BY <1>11
  <2>4. g[k] = Eagerly(g[k - 1], c, widths[c], policies[c])
    BY <1>9
  <2>5. g[k] = EagerOn(kept, First(k), widths, policies)
    BY <2>1, <2>2, <2>3, <2>4
  <2>6. QED
    BY <2>5
<1>12. 0..n \subseteq T
  <2> HIDE DEF T
  <2>1. QED
    BY <1>10, <1>11, IntervalInduction
<1>13. g[n] = EagerOn(kept, First(n), widths, policies)
  BY <1>12
<1>14. QED
  BY <1>1, <1>8, <1>13 DEF PreparedBy, Lazy, First, Items

\* SetToSeq lists the members of a finite set, each once.
LEMMA SetListed ==
  ASSUME NEW S, IsFiniteSet(S), NEW s, s = SetToSeq(S)
  PROVE  Distinct(s, S)
<1> DEFINE n == Cardinality(S)
<1>1. n \in Nat /\ ExistsBijection(1..n, S)
  BY FS_CardinalityType
<1>2. \E f \in [1..n -> S] : IsInjective(f)
  BY <1>1 DEF ExistsBijection, Bijection, Injection
<1>3. s \in [1..n -> S] /\ IsInjective(s)
  BY <1>2 DEF SetToSeq
<1> HIDE DEF n
<1>4. Len(s) = n /\ DOMAIN s = 1..n
  BY <1>1, <1>3
<1>5. QED
  BY <1>1, <1>3, <1>4 DEF IsInjective, Distinct

LEMMA ReverseListed ==
  ASSUME NEW s, NEW S, Distinct(s, S), NEW r, r = Reverse(s)
  PROVE  Distinct(r, S) /\ Items(r) = Items(s)
<1> DEFINE n == Len(s)
<1>0. n \in Nat /\ (\A k \in 1..n : s[k] \in S) /\ \A j, k \in 1..n : s[j] = s[k] => j = k
  BY DEF Distinct
<1>1. r = [k \in 1..n |-> s[(n - k) + 1]]
  BY DEF Reverse
<1> HIDE DEF n
<1>2. Len(r) = n
  BY <1>0, <1>1
<1>3. \A k \in 1..n : (n - k) + 1 \in 1..n /\ r[k] = s[(n - k) + 1]
  BY <1>0, <1>1
<1>4. ASSUME NEW j \in 1..n, NEW k \in 1..n, r[j] = r[k] PROVE j = k
  <2>1. (n - j) + 1 = (n - k) + 1
    BY <1>0, <1>3, <1>4
  <2>2. QED
    BY <1>0, <2>1
<1>5. ASSUME NEW k \in 1..n PROVE \E j \in 1..n : s[k] = r[j]
  <2>1. (n - k) + 1 \in 1..n /\ (n - ((n - k) + 1)) + 1 = k
    BY <1>0
  <2>2. s[k] = r[(n - k) + 1]
    BY <1>3, <2>1
  <2>3. QED
    BY <2>1, <2>2
<1>6. Items(r) = {r[k] : k \in 1..n} /\ Items(s) = {s[k] : k \in 1..n}
  BY <1>2 DEF Items, n
<1>7. Items(r) = Items(s)
  <2>1. \A x \in Items(r) : x \in Items(s)
    BY <1>3, <1>6
  <2>2. \A x \in Items(s) : x \in Items(r)
    BY <1>5, <1>6
  <2>3. QED
    BY <2>1, <2>2
<1>8. Distinct(r, S)
  BY <1>0, <1>2, <1>3, <1>4 DEF Distinct
<1>9. QED
  BY <1>7, <1>8

\* The null policies of the inputs commute.
THEOREM PoliciesInAnyOrder == Spec => []PoliciesCommute
<1>1. TypedInv => PoliciesCommute
  <2> SUFFICES ASSUME TypedInv PROVE PoliciesCommute
    OBVIOUS
  <2> DEFINE names == DOMAIN Feeds
             sources == [s \in names |-> [frame |-> seen[s], column |-> "value", tolerance |-> Null]]
             aligned == Align(sources)
             fills == [s \in names |-> Whole(0)]
             widths == [s \in names |-> Feeds[s].width]
             columns == SetToSeq(names)
             back == Reverse(columns)

  <2>1. Frame(aligned, Feeds)
    <3>1. IsFiniteSet(names) /\ DOMAIN sources = names
      BY FeedsAssumption
    <3>2. ASSUME NEW s \in names
          PROVE  /\ IsSeq(seen[s])
                 /\ \A k \in 1..Len(seen[s]) :
                      seen[s][k].time \in Int /\ Fits(seen[s][k].cells["value"], Feeds[s])
      <4> DEFINE rows == seen[s]
                 types == [value |-> Feeds[s]]
      <4>1. Frame(rows, types)
        BY DEF TypedInv, Fed
      <4>2. "value" \in DOMAIN types /\ types["value"] = Feeds[s]
        OBVIOUS
      <4> HIDE DEF rows, types
      <4>3. IsSeq(rows) /\ \A k \in 1..Len(rows) :
              rows[k].time \in Int /\ Fits(rows[k].cells["value"], Feeds[s])
        BY <4>1, <4>2 DEF Frame, Typed
      <4>4. QED
        BY <4>3 DEF rows
    <3>3. \A s \in DOMAIN sources :
            /\ IsSeq(sources[s].frame)
            /\ \A k \in 1..Len(sources[s].frame) :
                 /\ sources[s].frame[k].time \in Int
                 /\ Fits(sources[s].frame[k].cells[sources[s].column], Feeds[s])
      BY <3>2
    <3> HIDE DEF sources
    <3>4. QED
      BY <3>1, <3>3, AlignFrame
  <2>2. Distinct(columns, DOMAIN Feeds)
    BY FeedsAssumption, SetListed
  <2> HIDE DEF aligned, columns
  <2>3. Distinct(back, DOMAIN Feeds) /\ Items(back) = Items(columns)
    BY <2>2, ReverseListed
  <2>4. WidthsOf(widths, Feeds)
    BY DEF WidthsOf
  <2> HIDE DEF back, widths, fills
  <2>5. ASSUME NEW p
        PROVE  Prepare(aligned, columns, widths, p, fills) = Prepare(aligned, back, widths, p, fills)
    <3>1. Prepare(aligned, columns, widths, p, fills)
            = PreparedBy(aligned, Items(columns), widths, p, fills)
      BY <2>1, <2>2, <2>4, PrepareInAnyOrder
    <3>2. Prepare(aligned, back, widths, p, fills)
            = PreparedBy(aligned, Items(back), widths, p, fills)
      BY <2>1, <2>3, <2>4, PrepareInAnyOrder
    <3>3. QED
      BY <2>3, <3>1, <3>2
  <2>6. QED
    BY <2>5 DEF PoliciesCommute, aligned, columns, back, widths, fills
<1>2. QED
  BY <1>1, TypesInvariant, PTL
-----------------------------------------------------------------------------
(* Frames that a later moment extends *)

\* The members below a bound come first, in the order they have by themselves.
Under(T, b) == {x \in T : x < b}

LEMMA InOrderPrefix ==
  ASSUME NEW T, IsFiniteSet(T), T \subseteq Int, NEW b \in Int, NEW S, S = Under(T, b)
  PROVE  /\ IsFiniteSet(S) /\ S \subseteq Int
         /\ Cardinality(S) \in Nat /\ Cardinality(T) \in Nat /\ Cardinality(S) <= Cardinality(T)
         /\ \A k \in 1..Cardinality(S) : InOrder(T)[k] = InOrder(S)[k]
         /\ \A k \in 1..Cardinality(T) : k > Cardinality(S) => InOrder(T)[k] >= b
<1> DEFINE n == Cardinality(S)
           m == Cardinality(T)
           f == InOrder(S)
           g == InOrder(T)
           Place(x) == Cardinality(Below(S, x))
           Within(x) == Cardinality(Below(T, x))
<1>0. S = {x \in T : x < b}
  BY DEF Under
<1>1. IsFiniteSet(S) /\ S \subseteq Int /\ n <= m
  BY <1>0, FS_Subset
<1>2. ASSUME NEW x \in S PROVE Place(x) = Within(x)
  <2>1. \A y \in T : y < x => y \in S
    BY <1>0, <1>2
  <2>2. Below(S, x) = Below(T, x)
    BY <1>0, <2>1 DEF Below
  <2>3. QED
    BY <2>2
<1>3. /\ f = [k \in 1..n |-> CHOOSE x \in S : Place(x) = k - 1]
      /\ g = [k \in 1..m |-> CHOOSE x \in T : Within(x) = k - 1]
  BY DEF InOrder, Below
<1>4. /\ n \in Nat /\ \A x \in S : Place(x) \in 0..(n - 1)
      /\ \A k \in 1..n : \E x \in S : Place(x) = k - 1
  BY <1>1, Places
<1>5. /\ m \in Nat /\ \A x \in T : Within(x) \in 0..(m - 1)
      /\ \A x, y \in T : x < y => Within(x) < Within(y)
      /\ \A k \in 1..m : \E x \in T : Within(x) = k - 1
  BY Places
<1> HIDE DEF f, g, n, m, Place, Within
<1>6. ASSUME NEW k \in 1..m PROVE g[k] \in T /\ Within(g[k]) = k - 1
  BY <1>3, <1>5
<1>7. ASSUME NEW k \in 1..n PROVE g[k] = f[k]
  <2>1. f[k] \in S /\ Place(f[k]) = k - 1
    BY <1>3, <1>4
  <2>2. k \in 1..m
    BY <1>1, <1>4, <1>5
  <2>3. g[k] \in T /\ f[k] \in T /\ Within(g[k]) = k - 1 /\ Within(f[k]) = k - 1
    BY <1>0, <1>2, <1>6, <2>1, <2>2
  <2>4. ~(g[k] < f[k]) /\ ~(f[k] < g[k])
    <3>1. ~(Within(g[k]) < Within(f[k])) /\ ~(Within(f[k]) < Within(g[k]))
      BY <2>3
    <3>2. QED
      BY <1>5, <2>3, <3>1
  <2>5. g[k] \in Int /\ f[k] \in Int
    BY <2>3
  <2>6. QED
    BY <2>4, <2>5
<1>8. ASSUME NEW k \in 1..m, k > n PROVE g[k] >= b
  <2>1. g[k] \in T /\ g[k] \in Int /\ Within(g[k]) = k - 1
    BY <1>6
  <2>2. CASE g[k] \in S
    <3>1. Place(g[k]) \in 0..(n - 1) /\ Place(g[k]) = k - 1
      BY <1>2, <1>4, <2>1, <2>2
    <3>2. QED
      BY <1>4, <1>8, <3>1
  <2>3. CASE g[k] \notin S
    BY <1>0, <2>1, <2>3
  <2>4. QED
    BY <2>2, <2>3
<1>9. QED
  BY <1>1, <1>4, <1>5, <1>7, <1>8 DEF f, g, n, m

\* A sequence that goes on with what another one is.
Continues(s, more) ==
  /\ IsSeq(s) /\ IsSeq(more) /\ Len(s) <= Len(more)
  /\ \A k \in 1..Len(s) : more[k] = s[k]

\* A frame of rows before the moment t that goes on with rows at t.
Grown(rows, more, t) ==
  /\ Continues(rows, more)
  /\ \A k \in 1..Len(rows) : rows[k].time \in Int /\ rows[k].time < t
  /\ \A k \in 1..Len(more) : k > Len(rows) => more[k].time = t

LEMMA GrownFacts ==
  ASSUME NEW rows, NEW more, NEW t, Grown(rows, more, t)
  PROVE  /\ IsSeq(rows) /\ IsSeq(more) /\ Len(rows) \in Nat /\ Len(more) \in Nat
         /\ Len(rows) <= Len(more) /\ DOMAIN rows = 1..Len(rows) /\ DOMAIN more = 1..Len(more)
         /\ \A k \in 1..Len(rows) :
              /\ k \in 1..Len(more) /\ more[k] = rows[k]
              /\ rows[k].time \in Int /\ rows[k].time < t
         /\ \A k \in 1..Len(more) : k > Len(rows) => more[k].time = t
<1>1. IsSeq(rows) /\ IsSeq(more) /\ Len(rows) <= Len(more)
  BY DEF Grown, Continues
<1>2. /\ Len(rows) \in Nat /\ Len(more) \in Nat
      /\ DOMAIN rows = 1..Len(rows) /\ DOMAIN more = 1..Len(more)
  BY <1>1, SeqFacts
<1>3. QED
  BY <1>1, <1>2 DEF Grown, Continues

\* The same rows again, each with its time: what a function of rows makes of them.
LEMMA GrownRows ==
  ASSUME NEW rows, NEW more, NEW t, Grown(rows, more, t), NEW made, NEW later,
         made = [k \in DOMAIN rows |-> made[k]], later = [k \in DOMAIN more |-> later[k]],
         \A k \in 1..Len(rows) : later[k] = made[k] /\ made[k].time = rows[k].time,
         \A k \in 1..Len(more) : later[k].time = more[k].time
  PROVE  Grown(made, later, t)
<1>1. /\ Len(rows) \in Nat /\ Len(more) \in Nat /\ Len(rows) <= Len(more)
      /\ DOMAIN rows = 1..Len(rows) /\ DOMAIN more = 1..Len(more)
      /\ \A k \in 1..Len(rows) : rows[k].time \in Int /\ rows[k].time < t
      /\ \A k \in 1..Len(more) : k > Len(rows) => more[k].time = t
  BY GrownFacts
<1>2. IsSeq(made) /\ Len(made) = Len(rows)
  BY <1>1, SeqByDomain
<1>3. IsSeq(later) /\ Len(later) = Len(more)
  BY <1>1, SeqByDomain
<1>4. QED
  BY <1>1, <1>2, <1>3 DEF Grown, Continues

\* The rows selected by what each of them is.
LEMMA GrownWhere ==
  ASSUME NEW rows, NEW more, NEW t, Grown(rows, more, t),
         NEW at, NEW after, after \subseteq DOMAIN more, at = {k \in after : k <= Len(rows)}
  PROVE  Grown(Where(rows, at), Where(more, after), t)
<1> DEFINE n == Len(rows)
           b == n + 1
           made == Where(rows, at)
           later == Where(more, after)
<1>1. /\ n \in Nat /\ Len(more) \in Nat /\ n <= Len(more) /\ IsSeq(rows) /\ IsSeq(more)
      /\ DOMAIN rows = 1..n /\ DOMAIN more = 1..Len(more)
      /\ \A k \in 1..n : more[k] = rows[k] /\ rows[k].time \in Int /\ rows[k].time < t
      /\ \A k \in 1..Len(more) : k > n => more[k].time = t
  BY GrownFacts
<1>2. IsFiniteSet(after) /\ after \subseteq Int
  BY <1>1, PositionsFinite
<1>3. at = Under(after, b) /\ b \in Int /\ at \subseteq 1..n /\ b > n
  BY <1>1, <1>2 DEF Under
<1> HIDE DEF made, later, n, b
<1>4. /\ Cardinality(at) <= Cardinality(after)
      /\ \A k \in 1..Cardinality(at) : InOrder(after)[k] = InOrder(at)[k]
      /\ \A k \in 1..Cardinality(after) : k > Cardinality(at) => InOrder(after)[k] >= b
  <2>1. ASSUME NEW T, NEW c, NEW S, IsFiniteSet(T), T \subseteq Int, c \in Int, S = Under(T, c)
        PROVE  /\ Cardinality(S) <= Cardinality(T)
               /\ \A k \in 1..Cardinality(S) : InOrder(T)[k] = InOrder(S)[k]
               /\ \A k \in 1..Cardinality(T) : k > Cardinality(S) => InOrder(T)[k] >= c
    BY <2>1, InOrderPrefix, Zenon
  <2>2. QED
    BY <1>2, <1>3, <2>1
<1>5. /\ IsSeq(made) /\ Len(made) = Cardinality(at) /\ Cardinality(at) \in Nat
      /\ \A k \in 1..Cardinality(at) : InOrder(at)[k] \in at /\ made[k] = rows[InOrder(at)[k]]
  BY <1>1, <1>3, WhereFacts DEF made
<1>6. /\ IsSeq(later) /\ Len(later) = Cardinality(after) /\ Cardinality(after) \in Nat
      /\ \A k \in 1..Cardinality(after) :
           InOrder(after)[k] \in after /\ later[k] = more[InOrder(after)[k]]
  BY <1>1, WhereFacts DEF later
<1>7. ASSUME NEW k \in 1..Cardinality(at)
      PROVE  later[k] = made[k] /\ made[k].time \in Int /\ made[k].time < t
  <2>1. InOrder(at)[k] \in 1..n /\ made[k] = rows[InOrder(at)[k]]
    BY <1>3, <1>5
  <2>2. later[k] = more[InOrder(at)[k]]
    BY <1>4, <1>5, <1>6
  <2>3. QED
    BY <1>1, <2>1, <2>2
<1>8. ASSUME NEW k \in 1..Cardinality(after), k > Cardinality(at)
      PROVE  later[k].time = t
  <2>1. InOrder(after)[k] \in 1..Len(more) /\ InOrder(after)[k] > n
    BY <1>1, <1>3, <1>4, <1>6, <1>8
  <2>2. QED
    BY <1>1, <1>6, <2>1
<1>9. QED
  BY <1>4, <1>5, <1>6, <1>7, <1>8 DEF Grown, Continues, made, later

\* Each lazy policy looks at the rows one by one.
LEMMA GrownLazily ==
  ASSUME NEW rows, NEW more, NEW t, Grown(rows, more, t),
         NEW column, NEW width, NEW policy, NEW fill
  PROVE  Grown(Lazily(rows, column, width, policy, fill),
               Lazily(more, column, width, policy, fill), t)
<1>1. /\ Len(rows) \in Nat /\ Len(more) \in Nat /\ Len(rows) <= Len(more)
      /\ DOMAIN rows = 1..Len(rows) /\ DOMAIN more = 1..Len(more)
      /\ \A k \in 1..Len(rows) : k \in 1..Len(more) /\ more[k] = rows[k]
  BY GrownFacts
<1>2. CASE policy = "drop"
  <2> DEFINE at == {k \in DOMAIN rows : ~IsMissing(rows[k].cells[column], width)}
             after == {k \in DOMAIN more : ~IsMissing(more[k].cells[column], width)}
  <2>1. after \subseteq DOMAIN more /\ at = {k \in after : k <= Len(rows)}
    BY <1>1
  <2>2. /\ Lazily(rows, column, width, policy, fill) = Where(rows, at)
        /\ Lazily(more, column, width, policy, fill) = Where(more, after)
    BY <1>2 DEF Lazily
  <2> HIDE DEF at, after
  <2>3. QED
    BY <2>1, <2>2, GrownWhere
<1>3. CASE policy = "fill"
  <2> DEFINE With(row) == [row EXCEPT !.cells[column] = Filled(@, width, fill)]
             made == [k \in DOMAIN rows |-> With(rows[k])]
             later == [k \in DOMAIN more |-> With(more[k])]
  <2>1. /\ Lazily(rows, column, width, policy, fill) = made
        /\ Lazily(more, column, width, policy, fill) = later
    BY <1>3 DEF Lazily
  <2>2. \A row : With(row).time = row.time
    OBVIOUS
  <2> HIDE DEF With
  <2>3. made = [k \in DOMAIN rows |-> made[k]] /\ later = [k \in DOMAIN more |-> later[k]]
    OBVIOUS
  <2>4. \A k \in 1..Len(rows) : later[k] = made[k] /\ made[k].time = rows[k].time
    BY <1>1, <2>2
  <2>5. \A k \in 1..Len(more) : later[k].time = more[k].time
    BY <1>1, <2>2
  <2> HIDE DEF made, later
  <2>6. Grown(made, later, t)
    BY <2>3, <2>4, <2>5, GrownRows
  <2>7. QED
    BY <2>1, <2>6
<1>4. CASE policy \notin {"drop", "fill"}
  BY <1>4 DEF Lazily
<1>5. QED
  BY <1>2, <1>3, <1>4

\* The handler looks back.
LEMMA GrownHandled ==
  ASSUME NEW rows, NEW more, NEW t, Grown(rows, more, t), NEW column, NEW width
  PROVE  Grown(Handled(rows, column, width), Handled(more, column, width), t)
<1> DEFINE Known(s, k) == {j \in 1..k : ~IsMissing(s[j].cells[column], width)}
           Row(s, k) == IF Known(s, k) = {} THEN s[k]
                        ELSE [s[k] EXCEPT !.cells[column] = s[Max(Known(s, k))].cells[column]]
           made == Handled(rows, column, width)
           later == Handled(more, column, width)
<1>1. /\ Len(rows) \in Nat /\ Len(more) \in Nat /\ Len(rows) <= Len(more)
      /\ DOMAIN rows = 1..Len(rows) /\ DOMAIN more = 1..Len(more)
      /\ \A k \in 1..Len(rows) : k \in 1..Len(more) /\ more[k] = rows[k]
  BY GrownFacts
<1>2. /\ made = [k \in DOMAIN rows |-> Row(rows, k)]
      /\ later = [k \in DOMAIN more |-> Row(more, k)]
  BY DEF Handled
<1>3. ASSUME NEW k \in 1..Len(rows) PROVE Row(more, k) = Row(rows, k)
  <2>1. \A j \in 1..k : more[j] = rows[j]
    BY <1>1
  <2>2. Known(more, k) = Known(rows, k)
    BY <2>1
  <2>3. CASE Known(rows, k) = {}
    BY <1>1, <2>2, <2>3
  <2>4. CASE Known(rows, k) # {}
    <3>1. Known(rows, k) \subseteq 1..k /\ k \in Nat
      BY <1>1
    <3> DEFINE known == Known(rows, k)
    <3>2. known \subseteq 1..k /\ IsFiniteSet(known) /\ known \subseteq Int /\ known # {}
      <4> HIDE DEF Known
      <4>1. QED
        BY <2>4, <3>1, PositionsFinite
    <3> HIDE DEF known
    <3>3. Max(known) \in 1..k
      BY <3>2, MaxFacts
    <3>4. more[Max(known)] = rows[Max(known)] /\ more[k] = rows[k]
      BY <1>1, <2>1, <3>3
    <3>5. Known(rows, k) = known
      BY DEF known
    <3> HIDE DEF Known
    <3>6. QED
      BY <2>2, <2>4, <3>4, <3>5
  <2>5. QED
    BY <2>3, <2>4
<1>4. \A s, k : Row(s, k).time = s[k].time
  OBVIOUS
<1> HIDE DEF Row, made, later
<1>5. made = [k \in DOMAIN rows |-> made[k]] /\ later = [k \in DOMAIN more |-> later[k]]
  BY <1>2
<1>6. \A k \in 1..Len(rows) : later[k] = made[k] /\ made[k].time = rows[k].time
  BY <1>1, <1>2, <1>3, <1>4
<1>7. \A k \in 1..Len(more) : later[k].time = more[k].time
  BY <1>1, <1>2, <1>4
<1>8. Grown(made, later, t)
  BY <1>5, <1>6, <1>7, GrownRows
<1>9. QED
  BY <1>8 DEF made, later

\* Where nothing is missing the handler changes nothing.
LEMMA NoneHandled ==
  ASSUME NEW rows, NEW types, Frame(rows, types), NEW column \in DOMAIN types, NEW width,
         ~\E k \in DOMAIN rows : IsMissing(rows[k].cells[column], width)
  PROVE  Handled(rows, column, width) = rows
<1> DEFINE Known(k) == {j \in 1..k : ~IsMissing(rows[j].cells[column], width)}
           Row(k) == IF Known(k) = {} THEN rows[k]
                     ELSE [rows[k] EXCEPT !.cells[column] = rows[Max(Known(k))].cells[column]]
<1>1. /\ Len(rows) \in Nat /\ DOMAIN rows = 1..Len(rows)
      /\ rows = [k \in 1..Len(rows) |-> rows[k]]
  BY SeqFacts DEF Frame
<1>2. Handled(rows, column, width) = [k \in DOMAIN rows |-> Row(k)]
  BY DEF Handled
<1>3. ASSUME NEW k \in 1..Len(rows) PROVE Row(k) = rows[k]
  <2>1. k \in Known(k) /\ Known(k) \subseteq 1..k /\ k \in Nat
    BY <1>1
  <2> DEFINE known == Known(k)
  <2>2. IsFiniteSet(known) /\ known \subseteq Int /\ known # {} /\ k \in known
    <3> HIDE DEF Known
    <3>1. QED
      BY <2>1, PositionsFinite
  <2>3. \A j \in known : j <= k
    BY <1>1
  <2>4. Max(known) = k
    <3> HIDE DEF known
    <3>1. Max(known) \in known /\ Max(known) >= k
      BY <2>2, MaxFacts
    <3>2. Max(known) <= k /\ Max(known) \in Int
      BY <2>2, <2>3, <3>1
    <3>3. QED
      BY <2>1, <3>1, <3>2
  <2>5. Row(k) = [rows[k] EXCEPT !.cells[column] = rows[k].cells[column]]
    <3>1. Known(k) = known
      OBVIOUS
    <3> HIDE DEF Known, known
    <3>2. QED
      BY <2>2, <2>4, <3>1
  <2> DEFINE row == rows[k]
  <2>6. row = [time |-> row.time, cells |-> row.cells] /\ DOMAIN row.cells = DOMAIN types
        /\ row.cells = [c \in DOMAIN types |-> row.cells[c]]
    BY DEF Frame, Typed
  <2> HIDE DEF row
  <2>7. [row.cells EXCEPT ![column] = row.cells[column]] = row.cells
    BY <2>6
  <2>8. [row EXCEPT !.cells[column] = row.cells[column]] = row
    BY <2>6, <2>7
  <2>9. QED
    BY <2>5, <2>8 DEF row
<1> HIDE DEF Row
<1>4. QED
  BY <1>1, <1>2, <1>3

\* The policies of all columns, unless they raise.
LEMMA GrownPrepare ==
  ASSUME NEW rows, NEW more, NEW t, Grown(rows, more, t),
         NEW types, Frame(rows, types), Frame(more, types), NEW columns, Among(columns, types),
         NEW widths, WidthsOf(widths, types), NEW policies, NEW fills,
         ~Prepare(rows, columns, widths, policies, fills).raised,
         ~Prepare(more, columns, widths, policies, fills).raised
  PROVE  Grown(Prepare(rows, columns, widths, policies, fills).rows,
               Prepare(more, columns, widths, policies, fills).rows, t)
<1> DEFINE n == Len(columns)
<1>1. PICK f, g : /\ Preparation(f, g, rows, columns, widths, policies, fills)
                  /\ Prepare(rows, columns, widths, policies, fills) = g[n]
  BY PrepareSteps DEF Among
<1>2. PICK u, v : /\ Preparation(u, v, more, columns, widths, policies, fills)
                  /\ Prepare(more, columns, widths, policies, fills) = v[n]
  BY PrepareSteps DEF Among
<1> DEFINE A == {k \in 0..n : Grown(f[k], u[k], t) /\ Frame(f[k], types) /\ Frame(u[k], types)}
           B == {k \in 0..n :
                   /\ Frame(g[k].rows, types) /\ Frame(v[k].rows, types)
                   /\ ~g[k].raised /\ ~v[k].raised => Grown(g[k].rows, v[k].rows, t)}
<1>3. /\ n \in Nat
      /\ \A k \in 1..n : columns[k] \in DOMAIN types /\ widths[columns[k]] = types[columns[k]].width
  BY DEF Among, WidthsOf
<1>4. /\ f[0] = rows /\ u[0] = more /\ g[0] = Rows(f[n]) /\ v[0] = Rows(u[n])
      /\ \A k \in 1..n :
           LET c == columns[k] IN
           /\ f[k] = Lazily(f[k - 1], c, widths[c], policies[c], FillOf(fills, c))
           /\ u[k] = Lazily(u[k - 1], c, widths[c], policies[c], FillOf(fills, c))
           /\ g[k] = Eagerly(g[k - 1], c, widths[c], policies[c])
           /\ v[k] = Eagerly(v[k - 1], c, widths[c], policies[c])
  BY <1>1, <1>2 DEF Preparation
<1> HIDE DEF n
<1>5. n \in A
  <2>1. 0 \in A
    BY <1>3, <1>4
  <2>2. ASSUME NEW k \in 1..n, k - 1 \in A PROVE k \in A
    <3> DEFINE x == f[k - 1]
               y == u[k - 1]
               c == columns[k]
    <3>1. Grown(x, y, t) /\ Frame(x, types) /\ Frame(y, types) /\ k \in 0..n
      BY <1>3, <2>2
    <3>2. /\ f[k] = Lazily(x, c, widths[c], policies[c], FillOf(fills, c))
          /\ u[k] = Lazily(y, c, widths[c], policies[c], FillOf(fills, c))
          /\ c \in DOMAIN types /\ widths[c] = types[c].width
      BY <1>3, <1>4
    <3> HIDE DEF x, y, c
    <3>3. Grown(f[k], u[k], t)
      BY <3>1, <3>2, GrownLazily
    <3>4. Frame(f[k], types) /\ Frame(u[k], types)
      BY <3>1, <3>2, LazilyFrame
    <3>5. QED
      BY <3>1, <3>3, <3>4
  <2>3. 0..n \subseteq A
    <3> HIDE DEF A
    <3>1. QED
      BY <1>3, <2>1, <2>2, IntervalInduction
  <2>4. QED
    BY <1>3, <2>3
<1>6. n \in B
  <2>1. 0 \in B
    <3>1. Grown(f[n], u[n], t) /\ Frame(f[n], types) /\ Frame(u[n], types)
      BY <1>5
    <3>2. QED
      BY <1>3, <1>4, <3>1 DEF Rows
  <2>2. ASSUME NEW k \in 1..n, k - 1 \in B PROVE k \in B
    <3> DEFINE c == columns[k]
               p == g[k - 1]
               q == v[k - 1]
    <3>1. /\ g[k] = Eagerly(p, c, widths[c], policies[c])
          /\ v[k] = Eagerly(q, c, widths[c], policies[c])
          /\ c \in DOMAIN types /\ widths[c] = types[c].width
      BY <1>3, <1>4
    <3>2. /\ Frame(p.rows, types) /\ Frame(q.rows, types)
          /\ ~p.raised /\ ~q.raised => Grown(p.rows, q.rows, t)
      BY <2>2
    <3> HIDE DEF c, p, q
    <3>3. ASSUME ~g[k].raised, ~v[k].raised PROVE Grown(g[k].rows, v[k].rows, t)
      <4>1. ~p.raised /\ ~q.raised
        BY <3>1, <3>3 DEF Eagerly, Raised
      <4>2. Grown(p.rows, q.rows, t)
        BY <3>2, <4>1
      <4>3. CASE policies[c] # "custom"
        <5>1. g[k] = p /\ v[k] = q
          BY <3>1, <3>3, <4>1, <4>3 DEF Eagerly, Raised
        <5>2. QED
          BY <4>2, <5>1
      <4>4. CASE policies[c] = "custom"
        <5>1. ASSUME NEW x, NEW y, Frame(x.rows, types), ~x.raised,
                     y = Eagerly(x, c, widths[c], policies[c])
              PROVE  y.rows = Handled(x.rows, c, widths[c])
          <6>1. CASE \E j \in DOMAIN x.rows : IsMissing(x.rows[j].cells[c], widths[c])
            BY <4>4, <5>1, <6>1 DEF Eagerly, Rows
          <6>2. CASE ~\E j \in DOMAIN x.rows : IsMissing(x.rows[j].cells[c], widths[c])
            <7>1. y = x
              BY <4>4, <5>1, <6>2 DEF Eagerly
            <7>2. Handled(x.rows, c, widths[c]) = x.rows
              BY <3>1, <5>1, <6>2, NoneHandled
            <7>3. QED
              BY <7>1, <7>2
          <6>3. QED
            BY <6>1, <6>2
        <5>2. /\ g[k].rows = Handled(p.rows, c, widths[c])
              /\ v[k].rows = Handled(q.rows, c, widths[c])
          BY <3>1, <3>2, <4>1, <5>1
        <5>3. QED
          BY <4>2, <5>2, GrownHandled
      <4>5. QED
        BY <4>3, <4>4
    <3>4. Frame(g[k].rows, types) /\ Frame(v[k].rows, types)
      BY <3>1, <3>2, EagerlyFrame
    <3>5. k \in 0..n
      BY <1>3
    <3>6. QED
      BY <3>3, <3>4, <3>5
  <2>3. 0..n \subseteq B
    <3> HIDE DEF B
    <3>1. QED
      BY <1>3, <2>1, <2>2, IntervalInduction
  <2>4. QED
    BY <1>3, <2>3
<1>7. QED
  BY <1>1, <1>2, <1>6

\* What came before a moment stays the last row at or before any time before it.
LEMMA GrownAsOf ==
  ASSUME NEW rows, NEW more, NEW t, Grown(rows, more, t), NEW column, NEW tolerance,
         NEW time \in Int, time < t, t \in Int
  PROVE  AsOf(more, column, time, tolerance) = AsOf(rows, column, time, tolerance)
<1> DEFINE Past(s) == {k \in DOMAIN s : s[k].time <= time}
<1>1. /\ Len(rows) \in Nat /\ Len(more) \in Nat /\ Len(rows) <= Len(more)
      /\ DOMAIN rows = 1..Len(rows) /\ DOMAIN more = 1..Len(more)
      /\ \A k \in 1..Len(rows) : k \in 1..Len(more) /\ more[k] = rows[k]
      /\ \A k \in 1..Len(more) : k > Len(rows) => more[k].time = t
  BY GrownFacts
<1>2. Past(more) = Past(rows)
  <2>1. \A k \in 1..Len(more) : more[k].time <= time => k \in 1..Len(rows)
    BY <1>1
  <2>2. \A k \in Past(more) : k \in Past(rows)
    BY <1>1, <2>1
  <2>3. \A k \in Past(rows) : k \in Past(more)
    BY <1>1
  <2>4. QED
    BY <2>2, <2>3
<1>3. Past(rows) \subseteq 1..Len(rows)
  BY <1>1
<1> DEFINE past == Past(rows)
<1>4. past \subseteq 1..Len(rows) /\ Past(rows) = past /\ Past(more) = past
  BY <1>2, <1>3
<1>5. \A s : AsOf(s, column, time, tolerance)
               = IF Past(s) = {} THEN Null
                 ELSE LET row == s[Max(Past(s))] IN
                      IF tolerance # Null /\ time - row.time > tolerance[1] THEN Null
                      ELSE row.cells[column]
  BY DEF AsOf
<1> HIDE DEF past, Past
<1>6. past # {} => more[Max(past)] = rows[Max(past)]
  <2> SUFFICES ASSUME past # {} PROVE more[Max(past)] = rows[Max(past)]
    OBVIOUS
  <2>1. IsFiniteSet(past) /\ past \subseteq Int
    BY <1>1, <1>4, PositionsFinite
  <2>2. Max(past) \in 1..Len(rows)
    BY <1>4, <2>1, MaxFacts
  <2>3. QED
    BY <1>1, <2>2
<1>7. QED
  BY <1>4, <1>5, <1>6

\* Bindings that read the same columns of frames that grew.
GrownBindings(sources, more, t) ==
  /\ IsFiniteSet(DOMAIN sources) /\ DOMAIN more = DOMAIN sources
  /\ \A i \in DOMAIN sources :
       /\ Grown(sources[i].frame, more[i].frame, t)
       /\ more[i].column = sources[i].column /\ more[i].tolerance = sources[i].tolerance

\* The moments of an alignment.
LOCAL Timeline(sources) == UNION {TimesOf(sources[i].frame) : i \in DOMAIN sources}

LEMMA GrownTimeline ==
  ASSUME NEW sources, NEW more, NEW t \in Int, GrownBindings(sources, more, t)
  PROVE  /\ IsFiniteSet(Timeline(more)) /\ Timeline(more) \subseteq Int
         /\ Timeline(sources) = Under(Timeline(more), t)
         /\ \A x \in Timeline(more) : x >= t => x = t
<1>1. ASSUME NEW i \in DOMAIN sources
      PROVE  LET F == sources[i].frame
                 G == more[i].frame
             IN  /\ IsSeq(G) /\ TimesOf(G) \subseteq Int
                 /\ \A x \in TimesOf(F) : x \in TimesOf(G) /\ x < t
                 /\ \A x \in TimesOf(G) : x = t \/ x \in TimesOf(F)
  <2> DEFINE F == sources[i].frame
             G == more[i].frame
  <2>1. Grown(F, G, t)
    BY DEF GrownBindings
  <2> HIDE DEF F, G
  <2>2. /\ IsSeq(G) /\ Len(F) \in Nat /\ Len(G) \in Nat /\ Len(F) <= Len(G)
        /\ DOMAIN F = 1..Len(F) /\ DOMAIN G = 1..Len(G)
        /\ \A k \in 1..Len(F) :
             k \in 1..Len(G) /\ G[k] = F[k] /\ F[k].time \in Int /\ F[k].time < t
        /\ \A k \in 1..Len(G) : k > Len(F) => G[k].time = t
    BY <2>1, GrownFacts
  <2>3. \A x \in TimesOf(F) : x \in TimesOf(G) /\ x < t /\ x \in Int
    BY <2>2 DEF TimesOf
  <2>4. ASSUME NEW x \in TimesOf(G) PROVE x = t \/ x \in TimesOf(F)
    <3>1. PICK k \in 1..Len(G) : x = G[k].time
      BY <2>2 DEF TimesOf
    <3>2. CASE k > Len(F)
      BY <2>2, <3>1, <3>2
    <3>3. CASE ~(k > Len(F))
      <4>1. k \in 1..Len(F) /\ G[k] = F[k]
        BY <2>2, <3>3
      <4>2. QED
        BY <2>2, <3>1, <4>1 DEF TimesOf
    <3>4. QED
      BY <3>2, <3>3
  <2>5. QED
    BY <2>2, <2>3, <2>4 DEF F, G
<1> DEFINE Of(i) == TimesOf(more[i].frame)
           all == {Of(i) : i \in DOMAIN more}
<1>2. DOMAIN more = DOMAIN sources /\ IsFiniteSet(DOMAIN more)
  BY DEF GrownBindings
<1>3. \A i \in DOMAIN more : IsFiniteSet(Of(i)) /\ Of(i) \subseteq Int
  BY <1>1, <1>2, TimesFinite DEF TimesOf
<1>4. Timeline(more) = UNION all
  BY DEF Timeline
<1>5. IsFiniteSet(UNION all) /\ UNION all \subseteq Int
  <2> DEFINE f == [i \in DOMAIN more |-> Of(i)]
  <2> HIDE DEF Of
  <2>1. f \in Surjection(DOMAIN more, all)
    BY DEF Surjection
  <2>2. IsFiniteSet(all)
    BY <1>2, <2>1, FS_Surjection
  <2>3. \A s \in all : IsFiniteSet(s) /\ s \subseteq Int
    BY <1>3
  <2> HIDE DEF all
  <2>4. QED
    BY <2>2, <2>3, FS_UNION
<1>6. \A x \in Timeline(more) : x = t \/ x \in Timeline(sources)
  BY <1>1, <1>2 DEF Timeline
<1>7. \A x \in Timeline(sources) : x \in Timeline(more) /\ x < t
  BY <1>1, <1>2 DEF Timeline
<1>8. Timeline(sources) = Under(Timeline(more), t)
  <2>1. \A x \in Timeline(more) : x < t => x \in Timeline(sources)
    BY <1>6
  <2>2. QED
    BY <1>7, <2>1 DEF Under
<1> HIDE DEF all, Of
<1>9. IsFiniteSet(Timeline(more)) /\ Timeline(more) \subseteq Int
  BY <1>4, <1>5
<1>10. \A x \in Timeline(more) : x >= t => x = t
  BY <1>6, <1>7, <1>9
<1>11. QED
  BY <1>8, <1>9, <1>10

\* Alignment is causal: the rows it made stay, and a moment adds a row at most.
LEMMA GrownAlign ==
  ASSUME NEW sources, NEW more, NEW t \in Int, GrownBindings(sources, more, t)
  PROVE  Grown(Align(sources), Align(more), t)
<1> DEFINE S == Timeline(sources)
           T == Timeline(more)
           f == InOrder(S)
           g == InOrder(T)
           Cell(b, time, i) == AsOf(b[i].frame, b[i].column, time, b[i].tolerance)
           Row(b, time) == [time |-> time, cells |-> [i \in DOMAIN b |-> Cell(b, time, i)]]
           made == Align(sources)
           later == Align(more)
<1>1. /\ IsFiniteSet(T) /\ T \subseteq Int /\ S = Under(T, t)
      /\ \A x \in T : x >= t => x = t
  BY GrownTimeline
<1>2. /\ made = [k \in DOMAIN f |-> Row(sources, f[k])]
      /\ later = [k \in DOMAIN g |-> Row(more, g[k])]
  BY DEF Align, Timeline
<1> HIDE DEF S, T, f, g, made, later
<1>3. /\ IsFiniteSet(S) /\ S \subseteq Int
      /\ Cardinality(S) \in Nat /\ Cardinality(T) \in Nat /\ Cardinality(S) <= Cardinality(T)
      /\ \A k \in 1..Cardinality(S) : g[k] = f[k]
      /\ \A k \in 1..Cardinality(T) : k > Cardinality(S) => g[k] >= t
  BY <1>1, InOrderPrefix DEF f, g
<1>4. /\ DOMAIN f = 1..Cardinality(S) /\ \A k \in 1..Cardinality(S) : f[k] \in S
      /\ DOMAIN g = 1..Cardinality(T) /\ \A k \in 1..Cardinality(T) : g[k] \in T
  BY <1>1, <1>3, InOrderFacts DEF f, g
<1>5. ASSUME NEW k \in 1..Cardinality(S)
      PROVE  later[k] = made[k] /\ made[k].time \in Int /\ made[k].time < t
  <2>1. f[k] \in Int /\ f[k] < t /\ g[k] = f[k] /\ k \in 1..Cardinality(T)
    BY <1>1, <1>3, <1>4 DEF Under
  <2>2. \A i \in DOMAIN sources : Cell(more, f[k], i) = Cell(sources, f[k], i)
    <3> SUFFICES ASSUME NEW i \in DOMAIN sources
                 PROVE  Cell(more, f[k], i) = Cell(sources, f[k], i)
      OBVIOUS
    <3>1. /\ Grown(sources[i].frame, more[i].frame, t)
          /\ more[i].column = sources[i].column /\ more[i].tolerance = sources[i].tolerance
      BY DEF GrownBindings
    <3>2. QED
      BY <2>1, <3>1, GrownAsOf
  <2>3. DOMAIN more = DOMAIN sources
    BY DEF GrownBindings
  <2> HIDE DEF Cell
  <2>4. Row(more, f[k]) = Row(sources, f[k])
    BY <2>2, <2>3
  <2>5. Row(sources, f[k]).time = f[k]
    OBVIOUS
  <2> HIDE DEF Row
  <2>6. QED
    BY <1>2, <1>4, <2>1, <2>4, <2>5
<1>6. ASSUME NEW k \in 1..Cardinality(T), k > Cardinality(S) PROVE later[k].time = t
  <2>1. g[k] = t
    BY <1>1, <1>3, <1>4, <1>6
  <2>2. later[k] = Row(more, g[k])
    BY <1>2, <1>4
  <2>3. QED
    BY <2>1, <2>2
<1> HIDE DEF Row
<1>7. IsSeq(made) /\ Len(made) = Cardinality(S)
  BY <1>2, <1>3, <1>4, SeqByDomain
<1>8. IsSeq(later) /\ Len(later) = Cardinality(T)
  BY <1>2, <1>3, <1>4, SeqByDomain
<1>9. QED
  BY <1>3, <1>5, <1>6, <1>7, <1>8 DEF Grown, Continues, made, later

-----------------------------------------------------------------------------
(* Functions that look back *)

\* A column that at these rows is what the other one is.
SameColumn(column, later, n) == \A k \in 1..n : later[k] = column[k]

LEMMA GrownOut ==
  ASSUME NEW rows, NEW more, NEW t, Grown(rows, more, t), NEW column, NEW later,
         SameColumn(column, later, Len(rows))
  PROVE  Grown(OutOf(rows, column), OutOf(more, later), t)
<1> DEFINE Row(time, cell) == [time |-> time, cells |-> [value |-> cell]]
           made == OutOf(rows, column)
           after == OutOf(more, later)
<1>1. /\ made = [k \in DOMAIN rows |-> Row(rows[k].time, column[k])]
      /\ after = [k \in DOMAIN more |-> Row(more[k].time, later[k])]
  BY DEF OutOf
<1>2. \A time, cell : Row(time, cell).time = time
  OBVIOUS
<1>3. /\ DOMAIN rows = 1..Len(rows) /\ DOMAIN more = 1..Len(more)
      /\ \A k \in 1..Len(rows) : k \in 1..Len(more) /\ more[k] = rows[k]
  BY GrownFacts
<1> HIDE DEF Row, made, after
<1>4. made = [k \in DOMAIN rows |-> made[k]] /\ after = [k \in DOMAIN more |-> after[k]]
  BY <1>1
<1>5. \A k \in 1..Len(rows) : after[k] = made[k] /\ made[k].time = rows[k].time
  BY <1>1, <1>2, <1>3 DEF SameColumn
<1>6. \A k \in 1..Len(more) : after[k].time = more[k].time
  BY <1>1, <1>2, <1>3
<1>7. Grown(made, after, t)
  BY <1>4, <1>5, <1>6, GrownRows
<1>8. QED
  BY <1>7 DEF made, after

LEMMA ColumnGrows ==
  ASSUME NEW rows, NEW more, NEW t, Grown(rows, more, t), NEW i
  PROVE  /\ Continues(Column(rows, i), Column(more, i))
         /\ Len(Column(rows, i)) = Len(rows) /\ Len(Column(more, i)) = Len(more)
<1> DEFINE c == Column(rows, i)
           l == Column(more, i)
<1>1. /\ Len(rows) \in Nat /\ Len(more) \in Nat /\ Len(rows) <= Len(more)
      /\ DOMAIN rows = 1..Len(rows) /\ DOMAIN more = 1..Len(more)
      /\ \A k \in 1..Len(rows) : k \in 1..Len(more) /\ more[k] = rows[k]
  BY GrownFacts
<1>2. c = [k \in 1..Len(rows) |-> rows[k].cells[i]] /\ l = [k \in 1..Len(more) |-> more[k].cells[i]]
  BY <1>1 DEF Column
<1> HIDE DEF c, l
<1>3. IsSeq(c) /\ Len(c) = Len(rows) /\ IsSeq(l) /\ Len(l) = Len(more)
  BY <1>1, <1>2, SeqByDomain
<1>4. \A k \in 1..Len(c) : l[k] = c[k]
  BY <1>1, <1>2, <1>3
<1>5. QED
  BY <1>1, <1>3, <1>4 DEF Continues, c, l

LEMMA ContinuesFacts ==
  ASSUME NEW c, NEW l, Continues(c, l)
  PROVE  /\ IsSeq(c) /\ IsSeq(l) /\ Len(c) \in Nat /\ Len(l) \in Nat /\ Len(c) <= Len(l)
         /\ DOMAIN c = 1..Len(c) /\ DOMAIN l = 1..Len(l)
         /\ \A k \in 1..Len(c) : k \in 1..Len(l) /\ l[k] = c[k]
<1>1. IsSeq(c) /\ IsSeq(l) /\ Len(c) <= Len(l)
  BY DEF Continues
<1>2. Len(c) \in Nat /\ Len(l) \in Nat /\ DOMAIN c = 1..Len(c) /\ DOMAIN l = 1..Len(l)
  BY <1>1, SeqFacts
<1>3. QED
  BY <1>1, <1>2 DEF Continues

\* A window holds what is at its last row and before.
LEMMA WindowStays ==
  ASSUME NEW c, NEW l, Continues(c, l), NEW k \in 1..Len(c), NEW periods \in Nat \ {0}
  PROVE  /\ Window(l, k, periods) = Window(c, k, periods)
         /\ Max({1, k - periods + 1}) \in 1..k
<1> DEFINE a == Max({1, k - periods + 1})
<1>1. /\ IsSeq(c) /\ IsSeq(l) /\ Len(c) \in Nat /\ Len(l) \in Nat /\ Len(c) <= Len(l)
      /\ \A j \in 1..Len(c) : l[j] = c[j]
  BY ContinuesFacts
<1>2. a \in 1..k
  <2> DEFINE T == {1, k - periods + 1}
  <2>1. T # {} /\ 1 \in T
        /\ T \subseteq Int /\ (\A x \in T : x <= k)
    BY <1>1
  <2>2. IsFiniteSet(T)
    <3>1. IsFiniteSet({}) /\ {1} = {} \union {1} /\ T = {1} \union {k - periods + 1}
      BY FS_EmptySet
    <3> HIDE DEF T
    <3>2. QED
      BY <3>1, FS_AddElement
  <2>3. a = Max(T)
    OBVIOUS
  <2> HIDE DEF T, a
  <2>4. Max(T) \in T /\ Max(T) >= 1
    BY <2>1, <2>2, MaxFacts
  <2>5. a \in Int /\ a >= 1 /\ a <= k
    BY <2>1, <2>3, <2>4
  <2>6. QED
    BY <1>1, <2>5
<1> HIDE DEF a
<1>3. SubSeq(l, a, k) = SubSeq(c, a, k)
  <2>1. c \in Seq(Range(c)) /\ l \in Seq(Range(l))
    BY <1>1 DEF IsSeq
  <2>2. a \in Int /\ k \in Int /\ 1 <= a /\ a <= k /\ k <= Len(c) /\ k <= Len(l)
    BY <1>1, <1>2
  <2>3. QED
    BY <1>1, <2>1, <2>2
<1>4. QED
  BY <1>2, <1>3 DEF Window, a

\* Functions of one column that say of a row what the rows up to it are.
LEMMA ReturnsLookBack ==
  ASSUME NEW c, NEW l, Continues(c, l), NEW periods \in Nat \ {0}
  PROVE  /\ SameColumn(PctChange(c, periods), PctChange(l, periods), Len(c))
         /\ SameColumn(LogReturn(c, periods), LogReturn(l, periods), Len(c))
<1>1. /\ Len(c) \in Nat /\ Len(l) \in Nat /\ Len(c) <= Len(l)
      /\ DOMAIN c = 1..Len(c) /\ DOMAIN l = 1..Len(l)
      /\ \A k \in 1..Len(c) : k \in 1..Len(l) /\ l[k] = c[k]
  BY ContinuesFacts
<1> DEFINE x == Shift(c, periods)
           y == Shift(l, periods)
<1>2. \A k \in 1..Len(c) : y[k] = x[k]
  <2> SUFFICES ASSUME NEW k \in 1..Len(c) PROVE y[k] = x[k]
    OBVIOUS
  <2>1. k - periods \in DOMAIN c <=> k - periods \in DOMAIN l
    BY <1>1
  <2>2. k - periods \in DOMAIN c => l[k - periods] = c[k - periods]
    BY <1>1
  <2>3. QED
    BY <1>1, <2>1, <2>2 DEF Shift
<1> HIDE DEF x, y
<1>3. SameColumn(PctChange(c, periods), PctChange(l, periods), Len(c))
  BY <1>1, <1>2 DEF PctChange, SameColumn, x, y
<1>4. SameColumn(LogReturn(c, periods), LogReturn(l, periods), Len(c))
  BY <1>1, <1>2 DEF LogReturn, SameColumn, x, y
<1>5. QED
  BY <1>3, <1>4

\* The configurations of functions of windows.
WindowArgs(args) == args.periods \in Nat \ {0}

LEMMA RollingLooksBack ==
  ASSUME NEW c, NEW l, Continues(c, l), NEW args, WindowArgs(args)
  PROVE  /\ SameColumn(RollingSum(c, args), RollingSum(l, args), Len(c))
         /\ SameColumn(RollingMean(c, args), RollingMean(l, args), Len(c))
         /\ SameColumn(RollingMax(c, args), RollingMax(l, args), Len(c))
         /\ SameColumn(RollingMin(c, args), RollingMin(l, args), Len(c))
         /\ SameColumn(RollingMedian(c, args), RollingMedian(l, args), Len(c))
         /\ SameColumn(RollingQuantile(c, args), RollingQuantile(l, args), Len(c))
         /\ SameColumn(RollingVar(c, args), RollingVar(l, args), Len(c))
         /\ SameColumn(RollingPercentileRank(c, args), RollingPercentileRank(l, args), Len(c))
<1>1. /\ Len(c) \in Nat /\ Len(l) \in Nat /\ Len(c) <= Len(l)
      /\ DOMAIN c = 1..Len(c) /\ DOMAIN l = 1..Len(l)
      /\ \A k \in 1..Len(c) : k \in 1..Len(l) /\ l[k] = c[k]
  BY ContinuesFacts
<1>2. \A k \in 1..Len(c) : Window(l, k, args.periods) = Window(c, k, args.periods)
  BY WindowStays, Zenon DEF WindowArgs
<1>3. SameColumn(RollingSum(c, args), RollingSum(l, args), Len(c))
  BY <1>1, <1>2 DEF RollingSum, Rolled, SameColumn
<1>4. SameColumn(RollingMean(c, args), RollingMean(l, args), Len(c))
  BY <1>1, <1>2 DEF RollingMean, Rolled, SameColumn
<1>5. SameColumn(RollingMax(c, args), RollingMax(l, args), Len(c))
  BY <1>1, <1>2 DEF RollingMax, Rolled, SameColumn
<1>6. SameColumn(RollingMin(c, args), RollingMin(l, args), Len(c))
  BY <1>1, <1>2 DEF RollingMin, Rolled, SameColumn
<1>7. SameColumn(RollingMedian(c, args), RollingMedian(l, args), Len(c))
  BY <1>1, <1>2 DEF RollingMedian, Rolled, SameColumn
<1>8. SameColumn(RollingQuantile(c, args), RollingQuantile(l, args), Len(c))
  BY <1>1, <1>2 DEF RollingQuantile, Rolled, SameColumn
<1>9. SameColumn(RollingVar(c, args), RollingVar(l, args), Len(c))
  BY <1>1, <1>2 DEF RollingVar, Rolled, SameColumn
<1>10. SameColumn(RollingPercentileRank(c, args), RollingPercentileRank(l, args), Len(c))
  <2> DEFINE RankIn(window, cell) ==
               LET v == Val(cell)
                   lower == {Val(window[j]) : j \in {i \in DOMAIN window : Less(Val(window[i]), v)}}
                   below == Cardinality({j \in DOMAIN window : Less(Val(window[j]), v)})
                   ties == Cardinality({j \in DOMAIN window : Val(window[j]) = v})
                   rank == CASE args.method = "average" -> Rational(2 * below + ties + 1, 2)
                             [] args.method = "min" -> Count(below + 1)
                             [] args.method = "max" -> Count(below + ties)
                             [] args.method = "dense" -> Count(Cardinality(lower) + 1)
               IN  IF cell = Null \/ Len(window) < args.min_samples THEN Null
                   ELSE IF Len(window) <= 1 THEN Whole(0)
                   ELSE <<Over(Minus(rank, One), Count(Len(window) - 1))>>
             x == RollingPercentileRank(c, args)
             y == RollingPercentileRank(l, args)
  <2>1. /\ x = [k \in DOMAIN c |-> RankIn(Window(c, k, args.periods), c[k])]
        /\ y = [k \in DOMAIN l |-> RankIn(Window(l, k, args.periods), l[k])]
    BY DEF RollingPercentileRank
  <2> HIDE DEF RankIn, x, y
  <2>2. SameColumn(x, y, Len(c))
    BY <1>1, <1>2, <2>1 DEF SameColumn
  <2>3. QED
    BY <2>2 DEF x, y
<1>11. QED
  BY <1>3, <1>4, <1>5, <1>6, <1>7, <1>8, <1>9, <1>10

LEMMA DeviationsLookBack ==
  ASSUME NEW c, NEW l, Continues(c, l), NEW args, WindowArgs(args)
  PROVE  /\ SameColumn(RollingStd(c, args), RollingStd(l, args), Len(c))
         /\ SameColumn(RollingZScore(c, args), RollingZScore(l, args), Len(c))
<1>1. /\ Len(c) \in Nat /\ Len(l) \in Nat /\ Len(c) <= Len(l)
      /\ DOMAIN c = 1..Len(c) /\ DOMAIN l = 1..Len(l)
      /\ \A k \in 1..Len(c) : k \in 1..Len(l) /\ l[k] = c[k]
  BY ContinuesFacts
<1> DEFINE once == [args EXCEPT !.ddof = 1]
           x == RollingMean(c, args)
           y == RollingMean(l, args)
           u == RollingStd(c, args)
           v == RollingStd(l, args)
<1>2. WindowArgs(once)
  <2>1. once.periods = args.periods
    OBVIOUS
  <2> HIDE DEF once
  <2>2. QED
    BY <2>1 DEF WindowArgs
<1>3. u = RollingVar(c, once) /\ v = RollingVar(l, once)
  BY DEF RollingStd
<1> HIDE DEF once, x, y, u, v
<1>4. SameColumn(u, v, Len(c))
  <2>1. SameColumn(RollingVar(c, once), RollingVar(l, once), Len(c))
    BY <1>2, RollingLooksBack
  <2>2. QED
    BY <1>3, <2>1
<1>5. SameColumn(x, y, Len(c))
  BY RollingLooksBack DEF x, y
<1>6. SameColumn(RollingZScore(c, args), RollingZScore(l, args), Len(c))
  BY <1>1, <1>4, <1>5 DEF RollingZScore, SameColumn, x, y, u, v
<1>7. QED
  BY <1>4, <1>6 DEF u, v

LEMMA CovarianceLooksBack ==
  ASSUME NEW a, NEW c, Continues(a, c), NEW b, NEW e, Continues(b, e), Len(a) = Len(b),
         NEW args, WindowArgs(args)
  PROVE  SameColumn(RollingCov(a, b, args), RollingCov(c, e, args), Len(a))
<1>1. /\ Len(a) \in Nat /\ DOMAIN a = 1..Len(a) /\ DOMAIN c = 1..Len(c)
      /\ \A k \in 1..Len(a) : k \in 1..Len(c)
  BY ContinuesFacts
<1>2. \A k \in 1..Len(a) : Window(c, k, args.periods) = Window(a, k, args.periods)
  BY WindowStays, Zenon DEF WindowArgs
<1>3. \A k \in 1..Len(a) : Window(e, k, args.periods) = Window(b, k, args.periods)
  <2>1. \A k \in 1..Len(b) : Window(e, k, args.periods) = Window(b, k, args.periods)
    BY WindowStays, Zenon DEF WindowArgs
  <2>2. QED
    BY <2>1
<1> DEFINE CovOf(x, y, rows) ==
             IF \/ Cardinality(rows) < args.min_samples
                \/ Len(x) < Cardinality(rows) \/ Len(y) < Cardinality(rows)
               THEN Null ELSE Covariance(x, y, args.ddof)
           RowsOf(k) == Max({1, k - args.periods + 1})..k
           made == RollingCov(a, b, args)
           later == RollingCov(c, e, args)
<1>4. /\ made = [k \in DOMAIN a |-> CovOf(Window(a, k, args.periods),
                                          Window(b, k, args.periods), RowsOf(k))]
      /\ later = [k \in DOMAIN c |-> CovOf(Window(c, k, args.periods),
                                           Window(e, k, args.periods), RowsOf(k))]
  BY DEF RollingCov
<1> HIDE DEF CovOf, RowsOf, made, later
<1>5. SameColumn(made, later, Len(a))
  BY <1>1, <1>2, <1>3, <1>4 DEF SameColumn
<1>6. QED
  BY <1>5 DEF made, later

LEMMA MultiplesGrow ==
  ASSUME NEW n \in Nat \ {0}, NEW p \in Int
  PROVE  (p >= n => n * p >= n * n) /\ (p <= -1 => n * p <= -n)
<1>1. p >= n => n * (p - n) >= 0
  <2>1. \A x \in Nat : n * x >= 0
    OBVIOUS
  <2>2. QED
    BY <2>1
<1>2. n * (p - n) = n * p - n * n
  OBVIOUS
<1>3. p <= -1 => n * (-1 - p) >= 0
  <2>1. \A x \in Nat : n * x >= 0
    OBVIOUS
  <2>2. QED
    BY <2>1
<1>4. n * (-1 - p) = -n - n * p
  OBVIOUS
<1>5. QED
  BY <1>1, <1>2, <1>3, <1>4

LEMMA MatrixLooksBack ==
  ASSUME NEW n \in Nat \ {0}, NEW a, NEW b, a = [i \in 1..n |-> a[i]], b = [i \in 1..n |-> b[i]],
         NEW m, \A i \in 1..n : Continues(a[i], b[i]) /\ Len(a[i]) = m,
         NEW args, WindowArgs(args)
  PROVE  SameColumn(RollingCovMatrix(a, args), RollingCovMatrix(b, args), m)
<1> DEFINE Entry(x, i, j) ==
             IF i = j THEN RollingVar(x[i], args)
             ELSE RollingCov(x[Min({i, j})], x[Max({i, j})], args)
           Cell(x, k) ==
             [e \in 1..(n * n) |-> Entry(x, (e - 1) \div n + 1, ((e - 1) % n) + 1)[k]]
           made == RollingCovMatrix(a, args)
           later == RollingCovMatrix(b, args)
<1>1. Len(a) = n /\ Len(b) = n
  BY SeqByDomain
<1>2. made = [k \in DOMAIN a[1] |-> Cell(a, k)] /\ later = [k \in DOMAIN b[1] |-> Cell(b, k)]
  BY <1>1 DEF RollingCovMatrix
<1>3. ASSUME NEW i \in 1..n, NEW j \in 1..n, NEW k \in 1..m
      PROVE  Entry(b, i, j)[k] = Entry(a, i, j)[k]
  <2>1. CASE i = j
    <3>1. Continues(a[i], b[i]) /\ k \in 1..Len(a[i])
      OBVIOUS
    <3>2. SameColumn(RollingVar(a[i], args), RollingVar(b[i], args), Len(a[i]))
      BY <3>1, RollingLooksBack
    <3>3. QED
      BY <2>1, <3>1, <3>2 DEF SameColumn
  <2>2. CASE i # j
    <3> DEFINE p == Min({i, j})
               q == Max({i, j})
    <3>1. p \in 1..n /\ q \in 1..n
      <4> DEFINE T == {i, j}
      <4>1. T \subseteq 1..n /\ T # {}
        OBVIOUS
      <4> HIDE DEF T
      <4>2. IsFiniteSet(T) /\ T \subseteq Int
        BY <4>1, PositionsFinite
      <4>3. Min(T) \in T /\ Max(T) \in T
        BY <4>1, <4>2, MinFacts, MaxFacts
      <4>4. QED
        BY <4>1, <4>3 DEF T
    <3> HIDE DEF p, q
    <3>2. Continues(a[p], b[p]) /\ Continues(a[q], b[q]) /\ Len(a[p]) = m /\ Len(a[q]) = m
      BY <3>1
    <3>3. SameColumn(RollingCov(a[p], a[q], args), RollingCov(b[p], b[q], args), m)
      <4>1. ASSUME NEW x, NEW y, NEW u, NEW v, Continues(x, y), Continues(u, v),
                   Len(x) = m, Len(u) = m
            PROVE  SameColumn(RollingCov(x, u, args), RollingCov(y, v, args), m)
        <5>1. SameColumn(RollingCov(x, u, args), RollingCov(y, v, args), Len(x))
          BY <4>1, CovarianceLooksBack
        <5>2. QED
          BY <4>1, <5>1
      <4>2. QED
        BY <3>2, <4>1
    <3>4. /\ Entry(a, i, j) = RollingCov(a[p], a[q], args)
          /\ Entry(b, i, j) = RollingCov(b[p], b[q], args)
      BY <2>2 DEF p, q
    <3>5. QED
      BY <3>3, <3>4 DEF SameColumn
  <2>3. QED
    BY <2>1, <2>2
<1>4. ASSUME NEW k \in 1..m PROVE Cell(b, k) = Cell(a, k)
  <2>1. ASSUME NEW e \in 1..(n * n)
        PROVE  (e - 1) \div n + 1 \in 1..n /\ ((e - 1) % n) + 1 \in 1..n
    <3>1. e \in Int /\ 1 <= e /\ e <= n * n
      OBVIOUS
    <3> DEFINE p == (e - 1) \div n
               q == (e - 1) % n
    <3>2. e - 1 = n * p + q /\ q \in 0..(n - 1) /\ p \in Int
      BY <3>1
    <3> HIDE DEF p, q
    <3>3. p >= 0 /\ p <= n - 1
      <4>1. n * p <= n * n - 1 /\ n * p >= 1 - n
        BY <3>1, <3>2
      <4>2. p \in Int /\ ~(p >= n) /\ ~(p <= -1)
        BY <3>2, <4>1, MultiplesGrow
      <4>3. QED
        BY <4>2
    <3>4. p + 1 \in 1..n /\ q + 1 \in 1..n
      BY <3>2, <3>3
    <3>5. QED
      BY <3>4 DEF p, q
  <2> DEFINE Row(e) == (e - 1) \div n + 1
             At(e) == ((e - 1) % n) + 1
  <2>2. /\ Cell(a, k) = [e \in 1..(n * n) |-> Entry(a, Row(e), At(e))[k]]
        /\ Cell(b, k) = [e \in 1..(n * n) |-> Entry(b, Row(e), At(e))[k]]
    OBVIOUS
  <2>3. \A e \in 1..(n * n) : Row(e) \in 1..n /\ At(e) \in 1..n
    BY <2>1
  <2>4. \A i, j \in 1..n : Entry(b, i, j)[k] = Entry(a, i, j)[k]
    BY <1>3
  <2> HIDE DEF Entry, Row, At, Cell
  <2>5. \A e \in 1..(n * n) : Entry(b, Row(e), At(e))[k] = Entry(a, Row(e), At(e))[k]
    BY <2>3, <2>4
  <2>6. QED
    BY <2>2, <2>5
<1> HIDE DEF Cell, made, later
<1>5. /\ DOMAIN a[1] = 1..m /\ \A k \in 1..m : k \in DOMAIN b[1]
  <2>1. Continues(a[1], b[1]) /\ Len(a[1]) = m
    OBVIOUS
  <2>2. QED
    BY <2>1, ContinuesFacts
<1>6. SameColumn(made, later, m)
  BY <1>2, <1>4, <1>5 DEF SameColumn
<1>7. QED
  BY <1>6 DEF made, later

\* What the moments before a row and its cell make of the moments at the row.
MomentOf(before, cell, args) ==
  LET decay == Minus(One, args.alpha)
      new == IF args.adjust THEN One ELSE args.alpha
      Square(q) == Times(q, q)
      Start(q) == [mean |-> q, cov |-> Zero, old |-> One, sum |-> One, squares |-> One,
                   seen |-> 1]
      Observing(m, q) ==
        LET old == Times(m.old, decay)
            weight == Plus(old, new)
            mean == Over(Plus(Times(old, m.mean), Times(new, q)), weight)
            cov == Over(Plus(Times(old, Plus(m.cov, Square(Minus(m.mean, mean)))),
                             Times(new, Square(Minus(q, mean)))), weight)
            scale == IF args.adjust THEN One ELSE weight
        IN  [mean |-> mean, cov |-> cov, old |-> Over(weight, scale),
             sum |-> Over(Plus(Times(m.sum, decay), new), scale),
             squares |-> Over(Plus(Times(m.squares, Square(decay)), Square(new)), Square(scale)),
             seen |-> m.seen + 1]
  IN  CASE before = Null -> IF cell = Null THEN Null ELSE <<Start(Val(cell))>>
        [] before # Null /\ cell = Null ->
             <<[Val(before) EXCEPT !.old = Times(@, decay), !.sum = Times(@, decay),
                                   !.squares = Times(@, Square(decay))]>>
        [] OTHER -> <<Observing(Val(before), Val(cell))>>
Moments(f, column, args) ==
  f = [k \in DOMAIN column |->
         MomentOf(IF k = 1 THEN Null ELSE f[k - 1], column[k], args)]

LEMMA MomentsExist ==
  ASSUME NEW column, NEW n \in Nat, DOMAIN column = 1..n, NEW args
  PROVE  \E f : Moments(f, column, args)
<1> DEFINE Step(x, k) == MomentOf(IF k = 1 THEN Null ELSE x, column[k], args)
           Steps(f, m) == f = [k \in 1..m |-> Step(f[k - 1], k)]
           S == {m \in Nat : \E f : Steps(f, m)}
<1>1. \A f : Moments(f, column, args) <=> Steps(f, n)
  <2>1. \A f, k : MomentOf(IF k = 1 THEN Null ELSE f[k - 1], column[k], args) = Step(f[k - 1], k)
    OBVIOUS
  <2> HIDE DEF Step
  <2>2. QED
    BY <2>1 DEF Moments
<1>2. \A x, y : Step(x, 1) = Step(y, 1)
  OBVIOUS
<1> HIDE DEF Step
<1>3. 0 \in S
  <2> DEFINE f == [k \in 1..0 |-> Null]
  <2>1. f = [k \in 1..0 |-> Step(f[k - 1], k)]
    OBVIOUS
  <2> HIDE DEF f
  <2>2. QED
    BY <2>1
<1>4. ASSUME NEW m \in Nat, m \in S PROVE m + 1 \in S
  <2>1. PICK f : f = [k \in 1..m |-> Step(f[k - 1], k)]
    BY <1>4
  <2> DEFINE g == [k \in 1..(m + 1) |-> IF k = m + 1 THEN Step(f[m], m + 1) ELSE f[k]]
  <2>2. ASSUME NEW k \in 1..(m + 1) PROVE g[k] = Step(g[k - 1], k)
    <3>1. \A j \in 1..m : g[j] = f[j]
      OBVIOUS
    <3>2. CASE k = m + 1
      <4>1. g[k] = Step(f[m], k)
        BY <3>2
      <4> HIDE DEF g
      <4>2. CASE m = 0
        BY <1>2, <3>2, <4>1, <4>2
      <4>3. CASE m # 0
        BY <3>1, <3>2, <4>1, <4>3
      <4>4. QED
        BY <4>2, <4>3
    <3>3. CASE k # m + 1
      <4>1. k \in 1..m /\ g[k] = f[k]
        BY <3>1, <3>3
      <4> HIDE DEF g
      <4>2. f[k] = Step(f[k - 1], k)
        BY <2>1, <4>1
      <4>3. CASE k = 1
        BY <1>2, <4>1, <4>2, <4>3
      <4>4. CASE k # 1
        <5>1. k - 1 \in 1..m
          BY <4>1, <4>4
        <5>2. QED
          BY <3>1, <4>1, <4>2, <5>1
      <4>5. QED
        BY <4>3, <4>4
    <3>4. QED
      BY <3>2, <3>3
  <2>3. g = [k \in 1..(m + 1) |-> Step(g[k - 1], k)]
    <3>1. g = [k \in 1..(m + 1) |-> g[k]]
      OBVIOUS
    <3> HIDE DEF g
    <3>2. QED
      BY <2>2, <3>1
  <2> HIDE DEF g
  <2>4. QED
    BY <2>3
<1>5. n \in S
  <2> HIDE DEF S
  <2>1. QED
    BY <1>3, <1>4, SetInduction
<1>6. QED
  BY <1>1, <1>5

LEMMA MomentsFacts ==
  ASSUME NEW column, NEW n \in Nat, DOMAIN column = 1..n, NEW args
  PROVE  \A k \in 1..n :
           EwmMoments(column, args)[k]
             = MomentOf(IF k = 1 THEN Null ELSE EwmMoments(column, args)[k - 1], column[k], args)
<1> DEFINE f == CHOOSE g : Moments(g, column, args)
<1>1. EwmMoments(column, args) = f
  BY DEF EwmMoments, Moments, MomentOf
<1>2. Moments(f, column, args)
  BY MomentsExist
<1> HIDE DEF f
<1>3. f = [k \in 1..n |-> MomentOf(IF k = 1 THEN Null ELSE f[k - 1], column[k], args)]
  BY <1>2 DEF Moments
<1>4. \A k \in 1..n : f[k] = MomentOf(IF k = 1 THEN Null ELSE f[k - 1], column[k], args)
  BY <1>3, Zenon
<1>5. QED
  BY <1>1, <1>4

LEMMA EwmLooksBack ==
  ASSUME NEW c, NEW l, Continues(c, l), NEW args
  PROVE  /\ SameColumn(EwmMean(c, args), EwmMean(l, args), Len(c))
         /\ SameColumn(EwmStd(c, args), EwmStd(l, args), Len(c))
<1> DEFINE n == Len(c)
           x == EwmMoments(c, args)
           y == EwmMoments(l, args)
           S == {k \in 0..n : k # 0 => y[k] = x[k]}
<1>1. /\ n \in Nat /\ Len(l) \in Nat /\ n <= Len(l) /\ DOMAIN c = 1..n /\ DOMAIN l = 1..Len(l)
      /\ \A k \in 1..n : k \in 1..Len(l) /\ l[k] = c[k]
  BY ContinuesFacts
<1>2. \A k \in 1..n : x[k] = MomentOf(IF k = 1 THEN Null ELSE x[k - 1], c[k], args)
  BY <1>1, MomentsFacts
<1>3. \A k \in 1..Len(l) : y[k] = MomentOf(IF k = 1 THEN Null ELSE y[k - 1], l[k], args)
  BY <1>1, MomentsFacts
<1> HIDE DEF n, x, y
<1>4. 0 \in S
  BY <1>1
<1>5. ASSUME NEW k \in 1..n, k - 1 \in S PROVE k \in S
  <2>1. k = 1 \/ y[k - 1] = x[k - 1]
    BY <1>5
  <2>2. l[k] = c[k] /\ k \in 1..Len(l)
    BY <1>1
  <2>3. y[k] = x[k]
    BY <1>2, <1>3, <2>1, <2>2
  <2>4. QED
    BY <1>1, <2>3
<1>6. 0..n \subseteq S
  <2> HIDE DEF S
  <2>1. QED
    BY <1>1, <1>4, <1>5, IntervalInduction
<1>7. \A k \in 1..n : y[k] = x[k]
  BY <1>1, <1>6
<1>8. SameColumn(EwmMean(c, args), EwmMean(l, args), n)
  BY <1>1, <1>7 DEF EwmMean, SameColumn, x, y
<1>9. SameColumn(EwmStd(c, args), EwmStd(l, args), n)
  <2> DEFINE StdOf(m, square) ==
               IF m.seen < Max({args.min_samples, 2}) \/ ~Less(m.squares, square) THEN Null
               ELSE <<Over(Times(m.cov, square), Minus(square, m.squares))>>
             Std(m) == StdOf(m, Times(m.sum, m.sum))
             u == EwmStd(c, args)
             v == EwmStd(l, args)
  <2>1. /\ u = [k \in DOMAIN c |-> IF c[k] = Null THEN Null ELSE Std(Val(x[k]))]
        /\ v = [k \in DOMAIN l |-> IF l[k] = Null THEN Null ELSE Std(Val(y[k]))]
    BY DEF EwmStd, x, y
  <2> HIDE DEF StdOf, Std, u, v
  <2>2. SameColumn(u, v, n)
    BY <1>1, <1>7, <2>1 DEF SameColumn
  <2>3. QED
    BY <2>2 DEF u, v
<1>10. QED
  BY <1>8, <1>9 DEF n

LEMMA ColumnsLookBack ==
  ASSUME NEW rows, NEW more, NEW t, Grown(rows, more, t), NEW op \in Columnar, NEW args,
         op \notin Ewm \union {"backtest"} => WindowArgs(args)
  PROVE  SameColumn(ColumnOf(op, args, rows), ColumnOf(op, args, more), Len(rows))
<1> DEFINE c == Column(rows, "value")
           l == Column(more, "value")
<1>1. Continues(c, l) /\ Len(c) = Len(rows)
  BY ColumnGrows
<1>3. CASE op \in Returns
  <2>1. args.periods \in Nat \ {0}
    BY <1>3 DEF WindowArgs, Returns, Ewm
  <2> HIDE DEF c, l
  <2>2. /\ SameColumn(PctChange(c, args.periods), PctChange(l, args.periods), Len(rows))
        /\ SameColumn(LogReturn(c, args.periods), LogReturn(l, args.periods), Len(rows))
    BY <1>1, <2>1, ReturnsLookBack
  <2>3. QED
    BY <1>3, <2>2 DEF Returns, ColumnOf, c, l
<1>4. CASE op \in Rolling
  <2>1. WindowArgs(args)
    BY <1>4 DEF Rolling, Ewm
  <2> HIDE DEF c, l
  <2>2. SameColumn(RollingSum(c, args), RollingSum(l, args), Len(rows))
    BY <1>1, <2>1, RollingLooksBack, DeviationsLookBack
  <2>3. SameColumn(RollingMean(c, args), RollingMean(l, args), Len(rows))
    BY <1>1, <2>1, RollingLooksBack, DeviationsLookBack
  <2>4. SameColumn(RollingMax(c, args), RollingMax(l, args), Len(rows))
    BY <1>1, <2>1, RollingLooksBack, DeviationsLookBack
  <2>5. SameColumn(RollingMin(c, args), RollingMin(l, args), Len(rows))
    BY <1>1, <2>1, RollingLooksBack, DeviationsLookBack
  <2>6. SameColumn(RollingMedian(c, args), RollingMedian(l, args), Len(rows))
    BY <1>1, <2>1, RollingLooksBack, DeviationsLookBack
  <2>7. SameColumn(RollingQuantile(c, args), RollingQuantile(l, args), Len(rows))
    BY <1>1, <2>1, RollingLooksBack, DeviationsLookBack
  <2>8. SameColumn(RollingVar(c, args), RollingVar(l, args), Len(rows))
    BY <1>1, <2>1, RollingLooksBack, DeviationsLookBack
  <2>9. SameColumn(RollingStd(c, args), RollingStd(l, args), Len(rows))
    BY <1>1, <2>1, RollingLooksBack, DeviationsLookBack
  <2>10. SameColumn(RollingZScore(c, args), RollingZScore(l, args), Len(rows))
    BY <1>1, <2>1, RollingLooksBack, DeviationsLookBack
  <2>11. SameColumn(RollingPercentileRank(c, args), RollingPercentileRank(l, args), Len(rows))
    BY <1>1, <2>1, RollingLooksBack, DeviationsLookBack
  <2>12. CASE op = "rolling_sum"
    BY <2>2, <2>12 DEF ColumnOf, c, l
  <2>13. CASE op = "rolling_mean"
    BY <2>3, <2>13 DEF ColumnOf, c, l
  <2>14. CASE op = "rolling_max"
    BY <2>4, <2>14 DEF ColumnOf, c, l
  <2>15. CASE op = "rolling_min"
    BY <2>5, <2>15 DEF ColumnOf, c, l
  <2>16. CASE op = "rolling_median"
    BY <2>6, <2>16 DEF ColumnOf, c, l
  <2>17. CASE op = "rolling_quantile"
    BY <2>7, <2>17 DEF ColumnOf, c, l
  <2>18. CASE op = "rolling_var"
    BY <2>8, <2>18 DEF ColumnOf, c, l
  <2>19. CASE op = "rolling_std"
    BY <2>9, <2>19 DEF ColumnOf, c, l
  <2>20. CASE op = "rolling_z_score"
    BY <2>10, <2>20 DEF ColumnOf, c, l
  <2>21. CASE op = "rolling_percentile_rank"
    BY <2>11, <2>21 DEF ColumnOf, c, l
  <2>22. QED
    BY <1>4, <2>12, <2>13, <2>14, <2>15, <2>16, <2>17, <2>18, <2>19, <2>20, <2>21 DEF Rolling
<1>5. CASE op \in Ewm
  <2> HIDE DEF c, l
  <2>1. /\ SameColumn(EwmMean(c, args), EwmMean(l, args), Len(rows))
        /\ SameColumn(EwmStd(c, args), EwmStd(l, args), Len(rows))
    BY <1>1, EwmLooksBack
  <2>2. QED
    BY <1>5, <2>1 DEF Ewm, ColumnOf, c, l
<1>6. CASE op = "rolling_cov"
  <2> DEFINE a == Column(rows, "left")
             b == Column(rows, "right")
             e == Column(more, "left")
             f == Column(more, "right")
  <2>1. WindowArgs(args)
    BY <1>6 DEF Ewm
  <2>2. Continues(a, e) /\ Continues(b, f) /\ Len(a) = Len(rows) /\ Len(b) = Len(rows)
    BY ColumnGrows
  <2> HIDE DEF a, b, e, f
  <2>3. SameColumn(RollingCov(a, b, args), RollingCov(e, f, args), Len(a))
    BY <2>1, <2>2, CovarianceLooksBack
  <2>4. QED
    BY <1>6, <2>2, <2>3 DEF ColumnOf, a, b, e, f
<1>7. CASE op = "backtest"
  <2> DEFINE a == Column(rows, "signal")
             b == Column(more, "signal")
  <2>1. Continues(a, b) /\ Len(a) = Len(rows)
    BY ColumnGrows
  <2>2. ColumnOf(op, args, rows) = a /\ ColumnOf(op, args, more) = b
    BY <1>7 DEF ColumnOf
  <2> HIDE DEF a, b
  <2>3. QED
    BY <2>1, <2>2 DEF Continues, SameColumn
<1>8. QED
  BY <1>3, <1>4, <1>5, <1>6, <1>7 DEF Columnar

\* Where a shift goes back, the same is found of a column that goes on.
LEMMA ShiftLooksBack ==
  ASSUME NEW c, NEW l, Continues(c, l), NEW op \in {"lag", "delta"}, NEW periods \in Nat \ {0},
         NEW width, NEW k \in 1..Len(c)
  PROVE  EachShift(op, periods, l, k, width) = EachShift(op, periods, c, k, width)
<1>1. /\ Len(c) \in Nat /\ Len(l) \in Nat /\ Len(c) <= Len(l)
      /\ DOMAIN c = 1..Len(c) /\ DOMAIN l = 1..Len(l)
      /\ \A j \in 1..Len(c) : j \in 1..Len(l) /\ l[j] = c[j]
  BY ContinuesFacts
<1>2. k - periods \in DOMAIN c <=> k - periods \in DOMAIN l
  BY <1>1
<1>3. Earlier(l, k - periods) = Earlier(c, k - periods)
  BY <1>1, <1>2 DEF Earlier
<1>4. LagOf(l, k - periods, width) = LagOf(c, k - periods, width) /\ l[k] = c[k]
  BY <1>1, <1>3 DEF LagOf
<1>5. CASE op = "lag"
  BY <1>4, <1>5 DEF EachShift
<1>6. CASE op = "delta"
  BY <1>4, <1>6 DEF EachShift
<1>7. QED
  BY <1>5, <1>6

\* A function that makes something of each row by itself.
LEMMA RowwiseGrows ==
  ASSUME NEW rows, NEW more, NEW t, Grown(rows, more, t), NEW made, NEW later,
         NEW x, NEW y, made = OutOf(rows, x), later = OutOf(more, y),
         \A k \in 1..Len(rows) : more[k] = rows[k] => y[k] = x[k]
  PROVE  Grown(made, later, t)
<1>1. \A k \in 1..Len(rows) : more[k] = rows[k]
  BY GrownFacts
<1>2. SameColumn(x, y, Len(rows))
  BY <1>1 DEF SameColumn
<1>3. QED
  BY <1>2, GrownOut

LEMMA NothingGrows ==
  ASSUME NEW t
  PROVE  Grown(<<>>, <<>>, t)
<1>1. Len(<<>>) = 0
  OBVIOUS
<1>2. 1..Len(<<>>) = {}
  BY <1>1
<1>3. IsSeq(<<>>)
  BY NoFrame DEF Frame
<1>4. QED
  BY <1>1, <1>2, <1>3 DEF Grown, Continues

\* What is not a look-ahead or a metric makes of rows that grew rows that grew.
LEMMA AppliedGrows ==
  ASSUME NEW op \in Operations \ (Metrics \union ErrorMetrics \union {"source", "lead"}),
         NEW args, NEW bound, Sized(bound), ValidConfig(op, args), Resolvable(op, args, bound),
         NEW rows, NEW more, NEW t, Grown(rows, more, t),
         Frame(rows, Function(op, args, bound).in.columns),
         Frame(more, Function(op, args, bound).in.columns)
  PROVE  LET fn == Function(op, args, bound)
         IN  Grown(Apply(fn, rows), Apply(fn, more), t)
<1> DEFINE fn == Function(op, args, bound)
           in == InputColumns(op, args, bound)
           n == Len(rows)
<1> SUFFICES Grown(Apply(fn, rows), Apply(fn, more), t)
  OBVIOUS
<1>1. /\ fn.op = op /\ fn.args = args /\ fn.in.columns = in
      /\ Frame(rows, in) /\ Frame(more, in)
  BY DEF Function
<1>2. /\ n \in Nat /\ DOMAIN rows = 1..n /\ DOMAIN more = 1..Len(more) /\ n <= Len(more)
      /\ \A k \in 1..n : k \in 1..Len(more) /\ more[k] = rows[k]
  BY GrownFacts
<1>3. /\ \A i \in DOMAIN in, k \in DOMAIN rows : Fits(rows[k].cells[i], in[i])
      /\ \A i \in DOMAIN in, k \in DOMAIN more : Fits(more[k].cells[i], in[i])
  BY <1>1, <1>2 DEF Frame, Typed
<1> HIDE DEF fn, in, n
<1>4. CASE op \in Columnar
  <2>1. op \notin Ewm \union {"backtest"} => WindowArgs(args)
    <3>1. CASE op \in Returns
      BY <3>1 DEF ValidConfig, Kind, Returns, ValidPeriods, WindowArgs
    <3>2. CASE op \in Rolling
      BY <3>2 DEF ValidConfig, Kind, Rolling, ValidWindow, ValidPeriods, WindowArgs
    <3>3. CASE op = "rolling_cov"
      BY <3>3 DEF ValidConfig, Kind, ValidWindow, ValidPeriods, WindowArgs
    <3>4. QED
      BY <1>4, <3>1, <3>2, <3>3 DEF Columnar
  <2> DEFINE x == ColumnOf(op, args, rows)
             y == ColumnOf(op, args, more)
  <2>2. Apply(fn, rows) = OutOf(rows, x) /\ Apply(fn, more) = OutOf(more, y)
    BY <1>1, <1>4, ColumnarApply
  <2>3. SameColumn(x, y, Len(rows))
    BY <1>4, <2>1, ColumnsLookBack
  <2> HIDE DEF x, y
  <2>4. QED
    BY <2>2, <2>3, GrownOut
<1>5. CASE op \in Itemwise
  <2> DEFINE width == in["value"].width
             x == [k \in DOMAIN rows |-> EachItem(op, args, rows[k].cells["value"], width)]
             y == [k \in DOMAIN more |-> EachItem(op, args, more[k].cells["value"], width)]
  <2>1. width \in Nat
    BY <1>5, Shapes, SizedWidths DEF in
  <2>2. Apply(fn, rows) = OutOf(rows, x) /\ Apply(fn, more) = OutOf(more, y)
    BY <1>1, <1>5, <2>1, ItemwiseApply
  <2>3. \A k \in 1..Len(rows) : more[k] = rows[k] => y[k] = x[k]
    BY <1>2 DEF n
  <2> HIDE DEF x, y
  <2>4. QED
    BY <2>2, <2>3, RowwiseGrows
<1>6. CASE op \in Struct
  <2> DEFINE type == in["left"]
             width == type.width
             x == IF op = "log_ratio"
                    THEN [k \in DOMAIN rows |->
                            LogRatio(rows[k].cells["left"], rows[k].cells["right"], width)]
                    ELSE [k \in DOMAIN rows |->
                            EachPair(op, rows[k].cells["left"], rows[k].cells["right"], width)]
             y == IF op = "log_ratio"
                    THEN [k \in DOMAIN more |->
                            LogRatio(more[k].cells["left"], more[k].cells["right"], width)]
                    ELSE [k \in DOMAIN more |->
                            EachPair(op, more[k].cells["left"], more[k].cells["right"], width)]
  <2>1. "left" \in DOMAIN in /\ width \in Nat
    BY <1>6, Shapes, SizedWidths DEF in
  <2>2. Apply(fn, rows) = OutOf(rows, x) /\ Apply(fn, more) = OutOf(more, y)
    <3>1. CASE op = "log_ratio"
      BY <1>1, <3>1, LogRatioApply
    <3>2. CASE op # "log_ratio"
      <4>1. op \in {"spread", "product", "ratio"}
        BY <1>6, <3>2 DEF Struct
      <4>2. /\ \A k \in DOMAIN rows : Fits(rows[k].cells["left"], type)
            /\ \A k \in DOMAIN more : Fits(more[k].cells["left"], type)
        BY <1>3, <2>1
      <4>3. QED
        BY <1>1, <2>1, <3>2, <4>1, <4>2, StructApply
    <3>3. QED
      BY <3>1, <3>2
  <2>3. \A k \in 1..Len(rows) : more[k] = rows[k] => y[k] = x[k]
    BY <1>2 DEF n
  <2> HIDE DEF x, y
  <2>4. QED
    BY <2>2, <2>3, RowwiseGrows
<1>7. CASE op \in Shifts
  <2> DEFINE width == in["value"].width
             c == Column(rows, "value")
             l == Column(more, "value")
             periods == args.periods
             x == [k \in DOMAIN rows |-> EachShift(op, periods, c, k, width)]
             y == [k \in DOMAIN more |-> EachShift(op, periods, l, k, width)]
  <2>1. width \in Nat
    BY <1>7, Shapes, SizedWidths DEF in
  <2>2. Apply(fn, rows) = OutOf(rows, x) /\ Apply(fn, more) = OutOf(more, y)
    BY <1>1, <1>7, <2>1, ShiftApply DEF Column
  <2>3. periods \in Nat \ {0} /\ op \in {"lag", "delta"}
    BY <1>7 DEF ValidConfig, Kind, Shifts, ValidPeriods
  <2>4. Continues(c, l) /\ Len(c) = Len(rows)
    BY ColumnGrows
  <2> HIDE DEF c, l, periods, width
  <2>5. \A k \in 1..Len(rows) : EachShift(op, periods, l, k, width) = EachShift(op, periods, c, k, width)
    BY <2>3, <2>4, ShiftLooksBack
  <2>6. \A k \in 1..Len(rows) : more[k] = rows[k] => y[k] = x[k]
    BY <1>2, <2>5 DEF n
  <2> HIDE DEF x, y
  <2>7. QED
    BY <2>2, <2>6, RowwiseGrows
<1>8. CASE op = "rolling_cov_matrix"
  <2> DEFINE listed == args.input_columns
             m == Len(listed)
             a == [c \in DOMAIN listed |-> Column(rows, listed[c])]
             b == [c \in DOMAIN listed |-> Column(more, listed[c])]
             x == RollingCovMatrix(a, args)
             y == RollingCovMatrix(b, args)
  <2>1. ValidColumns(args, 2) /\ WindowArgs(args)
    BY <1>8 DEF ValidConfig, Kind, ValidWindow, ValidPeriods, WindowArgs
  <2>2. m \in Nat \ {0} /\ DOMAIN listed = 1..m
    BY <2>1 DEF ValidColumns
  <2>3. Kind(op) \notin {"metric", "error_metric", "supervised"}
    BY <1>8 DEF Kind
  <2>4. Apply(fn, rows) = OutOf(rows, x) /\ Apply(fn, more) = OutOf(more, y)
    BY <1>1, <1>8, <2>3 DEF Apply, OutOf, Column
  <2>5. /\ a = [c \in 1..m |-> a[c]] /\ b = [c \in 1..m |-> b[c]]
        /\ \A c \in 1..m : Continues(a[c], b[c]) /\ Len(a[c]) = Len(rows)
    <3>1. \A c : /\ Continues(Column(rows, listed[c]), Column(more, listed[c]))
                 /\ Len(Column(rows, listed[c])) = Len(rows)
      BY ColumnGrows
    <3>2. QED
      BY <2>2, <3>1
  <2> HIDE DEF a, b, m
  <2>6. SameColumn(x, y, Len(rows))
    BY <2>1, <2>2, <2>5, MatrixLooksBack
  <2> HIDE DEF x, y
  <2>7. QED
    BY <2>4, <2>6, GrownOut
<1>9. CASE op = "feature_packer"
  <2> DEFINE listed == args.input_columns
             Of(row) == Pack([c \in DOMAIN listed |-> row.cells[listed[c]]],
                             [c \in DOMAIN listed |-> in[listed[c]].width])
             x == [k \in DOMAIN rows |-> Of(rows[k])]
             y == [k \in DOMAIN more |-> Of(more[k])]
  <2>1. Kind(op) \notin {"metric", "error_metric", "supervised"}
    BY <1>9 DEF Kind
  <2>2. Apply(fn, rows) = OutOf(rows, x) /\ Apply(fn, more) = OutOf(more, y)
    BY <1>1, <1>9, <2>1 DEF Apply, OutOf
  <2> HIDE DEF Of
  <2>3. \A k \in 1..Len(rows) : more[k] = rows[k] => y[k] = x[k]
    BY <1>2 DEF n
  <2> HIDE DEF x, y
  <2>4. QED
    BY <2>2, <2>3, RowwiseGrows
<1>10. CASE op = "feature_unpacker"
  <2> DEFINE width == in["value"].width
             Of(row) == [time |-> row.time, cells |-> Unpack(row.cells["value"], width)]
             made == Apply(fn, rows)
             later == Apply(fn, more)
  <2>1. Kind(op) \notin {"metric", "error_metric", "supervised"}
    BY <1>10 DEF Kind
  <2>2. /\ made = [k \in DOMAIN rows |-> Of(rows[k])]
        /\ later = [k \in DOMAIN more |-> Of(more[k])]
    BY <1>1, <1>10, <2>1 DEF Apply
  <2>3. \A row : Of(row).time = row.time
    OBVIOUS
  <2> HIDE DEF made, later, Of
  <2>4. made = [k \in DOMAIN rows |-> made[k]] /\ later = [k \in DOMAIN more |-> later[k]]
    BY <2>2
  <2>5. /\ \A k \in 1..Len(rows) : later[k] = made[k] /\ made[k].time = rows[k].time
        /\ \A k \in 1..Len(more) : later[k].time = more[k].time
    BY <1>2, <2>2, <2>3 DEF n
  <2>6. Grown(made, later, t)
    BY <2>4, <2>5, GrownRows
  <2>7. QED
    BY <2>6 DEF made, later
<1>11. CASE op \in Models
  <2>1. CASE op = "trainer"
    <3>1. Apply(fn, rows) = <<>> /\ Apply(fn, more) = <<>>
      BY <1>1, <1>11, <2>1, ModelApply
    <3>2. QED
      BY <3>1, NothingGrows
  <2>2. CASE op = "model"
    <3> DEFINE x == Predictions(fn.in, fn.out, rows)
               y == Predictions(fn.in, fn.out, more)
    <3>1. Apply(fn, rows) = OutOf(rows, x) /\ Apply(fn, more) = OutOf(more, y)
      BY <1>1, <1>11, <2>2, ModelApply
    <3>2. \A k \in 1..Len(rows) : more[k] = rows[k] => y[k] = x[k]
      BY <1>2 DEF n, Predictions
    <3> HIDE DEF x, y
    <3>3. QED
      BY <3>1, <3>2, RowwiseGrows
  <2>3. QED
    BY <1>11, <2>1, <2>2 DEF Models
<1>12. QED
  BY <1>4, <1>5, <1>6, <1>7, <1>8, <1>9, <1>10, <1>11
     DEF Operations, Columnar, Itemwise, Shifts, Struct, Metrics, ErrorMetrics, Models, Returns,
         Rolling, Ewm

-----------------------------------------------------------------------------
(* Executions a moment apart *)

LEMMA EvaluatedOk ==
  ASSUME NEW ids, NEW results, NEW node, EvaluatedOver(ids, results, node).status = "ok"
  PROVE  /\ \A i \in Bound(node) : results[ids[ParentOf(node, i)]].status = "ok"
         /\ ~Prepared(ids, results, node).raised
         /\ EvaluatedOver(ids, results, node).rows
              = Apply(node.fn, Prepared(ids, results, node).rows)
<1> DEFINE prepared == Prepared(ids, results, node)
           computed == Apply(node.fn, prepared.rows)
<1>1. /\ Failure("upstream").status # "ok" /\ Failure("nulls").status # "ok"
  BY DEF Failure
<1>2. /\ ~\E i \in Bound(node) : results[ids[ParentOf(node, i)]].status # "ok"
      /\ ~prepared.raised /\ EvaluatedOver(ids, results, node) = Outcome(node, computed)
  BY <1>1 DEF EvaluatedOver
<1> HIDE DEF computed, prepared
<1>3. Outcome(node, computed).status = "ok" => Outcome(node, computed).rows = computed
  BY DEF Outcome, Failure, Ok
<1>4. QED
  BY <1>2, <1>3 DEF computed, prepared

\* Parents that grow make a node grow, unless it looks ahead or measures.
LEMMA EvaluatedGrows ==
  ASSUME NEW nodes, NEW ids, NEW results, NEW later, NEW sources, NEW more, NEW t \in Int,
         \A s \in DOMAIN Feeds : Grown(sources[s], more[s], t),
         NEW node, Resolved(node), NodeIssues(nodes, node) = {}, Bound(node) \subseteq Range(Names),
         node.fn.op \notin Metrics \union ErrorMetrics \union {"lead"},
         \A p \in ParentsOf(node) :
           /\ Settled(results[ids[p]], nodes[p].fn) /\ Settled(later[ids[p]], nodes[p].fn)
           /\ results[ids[p]].status = "ok" /\ later[ids[p]].status = "ok" =>
                Grown(results[ids[p]].rows, later[ids[p]].rows, t),
         Evaluate(nodes, ids, results, sources, node).status = "ok",
         Evaluate(nodes, ids, later, more, node).status = "ok"
  PROVE  Grown(Evaluate(nodes, ids, results, sources, node).rows,
               Evaluate(nodes, ids, later, more, node).rows, t)
<1> DEFINE op == node.fn.op
           args == node.fn.args
           made == Evaluate(nodes, ids, results, sources, node)
           after == Evaluate(nodes, ids, later, more, node)
<1>1. PICK bound : /\ op \in Operations /\ Sized(bound) /\ node.fn = Function(op, args, bound)
                   /\ op # "source" => ValidConfig(op, args) /\ Resolvable(op, args, bound)
                   /\ op = "source" => args.feed \in DOMAIN Feeds /\ args.type = Feeds[args.feed]
  BY DEF Resolved
<1>2. CASE Bound(node) = {}
  <2>1. op # "source" => node.fn.in.time = Utc
    BY <1>1 DEF Function
  <2>2. op = "source"
    BY <1>2, <2>1, NoIssues DEF IsEmpty, Utc, NoTime
  <2>3. made = Ok(sources[args.feed]) /\ after = Ok(more[args.feed])
    BY <1>2, <2>2 DEF Evaluate
  <2>4. Grown(sources[args.feed], more[args.feed], t)
    BY <1>1, <2>2
  <2>5. made.rows = sources[args.feed] /\ after.rows = more[args.feed]
    BY <2>3 DEF Ok
  <2>6. QED
    BY <2>4, <2>5
<1>3. CASE Bound(node) # {}
  <2> DEFINE in == node.fn.in.columns
             x == Bindings(ids, results, node)
             y == Bindings(ids, later, node)
             rows == Prepared(ids, results, node)
             grown == Prepared(ids, later, node)
  <2>1. /\ op # "source" /\ made = EvaluatedOver(ids, results, node)
        /\ DOMAIN x = Bound(node) /\ IsFiniteSet(Bound(node)) /\ Frame(Align(x), in)
        /\ Among(ColumnsTo(node), in) /\ WidthsOf(WidthsTo(node), in) /\ Frame(rows.rows, in)
    BY <1>3, EvaluateBound
  <2>2. /\ after = EvaluatedOver(ids, later, node)
        /\ DOMAIN y = Bound(node) /\ Frame(Align(y), in) /\ Frame(grown.rows, in)
    BY <1>3, EvaluateBound
  <2>3. made.status = "ok" /\ after.status = "ok"
    OBVIOUS
  <2> HIDE DEF made, after
  <2>4. /\ \A i \in Bound(node) : results[ids[ParentOf(node, i)]].status = "ok"
        /\ ~rows.raised /\ made.rows = Apply(node.fn, rows.rows)
    BY <2>1, <2>3, EvaluatedOk
  <2>5. /\ \A i \in Bound(node) : later[ids[ParentOf(node, i)]].status = "ok"
        /\ ~grown.raised /\ after.rows = Apply(node.fn, grown.rows)
    BY <2>2, <2>3, EvaluatedOk
  <2>6. GrownBindings(x, y, t)
    <3>1. ASSUME NEW i \in Bound(node)
          PROVE  /\ Grown(x[i].frame, y[i].frame, t)
                 /\ y[i].column = x[i].column /\ y[i].tolerance = x[i].tolerance
      <4>1. /\ x[i].frame = results[ids[ParentOf(node, i)]].rows
            /\ y[i].frame = later[ids[ParentOf(node, i)]].rows
            /\ y[i].column = x[i].column /\ y[i].tolerance = x[i].tolerance
        BY DEF Bindings
      <4>2. ParentOf(node, i) \in ParentsOf(node)
        BY DEF ParentsOf
      <4>3. QED
        BY <2>4, <2>5, <4>1, <4>2
    <3> HIDE DEF x, y
    <3>2. QED
      BY <2>1, <2>2, <3>1 DEF GrownBindings
  <2>7. /\ rows = Prepare(Align(x), ColumnsTo(node), WidthsTo(node), Handlers(node), node.fills)
        /\ grown = Prepare(Align(y), ColumnsTo(node), WidthsTo(node), Handlers(node), node.fills)
    BY DEF Prepared, ColumnsTo, WidthsTo
  <2> HIDE DEF x, y, rows, grown
  <2>8. Grown(Align(x), Align(y), t)
    BY <2>6, GrownAlign
  <2>9. Grown(rows.rows, grown.rows, t)
    <3> DEFINE a == Align(x)
               b == Align(y)
    <3>1. Grown(a, b, t) /\ Frame(a, in) /\ Frame(b, in)
      BY <2>1, <2>2, <2>8
    <3>2. /\ rows = Prepare(a, ColumnsTo(node), WidthsTo(node), Handlers(node), node.fills)
          /\ grown = Prepare(b, ColumnsTo(node), WidthsTo(node), Handlers(node), node.fills)
      BY <2>7
    <3> HIDE DEF a, b, in
    <3>3. QED
      BY <2>1, <2>4, <2>5, <3>1, <3>2, GrownPrepare
  <2> DEFINE a == rows.rows
             b == grown.rows
  <2>10. Grown(a, b, t) /\ Frame(a, in) /\ Frame(b, in)
    BY <2>1, <2>2, <2>9
  <2>11. op \in Operations \ (Metrics \union ErrorMetrics \union {"source", "lead"})
    BY <1>1, <2>1
  <2>12. made.rows = Apply(node.fn, a) /\ after.rows = Apply(node.fn, b)
    BY <2>4, <2>5
  <2> HIDE DEF a, b, op, args
  <2>13. Frame(a, Function(op, args, bound).in.columns) /\ Frame(b, Function(op, args, bound).in.columns)
    BY <1>1, <2>10
  <2>14. Grown(Apply(Function(op, args, bound), a), Apply(Function(op, args, bound), b), t)
    BY <1>1, <2>10, <2>11, <2>13, AppliedGrows
  <2>15. Grown(made.rows, after.rows, t)
    BY <1>1, <2>12, <2>14
  <2>16. QED
    BY <2>15 DEF made, after
<1>4. QED
  BY <1>2, <1>3

-----------------------------------------------------------------------------
(* What a node depends on, and the future it may not look into *)

\* Taint and Ancestors at a node, given those of its parents.
TaintAt(nodes, taint, n) ==
  \/ nodes[n].fn.lookahead
  \/ nodes[n].fn.allows = {} /\ \E p \in ParentsOf(nodes[n]) : taint[p]
AboveAt(nodes, above, n) == {n} \union UNION {above[p] : p \in ParentsOf(nodes[n])}

LEMMA TaintExists ==
  ASSUME NEW nodes, Len(nodes) \in Nat, Acyclic(nodes)
  PROVE  \E f : f = [n \in 1..Len(nodes) |-> TaintAt(nodes, f, n)]
<1> DEFINE N == Len(nodes)
           Steps(v, m) == v = [n \in 1..m |-> TaintAt(nodes, v, n)]
           S == {m \in 0..N : \E v : Steps(v, m)}
<1>1. 0 \in S
  <2> DEFINE v == [n \in 1..0 |-> N]
  <2>1. v = [n \in 1..0 |-> TaintAt(nodes, v, n)]
    OBVIOUS
  <2>2. 0 \in 0..N
    OBVIOUS
  <2>3. QED
    BY <2>1, <2>2
<1>2. ASSUME NEW m \in 1..N, m - 1 \in S PROVE m \in S
  <2>1. PICK v : Steps(v, m - 1)
    BY <1>2
  <2> DEFINE w == [n \in 1..m |-> IF n = m THEN TaintAt(nodes, v, m) ELSE v[n]]
  <2>2. \A n \in 1..(m - 1) : v[n] = TaintAt(nodes, v, n)
    <3> HIDE DEF S
    <3>1. v = [n \in 1..(m - 1) |-> TaintAt(nodes, v, n)]
      BY <2>1
    <3>2. QED
      BY <3>1, Zenon
  <2>3. \A n \in 1..(m - 1) : w[n] = v[n]
    OBVIOUS
  <2>4. w[m] = TaintAt(nodes, v, m) /\ w = [n \in 1..m |-> w[n]]
    OBVIOUS
  <2> HIDE DEF w
  <2>5. ASSUME NEW n \in 1..m PROVE TaintAt(nodes, w, n) = TaintAt(nodes, v, n)
    <3>1. \A p \in ParentsOf(nodes[n]) : p \in 1..(m - 1)
      <4>1. n \in 1..N
        OBVIOUS
      <4>2. \A p \in ParentsOf(nodes[n]) : p \in 1..(n - 1)
        BY <4>1 DEF Acyclic
      <4>3. QED
        BY <4>2
    <3>2. \A p \in ParentsOf(nodes[n]) : w[p] = v[p]
      BY <2>3, <3>1
    <3>3. QED
      BY <3>2, Zenon DEF TaintAt
  <2>6. ASSUME NEW n \in 1..m PROVE w[n] = TaintAt(nodes, w, n)
    <3>1. CASE n = m
      BY <2>4, <2>5, <3>1
    <3>2. CASE n \in 1..(m - 1)
      BY <2>2, <2>3, <2>5, <3>2
    <3>3. QED
      BY <3>1, <3>2
  <2>7. w = [n \in 1..m |-> TaintAt(nodes, w, n)]
    BY <2>4, <2>6
  <2>8. QED
    BY <2>7
<1>3. 0..N \subseteq S
  <2> HIDE DEF S
  <2>1. QED
    BY <1>1, <1>2, IntervalInduction
<1>4. N \in S
  BY <1>3
<1>5. QED
  BY <1>4

LEMMA TaintUnfolds ==
  ASSUME NEW nodes, Len(nodes) \in Nat, Acyclic(nodes), NEW n \in 1..Len(nodes)
  PROVE  Taint(nodes)[n] = TaintAt(nodes, Taint(nodes), n)
<1> DEFINE taint == Taint(nodes)
<1>1. taint = CHOOSE f : f = [m \in 1..Len(nodes) |-> TaintAt(nodes, f, m)]
  BY Zenon DEF Taint, TaintAt
<1>2. taint = [m \in 1..Len(nodes) |-> TaintAt(nodes, taint, m)]
  BY <1>1, TaintExists
<1> HIDE DEF taint
<1>3. taint[n] = TaintAt(nodes, taint, n)
  BY <1>2, Zenon
<1>4. QED
  BY <1>3 DEF taint

LEMMA AncestorsExist ==
  ASSUME NEW nodes, Len(nodes) \in Nat, Acyclic(nodes)
  PROVE  \E f : f = [n \in 1..Len(nodes) |-> AboveAt(nodes, f, n)]
<1> DEFINE N == Len(nodes)
           Steps(v, m) == v = [n \in 1..m |-> AboveAt(nodes, v, n)]
           S == {m \in 0..N : \E v : Steps(v, m)}
<1>1. 0 \in S
  <2> DEFINE v == [n \in 1..0 |-> N]
  <2>1. v = [n \in 1..0 |-> AboveAt(nodes, v, n)]
    OBVIOUS
  <2>2. 0 \in 0..N
    OBVIOUS
  <2>3. QED
    BY <2>1, <2>2
<1>2. ASSUME NEW m \in 1..N, m - 1 \in S PROVE m \in S
  <2>1. PICK v : Steps(v, m - 1)
    BY <1>2
  <2> DEFINE w == [n \in 1..m |-> IF n = m THEN AboveAt(nodes, v, m) ELSE v[n]]
  <2>2. \A n \in 1..(m - 1) : v[n] = AboveAt(nodes, v, n)
    <3> HIDE DEF S
    <3>1. v = [n \in 1..(m - 1) |-> AboveAt(nodes, v, n)]
      BY <2>1
    <3>2. QED
      BY <3>1, Zenon
  <2>3. \A n \in 1..(m - 1) : w[n] = v[n]
    OBVIOUS
  <2>4. w[m] = AboveAt(nodes, v, m) /\ w = [n \in 1..m |-> w[n]]
    OBVIOUS
  <2> HIDE DEF w
  <2>5. ASSUME NEW n \in 1..m PROVE AboveAt(nodes, w, n) = AboveAt(nodes, v, n)
    <3>1. \A p \in ParentsOf(nodes[n]) : p \in 1..(m - 1)
      <4>1. n \in 1..N
        OBVIOUS
      <4>2. \A p \in ParentsOf(nodes[n]) : p \in 1..(n - 1)
        BY <4>1 DEF Acyclic
      <4>3. QED
        BY <4>2
    <3>2. \A p \in ParentsOf(nodes[n]) : w[p] = v[p]
      BY <2>3, <3>1
    <3>3. {w[p] : p \in ParentsOf(nodes[n])} = {v[p] : p \in ParentsOf(nodes[n])}
      BY <3>2
    <3>4. QED
      BY <3>3 DEF AboveAt
  <2>6. ASSUME NEW n \in 1..m PROVE w[n] = AboveAt(nodes, w, n)
    <3>1. CASE n = m
      BY <2>4, <2>5, <3>1
    <3>2. CASE n \in 1..(m - 1)
      BY <2>2, <2>3, <2>5, <3>2
    <3>3. QED
      BY <3>1, <3>2
  <2>7. w = [n \in 1..m |-> AboveAt(nodes, w, n)]
    BY <2>4, <2>6
  <2>8. QED
    BY <2>7
<1>3. 0..N \subseteq S
  <2> HIDE DEF S
  <2>1. QED
    BY <1>1, <1>2, IntervalInduction
<1>4. N \in S
  BY <1>3
<1>5. QED
  BY <1>4

\* The nodes whose results a node is made of, itself included.
AncestorsOf(nodes) == CHOOSE f : f = [n \in 1..Len(nodes) |-> AboveAt(nodes, f, n)]

LEMMA AncestorsUnfold ==
  ASSUME NEW nodes, Len(nodes) \in Nat, Acyclic(nodes), NEW n \in 1..Len(nodes)
  PROVE  AncestorsOf(nodes)[n] = AboveAt(nodes, AncestorsOf(nodes), n)
<1> DEFINE above == AncestorsOf(nodes)
<1>1. above = [m \in 1..Len(nodes) |-> AboveAt(nodes, above, m)]
  BY AncestorsExist DEF AncestorsOf
<1> HIDE DEF above
<1>2. above[n] = AboveAt(nodes, above, n)
  BY <1>1, Zenon
<1>3. QED
  BY <1>2 DEF above

\* A node free of taint none of whose ancestors measures, or makes predictions of
\* tainted values.
LooksBack(nodes, m) ==
  /\ Kind(nodes[m].fn.op) \notin {"metric", "error_metric"}
  /\ nodes[m].fn.allows # {} => \A p \in ParentsOf(nodes[m]) : ~Taint(nodes)[p]
Clear(nodes, n) ==
  ~Taint(nodes)[n] /\ \A m \in AncestorsOf(nodes)[n] : LooksBack(nodes, m)

LEMMA ClearFacts ==
  ASSUME NEW nodes, Len(nodes) \in Nat, Acyclic(nodes), NEW n \in 1..Len(nodes),
         Resolved(nodes[n]), Clear(nodes, n)
  PROVE  /\ nodes[n].fn.op \notin Metrics \union ErrorMetrics \union {"lead"}
         /\ \A p \in ParentsOf(nodes[n]) : Clear(nodes, p)
<1> DEFINE op == nodes[n].fn.op
           above == AncestorsOf(nodes)
<1>1. op \in Operations /\ nodes[n].fn.lookahead = (op = "lead")
  BY DEF Resolved, Function
<1>2. above[n] = AboveAt(nodes, above, n)
  BY AncestorsUnfold
<1>3. ~TaintAt(nodes, Taint(nodes), n)
  BY TaintUnfolds DEF Clear
<1>4. op # "lead"
  BY <1>1, <1>3 DEF TaintAt
<1> HIDE DEF above
<1>5. n \in above[n] /\ \A p \in ParentsOf(nodes[n]) : above[p] \subseteq above[n]
  BY <1>2 DEF AboveAt
<1>6. LooksBack(nodes, n) /\ \A m \in above[n] : LooksBack(nodes, m)
  BY <1>5 DEF Clear, above
<1>7. op \notin Metrics \union ErrorMetrics
  BY <1>1, <1>6, Kinds DEF LooksBack
<1>8. ASSUME NEW p \in ParentsOf(nodes[n]) PROVE Clear(nodes, p)
  <2>1. ~Taint(nodes)[p]
    BY <1>3, <1>6, Zenon DEF TaintAt, LooksBack
  <2>2. \A m \in above[p] : LooksBack(nodes, m)
    BY <1>5, <1>6
  <2>3. QED
    BY <2>1, <2>2 DEF Clear, above
<1>9. QED
  BY <1>4, <1>7, <1>8

\* A node that is not the first of its definition is not what is run.
LEMMA OnlyIDsRun ==
  ASSUME NEW nodes, NEW ids, NEW sources, Program(nodes, ids), NamesInputs(nodes),
         NEW m \in 1..Len(nodes), Execute(nodes, ids, sources)[m].status = "ok"
  PROVE  ids[m] = m
<1> DEFINE N == Len(nodes)
           order == OrderTaken(nodes, ids)
           c == Len(order)
           f == ExecutionOf(nodes, ids, sources, order)
           Eval(x, n) == Evaluate(nodes, ids, x, sources, nodes[n])
<1>1. c \in Nat /\ \A k \in 1..c : order[k] \in 1..N
  BY OrderTakenSound
<1>2. /\ f[0] = [n \in 1..N |-> NotRun]
      /\ \A k \in 1..c : f[k] = [f[k - 1] EXCEPT ![ids[order[k]]] = Eval(f[k - 1], order[k])]
      /\ Execute(nodes, ids, sources) = f[c]
  BY <1>1, ExecutionSteps DEF OrderTaken
<1>3. \A n \in 1..N : ids[ids[n]] = ids[n]
  BY ProgramFacts
<1> SUFFICES ASSUME ids[m] # m PROVE FALSE
  OBVIOUS
<1> HIDE DEF order, f, c, Eval
<1> DEFINE S == {k \in 0..c : f[k][m] = NotRun /\ DOMAIN f[k] = 1..N}
<1>4. 0 \in S
  BY <1>1, <1>2
<1>5. ASSUME NEW k \in 1..c, k - 1 \in S PROVE k \in S
  <2>1. ids[order[k]] # m
    BY <1>1, <1>3
  <2> DEFINE x == Eval(f[k - 1], order[k])
             y == ids[order[k]]
  <2>2. f[k] = [f[k - 1] EXCEPT ![y] = x] /\ y # m
    BY <1>2, <2>1
  <2>3. f[k - 1][m] = NotRun /\ DOMAIN f[k - 1] = 1..N
    BY <1>5
  <2> HIDE DEF x, y
  <2>4. f[k][m] = NotRun /\ DOMAIN f[k] = 1..N
    BY <2>2, <2>3
  <2>5. k \in 0..c
    BY <1>1
  <2>6. QED
    BY <2>4, <2>5
<1>6. 0..c \subseteq S
  <2> HIDE DEF S
  <2>1. QED
    BY <1>1, <1>4, <1>5, IntervalInduction
<1>7. f[c][m] = NotRun
  BY <1>1, <1>6
<1>8. "not run" # "ok" /\ NotRun.status = "not run"
  BY DEF NotRun, Failure
<1>9. Execute(nodes, ids, sources)[m].status = NotRun.status
  BY <1>2, <1>7
<1>10. QED
  BY <1>8, <1>9

\* An execution over sources that have grown makes every clear node grow.
LEMMA ExecutionGrows ==
  ASSUME NEW nodes, NEW ids, NEW sources, NEW more, NEW t \in Int,
         Program(nodes, ids), NamesInputs(nodes), Accepted(nodes, OrderTaken(nodes, ids)),
         \A s \in DOMAIN Feeds : Grown(sources[s], more[s], t),
         \A n \in 1..Len(nodes) :
           /\ Resolved(nodes[n])
           /\ Settled(Execute(nodes, ids, sources)[ids[n]], nodes[n].fn)
           /\ Settled(Execute(nodes, ids, more)[ids[n]], nodes[n].fn),
         NEW n \in 1..Len(nodes), Clear(nodes, n),
         Execute(nodes, ids, sources)[ids[n]].status = "ok",
         Execute(nodes, ids, more)[ids[n]].status = "ok"
  PROVE  Grown(Execute(nodes, ids, sources)[ids[n]].rows, Execute(nodes, ids, more)[ids[n]].rows, t)
<1> DEFINE N == Len(nodes)
           results == Execute(nodes, ids, sources)
           later == Execute(nodes, ids, more)
           Grows(q) == Clear(nodes, q) /\ results[ids[q]].status = "ok" /\ later[ids[q]].status = "ok"
                         => Grown(results[ids[q]].rows, later[ids[q]].rows, t)
           S == {k \in 0..N : \A q \in 1..k : Grows(q)}
<1>1. ASSUME NEW k \in 1..N
      PROVE  LET node == nodes[Taken(nodes, ids, k)]
             IN  /\ results[ids[k]] = Evaluate(nodes, ids, results, sources, node)
                 /\ later[ids[k]] = Evaluate(nodes, ids, later, more, node)
  BY ExecutionIsFixpoint
<1>2. /\ N \in Nat /\ Acyclic(nodes)
      /\ \A m \in 1..N : Settled(results[ids[m]], nodes[m].fn) /\ Settled(later[ids[m]], nodes[m].fn)
  BY ProgramFacts
<1> HIDE DEF results, later
<1>3. ASSUME NEW k \in 1..N, k - 1 \in S PROVE Grows(k)
  <2> SUFFICES ASSUME Clear(nodes, k), results[ids[k]].status = "ok", later[ids[k]].status = "ok"
               PROVE  Grown(results[ids[k]].rows, later[ids[k]].rows, t)
    OBVIOUS
  <2> DEFINE m == Taken(nodes, ids, k)
  <2>10. m \in Range(OrderTaken(nodes, ids)) /\ m \in 1..N /\ ids[m] = ids[k]
    BY TakenFacts
  <2>5. /\ results[ids[k]] = Evaluate(nodes, ids, results, sources, nodes[m])
        /\ later[ids[k]] = Evaluate(nodes, ids, later, more, nodes[m])
    BY <1>1
  <2> HIDE DEF m
  <2>1. m \in 1..N /\ ids[m] = ids[k] /\ NodeIssues(nodes, nodes[m]) = {}
    BY <2>10 DEF Accepted
  <2>2. /\ nodes[m].fn.op = nodes[k].fn.op /\ Bound(nodes[m]) = Bound(nodes[k])
        /\ \A i \in Bound(nodes[k]) : ids[ParentOf(nodes[m], i)] = ids[ParentOf(nodes[k], i)]
    BY <2>1, SharedFunctions DEF SameDefinition, SameSignature
  <2>3. /\ nodes[k].fn.op \notin Metrics \union ErrorMetrics \union {"lead"}
        /\ \A q \in ParentsOf(nodes[k]) : Clear(nodes, q) /\ q \in 1..(k - 1)
    BY <1>2, ClearFacts DEF Acyclic
  <2>4. ASSUME NEW p \in ParentsOf(nodes[m])
        PROVE  /\ Settled(results[ids[p]], nodes[p].fn) /\ Settled(later[ids[p]], nodes[p].fn)
               /\ results[ids[p]].status = "ok" /\ later[ids[p]].status = "ok" =>
                    Grown(results[ids[p]].rows, later[ids[p]].rows, t)
    <3>1. PICK i \in Bound(nodes[k]) : p = ParentOf(nodes[m], i)
      BY <2>2 DEF ParentsOf
    <3> DEFINE q == ParentOf(nodes[k], i)
    <3>2. q \in ParentsOf(nodes[k]) /\ ids[p] = ids[q]
      BY <2>2, <3>1 DEF ParentsOf
    <3> HIDE DEF q
    <3>3. Clear(nodes, q) /\ q \in 1..(k - 1)
      BY <2>3, <3>2
    <3>4. Grows(q)
      BY <1>3, <3>3
    <3>5. p \in 1..N
      BY <2>1, ParentIDs
    <3>6. QED
      BY <1>2, <3>2, <3>3, <3>4, <3>5
  <2>6. Resolved(nodes[m]) /\ Bound(nodes[m]) \subseteq Range(Names)
    BY <2>1 DEF NamesInputs
  <2>7. nodes[m].fn.op \notin Metrics \union ErrorMetrics \union {"lead"}
    BY <2>2, <2>3
  <2> DEFINE node == nodes[m]
  <2> HIDE DEF node
  <2>8. Grown(Evaluate(nodes, ids, results, sources, node).rows,
              Evaluate(nodes, ids, later, more, node).rows, t)
    BY <2>1, <2>4, <2>5, <2>6, <2>7, EvaluatedGrows DEF node
  <2>9. QED
    BY <2>5, <2>8 DEF node
<1>4. 0 \in S
  BY <1>2
<1>5. ASSUME NEW k \in 1..N, k - 1 \in S PROVE k \in S
  <2>1. Grows(k)
    BY <1>3, <1>5
  <2> HIDE DEF Grows
  <2>2. QED
    BY <1>2, <1>5, <2>1
<1>6. 0..N \subseteq S
  <2> HIDE DEF S
  <2>1. QED
    BY <1>2, <1>4, <1>5, IntervalInduction
<1>7. Grows(n)
  BY <1>2, <1>6
<1>8. QED
  BY <1>7 DEF results, later

\* Nothing was observed after the last moment.
SeenSoFar ==
  now \in Nat
  /\ \A s \in DOMAIN seen : \A k \in 1..Len(seen[s]) : seen[s][k].time <= now

\* What is observed at a moment comes after what was seen.
LEMMA ObservedGrows ==
  ASSUME TypedInv, SeenSoFar, Observe
  PROVE  /\ \A s \in DOMAIN Feeds : Grown(seen[s], seen'[s], now + 1)
         /\ SeenSoFar'
<1>1. now' = now + 1 /\ now \in Nat
  BY DEF Observe, SeenSoFar
<1>2. PICK o \in Observations :
        seen' = [s \in DOMAIN seen |->
                   IF s \in DOMAIN o
                     THEN Append(seen[s], [time |-> now', cells |-> [value |-> o[s]]])
                     ELSE seen[s]]
  BY DEF Observe
<1>3. /\ DOMAIN seen = DOMAIN Feeds /\ DOMAIN seen' = DOMAIN Feeds
      /\ \A s \in DOMAIN Feeds : Frame(seen[s], [value |-> Feeds[s]])
  BY <1>2 DEF TypedInv, Fed
<1>4. ASSUME NEW s \in DOMAIN Feeds
      PROVE  /\ Grown(seen[s], seen'[s], now + 1)
             /\ \A k \in 1..Len(seen'[s]) : seen'[s][k].time <= now + 1
  <2> DEFINE rows == seen[s]
             row == [time |-> now + 1, cells |-> [value |-> o[s]]]
  <2>1. /\ IsSeq(rows) /\ Len(rows) \in Nat
        /\ \A k \in 1..Len(rows) : rows[k].time \in Int /\ rows[k].time <= now
    <3>1. IsSeq(rows) /\ \A k \in 1..Len(rows) : rows[k].time \in Int
      BY <1>3 DEF Frame, Typed
    <3>2. \A k \in 1..Len(rows) : rows[k].time <= now
      BY <1>3 DEF SeenSoFar
    <3>3. QED
      BY <3>1, <3>2, SeqFacts
  <2>2. row.time = now + 1
    OBVIOUS
  <2>3. seen'[s] = rows \/ seen'[s] = Append(rows, row)
    BY <1>1, <1>2, <1>3
  <2> HIDE DEF rows, row
  <2>4. CASE seen'[s] = rows
    BY <1>1, <2>1, <2>4 DEF Grown, Continues, rows
  <2>5. CASE seen'[s] = Append(rows, row)
    <3>1. /\ IsSeq(Append(rows, row)) /\ Len(Append(rows, row)) = Len(rows) + 1
          /\ Append(rows, row)[Len(rows) + 1] = row
          /\ \A k \in 1..Len(rows) : Append(rows, row)[k] = rows[k]
      BY <2>1, Appended
    <3> DEFINE more == Append(rows, row)
    <3> HIDE DEF more
    <3>2. /\ IsSeq(more) /\ Len(more) = Len(rows) + 1 /\ more[Len(rows) + 1] = row
          /\ \A k \in 1..Len(rows) : more[k] = rows[k]
      BY <3>1 DEF more
    <3>3. \A k \in 1..Len(more) : k > Len(rows) => k = Len(rows) + 1
      BY <2>1, <3>2
    <3>4. Continues(rows, more)
      BY <2>1, <3>2 DEF Continues
    <3>5. Grown(rows, more, now + 1)
      BY <1>1, <2>1, <2>2, <3>2, <3>3, <3>4 DEF Grown
    <3>6. \A k \in 1..Len(more) : more[k].time <= now + 1
      <4> TAKE k \in 1..Len(more)
      <4>1. k \in 1..Len(rows) \/ k = Len(rows) + 1
        BY <2>1, <3>2
      <4>2. QED
        BY <1>1, <2>1, <2>2, <3>2, <4>1
    <3>7. QED
      BY <2>5, <3>5, <3>6 DEF more, rows
  <2>6. QED
    BY <2>3, <2>4, <2>5
<1>5. SeenSoFar'
  BY <1>1, <1>3, <1>4 DEF SeenSoFar
<1>6. QED
  BY <1>4, <1>5

LEMMA SeenInvariant == Spec => []SeenSoFar
<1>1. Init => SeenSoFar
  BY SeqByDomain DEF Init, SeenSoFar
<1>2. TypedInv /\ SeenSoFar /\ [Next]_vars => SeenSoFar'
  <2> SUFFICES ASSUME TypedInv, SeenSoFar, [Next]_vars PROVE SeenSoFar'
    OBVIOUS
  <2>1. CASE Declare
    BY <2>1 DEF Declare, SeenSoFar
  <2>2. CASE Observe
    BY <2>2, ObservedGrows
  <2>3. CASE UNCHANGED vars
    BY <2>3 DEF vars, SeenSoFar
  <2>4. QED
    BY <2>1, <2>2, <2>3 DEF Next
<1>3. QED
  BY <1>1, <1>2, TypesInvariant, PTL DEF Spec

LEMMA GrownPrefix ==
  ASSUME NEW rows, NEW more, NEW t, Grown(rows, more, t)
  PROVE  IsPrefix(rows, more)
<1>1. /\ Len(rows) \in Nat /\ Len(rows) <= Len(more)
      /\ \A k \in 1..Len(rows) : more[k] = rows[k]
  BY GrownFacts
<1>2. SubSeq(rows, 1, Len(rows)) = SubSeq(more, 1, Len(rows))
  <2>1. /\ SubSeq(rows, 1, Len(rows)) = [k \in 1..(1 + Len(rows) - 1) |-> rows[k + 1 - 1]]
        /\ SubSeq(more, 1, Len(rows)) = [k \in 1..(1 + Len(rows) - 1) |-> more[k + 1 - 1]]
    BY <1>1
  <2>2. QED
    BY <1>1, <2>1
<1>3. QED
  BY <1>1, <1>2 DEF IsPrefix

\* What validation takes to be free of the future stays: a node whose taint is clear,
\* above which nothing measures and no model is given look-ahead, has in every later
\* execution the rows it has now, in front of rows of the later moment.
THEOREM UntaintedNodesAreCausal == Spec => UntaintedIsCausal
<1> DEFINE Kept(n) ==
             /\ ~Taint(d)[n] /\ frames'[n].status = "ok"
             /\ \A m \in Ancestors(n) :
                  /\ Kind(d[m].fn.op) \notin {"metric", "error_metric"}
                  /\ d[m].fn.allows # {} => \A p \in ParentsOf(d[m]) : ~Taint(d)[p]
             => IsPrefix(frames[n].rows, frames'[n].rows)
           Step == \A n \in Executed : Kept(n)
<1>1. ProgramInv /\ ProgramInv' /\ TypedInv /\ TypedInv' /\ SeenSoFar /\ [Next]_vars => [Step]_vars
  <2> SUFFICES ASSUME ProgramInv, ProgramInv', TypedInv, TypedInv', SeenSoFar, Next,
                      NEW n \in Executed,
                      ~Taint(d)[n], frames'[n].status = "ok",
                      \A m \in Ancestors(n) : LooksBack(d, m)
               PROVE  IsPrefix(frames[n].rows, frames'[n].rows)
    BY DEF LooksBack
  <2>1. now > 0 /\ now \in Nat
    <3>1. CASE now = 0
      BY <3>1 DEF ProgramInv, Executed
    <3>2. QED
      BY <3>1 DEF ProgramInv
  <2>2. Observe
    BY <2>1 DEF Next, Declare
  <2>3. /\ d' = d /\ id' = id /\ now' = now + 1 /\ frames' = Execute(d, id, seen')
        /\ Accepted(d, OrderTaken(d, id))
    BY <2>2 DEF Observe, OrderTaken
  <2>4. Program(d, id) /\ NamesInputs(d) /\ frames = Execute(d, id, seen)
    BY <2>1 DEF ProgramInv
  <2>5. n \in 1..Len(d) /\ frames[n].status = "ok"
    BY <2>4, ExecutionIsFixpoint DEF Executed
  <2>6. id[n] = n
    BY <2>4, <2>5, OnlyIDsRun
  <2>7. \A s \in DOMAIN Feeds : Grown(seen[s], seen'[s], now + 1)
    BY <2>2, ObservedGrows
  <2>8. \A m \in 1..Len(d) :
          /\ Resolved(d[m]) /\ Settled(Execute(d, id, seen)[id[m]], d[m].fn)
          /\ Settled(Execute(d, id, seen')[id[m]], d[m].fn)
    <3>1. \A m \in 1..Len(d) : Resolved(d[m]) /\ Settled(frames[id[m]], d[m].fn)
      BY <2>1 DEF TypedInv
    <3>2. now' > 0
      BY <2>1, <2>3
    <3>3. \A m \in 1..Len(d') : Settled(frames'[id'[m]], d'[m].fn)
      BY <3>2 DEF TypedInv
    <3>4. QED
      BY <2>3, <2>4, <3>1, <3>3
  <2>9. Ancestors(n) = AncestorsOf(d)[n]
    BY Zenon DEF Ancestors, AncestorsOf, AboveAt
  <2>10. Clear(d, n)
    BY <2>9 DEF Clear
  <2> DEFINE later == Execute(d, id, seen')
             t == now + 1
  <2>11. Grown(frames[n].rows, later[n].rows, t)
    <3>1. Execute(d, id, seen)[id[n]].status = "ok" /\ later[id[n]].status = "ok" /\ t \in Int
      BY <2>1, <2>3, <2>4, <2>5, <2>6
    <3>2. Grown(Execute(d, id, seen)[id[n]].rows, later[id[n]].rows, t)
      BY <2>3, <2>4, <2>5, <2>7, <2>8, <2>10, <3>1, ExecutionGrows
    <3>3. QED
      BY <2>4, <2>6, <3>2
  <2>12. frames'[n] = later[n]
    BY <2>3
  <2> HIDE DEF later, t
  <2>13. QED
    BY <2>11, <2>12, GrownPrefix
<1>2. Spec => [][Step]_vars
  <2> HIDE DEF Step
  <2>1. QED
    BY <1>1, ProgramInvariant, TypesInvariant, SeenInvariant, PTL DEF Spec
<1>3. QED
  BY <1>2 DEF UntaintedIsCausal
=============================================================================
