------------------------------ MODULE Recursion ------------------------------
(***************************************************************************)
(* Induction over the natural numbers for sets instead of predicates, which  *)
(* the provers can instantiate, and what follows from it about the partial   *)
(* sums that the executors' models add up (Total of Book, Sum of             *)
(* DepthBacktest): they exist, are integers, and move with their summands.   *)
(* And the laws of products that money needs.                                *)
(***************************************************************************)
EXTENDS Integers, WellFoundedInduction, TLAPS

\* A set that holds 0 and the successor of each number in it holds every number:
\* otherwise the least one outside would have its predecessor outside too.
LEMMA SetInduction ==
  ASSUME NEW S, 0 \in S, \A n \in Nat : n \in S => n + 1 \in S
  PROVE  Nat \subseteq S
<1> DEFINE R == OpToRel(LAMBDA x, y : x < y, Nat)
           T == Nat \ S
<1>1. IsWellFoundedOn(R, Nat)
  BY NatLessThanWellFounded DEF OpToRel
<1>2. \A x, y \in Nat : x < y => <<x, y>> \in R
  BY DEF OpToRel
<1>3. SUFFICES ASSUME T # {} PROVE FALSE
  OBVIOUS
<1> HIDE DEF R
<1>4. PICK x \in T : \A y \in T : ~(<<y, x>> \in R)
  BY <1>1, <1>3, WFMin
<1>5. x - 1 \in Nat /\ x - 1 \notin S /\ x - 1 < x
  BY <1>4, x - 1 + 1 = x
<1>6. <<x - 1, x>> \in R
  BY <1>2, <1>4, <1>5
<1>7. QED
  BY <1>4, <1>5, <1>6

\* The same up to a bound.
LEMMA IntervalInduction ==
  ASSUME NEW n \in Nat, NEW S, 0 \in S, \A i \in 1..n : i - 1 \in S => i \in S
  PROVE  0..n \subseteq S
<1> DEFINE U == {i \in Nat : i <= n => i \in S}
<1>1. 0 \in U
  OBVIOUS
<1>2. ASSUME NEW i \in Nat, i \in U PROVE i + 1 \in U
  <2>1. CASE i + 1 <= n
    <3>1. i \in S /\ i + 1 \in 1..n /\ (i + 1) - 1 = i
      BY <1>2, <2>1
    <3>2. QED
      BY <3>1
  <2>2. CASE ~(i + 1 <= n)
    BY <2>2
  <2>3. QED
    BY <2>1, <2>2
<1>3. Nat \subseteq U
  <2> HIDE DEF U
  <2>1. QED
    BY <1>1, <1>2, SetInduction
<1>4. QED
  BY <1>3

-----------------------------------------------------------------------------
(* Partial sums *)

\* f[i] is c and the first i of the amounts.
Runs(f, n, c, amount) == f = [i \in 0..n |-> IF i = 0 THEN c ELSE f[i - 1] + amount[i]]
Partial(n, c, amount) == CHOOSE f : Runs(f, n, c, amount)

LEMMA RunsExist ==
  ASSUME NEW n \in Nat, NEW c, NEW amount
  PROVE  \E f : Runs(f, n, c, amount)
<1> DEFINE S == {m \in Nat : \E f : Runs(f, m, c, amount)}
<1>1. 0 \in S
  <2> DEFINE f == [i \in 0..0 |-> c]
  <2>1. f = [i \in 0..0 |-> IF i = 0 THEN c ELSE f[i - 1] + amount[i]]
    OBVIOUS
  <2>2. QED
    BY <2>1 DEF Runs
<1>2. ASSUME NEW m \in Nat, m \in S PROVE m + 1 \in S
  <2>1. PICK f : f = [i \in 0..m |-> IF i = 0 THEN c ELSE f[i - 1] + amount[i]]
    BY <1>2 DEF Runs
  <2> DEFINE g == [i \in 0..(m + 1) |-> IF i = m + 1 THEN f[m] + amount[m + 1] ELSE f[i]]
  <2>2. ASSUME NEW i \in 0..(m + 1)
        PROVE  g[i] = IF i = 0 THEN c ELSE g[i - 1] + amount[i]
    <3>1. CASE i = m + 1
      BY <3>1
    <3>2. CASE i # m + 1
      BY <2>1, <3>2
    <3>3. QED
      BY <3>1, <3>2
  <2>3. g = [i \in 0..(m + 1) |-> IF i = 0 THEN c ELSE g[i - 1] + amount[i]]
    BY <2>2
  <2>4. Runs(g, m + 1, c, amount)
    BY <2>3 DEF Runs
  <2> HIDE DEF g
  <2>5. QED
    BY <2>4
<1>3. Nat \subseteq S
  <2> HIDE DEF S
  <2>1. QED
    BY <1>1, <1>2, SetInduction
<1>4. QED
  BY <1>3

LEMMA PartialRuns ==
  ASSUME NEW n \in Nat, NEW c, NEW amount
  PROVE  /\ Runs(Partial(n, c, amount), n, c, amount)
         /\ Partial(n, c, amount)[0] = c
         /\ \A i \in 1..n :
              Partial(n, c, amount)[i] = Partial(n, c, amount)[i - 1] + amount[i]
<1> DEFINE f == Partial(n, c, amount)
<1>1. Runs(f, n, c, amount)
  BY RunsExist DEF Partial
<1> HIDE DEF f
<1>2. f = [i \in 0..n |-> IF i = 0 THEN c ELSE f[i - 1] + amount[i]]
  BY <1>1 DEF Runs
<1>3. f[0] = c /\ \A i \in 1..n : f[i] = f[i - 1] + amount[i]
  BY <1>2
<1>4. QED
  BY <1>1, <1>3 DEF f

LEMMA PartialType ==
  ASSUME NEW n \in Nat, NEW c \in Int, NEW amount, \A i \in 1..n : amount[i] \in Int
  PROVE  \A i \in 0..n : Partial(n, c, amount)[i] \in Int
<1> DEFINE f == Partial(n, c, amount)
           S == {i \in 0..n : f[i] \in Int}
<1>1. f[0] = c /\ \A i \in 1..n : f[i] = f[i - 1] + amount[i]
  BY PartialRuns
<1> HIDE DEF f
<1>2. 0 \in S /\ \A i \in 1..n : i - 1 \in S => i \in S
  BY <1>1
<1>3. 0..n \subseteq S
  <2> HIDE DEF S
  <2>1. QED
    BY <1>2, IntervalInduction
<1>4. QED
  BY <1>3 DEF f

\* Sums of amounts that differ at one place, from starts that differ, differ by
\* what these do.
LEMMA PartialMoves ==
  ASSUME NEW n \in Nat, NEW c \in Int, NEW x, NEW d \in Int, NEW y, NEW a \in 1..n,
         \A i \in 1..n : x[i] \in Int /\ y[i] \in Int,
         \A i \in 1..n : i # a => x[i] = y[i]
  PROVE  Partial(n, d, y)[n] - Partial(n, c, x)[n] = (d - c) + (y[a] - x[a])
<1> DEFINE f == Partial(n, c, x)
           g == Partial(n, d, y)
           S == {i \in 0..n : g[i] - f[i] = (d - c) + (IF i >= a THEN y[a] - x[a] ELSE 0)}
<1>1. f[0] = c /\ \A i \in 1..n : f[i] = f[i - 1] + x[i]
  BY PartialRuns
<1>2. g[0] = d /\ \A i \in 1..n : g[i] = g[i - 1] + y[i]
  BY PartialRuns
<1>3. \A i \in 0..n : f[i] \in Int /\ g[i] \in Int
  BY PartialType
<1> HIDE DEF f, g
<1>4. 0 \in S
  BY <1>1, <1>2
<1>5. ASSUME NEW i \in 1..n, i - 1 \in S PROVE i \in S
  <2>1. /\ g[i - 1] - f[i - 1] = (d - c) + (IF i - 1 >= a THEN y[a] - x[a] ELSE 0)
        /\ g[i] = g[i - 1] + y[i] /\ f[i] = f[i - 1] + x[i]
        /\ f[i - 1] \in Int /\ g[i - 1] \in Int /\ x[i] \in Int /\ y[i] \in Int
    BY <1>1, <1>2, <1>3, <1>5
  <2>2. x[a] \in Int /\ y[a] \in Int
    OBVIOUS
  <2>3. CASE i = a
    BY <2>1, <2>2, <2>3
  <2>4. CASE i # a
    <3>1. x[i] = y[i]
      BY <2>4
    <3>2. (i - 1 >= a) <=> (i >= a)
      BY <2>4
    <3>3. QED
      BY <2>1, <2>2, <3>1, <3>2
  <2>5. QED
    BY <2>3, <2>4
<1>6. 0..n \subseteq S
  <2> HIDE DEF S
  <2>1. QED
    BY <1>4, <1>5, IntervalInduction
<1>7. n \in S /\ n >= a
  BY <1>6
<1>8. QED
  BY <1>7 DEF f, g
-----------------------------------------------------------------------------
(* Products, which the provers find one law at a time *)

LEMMA Products ==
  /\ \A x, y \in Int : x * y \in Int
  /\ \A x, y, z \in Int : (x + y) * z = x * z + y * z
  /\ \A x, y, z \in Int : x * (y - z) = x * y - x * z
  /\ \A x, y \in Int : x >= 0 /\ y >= 0 => x * y >= 0
  /\ \A x, y \in Int : x <= 0 /\ y <= 0 => x * y >= 0
  /\ \A x, y \in Int : x >= 0 /\ y <= 0 => x * y <= 0
<1>1. \A x, y \in Int : x * y \in Int
  OBVIOUS
<1>2. \A x, y, z \in Int : (x + y) * z = x * z + y * z
  OBVIOUS
<1>3. \A x, y, z \in Int : x * (y - z) = x * y - x * z
  OBVIOUS
<1>4. \A x, y \in Int : x >= 0 /\ y >= 0 => x * y >= 0
  OBVIOUS
<1>5. \A x, y \in Int : x <= 0 /\ y <= 0 => x * y >= 0
  OBVIOUS
<1>6. \A x, y \in Int : x >= 0 /\ y <= 0 => x * y <= 0
  OBVIOUS
<1>7. QED
  BY <1>1, <1>2, <1>3, <1>4, <1>5, <1>6
=============================================================================
