--------------------------- MODULE BackoffProofs ----------------------------
(***************************************************************************)
(* What backoffDuration returns for every base, cap and attempt: a delay   *)
(* within bounds, and exactly the capped doubling its comment promises.    *)
(***************************************************************************)
EXTENDS Backoff, WellFoundedInduction, TLAPS

\* The inductive form of WithinBounds: past the first iteration the delay is
\* still below the cap, so doubling it stays within twice MaxDuration.
LoopInv == /\ attempt \in 1..MaxAttempt /\ i \in Nat
           /\ base \in 1..MaxDuration /\ max \in 1..MaxDuration
           /\ d \in Nat /\ d >= base
           /\ result = NotYet => d <= MaxDuration
           /\ result # NotYet => d <= 2 * MaxDuration
           /\ result = NotYet \/ (result \in 1..max /\ (base <= max => result >= base))

(* The loop keeps its bounds, since it leaves before the delay it doubles   *)
(* can exceed the cap.                                                      *)
LEMMA LoopStep == LoopInv /\ [Next]_vars => LoopInv'
<1> USE WidthAssumption DEF NotYet
<1> SUFFICES ASSUME LoopInv, [Next]_vars PROVE LoopInv'
  OBVIOUS
<1>1. CASE Iterate
  <2>1. d' = 2 * d /\ d' >= base /\ result = NotYet
    BY <1>1 DEF Iterate, Doubled, LoopInv
  <2>2. CASE d' >= max /\ Return(max) /\ UNCHANGED i
    BY <2>1, <2>2 DEF Return, LoopInv
  <2>3. CASE d' < max /\ i' = i + 1 /\ UNCHANGED <<attempt, base, max, result>>
    BY <2>1, <2>3 DEF LoopInv
  <2> QED
    BY <1>1, <2>2, <2>3 DEF Iterate
<1>2. CASE Finish
  BY <1>2 DEF Finish, Return, LoopInv
<1>3. CASE UNCHANGED vars
  BY <1>3 DEF vars, LoopInv
<1> QED
  BY <1>1, <1>2, <1>3 DEF Next

(* The delay handed to MarkRetry stays positive, at most the cap and at     *)
(* least a base below it, and the doubling never wraps.                     *)
THEOREM DelaysAreBounded == Spec => []WithinBounds
<1> USE WidthAssumption DEF NotYet
<1>1. Init => LoopInv
  BY DEF Init, LoopInv
<1>2. LoopInv => WithinBounds
  BY DEF LoopInv, WithinBounds
<1> QED
  BY <1>1, <1>2, LoopStep, PTL DEF Spec
-----------------------------------------------------------------------------
\* The order of the naturals, as a set of pairs.
Less == {p \in Nat \X Nat : p[1] < p[2]}

(* Induction over the naturals, for a set: were one missing from it, the    *)
(* least one missing would follow one that is not.                          *)
LEMMA Induction ==
  ASSUME NEW S, 0 \in S, \A n \in Nat : n \in S => n + 1 \in S
  PROVE  Nat \subseteq S
<1> DEFINE T == Nat \ S
<1> SUFFICES ASSUME T # {} PROVE FALSE
  OBVIOUS
<1>1. IsWellFoundedOn(Less, Nat)
  BY NatLessThanWellFounded DEF OpToRel, Less
<1>2. PICK x \in T : \A y \in T : ~ (<<y, x>> \in Less)
  <2>1. T \subseteq Nat
    OBVIOUS
  <2> QED
    BY <1>1, <2>1, WFMin
<1>3. x # 0 /\ x - 1 \in Nat
  OBVIOUS
<1>4. x - 1 \in T
  BY <1>3
<1>5. <<x - 1, x>> \in Less
  BY <1>3 DEF Less
<1> QED
  BY <1>2, <1>4, <1>5

\* The tables of the powers of two up to n.
Table(n) == {f \in [0..n -> Nat] :
               \A m \in 0..n : f[m] = IF m = 0 THEN 1 ELSE 2 * f[m - 1]}

(* Every n has a table.                                                     *)
LEMMA TableExists == \A n \in Nat : Table(n) # {}
<1> DEFINE S == {n \in Nat : Table(n) # {}}
<1>1. 0 \in S
  <2> DEFINE f == [m \in 0..0 |-> 1]
  <2>1. f \in Table(0)
    BY DEF Table
  <2> QED
    BY <2>1
<1>2. ASSUME NEW n \in Nat, n \in S PROVE n + 1 \in S
  <2>1. PICK f \in Table(n) : TRUE
    BY <1>2
  <2> DEFINE g == [m \in 0..(n + 1) |-> IF m <= n THEN f[m] ELSE 2 * f[n]]
  <2>2. /\ f \in [0..n -> Nat]
        /\ \A m \in 0..n : f[m] = IF m = 0 THEN 1 ELSE 2 * f[m - 1]
    BY <2>1 DEF Table
  <2>3. g \in [0..(n + 1) -> Nat]
    BY <2>2
  <2>4. ASSUME NEW m \in 0..(n + 1)
        PROVE  g[m] = IF m = 0 THEN 1 ELSE 2 * g[m - 1]
    <3>1. CASE m = n + 1
      BY <3>1
    <3>2. CASE m <= n
      <4>1. m \in 0..n /\ g[m] = f[m] /\ (m # 0 => g[m - 1] = f[m - 1])
        BY <3>2
      <4> QED
        BY <2>2, <4>1
    <3> QED
      BY <3>1, <3>2
  <2>5. g \in Table(n + 1)
    BY <2>3, <2>4 DEF Table
  <2> QED
    BY <2>5
<1> HIDE DEF S
<1>3. Nat \subseteq S
  BY <1>1, <1>2, Induction
<1> QED
  BY <1>3 DEF S

(* Two tables agree where both are defined.                                 *)
LEMMA TablesAgree ==
  ASSUME NEW a \in Nat, NEW b \in Nat, NEW f \in Table(a), NEW g \in Table(b),
         NEW m \in Nat, m <= a, m <= b
  PROVE  f[m] = g[m]
<1> DEFINE S == {n \in Nat : n <= a /\ n <= b => f[n] = g[n]}
<1>1. /\ \A n \in 0..a : f[n] = IF n = 0 THEN 1 ELSE 2 * f[n - 1]
      /\ \A n \in 0..b : g[n] = IF n = 0 THEN 1 ELSE 2 * g[n - 1]
  BY DEF Table
<1>2. 0 \in S
  BY <1>1
<1>3. ASSUME NEW n \in Nat, n \in S PROVE n + 1 \in S
  <2> SUFFICES ASSUME n + 1 <= a, n + 1 <= b PROVE f[n + 1] = g[n + 1]
    OBVIOUS
  <2>1. f[n] = g[n]
    BY <1>3
  <2>2. f[n + 1] = 2 * f[n] /\ g[n + 1] = 2 * g[n]
    BY <1>1
  <2> QED
    BY <2>1, <2>2
<1> HIDE DEF S
<1>4. Nat \subseteq S
  BY <1>2, <1>3, Induction
<1> QED
  BY <1>4 DEF S

(* The powers of two are the function their recursive definition says.      *)
LEMMA PowerUnfolds ==
  Power = [n \in Nat |-> IF n = 0 THEN 1 ELSE 2 * Power[n - 1]]
<1> DEFINE table(n) == CHOOSE f \in Table(n) : TRUE
           h == [n \in Nat |-> table(n)[n]]
<1>1. \A n \in Nat : table(n) \in Table(n)
  BY TableExists
<1> HIDE DEF table
<1>2. ASSUME NEW n \in Nat PROVE h[n] = IF n = 0 THEN 1 ELSE 2 * h[n - 1]
  <2>1. table(n)[n] = IF n = 0 THEN 1 ELSE 2 * table(n)[n - 1]
    BY <1>1 DEF Table
  <2>2. n # 0 => table(n)[n - 1] = table(n - 1)[n - 1]
    <3> SUFFICES ASSUME n # 0 PROVE table(n)[n - 1] = table(n - 1)[n - 1]
      OBVIOUS
    <3>1. n - 1 \in Nat /\ n - 1 <= n /\ n - 1 <= n - 1
      OBVIOUS
    <3> QED
      BY <1>1, <3>1, TablesAgree
  <2>3. n # 0 => n - 1 \in Nat
    OBVIOUS
  <2> QED
    BY <2>1, <2>2, <2>3
<1>3. h = [n \in Nat |-> IF n = 0 THEN 1 ELSE 2 * h[n - 1]]
  BY <1>2
<1> HIDE DEF h
<1>4. \E f : f = [n \in Nat |-> IF n = 0 THEN 1 ELSE 2 * f[n - 1]]
  BY <1>3
<1> QED
  BY <1>4 DEF Power

(* They begin with one and double, and so are positive and never fall.      *)
LEMMA PowersDouble ==
  /\ Power[0] = 1
  /\ \A n \in Nat : Power[n + 1] = 2 * Power[n] /\ Power[n] \in Nat \ {0}
<1>1. Power[0] = 1
  BY PowerUnfolds
<1>2. ASSUME NEW n \in Nat PROVE Power[n + 1] = 2 * Power[n]
  <2>1. n + 1 \in Nat /\ n + 1 # 0 /\ (n + 1) - 1 = n
    OBVIOUS
  <2> QED
    BY <2>1, PowerUnfolds
<1> DEFINE S == {n \in Nat : Power[n] \in Nat \ {0}}
<1>3. 0 \in S /\ \A n \in Nat : n \in S => n + 1 \in S
  BY <1>1, <1>2
<1> HIDE DEF S
<1>4. Nat \subseteq S
  BY <1>3, Induction
<1> QED
  BY <1>1, <1>2, <1>4 DEF S

LEMMA PowersGrow ==
  ASSUME NEW a \in Nat, NEW b \in Nat, a <= b
  PROVE  Power[a] <= Power[b]
<1> DEFINE S == {n \in Nat : Power[a] <= Power[a + n]}
<1>1. 0 \in S
  BY PowersDouble
<1>2. ASSUME NEW n \in Nat, n \in S PROVE n + 1 \in S
  <2>1. /\ Power[a + n + 1] = 2 * Power[a + n]
        /\ Power[a + n] \in Nat /\ Power[a] \in Nat
    BY PowersDouble
  <2> QED
    BY <1>2, <2>1
<1> HIDE DEF S
<1>3. Nat \subseteq S
  BY <1>1, <1>2, Induction
<1>4. b - a \in S
  BY <1>3
<1> QED
  BY <1>4 DEF S

\* The delay of the i-th round is base doubled i - 1 times, and the loop ends
\* with the capped doubling, early or not.
Doubling == /\ LoopInv /\ i >= 1
            /\ result = NotYet => i <= attempt /\ d = base * Power[i - 1]
            /\ result # NotYet => result = Capped(attempt, base, max)

(* Leaving the loop early changes nothing: the delay, at the cap or above   *)
(* it already, could only grow.                                             *)
LEMMA EarlyReturn ==
  ASSUME Doubling, result = NotYet, i < attempt, 2 * d >= max
  PROVE  Capped(attempt, base, max) = max
<1>1. /\ attempt \in Nat /\ i \in Nat /\ i >= 1 /\ base \in Nat /\ max \in Nat
      /\ d = base * Power[i - 1]
  BY WidthAssumption DEF Doubling, LoopInv
<1>2. Power[i] = 2 * Power[i - 1] /\ Power[i - 1] \in Nat /\ Power[i] \in Nat
  <2>1. i - 1 \in Nat /\ (i - 1) + 1 = i
    BY <1>1
  <2> QED
    BY <1>1, <2>1, PowersDouble
<1>3. Power[i] <= Power[attempt - 1] /\ Power[attempt - 1] \in Nat
  <2>1. attempt - 1 \in Nat /\ i <= attempt - 1
    BY <1>1
  <2> QED
    BY <1>1, <2>1, PowersGrow, PowersDouble
<1>4. 2 * d = base * Power[i]
  BY <1>1, <1>2
<1>5. base * Power[i] <= base * Power[attempt - 1]
  BY <1>1, <1>2, <1>3
<1>6. base * Power[attempt - 1] >= max /\ base * Power[attempt - 1] \in Nat
  BY <1>1, <1>2, <1>3, <1>4, <1>5
<1> QED
  BY <1>1, <1>6 DEF Capped

(* The loop computes the capped doubling for every attempt, base and cap.   *)
THEOREM DelaysDouble == Spec => []DoublesUpToCap
<1> USE WidthAssumption
<1>1. Init => Doubling
  <2> SUFFICES ASSUME Init PROVE Doubling
    OBVIOUS
  <2>1. LoopInv /\ i = 1 /\ d = base /\ result = NotYet /\ i <= attempt
    BY DEF Init, LoopInv, NotYet
  <2>2. d = base * Power[i - 1]
    BY <2>1, PowersDouble DEF LoopInv
  <2> QED
    BY <2>1, <2>2 DEF Doubling
<1>2. Doubling /\ [Next]_vars => Doubling'
  <2> SUFFICES ASSUME Doubling, [Next]_vars PROVE Doubling'
    OBVIOUS
  <2>1. LoopInv'
    BY LoopStep DEF Doubling
  <2>2. CASE Iterate
    <3>1. /\ d' = 2 * d /\ result = NotYet /\ i < attempt
          /\ UNCHANGED <<attempt, base, max>>
      BY <2>2 DEF Iterate, Doubled, LoopInv, Doubling, Return
    <3>2. CASE d' >= max /\ Return(max) /\ UNCHANGED i
      <4>1. Capped(attempt, base, max) = max /\ result' = max
        BY <3>1, <3>2, EarlyReturn DEF Return
      <4>2. result' # NotYet /\ i' >= 1
        BY <3>2, <4>1 DEF Doubling, LoopInv, NotYet
      <4> QED
        BY <2>1, <3>1, <4>1, <4>2 DEF Doubling, Capped
    <3>3. CASE d' < max /\ i' = i + 1 /\ UNCHANGED <<attempt, base, max, result>>
      <4>1. /\ i \in Nat /\ i >= 1 /\ attempt \in Nat /\ base \in Nat
            /\ d = base * Power[i - 1]
        BY <3>1 DEF Doubling, LoopInv
      <4>2. Power[i' - 1] = 2 * Power[i - 1] /\ Power[i - 1] \in Nat
        <5>1. i - 1 \in Nat /\ (i - 1) + 1 = i /\ i' - 1 = i
          BY <3>3, <4>1
        <5> QED
          BY <5>1, PowersDouble
      <4>3. d' = base' * Power[i' - 1]
        BY <3>1, <3>3, <4>1, <4>2
      <4> QED
        BY <2>1, <3>1, <3>3, <4>1, <4>3 DEF Doubling
    <3> QED
      BY <2>2, <3>2, <3>3 DEF Iterate
  <2>3. CASE Finish
    <3>1. /\ i = attempt /\ d = base * Power[attempt - 1] /\ i' = i
          /\ result' = (IF d > max THEN max ELSE d)
          /\ UNCHANGED <<attempt, base, max>>
      BY <2>3 DEF Finish, Return, Doubling, LoopInv
    <3>2. result' = Capped(attempt, base, max)' /\ result' # NotYet
      BY <3>1 DEF Capped, Doubling, LoopInv, NotYet
    <3> QED
      BY <2>1, <3>1, <3>2 DEF Doubling
  <2>4. CASE UNCHANGED vars
    BY <2>1, <2>4 DEF vars, Doubling, Capped
  <2> QED
    BY <2>2, <2>3, <2>4 DEF Next
<1>3. Doubling => DoublesUpToCap
  BY DEF Doubling, DoublesUpToCap
<1> QED
  BY <1>1, <1>2, <1>3, PTL DEF Spec

(* What RelayQueue assumes of its constant Backoff, in whatever unit: for   *)
(* every positive base and cap the capped doubling is a table of positive   *)
(* delays up to the cap, and a later attempt never waits less.              *)
THEOREM DelaysSuitTheQueue ==
  ASSUME NEW n \in Nat, NEW b \in Nat \ {0}, NEW m \in Nat \ {0}
  PROVE  /\ [a \in 1..n |-> Capped(a, b, m)] \in [1..n -> 1..m]
         /\ \A a, c \in 1..n : a <= c => Capped(a, b, m) <= Capped(c, b, m)
<1>1. ASSUME NEW a \in 1..n
      PROVE  /\ Power[a - 1] \in Nat \ {0}
             /\ b * Power[a - 1] \in Nat \ {0}
             /\ Capped(a, b, m) \in 1..m
  <2>1. Power[a - 1] \in Nat \ {0}
    BY PowersDouble
  <2>2. b * Power[a - 1] \in Nat \ {0}
    BY <2>1
  <2> QED
    BY <2>1, <2>2 DEF Capped
<1>2. ASSUME NEW a \in 1..n, NEW c \in 1..n, a <= c
      PROVE  Capped(a, b, m) <= Capped(c, b, m)
  <2>1. Power[a - 1] <= Power[c - 1]
    BY <1>2, PowersGrow
  <2>2. ASSUME NEW x \in Nat, NEW y \in Nat, x <= y PROVE b * x <= b * y
    BY <2>2
  <2>3. b * Power[a - 1] <= b * Power[c - 1]
    BY <1>1, <2>1, <2>2
  <2> QED
    BY <1>1, <2>3 DEF Capped
<1> QED
  BY <1>1, <1>2
=============================================================================
