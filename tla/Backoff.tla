------------------------------ MODULE Backoff -------------------------------
(***************************************************************************)
(* backoffDuration of internal/worker/runner.go, iteration by iteration:   *)
(* the delay before a retry doubles with every attempt up to a cap, in     *)
(* signed integers whose largest value is MaxInt.  RelayQueue takes the    *)
(* result as its constant Backoff.                                         *)
(***************************************************************************)
EXTENDS Integers

CONSTANTS MaxAttempt,    \* bound on the attempt argument
          MaxDuration,   \* bound on the configured base and cap
          MaxInt         \* the largest time.Duration

ASSUME WidthAssumption == /\ MaxAttempt \in Nat \ {0}
                          /\ MaxDuration \in Nat \ {0}
                          /\ MaxInt \in Nat
                          /\ 2 * MaxDuration <= MaxInt

VARIABLES attempt, base, max,   \* the arguments, positive as NewRunner requires
          i, d,                 \* the loop
          result                \* the returned duration, NotYet before

NotYet == -1

vars == <<attempt, base, max, i, d, result>>

Init == /\ attempt \in 1..MaxAttempt
        /\ base \in 1..MaxDuration
        /\ max \in 1..MaxDuration
        /\ i = 1 /\ d = base
        /\ result = NotYet

\* Two's complement doubling.
Doubled(x) == IF 2 * x > MaxInt THEN 2 * x - 2 * (MaxInt + 1) ELSE 2 * x

Return(x) == result' = x /\ UNCHANGED <<attempt, base, max>>

\* Mutant of Iterate: the cap is left to the end.
IterateUncapped == /\ result = NotYet /\ i < attempt
                   /\ d' = Doubled(d)
                   /\ i' = i + 1
                   /\ UNCHANGED <<attempt, base, max, result>>

(* One iteration, which returns the cap as soon as it is reached.           *)
Iterate == /\ result = NotYet /\ i < attempt
           /\ d' = Doubled(d)
           /\ \/ d' >= max /\ Return(max) /\ UNCHANGED i
              \/ /\ d' < max /\ i' = i + 1
                 /\ UNCHANGED <<attempt, base, max, result>>

\* Mutant of Finish: the cap is not applied after the loop.
FinishUncapped == /\ result = NotYet /\ i >= attempt
                  /\ Return(d)
                  /\ UNCHANGED <<i, d>>

(* The loop is done.                                                        *)
Finish == /\ result = NotYet /\ i >= attempt
          /\ Return(IF d > max THEN max ELSE d)
          /\ UNCHANGED <<i, d>>

Next == Iterate \/ Finish

Spec == Init /\ [][Next]_vars
-----------------------------------------------------------------------------
Power[n \in Nat] == IF n = 0 THEN 1 ELSE 2 * Power[n - 1]

\* What the comment of backoffDuration promises: base, 2*base, 4*base, ...
Capped(a, b, m) == LET x == b * Power[a - 1] IN IF x > m THEN m ELSE x

(* The loop computes the capped doubling for every attempt, base and cap.   *)
DoublesUpToCap == result # NotYet => result = Capped(attempt, base, max)

(* The delay handed to MarkRetry is positive and at most the cap, and at    *)
(* least the base when that is below the cap; the doubling never wraps.     *)
WithinBounds == /\ d \in 1..MaxInt
                /\ result # NotYet => /\ result \in 1..max
                                      /\ base <= max => result >= base
=============================================================================
