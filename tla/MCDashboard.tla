----------------------------- MODULE MCDashboard -----------------------------
(* Dashboard on a small instance; see dashboard.cfg.                         *)
EXTENDS Dashboard, TLC

CONSTANTS m1, m2, w1, w2

OneTick == [a \in 1..MaxAttempts |-> 1]

\* Workers and messages are interchangeable, and the run has no liveness.
Interchangeable == Permutations(Workers) \cup Permutations(Messages)
=============================================================================
