------------------------------- MODULE MCRelay -------------------------------
(* Relay on a small instance; see relay.cfg.                                 *)
EXTENDS Relay, TLC

CONSTANTS m1, m2, s1, s2, w1

\* backoffDuration with a base and a cap of one tick.
OneTick == [a \in 1..MaxAttempts |-> 1]
=============================================================================
