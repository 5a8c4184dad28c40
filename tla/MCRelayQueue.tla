---------------------------- MODULE MCRelayQueue ----------------------------
(* Small instances of RelayQueue for TLC.                                   *)
EXTENDS RelayQueue, TLC

\* The doubling of backoffDuration with a one-tick base, capped by RetryMax.
MCBackoff == [a \in 1..MaxAttempts |-> IF 2 ^ (a - 1) > RetryMax THEN RetryMax
                                                            ELSE 2 ^ (a - 1)]

\* Workers and messages are interchangeable; used by runs with no liveness.
Interchangeable == Permutations(Workers) \cup Permutations(Messages)
=============================================================================
