------------------------------- MODULE Ledger -------------------------------
(***************************************************************************)
(* What the relay owes a client it answered 250: the message is taken once,*)
(* handed to Gmail only while no verdict has been given, called sent only  *)
(* after Gmail took it, and its verdict is never withdrawn.  Workers,      *)
(* claims, retries, crashes and restarts are below this level; RelayQueue  *)
(* is shown to implement it.                                               *)
(***************************************************************************)
EXTENDS Naturals

CONSTANT Messages

VARIABLES verdict,     \* verdict[m]: what the relay last said of m
          deliveries   \* deliveries[m]: how often Gmail took m

ledgerVars == <<verdict, deliveries>>

Init == /\ verdict = [m \in Messages |-> "unknown"]
        /\ deliveries = [m \in Messages |-> 0]

Accept(m) == /\ verdict[m] = "unknown"
             /\ verdict' = [verdict EXCEPT ![m] = "owed"]
             /\ UNCHANGED deliveries

Deliver(m) == /\ verdict[m] = "owed"
              /\ deliveries' = [deliveries EXCEPT ![m] = @ + 1]
              /\ UNCHANGED verdict

Complete(m) == /\ verdict[m] = "owed"
               /\ deliveries[m] > 0
               /\ verdict' = [verdict EXCEPT ![m] = "sent"]
               /\ UNCHANGED deliveries

GiveUp(m) == /\ verdict[m] = "owed"
             /\ verdict' = [verdict EXCEPT ![m] = "failed"]
             /\ UNCHANGED deliveries

Next == \E m \in Messages : Accept(m) \/ Deliver(m) \/ Complete(m) \/ GiveUp(m)

Spec == Init /\ [][Next]_ledgerVars
=============================================================================
