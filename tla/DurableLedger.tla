---------------------------- MODULE DurableLedger ----------------------------
(***************************************************************************)
(* The ledger on a machine that may lose power.  What the relay said last  *)
(* stands at once but reaches the disk later, and a failure takes it back  *)
(* to what did: never further, and never to anything it had not said.  What*)
(* Gmail took stays taken, and an id a failure took back is not used again.*)
(* PowerLoss is shown to implement it.                                     *)
(***************************************************************************)
EXTENDS Ledger

VARIABLES durable,   \* the verdicts that a power failure would leave
          gone       \* ids whose message a power failure took back

durableVars == <<verdict, deliveries, durable, gone>>

DurableInit == Init /\ durable = verdict /\ gone = {}

(* Work goes on as on a machine that does not fail.                         *)
Proceed == /\ Next
           /\ \A m \in gone : verdict'[m] = verdict[m]
           /\ UNCHANGED <<durable, gone>>

(* All that was said so far reaches the disk.                               *)
Persist == durable' = verdict /\ UNCHANGED <<verdict, deliveries, gone>>

(* The power fails.                                                         *)
Lose == /\ verdict' = durable
        /\ gone' = gone \cup
             {m \in Messages : verdict[m] # "unknown" /\ durable[m] = "unknown"}
        /\ UNCHANGED <<deliveries, durable>>

DurableNext == Proceed \/ Persist \/ Lose

DurableSpec == DurableInit /\ [][DurableNext]_durableVars
-----------------------------------------------------------------------------
(* Nothing is ever called sent that Gmail did not take, not even after a    *)
(* failure took the verdict back and the disk brought an older one.         *)
SentWasDelivered ==
  \A m \in Messages : "sent" \in {verdict[m], durable[m]} => deliveries[m] > 0

(* A verdict on the disk is the last word.                                  *)
DurableVerdictsStand ==
  \A m \in Messages : durable[m] \in {"sent", "failed"} => verdict[m] = durable[m]
=============================================================================
