------------------------- MODULE DurableLedgerProofs -------------------------
(***************************************************************************)
(* What a client may rely on where the power can fail, proved of the       *)
(* abstract ledger; RelayProofs carries it over to the relay, which        *)
(* implements the ledger.                                                  *)
(***************************************************************************)
EXTENDS DurableLedger, TLAPS

Verdicts == {"unknown", "owed", "sent", "failed"}

\* A message on the disk is one the relay still owes something or has settled.
DurableInv == /\ verdict \in [Messages -> Verdicts]
              /\ durable \in [Messages -> Verdicts]
              /\ deliveries \in [Messages -> Nat]
              /\ SentWasDelivered
              /\ DurableVerdictsStand

(* Every step keeps it: a verdict is given once and stands until the power  *)
(* fails, and what the disk then brings back was a verdict before.          *)
LEMMA DurableStep == DurableInv /\ [DurableNext]_durableVars => DurableInv'
<1> USE DEF DurableInv, Verdicts, SentWasDelivered, DurableVerdictsStand
<1> SUFFICES ASSUME DurableInv, [DurableNext]_durableVars PROVE DurableInv'
  OBVIOUS
<1>1. ASSUME NEW m \in Messages, Accept(m), UNCHANGED durable PROVE DurableInv'
  BY <1>1 DEF Accept
<1>2. ASSUME NEW m \in Messages, Deliver(m), UNCHANGED durable PROVE DurableInv'
  BY <1>2 DEF Deliver
<1>3. ASSUME NEW m \in Messages, Complete(m), UNCHANGED durable PROVE DurableInv'
  BY <1>3 DEF Complete
<1>4. ASSUME NEW m \in Messages, GiveUp(m), UNCHANGED durable PROVE DurableInv'
  BY <1>4 DEF GiveUp
<1>5. CASE Proceed
  BY <1>1, <1>2, <1>3, <1>4, <1>5 DEF Proceed, Next
<1>6. CASE Persist
  BY <1>6 DEF Persist
<1>7. CASE Lose
  BY <1>7 DEF Lose
<1>8. CASE UNCHANGED durableVars
  BY <1>8 DEF durableVars
<1> QED
  BY <1>5, <1>6, <1>7, <1>8 DEF DurableNext

(* What is called sent, now or after any power failure, Gmail took; and a   *)
(* verdict that reached the disk is never withdrawn.                        *)
THEOREM DurableLedgerKeepsItsWord ==
  DurableSpec => [](SentWasDelivered /\ DurableVerdictsStand)
<1>1. DurableInit => DurableInv
  BY DEF DurableInit, Init, DurableInv, Verdicts, SentWasDelivered,
         DurableVerdictsStand
<1>2. DurableInv => SentWasDelivered /\ DurableVerdictsStand
  BY DEF DurableInv
<1> QED
  BY <1>1, <1>2, DurableStep, PTL DEF DurableSpec
=============================================================================
