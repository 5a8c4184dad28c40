------------------------------ MODULE PowerLoss ------------------------------
(***************************************************************************)
(* The outbound queue on a machine that may lose power.  The store runs    *)
(* SQLite with journal_mode = WAL and synchronous = NORMAL: a commit is    *)
(* visible at once but reaches the disk later, in commit order, and a      *)
(* power failure takes the table back to the last commit that did.         *)
(***************************************************************************)
EXTENDS RelayQueue

VARIABLES
  disk,       \* the rows as they would be found after a power failure
  forgotten,  \* messages whose row a power failure took back altogether
  takenBack   \* takenBack[m]: how often one took back m's claim and what followed

medium == <<disk, forgotten, takenBack>>

Table == [status |-> status, attempts |-> attempts, createdAt |-> createdAt,
          wait |-> wait, age |-> age]

\* Messages a worker claimed and did not give back.
Taken(st) == {m \in Messages : st[m] \in {"processing", "sent"}}

MediumInit == /\ disk = Table
              /\ forgotten = {}
              /\ takenBack = [m \in Messages |-> 0]

(* The log reaches the disk: with a checkpoint, when the system writes its  *)
(* pages back, or with a commit of one of the pool's later connections,     *)
(* which the PRAGMA did not reach and which sync.                           *)
Sync == disk' = Table /\ UNCHANGED <<vars, forgotten, takenBack>>

(* The power fails, and with it the process.                                *)
PowerFail ==
  /\ Stop
  /\ status' = disk.status
  /\ attempts' = disk.attempts
  /\ createdAt' = disk.createdAt
  /\ wait' = disk.wait
  /\ age' = disk.age
  /\ proc' = "down"
  /\ pc' = [w \in Workers |-> "idle"]
  /\ job' = [w \in Workers |-> NoMessage]
  /\ jobAttempts' = [w \in Workers |-> 0]
  /\ stale' = {}
  /\ forgotten' = forgotten \cup
       {m \in Messages : status[m] # "none" /\ disk.status[m] = "none"}
  /\ takenBack' = [m \in Messages |->
       takenBack[m] + IF m \in Taken(status) \ Taken(disk.status) THEN 1 ELSE 0]
  /\ UNCHANGED <<disk, faults, history>>

(* One unit of time, for the rows on the disk too: wait and age are         *)
(* relative to now.                                                         *)
TickBoth ==
  /\ Tick
  /\ disk' = [disk EXCEPT
       !.wait = [m \in Messages |-> IF @[m] > 0 THEN @[m] - 1 ELSE 0],
       !.age = [m \in Messages |-> IF disk.status[m] = "processing" /\ @[m] <= StuckTimeout
                                     THEN @[m] + 1 ELSE @[m]]]
  /\ UNCHANGED <<forgotten, takenBack>>
-----------------------------------------------------------------------------
(* Also where the power fails, every delivery beyond the first has a cause: *)
(* a lost answer, a recovery, or a failure that took back a claim.  Such a  *)
(* failure costs at most one more delivery of each message.                 *)
DeliveriesStillExplained ==
  \A m \in Messages :
    delivered[m] <= lost[m] + recovered[m] + takenBack[m]
                      + (IF m \in Taken(status) THEN 1 ELSE 0)

(* What has reached the disk is never withdrawn, by a recovery or a worker  *)
(* before the failure or after it: messages, attempts and verdicts.         *)
DiskIsKept ==
  \A m \in Messages :
    /\ disk.status[m] # "none" => status[m] # "none"
    /\ disk.status[m] \in {"sent", "failed"} => status[m] = disk.status[m]
    /\ disk.attempts[m] <= attempts[m]

(* The client's view of a machine that may lose power: beside the ledger's  *)
(* steps, a failure takes the rows back to the disk, and nothing else does. *)
D == INSTANCE DurableLedger
       WITH verdict <- [m \in Messages |-> Verdict(status[m])],
            deliveries <- delivered,
            durable <- [m \in Messages |-> Verdict(disk.status[m])],
            gone <- forgotten

ImplementsDurableLedger == D!DurableSpec
=============================================================================
