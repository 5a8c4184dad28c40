-------------------------------- MODULE Relay --------------------------------
(***************************************************************************)
(* The relay as main.go puts it together: the SMTP front end, as Admission *)
(* specifies it, and the queue with its workers, joined by the rows.  A    *)
(* session's INSERT is the queue's Enqueue; the backlog it looks at is     *)
(* BacklogCount over the rows, whichever process wrote them; the workers'  *)
(* verdicts make room; one context stops both, and the process exits when  *)
(* the sessions are gone.                                                  *)
(***************************************************************************)
EXTENDS PowerLoss, FiniteSets

CONSTANTS Sessions,        \* clients, one connection at a time each
          MaxConnections,  \* SMTP_MAX_CONNECTIONS
          MaxBacklog       \* QUEUE_MAX_BACKLOG

ASSUME ClientsAssumption == IsFiniteSet(Sessions) /\ IsFiniteSet(Messages)
ASSUME RoomAssumption == /\ MaxConnections \in Nat \ {0}
                         /\ MaxBacklog \in Nat \ {0}

VARIABLE stage  \* each client: away, ready for a command, or receiving

relayVars == <<vars, medium, stage>>

\* Mutant of BacklogCount: a row a worker holds, or left behind, is not counted.
WaitingCount == Cardinality({m \in Messages : status[m] = "pending"})

BacklogCount == Cardinality({m \in Messages : status[m] \in {"pending", "processing"}})

A == INSTANCE Admission WITH backlog <- BacklogCount, stopping <- proc = "stopping"

\* Sessions whose message is on its way: they do not look at the backlog again.
Receivers == {s \in Sessions : stage[s] = "receiving"}

NobodyInside == [s \in Sessions |-> "away"]

RelayInit == Init /\ MediumInit /\ stage = NobodyInside
-----------------------------------------------------------------------------
(* A client connects, asks, or goes, without a message being stored.        *)
Serve(s) ==
  /\ UNCHANGED <<vars, medium>>
  /\ \/ proc = "up" /\ A!Admit(s)
     \/ A!Leave(s) \/ A!Receive(s) \/ A!GiveUp(s)

(* The message of a DATA is stored under a new id and answered 250.         *)
Submit(s) ==
  /\ \E m \in Messages \ forgotten : Enqueue(m)
  /\ UNCHANGED medium
  /\ A!Insert(s)

Work(w) == WorkerStep(w) /\ UNCHANGED <<medium, stage>>

SignalStop == Shutdown /\ UNCHANGED <<medium, stage>>

\* Mutant of Return: main returns only once the queue is empty too.
ReturnWhenEmpty == /\ stage = NobodyInside /\ BacklogCount = 0
                   /\ Exit /\ UNCHANGED <<medium, stage>>

(* server.Run has waited for the sessions, and main returns.                *)
Return == stage = NobodyInside /\ Exit /\ UNCHANGED <<medium, stage>>

(* The process goes down with its sessions: it crashes, is killed before    *)
(* the shutdown is over, or the power fails.                                *)
GoDown == /\ \/ (Crash \/ Exit) /\ UNCHANGED medium
             \/ PowerFail
          /\ stage' = NobodyInside

Begin == (Start \/ StartFails) /\ UNCHANGED <<medium, stage>>

RelayNext == \/ \E s \in Sessions : Serve(s) \/ Submit(s)
             \/ \E w \in Workers : Work(w)
             \/ SignalStop \/ Return \/ GoDown \/ Begin
             \/ (TickBoth \/ Sync) /\ UNCHANGED stage

\* As for the queue and the front end; the orderly return is what ends a
\* stopping process if nothing else does.
RelayFairness ==
  /\ WF_relayVars(TickBoth /\ UNCHANGED stage)
  /\ WF_relayVars(Start /\ UNCHANGED <<medium, stage>>)
  /\ WF_relayVars(Return)
  /\ \A w \in Workers : WF_relayVars(Work(w))
  /\ \A s \in Sessions :
       WF_relayVars(\/ proc = "stopping" /\ Serve(s)
                    \/ proc = "stopping" /\ Submit(s))

RelaySpec == RelayInit /\ [][RelayNext]_relayVars /\ RelayFairness
-----------------------------------------------------------------------------
RelayTypeOK ==
  /\ TypeOK
  /\ disk \in [status: [Messages -> Statuses], attempts: [Messages -> Nat],
               createdAt: [Messages -> Nat], wait: [Messages -> 0..RetryMax],
               age: [Messages -> 0..StuckTimeout + 1]]
  /\ forgotten \subseteq Messages
  /\ takenBack \in [Messages -> Nat]
  /\ stage \in [Sessions -> {"away", "ready", "receiving"}]

(* QUEUE_MAX_BACKLOG over the rows themselves, whichever processes wrote    *)
(* them: each session that was told 354 is good for one more row, so those  *)
(* that saw the same room overshoot the limit by less than their number,    *)
(* and no retry, recovery, restart or power failure adds to that.           *)
BacklogWithinLimits ==
  BacklogCount + Cardinality(Receivers) < MaxBacklog + MaxConnections

(* Until the process goes down again the rows, the sessions and the signal  *)
(* move only as Admission allows: no recovery at the start, no failed mark  *)
(* and no retry changes the backlog under the sessions' feet, and only a    *)
(* verdict makes room.                                                      *)
KeepsAdmission ==
  [][proc' # "down" => [A!Next]_(A!vars)]_<<stage, BacklogCount, proc>>

(* A relay that refuses mail for want of room takes mail again, unless a    *)
(* row is left processing with nobody at work on it.                        *)
RoomReturns ==
  BacklogCount >= MaxBacklog ~> \/ BacklogCount < MaxBacklog
                                \/ \E m \in Messages : Stranded(m)

(* A signalled process comes down by itself, however its clients and        *)
(* workers stand, and whatever is left in the queue.                        *)
ShutdownCompletes == proc = "stopping" ~> proc = "down"
=============================================================================
