------------------------------ MODULE Admission ------------------------------
(***************************************************************************)
(* What the SMTP front end promises the queue: who may be inside the       *)
(* server, how far the backlog is looked at before a message is received,  *)
(* and that after a shutdown signal each session does no more than finish  *)
(* what it is doing.  SmtpSession implements it; Relay composes it with    *)
(* the queue whose rows are the backlog.                                   *)
(***************************************************************************)
EXTENDS Naturals, FiniteSets

CONSTANTS Sessions,        \* clients, one connection at a time each
          MaxConnections,  \* SMTP_MAX_CONNECTIONS
          MaxBacklog       \* QUEUE_MAX_BACKLOG

VARIABLES stage,    \* away, ready for a command, or receiving a message
          backlog,  \* rows pending or processing
          stopping  \* the shutdown has been signalled

vars == <<stage, backlog, stopping>>

Inside == {s \in Sessions : stage[s] # "away"}

Init == /\ stage = [s \in Sessions |-> "away"]
        /\ backlog = 0
        /\ stopping = FALSE

(* A connection got a slot and its greeting.                                *)
Admit(s) == /\ ~stopping
            /\ stage[s] = "away"
            /\ Cardinality(Inside) < MaxConnections
            /\ stage' = [stage EXCEPT ![s] = "ready"]
            /\ UNCHANGED <<backlog, stopping>>

(* The session ends, whatever it was doing.                                 *)
Leave(s) == /\ stage[s] # "away"
            /\ stage' = [stage EXCEPT ![s] = "away"]
            /\ UNCHANGED <<backlog, stopping>>

\* Mutant of Receive: > for >= in the test of the backlog.
ReceiveOneMore(s) == /\ stage[s] = "ready"
                     /\ backlog <= MaxBacklog
                     /\ stage' = [stage EXCEPT ![s] = "receiving"]
                     /\ UNCHANGED <<backlog, stopping>>

(* DATA finds room and is answered 354.                                     *)
Receive(s) == /\ stage[s] = "ready"
              /\ backlog < MaxBacklog
              /\ stage' = [stage EXCEPT ![s] = "receiving"]
              /\ UNCHANGED <<backlog, stopping>>

(* The message is not stored, and the session goes on.                      *)
GiveUp(s) == /\ ~stopping
             /\ stage[s] = "receiving"
             /\ stage' = [stage EXCEPT ![s] = "ready"]
             /\ UNCHANGED <<backlog, stopping>>

(* The message is stored; a stopping server then ends the session.          *)
Insert(s) == /\ stage[s] = "receiving"
             /\ backlog' = backlog + 1
             /\ stage' = [stage EXCEPT ![s] = IF stopping THEN "away" ELSE "ready"]
             /\ UNCHANGED stopping

(* A worker's verdict takes a row out of the backlog.                       *)
Drain == /\ ~stopping
         /\ backlog > 0
         /\ backlog' = backlog - 1
         /\ UNCHANGED <<stage, stopping>>

Signal == /\ ~stopping
          /\ stopping' = TRUE
          /\ UNCHANGED <<stage, backlog>>

Next == \/ \E s \in Sessions : \/ Admit(s) \/ Leave(s)
                               \/ Receive(s) \/ GiveUp(s) \/ Insert(s)
        \/ Drain \/ Signal

\* Once the shutdown is signalled every session comes to its end.
Fairness == \A s \in Sessions : WF_vars(stopping /\ (Leave(s) \/ Insert(s)))

Spec == Init /\ [][Next]_vars /\ Fairness
=============================================================================
