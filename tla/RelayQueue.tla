----------------------------- MODULE RelayQueue -----------------------------
(***************************************************************************)
(* The outbound queue and its delivery workers across process lifetimes:   *)
(* the table of internal/queue/sqlite.go, the goroutines of                *)
(* internal/worker/runner.go, the outcomes of gmail.Send, and the startup  *)
(* and shutdown order of cmd/smtp-relay/main.go.                           *)
(*                                                                         *)
(* The rows (status, attempts, createdAt, wait, age) survive a crash; the  *)
(* workers' registers (pc, job, jobAttempts, stale) do not.  Instants are  *)
(* kept relative: wait is next_attempt_at - now, and age is now -          *)
(* updated_at, counted only while the row is processing (nothing reads it  *)
(* elsewhere) and only up to the first value the recovery takes as stuck.  *)
(***************************************************************************)
EXTENDS Naturals

CONSTANTS Messages,      \* ids handed out by newMessageID
          Workers,       \* the goroutines of Runner.Run
          NoMessage,     \* the nil *Message
          MaxAttempts,   \* WORKER_MAX_ATTEMPTS
          StuckTimeout,  \* PROCESSING_STUCK_TIMEOUT_SECONDS, in ticks
          RetryMax,      \* WORKER_RETRY_MAX_SECONDS, in ticks
          Backoff,       \* Backoff[a]: backoffDuration(a, ...), in ticks
          Stamps,        \* created_at values, as the TEXT column orders them
          MaxStops,      \* bound: crashes, shutdowns and failed starts
          MaxFaults      \* bound: database errors while the process is up

ASSUME NoMessageAssumption == NoMessage \notin Messages
ASSUME AttemptsAssumption == MaxAttempts \in Nat \ {0}
ASSUME TimesAssumption == /\ StuckTimeout \in Nat \ {0}
                          /\ RetryMax \in Nat \ {0}
                          /\ Backoff \in [1..MaxAttempts -> 1..RetryMax]
ASSUME StampsAssumption == Stamps \subseteq Nat
ASSUME BoundsAssumption == MaxStops \in Nat /\ MaxFaults \in Nat

VARIABLES
  status, attempts, createdAt, wait, age,   \* the outbound_queue rows
  proc,                                     \* the process: down, up, stopping
  pc, job, jobAttempts,                     \* each worker inside processOne
  stale,      \* claiming workers whose read snapshot another commit outdated
  stops, faults,                            \* how much of the bounds is used
  delivered,  \* delivered[m]: how often Gmail took m
  lost,       \* lost[m]: how often Gmail took m and its answer did not arrive
  recovered   \* recovered[m]: how often a start put m back to pending

rows    == <<status, attempts, createdAt, wait, age>>
workers == <<pc, job, jobAttempts, stale>>
bounds  == <<stops, faults>>
history == <<delivered, lost, recovered>>
vars    == <<rows, proc, workers, bounds, history>>

Statuses   == {"none", "pending", "processing", "sent", "failed"}
MarkPoints == {"markSent", "markRetry", "markFailed"}
Points     == {"idle", "claiming", "sending", "accepted"} \cup MarkPoints
Holding    == {"sending", "accepted"} \cup MarkPoints

Init ==
  /\ status = [m \in Messages |-> "none"]
  /\ attempts = [m \in Messages |-> 0]
  /\ createdAt = [m \in Messages |-> 0]
  /\ wait = [m \in Messages |-> 0]
  /\ age = [m \in Messages |-> 0]
  /\ proc = "down"
  /\ pc = [w \in Workers |-> "idle"]
  /\ job = [w \in Workers |-> NoMessage]
  /\ jobAttempts = [w \in Workers |-> 0]
  /\ stale = {}
  /\ stops = 0 /\ faults = 0
  /\ delivered = [m \in Messages |-> 0]
  /\ lost = [m \in Messages |-> 0]
  /\ recovered = [m \in Messages |-> 0]

Claiming == {w \in Workers : pc[w] = "claiming"}

\* A commit outdates the snapshot of every other open claim transaction.
Outdate(w) == stale' = (stale \cup Claiming) \ {w}

\* Mutant of Due: the query also asks for attempts < WORKER_MAX_ATTEMPTS.
DueWithAttemptsLeft(m) == /\ status[m] = "pending" /\ wait[m] = 0
                          /\ attempts[m] < MaxAttempts

\* The rows ClaimNextPending's WHERE clause admits, and its ORDER BY winners.
Due(m) == status[m] = "pending" /\ wait[m] = 0

\* Mutant of Oldest: the query has no ORDER BY.
AnyDue(m) == Due(m)

Oldest(m) == Due(m) /\ \A k \in Messages : Due(k) => createdAt[m] <= createdAt[k]

Held(m)     == \E w \in Workers : pc[w] \in Holding /\ job[w] = m
Stranded(m) == status[m] = "processing" /\ ~Held(m)
-----------------------------------------------------------------------------
(* The store's INSERT, on behalf of a session's DATA; sessions use a        *)
(* background context, so they still reach it while the process stops.      *)
Enqueue(m) ==
  /\ proc \in {"up", "stopping"}
  /\ status[m] = "none"
  /\ status' = [status EXCEPT ![m] = "pending"]
  /\ \E s \in Stamps : createdAt' = [createdAt EXCEPT ![m] = s]
  /\ stale' = Claiming
  /\ UNCHANGED <<attempts, wait, age, proc, pc, job, jobAttempts, bounds, history>>

(* ClaimNextPending opens its deferred transaction and SELECTs a row.       *)
ClaimSelect(w) ==
  /\ proc = "up"
  /\ pc[w] = "idle"
  /\ \E m \in Messages :
       /\ Oldest(m)
       /\ job' = [job EXCEPT ![w] = m]
       /\ jobAttempts' = [jobAttempts EXCEPT ![w] = attempts[m]]
  /\ pc' = [pc EXCEPT ![w] = "claiming"]
  /\ stale' = stale \ {w}
  /\ UNCHANGED <<rows, proc, bounds, history>>

\* Mutant of ClaimCommit: the transaction does not notice an outdated snapshot
\* and its UPDATE does not ask for a pending row.
ClaimCommitBlind(w) ==
  /\ proc = "up"
  /\ pc[w] = "claiming"
  /\ status' = [status EXCEPT ![job[w]] = "processing"]
  /\ attempts' = [attempts EXCEPT ![job[w]] = @ + 1]
  /\ age' = [age EXCEPT ![job[w]] = 0]
  /\ jobAttempts' = [jobAttempts EXCEPT ![w] = @ + 1]
  /\ pc' = [pc EXCEPT ![w] = "sending"]
  /\ Outdate(w)
  /\ UNCHANGED <<createdAt, wait, proc, job, bounds, history>>

(* Its guarded UPDATE and COMMIT; processOne goes on to Send.               *)
ClaimCommit(w) ==
  /\ proc = "up"
  /\ pc[w] = "claiming"
  /\ w \notin stale
  /\ status[job[w]] = "pending"
  /\ status' = [status EXCEPT ![job[w]] = "processing"]
  /\ attempts' = [attempts EXCEPT ![job[w]] = @ + 1]
  /\ age' = [age EXCEPT ![job[w]] = 0]
  /\ jobAttempts' = [jobAttempts EXCEPT ![w] = @ + 1]
  /\ pc' = [pc EXCEPT ![w] = "sending"]
  /\ Outdate(w)
  /\ UNCHANGED <<createdAt, wait, proc, job, bounds, history>>

\* The worker returns to its ticker, holding nothing.
Release(w) ==
  /\ pc' = [pc EXCEPT ![w] = "idle"]
  /\ job' = [job EXCEPT ![w] = NoMessage]
  /\ jobAttempts' = [jobAttempts EXCEPT ![w] = 0]

\* A statement fails: the context is cancelled, or the database says no.
StoreFails == /\ \/ proc = "stopping" /\ UNCHANGED faults
                 \/ proc = "up" /\ faults < MaxFaults /\ faults' = faults + 1
              /\ UNCHANGED stops

(* The claim ends empty-handed: the snapshot is outdated (SQLITE_BUSY), no  *)
(* row was affected, or the statement failed; the transaction rolls back.   *)
ClaimAbort(w) ==
  /\ pc[w] = "claiming"
  /\ \/ (w \in stale \/ status[job[w]] # "pending") /\ UNCHANGED bounds
     \/ StoreFails
  /\ Release(w)
  /\ stale' = stale \ {w}
  /\ UNCHANGED <<rows, proc, history>>

(* Gmail takes the message of users.messages.send.                          *)
GmailAccept(w) ==
  /\ pc[w] = "sending"
  /\ pc' = [pc EXCEPT ![w] = "accepted"]
  /\ delivered' = [delivered EXCEPT ![job[w]] = @ + 1]
  /\ UNCHANGED <<rows, proc, job, jobAttempts, stale, bounds, lost, recovered>>

(* Send returns nil.                                                        *)
SendOK(w) ==
  /\ pc[w] = "accepted"
  /\ pc' = [pc EXCEPT ![w] = "markSent"]
  /\ UNCHANGED <<rows, proc, job, jobAttempts, stale, bounds, history>>

\* Mutant of SendTransient: > for >= in the test of the attempts.
SendTransientOneMore(w) ==
  /\ pc[w] \in {"sending", "accepted"}
  /\ lost' = IF pc[w] = "accepted" THEN [lost EXCEPT ![job[w]] = @ + 1] ELSE lost
  /\ pc' = [pc EXCEPT ![w] = IF jobAttempts[w] > MaxAttempts
                               THEN "markFailed" ELSE "markRetry"]
  /\ UNCHANGED <<rows, proc, job, jobAttempts, stale, bounds, delivered, recovered>>

(* Send returns a transient error: a 429 or 5xx answer, a failed alias      *)
(* check, or no answer at all, in which case Gmail may have the message.    *)
SendTransient(w) ==
  /\ pc[w] \in {"sending", "accepted"}
  /\ lost' = IF pc[w] = "accepted" THEN [lost EXCEPT ![job[w]] = @ + 1] ELSE lost
  /\ pc' = [pc EXCEPT ![w] = IF jobAttempts[w] >= MaxAttempts
                               THEN "markFailed" ELSE "markRetry"]
  /\ UNCHANGED <<rows, proc, job, jobAttempts, stale, bounds, delivered, recovered>>

\* Mutant of SendPermanent: the error is swallowed.
SendPermanentSwallowed(w) ==
  /\ pc[w] = "sending"
  /\ pc' = [pc EXCEPT ![w] = "markSent"]
  /\ UNCHANGED <<rows, proc, job, jobAttempts, stale, bounds, history>>

(* Send returns a permanent error: policy, or any other API error.          *)
SendPermanent(w) ==
  /\ pc[w] = "sending"
  /\ pc' = [pc EXCEPT ![w] = "markFailed"]
  /\ UNCHANGED <<rows, proc, job, jobAttempts, stale, bounds, history>>

(* The three marks; none of them looks at the row's status.                 *)
MarkSent(w) ==
  /\ proc = "up"
  /\ pc[w] = "markSent"
  /\ status' = [status EXCEPT ![job[w]] = "sent"]
  /\ age' = [age EXCEPT ![job[w]] = 0]
  /\ Release(w)
  /\ Outdate(w)
  /\ UNCHANGED <<attempts, createdAt, wait, proc, bounds, history>>

\* Mutant of MarkRetry: the delay is doubled after it was capped.
MarkRetryLate(w) ==
  /\ proc = "up"
  /\ pc[w] = "markRetry"
  /\ status' = [status EXCEPT ![job[w]] = "pending"]
  /\ wait' = [wait EXCEPT ![job[w]] = 2 * Backoff[jobAttempts[w]]]
  /\ age' = [age EXCEPT ![job[w]] = 0]
  /\ Release(w)
  /\ Outdate(w)
  /\ UNCHANGED <<attempts, createdAt, proc, bounds, history>>

MarkRetry(w) ==
  /\ proc = "up"
  /\ pc[w] = "markRetry"
  /\ status' = [status EXCEPT ![job[w]] = "pending"]
  /\ wait' = [wait EXCEPT ![job[w]] = Backoff[jobAttempts[w]]]
  /\ age' = [age EXCEPT ![job[w]] = 0]
  /\ Release(w)
  /\ Outdate(w)
  /\ UNCHANGED <<attempts, createdAt, proc, bounds, history>>

MarkFailed(w) ==
  /\ proc = "up"
  /\ pc[w] = "markFailed"
  /\ status' = [status EXCEPT ![job[w]] = "failed"]
  /\ age' = [age EXCEPT ![job[w]] = 0]
  /\ Release(w)
  /\ Outdate(w)
  /\ UNCHANGED <<attempts, createdAt, wait, proc, bounds, history>>

\* Mutant of MarkError: the row is put back to pending at once.
MarkErrorRequeues(w) ==
  /\ pc[w] \in MarkPoints
  /\ StoreFails
  /\ status' = [status EXCEPT ![job[w]] = "pending"]
  /\ Release(w)
  /\ Outdate(w)
  /\ UNCHANGED <<attempts, createdAt, wait, age, proc, history>>

(* A mark fails: processOne returns the error, Run logs it, and the row     *)
(* stays processing with nobody working on it.                              *)
MarkError(w) ==
  /\ pc[w] \in MarkPoints
  /\ StoreFails
  /\ Release(w)
  /\ UNCHANGED <<rows, proc, stale, history>>
-----------------------------------------------------------------------------
\* The process is gone, and every worker's registers with it.
Die == /\ proc' = "down"
       /\ pc' = [w \in Workers |-> "idle"]
       /\ job' = [w \in Workers |-> NoMessage]
       /\ jobAttempts' = [w \in Workers |-> 0]
       /\ stale' = {}
       /\ UNCHANGED <<rows, faults, history>>

Stop == stops < MaxStops /\ stops' = stops + 1

(* A crash, a kill, or os.Exit(1) after a listener's error.                 *)
Crash == proc = "up" /\ Stop /\ Die

(* SIGTERM: ctx is cancelled, and the workers only finish their step.       *)
Shutdown == /\ proc = "up" /\ Stop
            /\ proc' = "stopping"
            /\ UNCHANGED <<rows, workers, faults, history>>

(* server.Run returned, so main returns; no worker is waited for.           *)
Exit == proc = "stopping" /\ Die /\ UNCHANGED stops

\* Mutant of Recover: a recovered row gets all its attempts anew.
RecoverAnew ==
  LET stuck == {m \in Messages : status[m] = "processing" /\ age[m] > StuckTimeout}
  IN /\ status' = [m \in Messages |-> IF m \in stuck THEN "pending" ELSE status[m]]
     /\ attempts' = [m \in Messages |-> IF m \in stuck THEN 0 ELSE attempts[m]]
     /\ age' = [m \in Messages |-> IF m \in stuck THEN 0 ELSE age[m]]
     /\ recovered' = [m \in Messages |-> IF m \in stuck THEN recovered[m] + 1
                                                        ELSE recovered[m]]
     /\ UNCHANGED <<wait, createdAt, workers, faults, delivered, lost>>

\* Mutant of Recover: a recovered row waits twice the cap.
RecoverLate ==
  LET stuck == {m \in Messages : status[m] = "processing" /\ age[m] > StuckTimeout}
  IN /\ status' = [m \in Messages |-> IF m \in stuck THEN "pending" ELSE status[m]]
     /\ wait' = [m \in Messages |-> IF m \in stuck THEN 2 * RetryMax ELSE wait[m]]
     /\ age' = [m \in Messages |-> IF m \in stuck THEN 0 ELSE age[m]]
     /\ recovered' = [m \in Messages |-> IF m \in stuck THEN recovered[m] + 1
                                                        ELSE recovered[m]]
     /\ UNCHANGED <<attempts, createdAt, workers, faults, delivered, lost>>

(* RecoverStuckProcessing(now - StuckTimeout, now).                         *)
Recover ==
  LET stuck == {m \in Messages : status[m] = "processing" /\ age[m] > StuckTimeout}
  IN /\ status' = [m \in Messages |-> IF m \in stuck THEN "pending" ELSE status[m]]
     /\ wait' = [m \in Messages |-> IF m \in stuck THEN 0 ELSE wait[m]]
     /\ age' = [m \in Messages |-> IF m \in stuck THEN 0 ELSE age[m]]
     /\ recovered' = [m \in Messages |-> IF m \in stuck THEN recovered[m] + 1
                                                        ELSE recovered[m]]
     /\ UNCHANGED <<attempts, createdAt, workers, faults, delivered, lost>>

\* Mutant of Start: the recovery is also repeated while the workers run.
StartOrRecover == proc \in {"down", "up"} /\ Recover /\ proc' = "up" /\ UNCHANGED stops

(* main recovers, builds its parts and starts the goroutines.               *)
Start == proc = "down" /\ Recover /\ proc' = "up" /\ UNCHANGED stops

(* main recovers, then exits 1: the first alias refresh failed.             *)
StartFails == proc = "down" /\ Recover /\ Stop /\ UNCHANGED proc

(* One unit of time.                                                        *)
Tick ==
  /\ wait' = [m \in Messages |-> IF wait[m] > 0 THEN wait[m] - 1 ELSE 0]
  /\ age' = [m \in Messages |-> IF status[m] = "processing" /\ age[m] <= StuckTimeout
                                  THEN age[m] + 1 ELSE age[m]]
  /\ UNCHANGED <<status, attempts, createdAt, proc, workers, bounds, history>>
-----------------------------------------------------------------------------
\* One pass of processOne, step by step.
WorkerStep(w) ==
  \/ ClaimSelect(w) \/ ClaimCommit(w) \/ ClaimAbort(w)
  \/ GmailAccept(w) \/ SendOK(w) \/ SendTransient(w) \/ SendPermanent(w)
  \/ MarkSent(w) \/ MarkRetry(w) \/ MarkFailed(w) \/ MarkError(w)

Next == \/ \E m \in Messages : Enqueue(m)
        \/ \E w \in Workers : WorkerStep(w)
        \/ Crash \/ Shutdown \/ Exit \/ Start \/ StartFails
        \/ Tick

\* Time passes; each worker's ticker fires and its HTTP call times out after
\* 30 s; a cancelled process exits, and the supervisor starts it again.
Fairness == /\ WF_vars(Tick) /\ WF_vars(Start) /\ WF_vars(Exit)
            /\ \A w \in Workers : WF_vars(WorkerStep(w))

Spec == Init /\ [][Next]_vars /\ Fairness
-----------------------------------------------------------------------------

TypeOK ==
  /\ status \in [Messages -> Statuses]
  /\ attempts \in [Messages -> Nat]
  /\ createdAt \in [Messages -> Nat]
  /\ wait \in [Messages -> 0..RetryMax]
  /\ age \in [Messages -> 0..StuckTimeout + 1]
  /\ proc \in {"down", "up", "stopping"}
  /\ pc \in [Workers -> Points]
  /\ job \in [Workers -> Messages \cup {NoMessage}]
  /\ jobAttempts \in [Workers -> Nat]
  /\ stale \subseteq Claiming
  /\ stops \in 0..MaxStops /\ faults \in 0..MaxFaults
  /\ delivered \in [Messages -> Nat]
  /\ lost \in [Messages -> Nat]
  /\ recovered \in [Messages -> Nat]
  /\ \A w \in Workers : pc[w] # "idle" => job[w] \in Messages

(* Between a committed claim and its mark a worker is alone with its        *)
(* message: the row is processing, its attempts are the worker's, and no    *)
(* other worker holds it.  The marks' WHERE id = ? relies on it.            *)
ExclusiveClaim ==
  \A w \in Workers : pc[w] \in Holding =>
    /\ status[job[w]] = "processing"
    /\ attempts[job[w]] = jobAttempts[w]
    /\ \A v \in Workers \ {w} : pc[v] \in Holding => job[v] # job[w]

(* Every delivery beyond the first has a cause the code cannot see past: an *)
(* answer that was lost, or a recovery of a row whose worker may have sent  *)
(* it.  In particular a row called failed, or waiting, was delivered only   *)
(* for one of these causes.                                                 *)
DeliveriesExplained ==
  \A m \in Messages :
    delivered[m] <= lost[m] + recovered[m]
                      + (IF status[m] \in {"processing", "sent"} THEN 1 ELSE 0)

(* WORKER_MAX_ATTEMPTS caps the claims of a message; a recovery leaves the  *)
(* counter alone and so allows one more each time it puts a row back.       *)
AttemptsBounded ==
  \A m \in Messages :
    attempts[m] + (IF status[m] \in {"none", "pending"} THEN 1 ELSE 0)
      <= MaxAttempts + recovered[m]

(* A verdict is never withdrawn: no mark, recovery or late worker takes a   *)
(* row out of sent or failed, or touches its attempts.                      *)
TerminalIsFinal ==
  [][\A m \in Messages : status[m] \in {"sent", "failed"} =>
       status'[m] = status[m] /\ attempts'[m] = attempts[m]
         /\ delivered'[m] = delivered[m]]_vars

(* Messages never tried before are claimed in created_at order, whatever is *)
(* enqueued between the claim's SELECT and its UPDATE.                      *)
NoOvertaking ==
  [][\A m, k \in Messages :
       /\ status[m] = "pending" /\ status'[m] = "processing"
       /\ status[k] = "pending" /\ attempts[k] = 0
       => createdAt[m] <= createdAt[k]]_vars

(* The client's view: the queue implements the ledger.                      *)
Verdict(s) == IF s = "none" THEN "unknown"
              ELSE IF s \in {"pending", "processing"} THEN "owed" ELSE s

L == INSTANCE Ledger WITH verdict <- [m \in Messages |-> Verdict(status[m])],
                          deliveries <- delivered

ImplementsLedger == L!Spec

(* A waiting message is always finished or, at worst, left processing       *)
(* behind a fault or a stop: retries end, and no worker is starved.         *)
Settles ==
  \A m \in Messages :
    status[m] = "pending" ~> status[m] \in {"sent", "failed"} \/ Stranded(m)

(* Every message a client was answered 250 for is eventually sent or failed.*)
EveryMessageResolved ==
  \A m \in Messages : status[m] = "pending" ~> status[m] \in {"sent", "failed"}
=============================================================================
