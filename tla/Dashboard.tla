------------------------------ MODULE Dashboard ------------------------------
(***************************************************************************)
(* What the observability server says of the queue and its workers: the    *)
(* counters of internal/worker/runner.go, which live as long as the        *)
(* process, next to the rows of the queue, which outlive it.  A response   *)
(* of /metrics or /status is put together from separate reads while the    *)
(* workers go on: the row counts of Store.Stats, then each counter of      *)
(* Runner.Stats by a Load of its own.                                      *)
(***************************************************************************)
EXTENDS RelayQueue, FiniteSets, Sequences

ASSUME FiniteAssumption == IsFiniteSet(Workers) /\ IsFiniteSet(Messages)

VARIABLES
  tally,      \* the atomic counters: processed, sent, retried, failed
  uncounted,  \* workers between recordProcessed and the Add of their outcome
  base,       \* how many rows were sent and failed when the process started
  report      \* the response being composed, and how many reads it has done

boardVars == <<vars, tally, uncounted, base, report>>

Rows(st) == Cardinality({m \in Messages : status[m] = st})

NoTally  == [processed |-> 0, sent |-> 0, retried |-> 0, failed |-> 0]
NoReport == [reads |-> 0, rowsSent |-> 0, rowsFailed |-> 0,
             processed |-> 0, sent |-> 0, retried |-> 0, failed |-> 0]

BoardInit == /\ Init
             /\ tally = NoTally
             /\ uncounted = {}
             /\ base = [sent |-> 0, failed |-> 0]
             /\ report = NoReport
-----------------------------------------------------------------------------
(* Send returns, and recordProcessed counts the message.                    *)
SendReturns(w) ==
  /\ SendOK(w) \/ SendTransient(w) \/ SendPermanent(w)
  /\ tally' = [tally EXCEPT !.processed = @ + 1]
  /\ uncounted' = uncounted \cup {w}
  /\ UNCHANGED <<base, report>>

\* The counter each of processOne's three ways to a mark adds to.
Outcome(point) == CASE point = "markSent"   -> "sent"
                    [] point = "markRetry"  -> "retried"
                    [] point = "markFailed" -> "failed"

(* The outcome is counted, before the row is marked.                        *)
CountOutcome(w) ==
  /\ w \in uncounted
  /\ tally' = [tally EXCEPT ![Outcome(pc[w])] = @ + 1]
  /\ uncounted' = uncounted \ {w}
  /\ UNCHANGED <<vars, base, report>>

\* Mutant of Record: the row is marked before the outcome is counted.
RecordBeforeCount(w) ==
  /\ MarkSent(w) \/ MarkRetry(w) \/ MarkFailed(w) \/ MarkError(w)
  /\ UNCHANGED <<tally, uncounted, base, report>>

(* The mark, which may fail: the count is not taken back.                   *)
Record(w) ==
  /\ w \notin uncounted
  /\ MarkSent(w) \/ MarkRetry(w) \/ MarkFailed(w) \/ MarkError(w)
  /\ UNCHANGED <<tally, uncounted, base, report>>

(* The steps that no counter follows.                                       *)
Uncounted ==
  /\ \/ \E m \in Messages : Enqueue(m)
     \/ \E w \in Workers : \/ ClaimSelect(w) \/ ClaimCommit(w) \/ ClaimAbort(w)
                           \/ GmailAccept(w)
     \/ Shutdown \/ StartFails \/ Tick
  /\ UNCHANGED <<tally, uncounted, base, report>>

(* The counters and the response go with the process; the rows stay.        *)
Gone == /\ Crash \/ Exit
        /\ tally' = NoTally
        /\ uncounted' = {}
        /\ report' = NoReport
        /\ UNCHANGED base

BoardStart == /\ Start
              /\ base' = [sent |-> Rows("sent"), failed |-> Rows("failed")]
              /\ UNCHANGED <<tally, uncounted, report>>
-----------------------------------------------------------------------------
\* Mutant of Reads: the rows are read after the counters.
RowsLast == <<"processed", "sent", "retried", "failed", "rows">>

\* Mutant of Reads: the total is loaded after its parts.
ProcessedLast == <<"rows", "sent", "retried", "failed", "processed">>

\* The order in which a handler reads.
Reads == <<"rows", "processed", "sent", "retried", "failed">>

Complete == report.reads = Len(Reads)

(* The handler's next read.  When Store.Stats fails, /metrics answers 503,  *)
(* and /status goes on with zeros.                                          *)
Read ==
  /\ proc # "down"
  /\ ~Complete
  /\ LET what == Reads[report.reads + 1]
         read == [report EXCEPT !.reads = @ + 1]
     IN \/ /\ what = "rows"
           /\ \/ report' = [read EXCEPT !.rowsSent = Rows("sent"),
                                        !.rowsFailed = Rows("failed")]
              \/ report' = read
        \/ what # "rows" /\ report' = [read EXCEPT ![what] = tally[what]]
  /\ UNCHANGED <<vars, tally, uncounted, base>>

(* The response is written, and a client may ask again.                     *)
Respond == Complete /\ report' = NoReport /\ UNCHANGED <<vars, tally, uncounted, base>>

BoardNext == \/ \E w \in Workers : SendReturns(w) \/ CountOutcome(w) \/ Record(w)
             \/ Uncounted \/ Gone \/ BoardStart
             \/ Read \/ Respond

BoardSpec == BoardInit /\ [][BoardNext]_boardVars
-----------------------------------------------------------------------------
BoardTypeOK ==
  /\ TypeOK
  /\ tally \in [processed: Nat, sent: Nat, retried: Nat, failed: Nat]
  /\ uncounted \subseteq {w \in Workers : pc[w] \in MarkPoints}
  /\ base \in [sent: Nat, failed: Nat]
  /\ report \in [reads: 0..Len(Reads), rowsSent: Nat, rowsFailed: Nat,
                 processed: Nat, sent: Nat, retried: Nat, failed: Nat]

(* Nothing is counted twice or not at all: what was processed is what was   *)
(* sent, retried or failed, and the workers that have not said yet.         *)
TallyAddsUp ==
  tally.processed = tally.sent + tally.retried + tally.failed + Cardinality(uncounted)

(* A response never shows rows the counters do not account for: every row   *)
(* sent or failed in this life of the process was counted first.            *)
ReportCoversRows ==
  Complete => /\ report.rowsSent <= base.sent + report.sent
              /\ report.rowsFailed <= base.failed + report.failed

(* Nor does it show more messages processed than the outcomes explain, but  *)
(* for one in the hands of each worker, although the total is read first.   *)
ReportAddsUp ==
  Complete => report.processed
                <= report.sent + report.retried + report.failed + Cardinality(Workers)
=============================================================================
