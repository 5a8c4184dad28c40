--------------------------- MODULE DashboardProofs ---------------------------
(***************************************************************************)
(* What a response of the observability server may be relied on for, for   *)
(* every number of workers and messages.  The rows and the counters are    *)
(* tied together by Covered: a row marked sent or failed, or about to be   *)
(* marked, has been counted in this life of the process.  InReport carries *)
(* that over the reads, of which each comes later than the one before, so  *)
(* that the counters may only have grown.                                  *)
(***************************************************************************)
EXTENDS Dashboard, RelayQueueProofs, FiniteSetTheorems

Verdicts == {"sent", "failed"}

MarkOf(st) == IF st = "sent" THEN "markSent" ELSE "markFailed"

In(st) == {m \in Messages : status[m] = st}

\* The workers that have counted the outcome and not marked the row yet.
Marking(st) == {w \in Workers : pc[w] = MarkOf(st) /\ w \notin uncounted}

Covered(st) == proc # "down" =>
  Cardinality(In(st)) + Cardinality(Marking(st)) <= base[st] + tally[st]

\* A counter as the response shows it, or will show at least: it is read nth.
Shown(c, n) == IF report.reads >= n THEN report[c] ELSE tally[c]

InReport ==
  /\ proc = "down" => report.reads = 0
  /\ report.reads = 0 => report = NoReport
  /\ report.reads >= 1 => /\ report.rowsSent <= base.sent + Shown("sent", 3)
                          /\ report.rowsFailed <= base.failed + Shown("failed", 5)
  /\ report.reads >= 2 => report.processed <= Shown("sent", 3) + Shown("retried", 4)
                                               + Shown("failed", 5) + Cardinality(Workers)

BoardInv == /\ Typed /\ BoardTypeOK /\ TallyAddsUp
            /\ \A st \in Verdicts : Covered(st)
            /\ InReport

-----------------------------------------------------------------------------
(* The rows, the marking and the uncounted workers are finite sets.         *)
LEMMA AllFinite ==
  ASSUME BoardTypeOK, NEW st
  PROVE  /\ IsFiniteSet(In(st)) /\ Cardinality(In(st)) \in Nat
         /\ IsFiniteSet(Marking(st)) /\ Cardinality(Marking(st)) \in Nat
         /\ IsFiniteSet(uncounted) /\ Cardinality(uncounted) \in Nat
         /\ Cardinality(uncounted) <= Cardinality(Workers)
         /\ Cardinality(Workers) \in Nat
<1>1. In(st) \in SUBSET Messages /\ Marking(st) \in SUBSET Workers
      /\ uncounted \in SUBSET Workers
  BY DEF In, Marking, BoardTypeOK
<1>2. IsFiniteSet(In(st)) /\ IsFiniteSet(Marking(st)) /\ IsFiniteSet(uncounted)
      /\ Cardinality(uncounted) <= Cardinality(Workers)
  BY <1>1, FS_Subset, FiniteAssumption
<1> QED
  BY <1>2, FS_CardinalityType, FiniteAssumption

LEMMA OneMore ==
  ASSUME NEW S, NEW x, IsFiniteSet(S)
  PROVE  Cardinality(S \cup {x}) <= Cardinality(S) + 1
<1>1. Cardinality(S) \in Nat
  BY FS_CardinalityType
<1>2. Cardinality(S \cup {x}) = IF x \in S THEN Cardinality(S) ELSE Cardinality(S) + 1
  BY FS_AddElement
<1> QED
  BY <1>1, <1>2

(* Every step is one of the queue's, or leaves the queue alone.             *)
LEMMA BoardSteps == [BoardNext]_boardVars => [Next]_vars
<1> SUFFICES ASSUME BoardNext PROVE [Next]_vars
  BY DEF boardVars
<1>1. ASSUME NEW w \in Workers, SendReturns(w) \/ CountOutcome(w) \/ Record(w)
      PROVE  [Next]_vars
  BY <1>1 DEF SendReturns, CountOutcome, Record, Next, WorkerStep
<1>2. CASE Uncounted
  BY <1>2 DEF Uncounted, Next, WorkerStep
<1>3. CASE Gone \/ BoardStart
  BY <1>3 DEF Gone, BoardStart, Next
<1>4. CASE Read \/ Respond
  BY <1>4 DEF Read, Respond
<1> QED
  BY <1>1, <1>2, <1>3, <1>4 DEF BoardNext

\* What Send's return and the count of its outcome do to a worker and the tally.
LEMMA Returned ==
  ASSUME Typed, BoardTypeOK, NEW w \in Workers, SendReturns(w)
  PROVE  /\ w \notin uncounted
         /\ pc'[w] \in MarkPoints /\ \A v \in Workers \ {w} : pc'[v] = pc[v]
         /\ tally' = [tally EXCEPT !.processed = @ + 1]
         /\ uncounted' = uncounted \cup {w}
         /\ UNCHANGED <<status, proc, base, report>>
<1>1. pc[w] \in {"sending", "accepted"}
  BY DEF SendReturns, SendOK, SendTransient, SendPermanent
<1>2. w \notin uncounted
  BY <1>1 DEF BoardTypeOK, MarkPoints
<1>3. pc'[w] \in MarkPoints /\ \A v \in Workers \ {w} : pc'[v] = pc[v]
  BY DEF Typed, TypeOK, SendReturns, SendOK, SendTransient, SendPermanent, MarkPoints
<1> QED
  BY <1>2, <1>3 DEF SendReturns, SendOK, SendTransient, SendPermanent, rows

LEMMA OutcomeCounted ==
  ASSUME Typed, BoardTypeOK, NEW w \in Workers, CountOutcome(w)
  PROVE  /\ w \in uncounted /\ uncounted' = uncounted \ {w}
         /\ UNCHANGED <<status, proc, pc, base, report>>
         /\ \/ pc[w] = "markSent"   /\ tally' = [tally EXCEPT !.sent = @ + 1]
            \/ pc[w] = "markRetry"  /\ tally' = [tally EXCEPT !.retried = @ + 1]
            \/ pc[w] = "markFailed" /\ tally' = [tally EXCEPT !.failed = @ + 1]
<1>1. w \in uncounted /\ pc[w] \in MarkPoints
  BY DEF CountOutcome, BoardTypeOK
<1>2. tally' = [tally EXCEPT ![Outcome(pc[w])] = @ + 1]
  BY DEF CountOutcome
<1>3. CASE pc[w] = "markSent"
  BY <1>2, <1>3 DEF CountOutcome, Outcome, vars, rows, workers
<1>4. CASE pc[w] = "markRetry"
  BY <1>2, <1>4 DEF CountOutcome, Outcome, vars, rows, workers
<1>5. CASE pc[w] = "markFailed"
  BY <1>2, <1>5 DEF CountOutcome, Outcome, vars, rows, workers
<1> QED
  BY <1>1, <1>3, <1>4, <1>5 DEF CountOutcome, MarkPoints

(* The other steps of a worker touch no counter, and put no other worker at *)
(* a mark.                                                                  *)
LEMMA Unseen ==
  ASSUME Typed, BoardTypeOK, Uncounted
  PROVE  /\ UNCHANGED <<tally, uncounted, base, report>>
         /\ (proc' = "down") <=> (proc = "down")
         /\ \A w \in Workers : pc[w] \in MarkPoints \/ pc'[w] \in MarkPoints
                                 => pc'[w] = pc[w]
         /\ \A st \in Verdicts : In(st)' \subseteq In(st)
<1> USE DEF Typed, TypeOK, MarkPoints, Verdicts, In
<1>1. ASSUME NEW m \in Messages, Enqueue(m)
      PROVE  /\ UNCHANGED <<pc, proc>>
             /\ \A st \in Verdicts : In(st)' \subseteq In(st)
  BY <1>1 DEF Enqueue
<1>2. ASSUME NEW w \in Workers,
             ClaimSelect(w) \/ ClaimCommit(w) \/ ClaimAbort(w) \/ GmailAccept(w)
      PROVE  /\ UNCHANGED proc
             /\ \A v \in Workers : pc[v] \in MarkPoints \/ pc'[v] \in MarkPoints
                                     => pc'[v] = pc[v]
             /\ \A st \in Verdicts : In(st)' \subseteq In(st)
  <2>1. CASE ClaimSelect(w)
    BY <2>1 DEF ClaimSelect, rows
  <2>2. CASE ClaimCommit(w)
    BY <2>2 DEF ClaimCommit
  <2>3. CASE ClaimAbort(w)
    BY <2>3 DEF ClaimAbort, Release, rows
  <2>4. CASE GmailAccept(w)
    BY <2>4 DEF GmailAccept, rows
  <2> QED
    BY <1>2, <2>1, <2>2, <2>3, <2>4
<1>3. ASSUME Shutdown \/ Tick
      PROVE  /\ UNCHANGED pc
             /\ (proc' = "down") <=> (proc = "down")
             /\ \A st \in Verdicts : In(st)' \subseteq In(st)
  BY <1>3 DEF Shutdown, Tick, rows, workers
<1>4. ASSUME StartFails
      PROVE  /\ UNCHANGED <<pc, proc>>
             /\ \A st \in Verdicts : In(st)' \subseteq In(st)
  BY <1>4 DEF StartFails, Recover, workers
<1> QED
  BY <1>1, <1>2, <1>3, <1>4 DEF Uncounted

(* A mark frees its worker, and moves its row to that outcome.              *)
LEMMA Recorded ==
  ASSUME Typed, BoardTypeOK, NEW w \in Workers, Record(w)
  PROVE  /\ w \notin uncounted
         /\ pc[w] \in MarkPoints /\ pc'[w] = "idle"
         /\ \A v \in Workers \ {w} : pc'[v] = pc[v]
         /\ UNCHANGED <<proc, tally, uncounted, base, report>>
         /\ \A st \in Verdicts :
              \/ In(st)' \subseteq In(st)
              \/ pc[w] = MarkOf(st) /\ In(st)' = In(st) \cup {job[w]}
<1> USE DEF Typed, TypeOK, MarkPoints, Verdicts, In, MarkOf, Release
<1>1. CASE MarkSent(w)
  BY <1>1 DEF Record, MarkSent
<1>2. CASE MarkRetry(w)
  BY <1>2 DEF Record, MarkRetry
<1>3. CASE MarkFailed(w)
  BY <1>3 DEF Record, MarkFailed
<1>4. CASE MarkError(w)
  BY <1>4 DEF Record, MarkError, rows
<1> QED
  BY <1>1, <1>2, <1>3, <1>4 DEF Record

-----------------------------------------------------------------------------
Counters == {"processed", "sent", "retried", "failed"}
Tallies  == [processed: Nat, sent: Nat, retried: Nat, failed: Nat]

\* One Add raises one counter by one.
LEMMA Added ==
  ASSUME tally \in Tallies, NEW c \in Counters, tally' = [tally EXCEPT ![c] = @ + 1]
  PROVE  /\ tally' \in Tallies
         /\ tally'[c] = tally[c] + 1
         /\ \A d \in Counters \ {c} : tally'[d] = tally[d]
<1>1. tally[c] + 1 \in Nat
  BY DEF Tallies, Counters
<1>2. tally' \in Tallies
  BY <1>1 DEF Tallies
<1> QED
  BY <1>2 DEF Tallies, Counters

(* The counters keep their types, and add up.                               *)
LEMMA TallyStep ==
  ASSUME Typed, BoardTypeOK, TallyAddsUp, [BoardNext]_boardVars
  PROVE  /\ tally' \in [processed: Nat, sent: Nat, retried: Nat, failed: Nat]
         /\ uncounted' \subseteq {w \in Workers : pc'[w] \in MarkPoints}
         /\ TallyAddsUp'
<1>0. Cardinality(uncounted) \in Nat /\ IsFiniteSet(uncounted)
  BY AllFinite
<1>1. ASSUME NEW w \in Workers, SendReturns(w)
      PROVE  /\ tally' \in [processed: Nat, sent: Nat, retried: Nat, failed: Nat]
             /\ uncounted' \subseteq {v \in Workers : pc'[v] \in MarkPoints}
             /\ TallyAddsUp'
  <2>1. /\ w \notin uncounted /\ uncounted' = uncounted \cup {w}
        /\ pc'[w] \in MarkPoints /\ \A v \in Workers \ {w} : pc'[v] = pc[v]
        /\ tally' = [tally EXCEPT !.processed = @ + 1]
    BY <1>1, Returned
  <2>2. Cardinality(uncounted') = Cardinality(uncounted) + 1
    BY <1>0, <2>1, FS_AddElement
  <2>3. tally' \in Tallies /\ tally'.processed = tally.processed + 1
        /\ \A d \in Counters \ {"processed"} : tally'[d] = tally[d]
    BY <2>1, Added DEF BoardTypeOK, Tallies, Counters
  <2>4. TallyAddsUp'
    <3>1. \A d \in Counters : tally[d] \in Nat /\ tally'[d] \in Nat
      BY <2>3 DEF BoardTypeOK, Tallies, Counters
    <3> QED
      BY <1>0, <2>2, <2>3, <3>1 DEF TallyAddsUp, Counters
  <2> QED
    BY <2>1, <2>3, <2>4 DEF BoardTypeOK, Tallies
<1>2. ASSUME NEW w \in Workers, CountOutcome(w)
      PROVE  /\ tally' \in [processed: Nat, sent: Nat, retried: Nat, failed: Nat]
             /\ uncounted' \subseteq {v \in Workers : pc'[v] \in MarkPoints}
             /\ TallyAddsUp'
  <2>1. /\ w \in uncounted /\ uncounted' = uncounted \ {w} /\ UNCHANGED pc
        /\ \E c \in {"sent", "retried", "failed"} : tally' = [tally EXCEPT ![c] = @ + 1]
    BY <1>2, OutcomeCounted
  <2>2. Cardinality(uncounted') = Cardinality(uncounted) - 1
    BY <1>0, <2>1, FS_RemoveElement
  <2>3. PICK c \in {"sent", "retried", "failed"} : tally' = [tally EXCEPT ![c] = @ + 1]
    BY <2>1
  <2>4. tally' \in Tallies /\ tally'[c] = tally[c] + 1
        /\ \A d \in Counters \ {c} : tally'[d] = tally[d]
    BY <2>3, Added DEF BoardTypeOK, Tallies, Counters
  <2>5. TallyAddsUp'
    <3>1. \A d \in Counters : tally[d] \in Nat /\ tally'[d] \in Nat
      BY <2>4 DEF BoardTypeOK, Tallies, Counters
    <3>2. tally'.processed = tally.processed
      BY <2>4 DEF Counters
    <3>3. tally'.sent + tally'.retried + tally'.failed
            = tally.sent + tally.retried + tally.failed + 1
      <4>1. CASE c = "sent"
        BY <2>4, <3>1, <4>1 DEF Counters
      <4>2. CASE c = "retried"
        BY <2>4, <3>1, <4>2 DEF Counters
      <4>3. CASE c = "failed"
        BY <2>4, <3>1, <4>3 DEF Counters
      <4> QED
        BY <4>1, <4>2, <4>3
    <3> QED
      BY <1>0, <2>2, <3>1, <3>2, <3>3 DEF TallyAddsUp, Counters
  <2> QED
    BY <2>1, <2>4, <2>5 DEF BoardTypeOK, Tallies
<1>3. ASSUME NEW w \in Workers, Record(w)
      PROVE  /\ uncounted' \subseteq {v \in Workers : pc'[v] \in MarkPoints}
             /\ UNCHANGED <<tally, uncounted>>
  <2>1. /\ w \notin uncounted /\ \A v \in Workers \ {w} : pc'[v] = pc[v]
        /\ UNCHANGED <<tally, uncounted>>
    BY <1>3, Recorded
  <2> QED
    BY <2>1 DEF BoardTypeOK
<1>4. ASSUME Uncounted
      PROVE  /\ uncounted' \subseteq {v \in Workers : pc'[v] \in MarkPoints}
             /\ UNCHANGED <<tally, uncounted>>
  <2>1. /\ \A v \in Workers : pc[v] \in MarkPoints => pc'[v] = pc[v]
        /\ UNCHANGED <<tally, uncounted>>
    BY <1>4, Unseen
  <2> QED
    BY <2>1 DEF BoardTypeOK
<1>5. CASE Gone
  BY <1>5, FS_EmptySet DEF Gone, NoTally, TallyAddsUp
<1>6. CASE BoardStart
  BY <1>6 DEF BoardStart, Start, Recover, workers, BoardTypeOK, TallyAddsUp
<1>7. CASE Read \/ Respond \/ UNCHANGED boardVars
  BY <1>7 DEF Read, Respond, boardVars, vars, workers, BoardTypeOK, TallyAddsUp
<1> QED
  BY <1>1, <1>2, <1>3, <1>4, <1>5, <1>6, <1>7 DEF BoardNext, BoardTypeOK, TallyAddsUp

(* In one life of the process the counters only grow, from the same rows.   *)
LEMMA TallyGrows ==
  ASSUME Typed, BoardTypeOK, [BoardNext]_boardVars, proc # "down", proc' # "down"
  PROVE  /\ UNCHANGED base
         /\ \A c \in Counters : tally[c] <= tally'[c]
<1>1. ASSUME NEW w \in Workers, SendReturns(w) \/ CountOutcome(w) \/ Record(w)
      PROVE  /\ UNCHANGED base
             /\ \A c \in Counters : tally[c] <= tally'[c]
  <2>1. /\ UNCHANGED base
        /\ \/ UNCHANGED tally
           \/ \E c \in Counters : tally' = [tally EXCEPT ![c] = @ + 1]
    BY <1>1, Returned, OutcomeCounted, Recorded DEF Counters
  <2>2. ASSUME NEW c \in Counters, tally' = [tally EXCEPT ![c] = @ + 1]
        PROVE  \A d \in Counters : tally[d] <= tally'[d]
    <3>1. tally \in Tallies
      BY DEF BoardTypeOK, Tallies
    <3>2. tally'[c] = tally[c] + 1 /\ \A d \in Counters \ {c} : tally'[d] = tally[d]
      BY <2>2, <3>1, Added
    <3>3. \A d \in Counters : tally[d] \in Nat
      BY <3>1 DEF Tallies, Counters
    <3> QED
      BY <3>2, <3>3
  <2>3. UNCHANGED tally => \A d \in Counters : tally[d] <= tally'[d]
    BY DEF BoardTypeOK, Counters
  <2> QED
    BY <2>1, <2>2, <2>3
<1>2. Uncounted => UNCHANGED <<base, tally>>
  BY DEF Uncounted
<1>3. ~Gone /\ ~BoardStart
  BY DEF Gone, Crash, Exit, Die, BoardStart, Start
<1>4. Read \/ Respond \/ UNCHANGED boardVars => UNCHANGED <<base, tally>>
  BY DEF Read, Respond, boardVars
<1>5. UNCHANGED tally => \A c \in Counters : tally[c] <= tally'[c]
  BY DEF BoardTypeOK, Counters
<1> QED
  BY <1>1, <1>2, <1>3, <1>4, <1>5 DEF BoardNext

(* The base and the response keep their types.                              *)
LEMMA ReportTyped ==
  ASSUME Typed, BoardTypeOK, [BoardNext]_boardVars
  PROVE  /\ base' \in [sent: Nat, failed: Nat]
         /\ report' \in [reads: 0..Len(Reads), rowsSent: Nat, rowsFailed: Nat,
                         processed: Nat, sent: Nat, retried: Nat, failed: Nat]
<1>0. Len(Reads) = 5
  BY DEF Reads
<1> USE <1>0 DEF BoardTypeOK
<1>1. ASSUME NEW w \in Workers, SendReturns(w) \/ CountOutcome(w) \/ Record(w)
      PROVE  UNCHANGED <<base, report>>
  BY <1>1, Returned, OutcomeCounted, Recorded
<1>2. CASE Uncounted
  BY <1>2, Unseen
<1>3. CASE Gone \/ Respond
  BY <1>3 DEF Gone, Respond, NoReport
<1>4. CASE BoardStart
  <2>1. Rows("sent") \in Nat /\ Rows("failed") \in Nat
    BY AllFinite DEF Rows, In
  <2> QED
    BY <1>4, <2>1 DEF BoardStart
<1>5. CASE Read
  <2>1. Rows("sent") \in Nat /\ Rows("failed") \in Nat
    BY AllFinite DEF Rows, In
  <2>2. report.reads \in 0..4
    BY <1>5 DEF Read, Complete
  <2>3. Reads[report.reads + 1] \in {"rows", "processed", "sent", "retried", "failed"}
    BY <2>2 DEF Reads
  <2> DEFINE read == [report EXCEPT !.reads = @ + 1]
  <2>4. read \in [reads: 0..5, rowsSent: Nat, rowsFailed: Nat,
                  processed: Nat, sent: Nat, retried: Nat, failed: Nat]
    BY <2>2
  <2>5. \/ report' = [read EXCEPT !.rowsSent = Rows("sent"), !.rowsFailed = Rows("failed")]
        \/ report' = read
        \/ \E c \in {"processed", "sent", "retried", "failed"} :
             report' = [read EXCEPT ![c] = tally[c]]
    BY <1>5, <2>3 DEF Read
  <2>6. \A c \in {"processed", "sent", "retried", "failed"} : tally[c] \in Nat
    OBVIOUS
  <2>7. UNCHANGED base
    BY <1>5 DEF Read
  <2> HIDE DEF read
  <2>8. CASE report' = [read EXCEPT !.rowsSent = Rows("sent"), !.rowsFailed = Rows("failed")]
    BY <2>1, <2>4, <2>7, <2>8
  <2>9. CASE \E c \in {"processed", "sent", "retried", "failed"} :
               report' = [read EXCEPT ![c] = tally[c]]
    BY <2>4, <2>6, <2>7, <2>9
  <2> QED
    BY <2>4, <2>5, <2>7, <2>8, <2>9
<1>6. CASE UNCHANGED boardVars
  BY <1>6 DEF boardVars
<1> QED
  BY <1>1, <1>2, <1>3, <1>4, <1>5, <1>6 DEF BoardNext

(* The balance of rows and counters is kept while it can only improve.      *)
LEMMA StillCovered ==
  ASSUME BoardTypeOK, BoardTypeOK', NEW st \in Verdicts, Covered(st), proc # "down",
         In(st)' \subseteq In(st), Marking(st)' \subseteq Marking(st),
         tally[st] <= tally'[st], UNCHANGED base
  PROVE  Covered(st)'
<1>1. Cardinality(In(st)') <= Cardinality(In(st)) /\ Cardinality(In(st)') \in Nat
  BY AllFinite, FS_Subset, FS_CardinalityType
<1>2. Cardinality(Marking(st)') <= Cardinality(Marking(st))
      /\ Cardinality(Marking(st)') \in Nat
  BY AllFinite, FS_Subset, FS_CardinalityType
<1>3. Cardinality(In(st)) \in Nat /\ Cardinality(Marking(st)) \in Nat
  BY AllFinite
<1>4. base[st] \in Nat /\ tally[st] \in Nat /\ tally'[st] \in Nat
  BY DEF BoardTypeOK, Verdicts
<1> QED
  BY <1>1, <1>2, <1>3, <1>4 DEF Covered

(* A row reaches an outcome only from a worker that has counted it.         *)
LEMMA CoveredStep ==
  ASSUME Typed, BoardTypeOK, BoardTypeOK', [BoardNext]_boardVars,
         NEW st \in Verdicts, Covered(st)
  PROVE  Covered(st)'
<1>0. /\ IsFiniteSet(In(st)) /\ Cardinality(In(st)) \in Nat
      /\ IsFiniteSet(Marking(st)) /\ Cardinality(Marking(st)) \in Nat
      /\ Cardinality(In(st)') \in Nat /\ Cardinality(Marking(st)') \in Nat
      /\ IsFiniteSet(Marking(st)')
  <2>1. \A q : IsFiniteSet(In(q)) /\ Cardinality(In(q)) \in Nat
               /\ IsFiniteSet(Marking(q)) /\ Cardinality(Marking(q)) \in Nat
    BY AllFinite
  <2>2. In(st)' \in SUBSET Messages /\ Marking(st)' \in SUBSET Workers
    BY DEF In, Marking
  <2>3. IsFiniteSet(In(st)') /\ IsFiniteSet(Marking(st)')
    BY <2>2, FS_Subset, FiniteAssumption
  <2> QED
    BY <2>1, <2>3, FS_CardinalityType
<1>1. st \in Counters /\ base[st] \in Nat /\ base'[st] \in Nat
      /\ tally[st] \in Nat /\ tally'[st] \in Nat
  BY DEF Verdicts, Counters, BoardTypeOK
<1>a. ASSUME NEW c \in Counters, tally' = [tally EXCEPT ![c] = @ + 1]
      PROVE  tally[st] <= tally'[st]
  <2>1. tally'[c] = tally[c] + 1 /\ \A d \in Counters \ {c} : tally'[d] = tally[d]
    BY <1>a, Added DEF BoardTypeOK, Tallies
  <2> QED
    BY <1>1, <2>1
<1>2. ASSUME NEW w \in Workers, SendReturns(w), proc # "down" PROVE Covered(st)'
  <2>1. In(st)' \subseteq In(st) /\ Marking(st)' \subseteq Marking(st)
    BY <1>2, Returned DEF In, Marking
  <2>2. UNCHANGED base /\ tally[st] <= tally'[st]
    BY <1>2, <1>a, Returned DEF Counters
  <2> QED
    BY <1>2, <2>1, <2>2, StillCovered
<1>3. ASSUME NEW w \in Workers, CountOutcome(w), proc # "down" PROVE Covered(st)'
  <2>1. In(st)' = In(st) /\ UNCHANGED base
    BY <1>3, OutcomeCounted DEF In
  <2>2. CASE pc[w] = MarkOf(st)
    <3>1. Marking(st)' = Marking(st) \cup {w} /\ w \notin Marking(st)
      BY <1>3, <2>2, OutcomeCounted DEF Marking
    <3>2. Cardinality(Marking(st)') = Cardinality(Marking(st)) + 1
      BY <1>0, <3>1, FS_AddElement
    <3>3. tally' = [tally EXCEPT ![st] = @ + 1]
      BY <1>3, <2>2, OutcomeCounted DEF MarkOf, Verdicts
    <3>4. tally'[st] = tally[st] + 1
      BY <1>1, <3>3, Added DEF BoardTypeOK, Tallies
    <3> QED
      BY <1>0, <1>1, <1>3, <2>1, <3>2, <3>4 DEF Covered
  <2>3. CASE pc[w] # MarkOf(st)
    <3>1. Marking(st)' \subseteq Marking(st)
      BY <1>3, <2>3, OutcomeCounted DEF Marking
    <3>2. PICK c \in {"sent", "retried", "failed"} : tally' = [tally EXCEPT ![c] = @ + 1]
      BY <1>3, OutcomeCounted
    <3>3. tally[st] <= tally'[st]
      BY <1>a, <3>2 DEF Counters
    <3> QED
      BY <1>3, <2>1, <3>1, <3>3, StillCovered
  <2> QED
    BY <2>2, <2>3
<1>4. ASSUME NEW w \in Workers, Record(w), proc # "down" PROVE Covered(st)'
  <2>1. /\ w \notin uncounted /\ pc'[w] = "idle"
        /\ \A v \in Workers \ {w} : pc'[v] = pc[v]
        /\ UNCHANGED <<tally, uncounted, base>>
        /\ \/ In(st)' \subseteq In(st)
           \/ pc[w] = MarkOf(st) /\ In(st)' = In(st) \cup {job[w]}
    BY <1>4, Recorded
  <2>2. Marking(st)' = Marking(st) \ {w}
    BY <2>1 DEF Marking, MarkOf
  <2>3. CASE In(st)' \subseteq In(st)
    BY <1>1, <1>4, <2>1, <2>2, <2>3, StillCovered
  <2>4. CASE pc[w] = MarkOf(st) /\ In(st)' = In(st) \cup {job[w]}
    <3>1. Cardinality(In(st)') <= Cardinality(In(st)) + 1
      <4>1. Cardinality(In(st) \cup {job[w]}) <= Cardinality(In(st)) + 1
        BY <1>0, OneMore
      <4>2. Cardinality(In(st)') = Cardinality(In(st) \cup {job[w]})
        BY <2>4, Zenon
      <4> QED
        BY <4>1, <4>2
    <3>2. Cardinality(Marking(st)') = Cardinality(Marking(st)) - 1
      <4>1. w \in Marking(st)
        BY <2>1, <2>4 DEF Marking
      <4> QED
        BY <1>0, <2>2, <4>1, FS_RemoveElement
    <3> QED
      BY <1>0, <1>1, <1>4, <2>1, <3>1, <3>2 DEF Covered
  <2> QED
    BY <2>1, <2>3, <2>4
<1>5. ASSUME Uncounted, proc # "down" PROVE Covered(st)'
  <2>1. UNCHANGED <<tally, uncounted, base>> /\ In(st)' \subseteq In(st)
        /\ \A v \in Workers : pc'[v] \in MarkPoints => pc'[v] = pc[v]
    BY <1>5, Unseen
  <2>2. Marking(st)' \subseteq Marking(st)
    BY <2>1 DEF Marking, MarkOf, MarkPoints
  <2> QED
    BY <1>1, <1>5, <2>1, <2>2, StillCovered
<1>6. ASSUME BoardStart PROVE Covered(st)'
  <2>1. In(st)' = In(st) /\ base'[st] = Cardinality(In(st)) /\ UNCHANGED <<pc, uncounted>>
    <3>1. base'[st] = Rows(st) /\ UNCHANGED <<pc, uncounted>> /\ Recover
      BY <1>6 DEF BoardStart, Start, Recover, workers, Verdicts
    <3>2. In(st)' = In(st)
      BY <3>1 DEF Recover, In, Verdicts, Typed, TypeOK
    <3> QED
      BY <3>1, <3>2 DEF Rows, In
  <2>2. Marking(st)' = {}
    BY <1>6, <2>1 DEF BoardStart, Start, Typed, Registers, Marking, MarkOf
  <2> QED
    BY <1>0, <1>1, <2>1, <2>2, FS_EmptySet DEF Covered
<1>7. Gone => Covered(st)'
  BY DEF Gone, Crash, Exit, Die, Covered
<1>8. ASSUME Read \/ Respond \/ UNCHANGED boardVars PROVE Covered(st)'
  <2>1. UNCHANGED <<status, proc, pc, uncounted, tally, base>>
    BY <1>8 DEF Read, Respond, boardVars, vars, rows, workers
  <2> QED
    BY <2>1 DEF Covered, In, Marking
<1>9. proc = "down" /\ proc' # "down" => BoardStart
  <2>1. \A w \in Workers : SendReturns(w) \/ CountOutcome(w) \/ Record(w) => proc' = proc
    BY Returned, OutcomeCounted, Recorded
  <2> QED
    BY <2>1, Unseen
    DEF BoardNext, Read, Respond, Gone, Crash, Exit, Die, boardVars, vars
<1>10. proc' = "down" => Covered(st)'
  BY DEF Covered
<1> QED
  BY <1>2, <1>3, <1>4, <1>5, <1>6, <1>7, <1>8, <1>9, <1>10 DEF BoardNext

(* What a read finds bounds what the reads before it found.                 *)
LEMMA ReadStep ==
  ASSUME BoardTypeOK, TallyAddsUp, \A st \in Verdicts : Covered(st), InReport, Read
  PROVE  InReport'
<1>1. /\ report.reads \in 0..4 /\ proc # "down"
      /\ UNCHANGED <<proc, tally, base>>
  BY DEF Read, Complete, Reads, BoardTypeOK, vars
<1>2. /\ \A c \in Counters : tally[c] \in Nat /\ report[c] \in Nat
      /\ Cardinality(uncounted) \in Nat /\ Cardinality(Workers) \in Nat
      /\ Cardinality(uncounted) <= Cardinality(Workers)
      /\ base.sent \in Nat /\ base.failed \in Nat
      /\ report.rowsSent \in Nat /\ report.rowsFailed \in Nat
      /\ report \in [reads: 0..5, rowsSent: Nat, rowsFailed: Nat,
                     processed: Nat, sent: Nat, retried: Nat, failed: Nat]
  BY AllFinite DEF BoardTypeOK, Counters, Reads
<1>3. ASSUME NEW c \in Counters, report.reads # 0, Reads[report.reads + 1] = c
      PROVE  /\ report'.reads = report.reads + 1
             /\ UNCHANGED <<report.rowsSent, report.rowsFailed>>
             /\ report'[c] = tally[c]
             /\ \A d \in Counters \ {c} : report'[d] = report[d]
  <2>1. c # "rows"
    BY DEF Counters
  <2>2. report.reads + 1 # 1
    BY <1>1, <1>3
  <2>3. report' = [[report EXCEPT !.reads = @ + 1] EXCEPT ![c] = tally[c]]
    BY <1>3, <2>1 DEF Read
  <2> QED
    BY <1>2, <2>3 DEF Counters
<1>4. CASE report.reads = 0
  <2>1. Rows("sent") <= base.sent + tally.sent /\ Rows("sent") \in Nat
        /\ Rows("failed") <= base.failed + tally.failed /\ Rows("failed") \in Nat
    <3>1. \A st \in Verdicts : /\ Cardinality(Marking(st)) \in Nat
                               /\ Cardinality(In(st)) \in Nat
                               /\ Rows(st) = Cardinality(In(st))
      BY AllFinite DEF Rows, In
    <3>2. \A st \in Verdicts :
            Cardinality(In(st)) + Cardinality(Marking(st)) <= base[st] + tally[st]
      BY <1>1 DEF Covered
    <3>3. \A st \in Verdicts : base[st] \in Nat /\ tally[st] \in Nat
      BY <1>2 DEF Verdicts, Counters
    <3>4. \A st \in Verdicts : Rows(st) <= base[st] + tally[st] /\ Rows(st) \in Nat
      BY <3>1, <3>2, <3>3
    <3> QED
      BY <3>4 DEF Verdicts
  <2>2. Reads[report.reads + 1] = "rows"
    BY <1>4 DEF Reads
  <2>3. report.rowsSent = 0 /\ report.rowsFailed = 0
    BY <1>4 DEF InReport, NoReport
  <2>4. \/ report' = [[report EXCEPT !.reads = @ + 1]
                        EXCEPT !.rowsSent = Rows("sent"), !.rowsFailed = Rows("failed")]
        \/ report' = [report EXCEPT !.reads = @ + 1]
    BY <2>2 DEF Read
  <2>5. /\ report'.reads = 1
        /\ \/ report'.rowsSent = Rows("sent") /\ report'.rowsFailed = Rows("failed")
           \/ report'.rowsSent = 0 /\ report'.rowsFailed = 0
    <3>1. CASE report' = [report EXCEPT !.reads = @ + 1]
      BY <1>2, <1>4, <2>3, <3>1
    <3>2. CASE report' = [[report EXCEPT !.reads = @ + 1]
                            EXCEPT !.rowsSent = Rows("sent"), !.rowsFailed = Rows("failed")]
      BY <1>2, <1>4, <3>2
    <3> QED
      BY <2>4, <3>1, <3>2
  <2>6. /\ report'.rowsSent <= base.sent + tally.sent
        /\ report'.rowsFailed <= base.failed + tally.failed
    <3>1. 0 <= base.sent + tally.sent /\ 0 <= base.failed + tally.failed
      BY <1>2 DEF Counters
    <3> QED
      BY <2>1, <2>5, <3>1
  <2> QED
    BY <1>1, <2>5, <2>6 DEF InReport, Shown
<1>5. CASE report.reads = 1
  <2>1. Reads[report.reads + 1] = "processed"
    BY <1>5 DEF Reads
  <2>2. report'.reads = 2 /\ report'.processed = tally.processed
        /\ UNCHANGED <<report.rowsSent, report.rowsFailed>>
    BY <1>3, <1>5, <2>1 DEF Counters
  <2>3. tally.processed <= tally.sent + tally.retried + tally.failed + Cardinality(Workers)
    BY <1>2 DEF TallyAddsUp, Counters
  <2> QED
    BY <1>1, <1>2, <1>5, <2>2, <2>3 DEF InReport, Shown, Counters
<1>6. CASE report.reads = 2
  <2>1. Reads[report.reads + 1] = "sent"
    BY <1>6 DEF Reads
  <2>2. /\ report'.reads = 3 /\ report'.sent = tally.sent
        /\ UNCHANGED <<report.rowsSent, report.rowsFailed, report.processed>>
    BY <1>3, <1>6, <2>1 DEF Counters
  <2> QED
    BY <1>1, <1>2, <1>6, <2>2 DEF InReport, Shown, Counters
<1>7. CASE report.reads = 3
  <2>1. Reads[report.reads + 1] = "retried"
    BY <1>7 DEF Reads
  <2>2. /\ report'.reads = 4 /\ report'.retried = tally.retried
        /\ UNCHANGED <<report.rowsSent, report.rowsFailed, report.processed, report.sent>>
    BY <1>3, <1>7, <2>1 DEF Counters
  <2> QED
    BY <1>1, <1>2, <1>7, <2>2 DEF InReport, Shown, Counters
<1>8. CASE report.reads = 4
  <2>1. Reads[report.reads + 1] = "failed"
    BY <1>8 DEF Reads
  <2>2. /\ report'.reads = 5 /\ report'.failed = tally.failed
        /\ UNCHANGED <<report.rowsSent, report.rowsFailed, report.processed, report.sent,
                       report.retried>>
    BY <1>3, <1>8, <2>1 DEF Counters
  <2> QED
    BY <1>1, <1>2, <1>8, <2>2 DEF InReport, Shown, Counters
<1> QED
  BY <1>1, <1>4, <1>5, <1>6, <1>7, <1>8

(* While it waits for its next read, the counters may only grow.            *)
LEMMA ReportStep ==
  ASSUME BoardInv, [BoardNext]_boardVars
  PROVE  InReport'
<1> USE DEF BoardInv
<1>1. CASE Read
  BY <1>1, ReadStep
<1>2. CASE Gone \/ Respond
  <2>1. report' = NoReport
    BY <1>2 DEF Gone, Respond
  <2> QED
    BY <2>1 DEF InReport, NoReport
<1>3. CASE UNCHANGED report /\ proc = "down"
  BY <1>3 DEF InReport
<1>4. CASE UNCHANGED report /\ proc # "down" /\ proc' # "down"
  <2>1. UNCHANGED base /\ \A c \in Counters : tally[c] <= tally'[c]
    BY <1>4, TallyGrows
  <2>2. /\ \A c \in Counters : tally[c] \in Nat /\ tally'[c] \in Nat /\ report[c] \in Nat
        /\ Cardinality(Workers) \in Nat /\ base.sent \in Nat /\ base.failed \in Nat
        /\ report.rowsSent \in Nat /\ report.rowsFailed \in Nat
        /\ report.reads \in Nat
    BY AllFinite, TallyStep, ReportTyped DEF BoardTypeOK, Counters, Reads
  <2> QED
    BY <1>4, <2>1, <2>2 DEF InReport, Shown, Counters
<1>5. \/ Read \/ Gone \/ Respond
      \/ UNCHANGED report /\ (proc # "down" => proc' # "down")
  <2>1. ASSUME NEW w \in Workers, SendReturns(w) \/ CountOutcome(w) \/ Record(w)
        PROVE  UNCHANGED <<proc, report>>
    BY <2>1, Returned, OutcomeCounted, Recorded
  <2>2. Uncounted => UNCHANGED report /\ (proc # "down" => proc' # "down")
    BY Unseen
  <2>3. BoardStart \/ UNCHANGED boardVars =>
          UNCHANGED report /\ (proc # "down" => proc' # "down")
    BY DEF BoardStart, Start, boardVars, vars
  <2> QED
    BY <2>1, <2>2, <2>3 DEF BoardNext
<1> QED
  BY <1>1, <1>2, <1>3, <1>4, <1>5

-----------------------------------------------------------------------------
(* The invariant holds throughout.                                          *)
THEOREM BoardInvariant == BoardSpec => []BoardInv
<1>1. BoardInit => BoardInv
  <2> SUFFICES ASSUME BoardInit PROVE BoardInv
    OBVIOUS
  <2>1. Typed /\ TypeOK /\ proc = "down"
    BY InitInv DEF BoardInit, Init, Typed
  <2>2. BoardTypeOK /\ TallyAddsUp
    BY <2>1, FS_EmptySet DEF BoardInit, BoardTypeOK, TallyAddsUp, NoTally, NoReport, Reads
  <2>3. InReport /\ \A st \in Verdicts : Covered(st)
    BY <2>1 DEF BoardInit, InReport, NoReport, Covered
  <2> QED
    BY <2>1, <2>2, <2>3 DEF BoardInv
<1>2. BoardInv /\ [BoardNext]_boardVars => BoardInv'
  <2> SUFFICES ASSUME BoardInv, [BoardNext]_boardVars PROVE BoardInv'
    OBVIOUS
  <2>1. Typed /\ BoardTypeOK /\ TallyAddsUp /\ \A st \in Verdicts : Covered(st)
    BY DEF BoardInv
  <2>2. Typed'
    BY <2>1, BoardSteps, TypedStep
  <2>3. BoardTypeOK' /\ TallyAddsUp'
    BY <2>1, <2>2, TallyStep, ReportTyped DEF BoardTypeOK, Typed
  <2>4. \A st \in Verdicts : Covered(st)'
    BY <2>1, <2>3, CoveredStep
  <2> QED
    BY <2>2, <2>3, <2>4, ReportStep DEF BoardInv
<1> QED
  BY <1>1, <1>2, PTL DEF BoardSpec

(* Every counter and read keeps its type, and only workers at a mark are    *)
(* still to be counted.                                                     *)
THEOREM BoardTypes == BoardSpec => []BoardTypeOK
<1>1. BoardInv => BoardTypeOK
  BY DEF BoardInv
<1> QED
  BY <1>1, BoardInvariant, PTL

(* processOne counts every message once, whichever way its Send ended.      *)
THEOREM EveryOutcomeCounted == BoardSpec => []TallyAddsUp
<1>1. BoardInv => TallyAddsUp
  BY DEF BoardInv
<1> QED
  BY <1>1, BoardInvariant, PTL

(* A response's counters account for the rows it shows sent and failed,     *)
(* although they are read after them and one by one.                        *)
THEOREM RowsAreAccountedFor == BoardSpec => []ReportCoversRows
<1>1. BoardInv => ReportCoversRows
  BY DEF BoardInv, InReport, Shown, ReportCoversRows, Complete, Reads
<1> QED
  BY <1>1, BoardInvariant, PTL

(* And its outcomes for all it shows processed, but for one per worker.     *)
THEOREM OutcomesAreAccountedFor == BoardSpec => []ReportAddsUp
<1>1. BoardInv => ReportAddsUp
  BY DEF BoardInv, InReport, Shown, ReportAddsUp, Complete, Reads
<1> QED
  BY <1>1, BoardInvariant, PTL

(* The observability server, its counters and its reads are spectators: the *)
(* queue they watch takes the steps of its own specification, or none, so   *)
(* what is proved of the queue's steps holds while it is watched.           *)
THEOREM DashboardOnlyWatches == BoardSpec => Init /\ [][Next]_vars
<1>1. BoardInit => Init
  BY DEF BoardInit
<1> QED
  BY <1>1, BoardSteps, PTL DEF BoardSpec

(* /metrics calls them counters: while the process lives none of them falls,*)
(* whatever recoveries, failed marks and retries do to the rows.            *)
THEOREM CountersNeverFall ==
  BoardSpec => [][proc # "down" /\ proc' # "down" =>
                    \A c \in Counters : tally[c] <= tally'[c]]_boardVars
<1>1. BoardInv /\ [BoardNext]_boardVars =>
        [proc # "down" /\ proc' # "down" =>
           \A c \in Counters : tally[c] <= tally'[c]]_boardVars
  BY TallyGrows DEF BoardInv
<1> QED
  BY <1>1, BoardInvariant, PTL DEF BoardSpec
=============================================================================
