-------------------------- MODULE RelayQueueProofs --------------------------
(***************************************************************************)
(* Safety of RelayQueue for every number of messages and workers and every *)
(* value of its constants.  The inductive invariant is built in layers:    *)
(* Typed (types and what the registers may hold), Claimed (who owns a      *)
(* row), Ordered (what a live snapshot knows) and Counted (deliveries and  *)
(* attempts), each inductive once the ones before it are known.            *)
(***************************************************************************)
EXTENDS RelayQueue, TLAPS

\* What a worker's registers may hold at each point of processOne.
Registers ==
  /\ \A w \in Workers :
       /\ pc[w] \in Holding => jobAttempts[w] >= 1
       /\ pc[w] = "markRetry" => jobAttempts[w] < MaxAttempts
  /\ proc = "down" => \A w \in Workers : pc[w] = "idle"

Typed == TypeOK /\ Registers

\* A claim whose snapshot is current sees the row as it is.
Snapshot ==
  \A w \in Workers : pc[w] = "claiming" /\ w \notin stale =>
    status[job[w]] = "pending" /\ attempts[job[w]] = jobAttempts[w]

Claimed == Snapshot /\ ExclusiveClaim

\* It also chose an oldest row among those never tried, which are all due.
Ordered ==
  /\ \A m \in Messages : status[m] \in {"none", "pending"} /\ attempts[m] = 0
                           => wait[m] = 0
  /\ \A w \in Workers : pc[w] = "claiming" /\ w \notin stale =>
       \A k \in Messages : status[k] = "pending" /\ attempts[k] = 0
                             => createdAt[job[w]] <= createdAt[k]

\* Where a worker stands tells how much of its message's count is its own.  The
\* counts allow each message some deliveries x beyond those the queue explains:
\* none here, those a power failure costs in RelayProofs.
Credit(x) ==
  \A w \in Workers :
    /\ pc[w] \in {"sending", "markRetry", "markFailed"} =>
         delivered[job[w]] <= lost[job[w]] + recovered[job[w]] + x[job[w]]
    /\ pc[w] \in {"accepted", "markSent"} => delivered[job[w]] >= 1

Explained(x) ==
  \A m \in Messages :
    delivered[m] <= lost[m] + recovered[m] + x[m]
                      + (IF status[m] \in {"processing", "sent"} THEN 1 ELSE 0)

Counted(x) == Credit(x) /\ Explained(x) /\ AttemptsBounded

NoneExtra == [m \in Messages |-> 0]

(* The initial state satisfies every layer.                                 *)
LEMMA InitInv == Init => Typed /\ Claimed /\ Ordered /\ Counted(NoneExtra)
  BY NoMessageAssumption, AttemptsAssumption, TimesAssumption, BoundsAssumption
  DEF Init, Typed, TypeOK, Registers, Claimed, Snapshot, ExclusiveClaim, Ordered,
      Counted, Credit, Explained, NoneExtra, AttemptsBounded, Statuses, Points,
      MarkPoints, Holding, Claiming

-----------------------------------------------------------------------------
(* The recovery of a start keeps the rows in their types.                   *)
LEMMA RecoverTyped ==
  ASSUME TypeOK, Recover
  PROVE  /\ status' \in [Messages -> Statuses]
         /\ wait' \in [Messages -> 0..RetryMax]
         /\ age' \in [Messages -> 0..StuckTimeout + 1]
         /\ recovered' \in [Messages -> Nat]
         /\ UNCHANGED <<attempts, createdAt, workers, faults, delivered, lost>>
<1> USE TimesAssumption
<1>1. status' \in [Messages -> Statuses]
  BY DEF TypeOK, Recover, Statuses
<1>2. wait' \in [Messages -> 0..RetryMax] /\ age' \in [Messages -> 0..StuckTimeout + 1]
  BY DEF TypeOK, Recover
<1>3. recovered' \in [Messages -> Nat]
  BY DEF TypeOK, Recover
<1>4. UNCHANGED <<attempts, createdAt, workers, faults, delivered, lost>>
  BY DEF Recover
<1> QED
  BY <1>1, <1>2, <1>3, <1>4

(* A committed claim counts one attempt, in the row and in the register.    *)
LEMMA ClaimCounts ==
  ASSUME TypeOK, NEW w \in Workers, ClaimCommit(w)
  PROVE  /\ attempts' \in [Messages -> Nat]
         /\ jobAttempts' \in [Workers -> Nat] /\ jobAttempts'[w] >= 1
<1>1. job[w] \in Messages /\ attempts \in [Messages -> Nat]
      /\ jobAttempts \in [Workers -> Nat]
  BY DEF TypeOK, ClaimCommit
<1>2. attempts' = [attempts EXCEPT ![job[w]] = @ + 1]
      /\ jobAttempts' = [jobAttempts EXCEPT ![w] = @ + 1]
  BY DEF ClaimCommit
<1> QED
  BY <1>1, <1>2

(* Every step of processOne, of the store and of the process's life keeps   *)
(* the rows and registers in their types.                                   *)
LEMMA TypedStep == Typed /\ [Next]_vars => Typed'
<1> USE NoMessageAssumption, AttemptsAssumption, TimesAssumption, StampsAssumption,
        BoundsAssumption
    DEF Typed, TypeOK, Registers, Statuses, Points, MarkPoints, Holding, Claiming,
        rows, workers, bounds, history
<1> SUFFICES ASSUME Typed, [Next]_vars PROVE Typed'
  OBVIOUS
<1>1. ASSUME NEW m \in Messages, Enqueue(m) PROVE Typed'
  BY <1>1 DEF Enqueue
<1>2. ASSUME NEW w \in Workers, ClaimSelect(w) PROVE Typed'
  BY <1>2 DEF ClaimSelect
<1>3. ASSUME NEW w \in Workers, ClaimCommit(w) PROVE Typed'
  <2>0. status' \in [Messages -> Statuses] /\ age' \in [Messages -> 0..StuckTimeout + 1]
    BY <1>3 DEF ClaimCommit
  <2>1. /\ attempts' \in [Messages -> Nat]
        /\ jobAttempts' \in [Workers -> Nat] /\ jobAttempts'[w] >= 1
    BY <1>3, ClaimCounts
  <2>2. pc' = [pc EXCEPT ![w] = "sending"] /\ pc[w] = "claiming"
    BY <1>3 DEF ClaimCommit
  <2>3. pc' \in [Workers -> Points]
    BY <2>2
  <2>4. UNCHANGED <<createdAt, wait, proc, job, bounds, history>> /\ proc = "up"
    BY <1>3 DEF ClaimCommit
  <2>5. stale' \subseteq {v \in Workers : pc'[v] = "claiming"}
    BY <1>3, <2>2 DEF ClaimCommit, Outdate
  <2>6. \A v \in Workers : pc'[v] # "idle" => job'[v] \in Messages
    BY <2>2, <2>4
  <2>7. \A v \in Workers \ {w} : jobAttempts'[v] = jobAttempts[v] /\ pc'[v] = pc[v]
    BY <1>3 DEF ClaimCommit
  <2>8. Registers'
    BY <2>1, <2>2, <2>4, <2>7
  <2> QED
    BY <2>0, <2>1, <2>3, <2>4, <2>5, <2>6, <2>8
<1>4. ASSUME NEW w \in Workers, ClaimAbort(w) PROVE Typed'
  <2>1. job' \in [Workers -> Messages \cup {NoMessage}] /\ pc' \in [Workers -> Points]
    BY <1>4 DEF ClaimAbort, Release
  <2>2. jobAttempts' \in [Workers -> Nat]
    BY <1>4 DEF ClaimAbort, Release
  <2>3. stale' \subseteq {v \in Workers : pc'[v] = "claiming"}
    BY <1>4 DEF ClaimAbort, Release
  <2>4. \A v \in Workers : pc'[v] # "idle" => job'[v] \in Messages
    BY <1>4 DEF ClaimAbort, Release
  <2>5. Registers'
    BY <1>4 DEF ClaimAbort, Release
  <2>6. stops' \in 0..MaxStops /\ faults' \in 0..MaxFaults
    <3>1. UNCHANGED bounds \/ StoreFails
      BY <1>4 DEF ClaimAbort
    <3> QED
      BY <3>1 DEF StoreFails
  <2>7. UNCHANGED <<rows, proc, history>>
    BY <1>4 DEF ClaimAbort
  <2> QED
    BY <2>1, <2>2, <2>3, <2>4, <2>5, <2>6, <2>7
<1>5. ASSUME NEW w \in Workers, GmailAccept(w) PROVE Typed'
  <2>1. delivered' \in [Messages -> Nat]
    BY <1>5 DEF GmailAccept
  <2>2. pc' = [pc EXCEPT ![w] = "accepted"] /\ pc[w] = "sending"
    BY <1>5 DEF GmailAccept
  <2>3. UNCHANGED <<rows, proc, job, jobAttempts, stale, bounds, lost, recovered>>
    BY <1>5 DEF GmailAccept
  <2>4. pc' \in [Workers -> Points]
    BY <2>2
  <2>5. stale' \subseteq {v \in Workers : pc'[v] = "claiming"}
    BY <2>2, <2>3
  <2>6. \A v \in Workers : pc'[v] # "idle" => job'[v] \in Messages
    BY <2>2, <2>3
  <2>7. Registers'
    BY <2>2, <2>3
  <2> QED
    BY <2>1, <2>3, <2>4, <2>5, <2>6, <2>7
<1>6. ASSUME NEW w \in Workers, SendOK(w) PROVE Typed'
  BY <1>6 DEF SendOK
<1>7. ASSUME NEW w \in Workers, SendTransient(w) PROVE Typed'
  <2>1. lost' \in [Messages -> Nat]
    BY <1>7 DEF SendTransient
  <2> DEFINE p == IF jobAttempts[w] >= MaxAttempts THEN "markFailed" ELSE "markRetry"
  <2>2. /\ pc' = [pc EXCEPT ![w] = p]
        /\ p \in {"markRetry", "markFailed"}
        /\ p = "markRetry" => jobAttempts[w] < MaxAttempts
    BY <1>7 DEF SendTransient
  <2> HIDE DEF p
  <2>3. pc[w] \in Holding /\ jobAttempts[w] >= 1
    BY <1>7 DEF SendTransient
  <2>4. UNCHANGED <<rows, proc, job, jobAttempts, stale, bounds, delivered, recovered>>
    BY <1>7 DEF SendTransient
  <2>5. stale' \subseteq {v \in Workers : pc'[v] = "claiming"}
    BY <2>2, <2>3, <2>4
  <2>6. pc' \in [Workers -> Points]
    BY <2>2
  <2>7. \A v \in Workers : pc'[v] # "idle" => job'[v] \in Messages
    BY <2>2, <2>3, <2>4
  <2>8. Registers'
    BY <2>2, <2>3, <2>4
  <2> QED
    BY <2>1, <2>4, <2>5, <2>6, <2>7, <2>8
<1>8. ASSUME NEW w \in Workers, SendPermanent(w) PROVE Typed'
  BY <1>8 DEF SendPermanent
<1>9. ASSUME NEW w \in Workers, MarkSent(w) PROVE Typed'
  <2>1. job' \in [Workers -> Messages \cup {NoMessage}] /\ pc' \in [Workers -> Points]
    BY <1>9 DEF MarkSent, Release
  <2>2. stale' \subseteq {v \in Workers : pc'[v] = "claiming"}
    BY <1>9 DEF MarkSent, Release, Outdate
  <2>3. \A v \in Workers : pc'[v] # "idle" => job'[v] \in Messages
    BY <1>9 DEF MarkSent, Release
  <2>4. Registers'
    BY <1>9 DEF MarkSent, Release
  <2>5. /\ status' \in [Messages -> Statuses]
        /\ wait' \in [Messages -> 0..RetryMax]
        /\ age' \in [Messages -> 0..StuckTimeout + 1]
        /\ jobAttempts' \in [Workers -> Nat]
    BY <1>9 DEF MarkSent, Release
  <2> QED
    BY <2>1, <2>2, <2>3, <2>4, <2>5, <1>9 DEF MarkSent
<1>10. ASSUME NEW w \in Workers, MarkRetry(w) PROVE Typed'
  <2>0. Backoff[jobAttempts[w]] \in 0..RetryMax
    BY <1>10 DEF MarkRetry
  <2>1. job' \in [Workers -> Messages \cup {NoMessage}] /\ pc' \in [Workers -> Points]
    BY <1>10 DEF MarkRetry, Release
  <2>2. stale' \subseteq {v \in Workers : pc'[v] = "claiming"}
    BY <1>10 DEF MarkRetry, Release, Outdate
  <2>3. \A v \in Workers : pc'[v] # "idle" => job'[v] \in Messages
    BY <1>10 DEF MarkRetry, Release
  <2>4. Registers'
    BY <1>10 DEF MarkRetry, Release
  <2>5. /\ status' \in [Messages -> Statuses]
        /\ wait' \in [Messages -> 0..RetryMax]
        /\ age' \in [Messages -> 0..StuckTimeout + 1]
        /\ jobAttempts' \in [Workers -> Nat]
    BY <2>0, <1>10 DEF MarkRetry, Release
  <2> QED
    BY <2>1, <2>2, <2>3, <2>4, <2>5, <1>10 DEF MarkRetry
<1>11. ASSUME NEW w \in Workers, MarkFailed(w) PROVE Typed'
  <2>1. job' \in [Workers -> Messages \cup {NoMessage}] /\ pc' \in [Workers -> Points]
    BY <1>11 DEF MarkFailed, Release
  <2>2. stale' \subseteq {v \in Workers : pc'[v] = "claiming"}
    BY <1>11 DEF MarkFailed, Release, Outdate
  <2>3. \A v \in Workers : pc'[v] # "idle" => job'[v] \in Messages
    BY <1>11 DEF MarkFailed, Release
  <2>4. Registers'
    BY <1>11 DEF MarkFailed, Release
  <2>5. /\ status' \in [Messages -> Statuses]
        /\ wait' \in [Messages -> 0..RetryMax]
        /\ age' \in [Messages -> 0..StuckTimeout + 1]
        /\ jobAttempts' \in [Workers -> Nat]
    BY <1>11 DEF MarkFailed, Release
  <2> QED
    BY <2>1, <2>2, <2>3, <2>4, <2>5, <1>11 DEF MarkFailed
<1>12. ASSUME NEW w \in Workers, MarkError(w) PROVE Typed'
  <2>1. job' \in [Workers -> Messages \cup {NoMessage}] /\ pc' \in [Workers -> Points]
    BY <1>12 DEF MarkError, Release
  <2>2. jobAttempts' \in [Workers -> Nat]
    BY <1>12 DEF MarkError, Release
  <2>3. stale' \subseteq {v \in Workers : pc'[v] = "claiming"}
    BY <1>12 DEF MarkError, Release
  <2>4. \A v \in Workers : pc'[v] # "idle" => job'[v] \in Messages
    BY <1>12 DEF MarkError, Release
  <2>5. Registers'
    BY <1>12 DEF MarkError, Release
  <2>6. stops' \in 0..MaxStops /\ faults' \in 0..MaxFaults
    BY <1>12 DEF MarkError, StoreFails
  <2>7. UNCHANGED <<rows, proc, history>>
    BY <1>12 DEF MarkError
  <2> QED
    BY <2>1, <2>2, <2>3, <2>4, <2>5, <2>6, <2>7
<1>13. CASE Crash
  BY <1>13 DEF Crash, Die, Stop
<1>14. CASE Shutdown
  BY <1>14 DEF Shutdown, Stop
<1>15. CASE Exit
  BY <1>15 DEF Exit, Die
<1>16. CASE Start
  <2>1. /\ status' \in [Messages -> Statuses]
        /\ wait' \in [Messages -> 0..RetryMax]
        /\ age' \in [Messages -> 0..StuckTimeout + 1]
        /\ recovered' \in [Messages -> Nat]
    BY <1>16, RecoverTyped DEF Start
  <2>2. UNCHANGED <<attempts, createdAt, workers, faults, delivered, lost>>
    BY <1>16, RecoverTyped DEF Start
  <2>3. proc' = "up" /\ UNCHANGED stops
    BY <1>16 DEF Start
  <2>4. Registers'
    BY <2>2, <2>3
  <2> QED
    BY <2>1, <2>2, <2>3, <2>4
<1>17. CASE StartFails
  <2>1. /\ status' \in [Messages -> Statuses]
        /\ wait' \in [Messages -> 0..RetryMax]
        /\ age' \in [Messages -> 0..StuckTimeout + 1]
        /\ recovered' \in [Messages -> Nat]
    BY <1>17, RecoverTyped DEF StartFails
  <2>2. UNCHANGED <<attempts, createdAt, workers, faults, delivered, lost>>
    BY <1>17, RecoverTyped DEF StartFails
  <2>3. stops' \in 0..MaxStops /\ UNCHANGED proc
    BY <1>17 DEF StartFails, Stop
  <2>4. Registers'
    BY <2>2, <2>3
  <2> QED
    BY <2>1, <2>2, <2>3, <2>4
<1>18. CASE Tick
  <2>1. wait' \in [Messages -> 0..RetryMax]
    BY <1>18 DEF Tick
  <2>2. age' \in [Messages -> 0..StuckTimeout + 1]
    BY <1>18 DEF Tick
  <2>3. UNCHANGED <<status, attempts, createdAt, proc, workers, bounds, history>>
    BY <1>18 DEF Tick
  <2> QED
    BY <2>1, <2>2, <2>3
<1>19. CASE UNCHANGED vars
  BY <1>19 DEF vars
<1> QED
  BY <1>1, <1>2, <1>3, <1>4, <1>5, <1>6, <1>7, <1>8, <1>9, <1>10, <1>11, <1>12,
     <1>13, <1>14, <1>15, <1>16, <1>17, <1>18, <1>19 DEF Next, WorkerStep

(* Ownership: a live snapshot stays true, and a claimed row has one worker, *)
(* because every commit outdates the other claims, the UPDATE asks for      *)
(* pending, and recovery runs only while no worker exists.                  *)
LEMMA ClaimedStep == Typed /\ Claimed /\ [Next]_vars => Claimed'
<1> USE NoMessageAssumption
    DEF Typed, TypeOK, Registers, Claimed, Snapshot, ExclusiveClaim, MarkPoints,
        Holding, Claiming, rows, workers, bounds, history
<1> SUFFICES ASSUME Typed, Claimed, [Next]_vars PROVE Claimed'
  OBVIOUS
<1>1. ASSUME NEW m \in Messages, Enqueue(m) PROVE Claimed'
  BY <1>1 DEF Enqueue
<1>2. ASSUME NEW w \in Workers, ClaimSelect(w) PROVE Claimed'
  BY <1>2 DEF ClaimSelect, Oldest, Due
<1>3. ASSUME NEW w \in Workers, ClaimCommit(w) PROVE Claimed'
  <2>1. Snapshot'
    BY <1>3 DEF ClaimCommit, Outdate
  <2>2. \A v \in Workers \ {w} : pc[v] \in Holding => job[v] # job[w]
    BY <1>3 DEF ClaimCommit
  <2>3. ExclusiveClaim'
    BY <1>3, <2>2 DEF ClaimCommit
  <2> QED
    BY <2>1, <2>3
<1>4. ASSUME NEW w \in Workers, ClaimAbort(w) PROVE Claimed'
  BY <1>4 DEF ClaimAbort, Release
<1>5. ASSUME NEW w \in Workers, GmailAccept(w) PROVE Claimed'
  BY <1>5 DEF GmailAccept
<1>6. ASSUME NEW w \in Workers, SendOK(w) PROVE Claimed'
  BY <1>6 DEF SendOK
<1>7. ASSUME NEW w \in Workers, SendTransient(w) PROVE Claimed'
  <2> DEFINE p == IF jobAttempts[w] >= MaxAttempts THEN "markFailed" ELSE "markRetry"
  <2>1. pc' = [pc EXCEPT ![w] = p] /\ p \in {"markRetry", "markFailed"}
    BY <1>7 DEF SendTransient
  <2>2. pc[w] \in Holding /\ UNCHANGED <<rows, job, jobAttempts, stale>>
    BY <1>7 DEF SendTransient
  <2> HIDE DEF p
  <2> QED
    BY <2>1, <2>2
<1>8. ASSUME NEW w \in Workers, SendPermanent(w) PROVE Claimed'
  BY <1>8 DEF SendPermanent
<1>9. ASSUME NEW w \in Workers, MarkSent(w) \/ MarkRetry(w) \/ MarkFailed(w)
      PROVE Claimed'
  <2>1. /\ pc[w] \in Holding /\ Release(w) /\ Outdate(w) /\ UNCHANGED attempts
        /\ \A m \in Messages \ {job[w]} : status'[m] = status[m]
    BY <1>9 DEF MarkSent, MarkRetry, MarkFailed
  <2>2. Snapshot'
    BY <2>1 DEF Release, Outdate
  <2>3. \A v \in Workers : pc'[v] \in Holding =>
          v # w /\ pc[v] \in Holding /\ job'[v] = job[v] /\ job[v] # job[w]
                /\ jobAttempts'[v] = jobAttempts[v]
    BY <2>1 DEF Release
  <2>4. ExclusiveClaim'
    BY <2>1, <2>3
  <2> QED
    BY <2>2, <2>4
<1>10. ASSUME NEW w \in Workers, MarkError(w) PROVE Claimed'
  BY <1>10 DEF MarkError, Release
<1>11. CASE Crash \/ Exit
  BY <1>11 DEF Crash, Exit, Die
<1>12. CASE Shutdown
  BY <1>12 DEF Shutdown
<1>13. CASE Start \/ StartFails
  BY <1>13 DEF Start, StartFails, Recover
<1>14. CASE Tick
  BY <1>14 DEF Tick
<1>15. CASE UNCHANGED vars
  BY <1>15 DEF vars
<1> QED
  BY <1>1, <1>2, <1>3, <1>4, <1>5, <1>6, <1>7, <1>8, <1>9, <1>10, <1>11, <1>12,
     <1>13, <1>14, <1>15 DEF Next, WorkerStep

(* Order: a live snapshot's choice stays oldest among rows never tried,     *)
(* because an Enqueue outdates it and no other step makes such a row.       *)
LEMMA OrderedStep == Typed /\ Claimed /\ Ordered /\ [Next]_vars => Ordered'
<1> USE NoMessageAssumption
    DEF Typed, TypeOK, Registers, Claimed, Snapshot, ExclusiveClaim, Ordered,
        MarkPoints, Holding, Claiming, rows, workers, bounds, history
<1> SUFFICES ASSUME Typed, Claimed, Ordered, [Next]_vars PROVE Ordered'
  OBVIOUS
<1>1. ASSUME NEW m \in Messages, Enqueue(m) PROVE Ordered'
  BY <1>1 DEF Enqueue
<1>2. ASSUME NEW w \in Workers, ClaimSelect(w) PROVE Ordered'
  BY <1>2 DEF ClaimSelect, Oldest, Due
<1>3. ASSUME NEW w \in Workers, ClaimCommit(w) PROVE Ordered'
  BY <1>3 DEF ClaimCommit, Outdate
<1>4. ASSUME NEW w \in Workers, ClaimAbort(w) PROVE Ordered'
  BY <1>4 DEF ClaimAbort, Release
<1>5. ASSUME NEW w \in Workers,
             GmailAccept(w) \/ SendOK(w) \/ SendTransient(w) \/ SendPermanent(w)
      PROVE Ordered'
  <2>1. UNCHANGED <<rows, job, stale>>
    BY <1>5 DEF GmailAccept, SendOK, SendTransient, SendPermanent
  <2>2. \A v \in Workers : pc'[v] = "claiming" => pc[v] = "claiming"
    BY <1>5 DEF GmailAccept, SendOK, SendTransient, SendPermanent
  <2> QED
    BY <2>1, <2>2
<1>6. ASSUME NEW w \in Workers, MarkSent(w) \/ MarkRetry(w) \/ MarkFailed(w)
      PROVE Ordered'
  <2>1. /\ pc[w] \in Holding /\ Release(w) /\ Outdate(w)
        /\ UNCHANGED <<attempts, createdAt>>
        /\ \A m \in Messages \ {job[w]} : status'[m] = status[m] /\ wait'[m] = wait[m]
    BY <1>6 DEF MarkSent, MarkRetry, MarkFailed
  <2>2. attempts[job[w]] >= 1
    BY <2>1
  <2>3. \A v \in Workers : pc'[v] = "claiming" => v \in stale'
    BY <2>1 DEF Release, Outdate
  <2> QED
    BY <2>1, <2>2, <2>3
<1>7. ASSUME NEW w \in Workers, MarkError(w) PROVE Ordered'
  BY <1>7 DEF MarkError, Release
<1>8. CASE Crash \/ Exit
  BY <1>8 DEF Crash, Exit, Die
<1>9. CASE Shutdown
  BY <1>9 DEF Shutdown
<1>10. CASE Start \/ StartFails
  BY <1>10 DEF Start, StartFails, Recover
<1>11. CASE Tick
  BY <1>11 DEF Tick
<1>12. CASE UNCHANGED vars
  BY <1>12 DEF vars
<1> QED
  BY <1>1, <1>2, <1>3, <1>4, <1>5, <1>6, <1>7, <1>8, <1>9, <1>10, <1>11, <1>12
  DEF Next, WorkerStep

(* Counts: a worker spends one delivery on its own message and pays for it  *)
(* with the sent row, a lost answer, or the recovery of a stranded row.     *)
LEMMA CountedStep ==
  ASSUME NEW x \in [Messages -> Nat], Typed, Claimed, Counted(x), [Next]_vars
  PROVE  Counted(x)'
<1> USE NoMessageAssumption, AttemptsAssumption
    DEF Typed, TypeOK, Registers, Claimed, Snapshot, ExclusiveClaim, Counted, Credit,
        Explained, AttemptsBounded,
        MarkPoints, Holding, Claiming, rows, workers, bounds, history
<1>1. ASSUME NEW m \in Messages, Enqueue(m) PROVE Counted(x)'
  BY <1>1 DEF Enqueue
<1>2. ASSUME NEW w \in Workers, ClaimSelect(w) PROVE Counted(x)'
  BY <1>2 DEF ClaimSelect
<1>3. ASSUME NEW w \in Workers, ClaimCommit(w) PROVE Counted(x)'
  BY <1>3 DEF ClaimCommit
<1>4. ASSUME NEW w \in Workers, ClaimAbort(w) PROVE Counted(x)'
  BY <1>4 DEF ClaimAbort, Release
<1>5. ASSUME NEW w \in Workers, GmailAccept(w) PROVE Counted(x)'
  BY <1>5 DEF GmailAccept
<1>6. ASSUME NEW w \in Workers, SendOK(w) PROVE Counted(x)'
  BY <1>6 DEF SendOK
<1>7. ASSUME NEW w \in Workers, SendTransient(w) PROVE Counted(x)'
  <2> DEFINE p == IF jobAttempts[w] >= MaxAttempts THEN "markFailed" ELSE "markRetry"
  <2>1. pc' = [pc EXCEPT ![w] = p] /\ p \in {"markRetry", "markFailed"}
    BY <1>7 DEF SendTransient
  <2>2. pc[w] \in Holding /\ UNCHANGED <<rows, job, jobAttempts, delivered, recovered>>
    BY <1>7 DEF SendTransient
  <2>3. /\ lost' \in [Messages -> Nat]
        /\ \A m \in Messages : lost'[m] >= lost[m]
        /\ pc[w] = "accepted" => lost'[job[w]] = lost[job[w]] + 1
    BY <1>7 DEF SendTransient
  <2> HIDE DEF p
  <2>4. delivered[job[w]] <= lost'[job[w]] + recovered[job[w]] + x[job[w]]
    <3>1. CASE pc[w] = "sending"
      BY <3>1, <2>2, <2>3
    <3>2. CASE pc[w] = "accepted"
      BY <3>2, <2>2, <2>3
    <3> QED
      BY <3>1, <3>2, <1>7 DEF SendTransient
  <2>5. Credit(x)'
    BY <2>1, <2>2, <2>3, <2>4
  <2>6. Explained(x)' /\ AttemptsBounded'
    BY <2>2, <2>3
  <2> QED
    BY <2>5, <2>6
<1>8. ASSUME NEW w \in Workers, SendPermanent(w) PROVE Counted(x)'
  BY <1>8 DEF SendPermanent
<1>9. ASSUME NEW w \in Workers, MarkSent(w) \/ MarkRetry(w) \/ MarkFailed(w)
      PROVE Counted(x)'
  <2>1. /\ Release(w) /\ UNCHANGED <<attempts, history>>
        /\ \A m \in Messages \ {job[w]} : status'[m] = status[m]
    BY <1>9 DEF MarkSent, MarkRetry, MarkFailed
  <2>2. Credit(x)'
    BY <2>1 DEF Release
  <2>3. CASE MarkSent(w)
    BY <2>1, <2>2, <2>3 DEF MarkSent
  <2>4. CASE MarkRetry(w)
    BY <2>1, <2>2, <2>4 DEF MarkRetry
  <2>5. CASE MarkFailed(w)
    BY <2>1, <2>2, <2>5 DEF MarkFailed
  <2> QED
    BY <1>9, <2>3, <2>4, <2>5
<1>10. ASSUME NEW w \in Workers, MarkError(w) PROVE Counted(x)'
  BY <1>10 DEF MarkError, Release
<1>11. CASE Crash \/ Exit
  BY <1>11 DEF Crash, Exit, Die
<1>12. CASE Shutdown
  BY <1>12 DEF Shutdown
<1>13. CASE Start \/ StartFails
  BY <1>13 DEF Start, StartFails, Recover
<1>14. CASE Tick
  BY <1>14 DEF Tick
<1>15. CASE UNCHANGED vars
  BY <1>15 DEF vars
<1> QED
  BY <1>1, <1>2, <1>3, <1>4, <1>5, <1>6, <1>7, <1>8, <1>9, <1>10, <1>11, <1>12,
     <1>13, <1>14, <1>15 DEF Next, WorkerStep

-----------------------------------------------------------------------------
(* All layers together: the inductive invariant of Spec.                    *)
QueueInv == Typed /\ Claimed /\ Ordered /\ Counted(NoneExtra)

(* QueueInv holds in every reachable state, whatever the interleaving of    *)
(* sessions, workers, faults, crashes and restarts.                         *)
THEOREM InvariantHolds == Spec => []QueueInv
<1>1. Init => QueueInv
  BY InitInv DEF QueueInv
<1>2. QueueInv /\ [Next]_vars => QueueInv'
  <2>1. NoneExtra \in [Messages -> Nat]
    BY DEF NoneExtra
  <2>2. ASSUME Typed, Claimed, Counted(NoneExtra), [Next]_vars PROVE Counted(NoneExtra)'
    BY <2>1, <2>2, CountedStep
  <2> QED
    BY <2>2, TypedStep, ClaimedStep, OrderedStep DEF QueueInv
<1> QED
  BY <1>1, <1>2, PTL DEF Spec

(* The rows, registers and counters keep their types; in particular a retry *)
(* never waits longer than WORKER_RETRY_MAX_SECONDS.                        *)
THEOREM TypeCorrect == Spec => []TypeOK
<1>1. QueueInv => TypeOK
  BY DEF QueueInv, Typed
<1> QED
  BY <1>1, InvariantHolds, PTL

(* No message is ever in two workers' hands, and a mark always meets the    *)
(* processing row its worker claimed: Mark*'s missing status guard is safe. *)
THEOREM ClaimsAreExclusive == Spec => []ExclusiveClaim
<1>1. QueueInv => ExclusiveClaim
  BY DEF QueueInv, Claimed
<1> QED
  BY <1>1, InvariantHolds, PTL

(* Duplicate deliveries come only from lost answers and recovered rows.     *)
THEOREM DuplicatesAreExplained == Spec => []DeliveriesExplained
<1>1. QueueInv => DeliveriesExplained
  <2> SUFFICES ASSUME QueueInv PROVE DeliveriesExplained
    OBVIOUS
  <2> USE DEF DeliveriesExplained
  <2> TAKE m \in Messages
  <2>1. NoneExtra[m] = 0 /\ lost[m] \in Nat /\ recovered[m] \in Nat
    BY DEF NoneExtra, QueueInv, Typed, TypeOK
  <2>2. delivered[m] <= lost[m] + recovered[m] + NoneExtra[m]
                          + (IF status[m] \in {"processing", "sent"} THEN 1 ELSE 0)
    BY DEF QueueInv, Counted, Explained
  <2> QED
    BY <2>1, <2>2
<1> QED
  BY <1>1, InvariantHolds, PTL

(* A message is claimed at most WORKER_MAX_ATTEMPTS times, plus one for each*)
(* recovery of its row.                                                     *)
THEOREM AttemptsAreBounded == Spec => []AttemptsBounded
<1>1. QueueInv => AttemptsBounded
  BY DEF QueueInv, Counted
<1> QED
  BY <1>1, InvariantHolds, PTL

-----------------------------------------------------------------------------
(* What each step does to the rows, as far as a client can tell.            *)
LEMMA RowSteps ==
  ASSUME [Next]_vars
  PROVE  \/ UNCHANGED <<status, attempts, delivered>>
         \/ \E m \in Messages : Enqueue(m)
         \/ \E w \in Workers :
              ClaimCommit(w) \/ GmailAccept(w) \/ MarkSent(w) \/ MarkRetry(w)
                \/ MarkFailed(w)
         \/ Recover
<1>1. ASSUME NEW w \in Workers,
             ClaimSelect(w) \/ ClaimAbort(w) \/ SendOK(w) \/ SendTransient(w)
               \/ SendPermanent(w) \/ MarkError(w)
      PROVE UNCHANGED <<status, attempts, delivered>>
  BY <1>1 DEF ClaimSelect, ClaimAbort, SendOK, SendTransient, SendPermanent,
              MarkError, rows, history
<1>2. ASSUME Crash \/ Shutdown \/ Exit \/ Tick \/ UNCHANGED vars
      PROVE UNCHANGED <<status, attempts, delivered>>
  BY <1>2 DEF Crash, Shutdown, Exit, Die, Tick, vars, rows, history
<1>3. ASSUME Start \/ StartFails PROVE Recover
  BY <1>3 DEF Start, StartFails
<1> QED
  BY <1>1, <1>2, <1>3 DEF Next, WorkerStep

\* What TerminalIsFinal asks of a step, and NoOvertaking.
Final == \A m \in Messages : status[m] \in {"sent", "failed"} =>
           status'[m] = status[m] /\ attempts'[m] = attempts[m]
             /\ delivered'[m] = delivered[m]

InOrder == \A m, k \in Messages :
             /\ status[m] = "pending" /\ status'[m] = "processing"
             /\ status[k] = "pending" /\ attempts[k] = 0
             => createdAt[m] <= createdAt[k]

(* Only a worker that owns a processing row reaches a mark.                 *)
LEMMA FinalStep == ASSUME Typed, Claimed, [Next]_vars PROVE Final
<1> USE DEF Typed, TypeOK, Claimed, Snapshot, ExclusiveClaim, Holding, MarkPoints,
            history, Final
<1>1. ASSUME NEW m \in Messages, Enqueue(m) PROVE Final
  BY <1>1 DEF Enqueue
<1>2. ASSUME NEW w \in Workers, ClaimCommit(w) PROVE Final
  BY <1>2 DEF ClaimCommit
<1>3. ASSUME NEW w \in Workers, GmailAccept(w) PROVE Final
  BY <1>3 DEF GmailAccept, rows
<1>4. ASSUME NEW w \in Workers, MarkSent(w) \/ MarkRetry(w) \/ MarkFailed(w)
      PROVE  Final
  BY <1>4 DEF MarkSent, MarkRetry, MarkFailed
<1>5. CASE Recover
  BY <1>5 DEF Recover
<1>6. CASE UNCHANGED <<status, attempts, delivered>>
  BY <1>6
<1> QED
  BY <1>1, <1>2, <1>3, <1>4, <1>5, <1>6, RowSteps

(* The claim's snapshot makes an Enqueue between its SELECT and its UPDATE  *)
(* abort the claim.                                                         *)
LEMMA InOrderStep == ASSUME Typed, Ordered, [Next]_vars PROVE InOrder
<1> USE DEF Typed, TypeOK, InOrder
<1>1. ASSUME NEW m \in Messages, Enqueue(m) PROVE InOrder
  BY <1>1 DEF Enqueue
<1>2. ASSUME NEW w \in Workers, ClaimCommit(w) PROVE InOrder
  BY <1>2 DEF ClaimCommit, Ordered
<1>3. ASSUME NEW w \in Workers, GmailAccept(w) PROVE InOrder
  BY <1>3 DEF GmailAccept, rows
<1>4. ASSUME NEW w \in Workers, MarkSent(w) \/ MarkRetry(w) \/ MarkFailed(w)
      PROVE  InOrder
  BY <1>4 DEF MarkSent, MarkRetry, MarkFailed
<1>5. CASE Recover
  BY <1>5 DEF Recover
<1>6. CASE UNCHANGED <<status, attempts, delivered>>
  BY <1>6
<1> QED
  BY <1>1, <1>2, <1>3, <1>4, <1>5, <1>6, RowSteps

(* sent and failed are final, although no mark checks the status it         *)
(* overwrites.                                                              *)
THEOREM VerdictsAreFinal == Spec => TerminalIsFinal
<1>1. QueueInv /\ [Next]_vars => [Final]_vars
  BY FinalStep DEF QueueInv
<1> QED
  BY <1>1, InvariantHolds, PTL DEF Spec, TerminalIsFinal, Final

(* First attempts are made in created_at order.                             *)
THEOREM ClaimsKeepOrder == Spec => NoOvertaking
<1>1. QueueInv /\ [Next]_vars => [InOrder]_vars
  BY InOrderStep DEF QueueInv
<1> QED
  BY <1>1, InvariantHolds, PTL DEF Spec, NoOvertaking, InOrder

(* Every step is one of the ledger's, or nothing the client can see; a      *)
(* message is called sent only by a worker whose delivery was counted.      *)
LEMMA LedgerStep ==
  ASSUME NEW x, Typed, Claimed, Credit(x), [Next]_vars
  PROVE  [L!Next]_(L!ledgerVars)
<1> USE DEF Typed, TypeOK, Statuses, L!ledgerVars, Verdict, history
<1>1. ASSUME NEW m \in Messages, Enqueue(m) PROVE L!Accept(m)
  BY <1>1 DEF Enqueue, L!Accept
<1>2. ASSUME NEW w \in Workers, ClaimCommit(w) PROVE UNCHANGED L!ledgerVars
  BY <1>2 DEF ClaimCommit
<1>3. ASSUME NEW w \in Workers, GmailAccept(w)
      PROVE  job[w] \in Messages /\ L!Deliver(job[w])
  BY <1>3 DEF GmailAccept, L!Deliver, Claimed, ExclusiveClaim, Holding, rows
<1>4. ASSUME NEW w \in Workers, MarkSent(w)
      PROVE  job[w] \in Messages /\ L!Complete(job[w])
  BY <1>4 DEF MarkSent, L!Complete, Claimed, ExclusiveClaim, Holding,
              MarkPoints, Credit
<1>5. ASSUME NEW w \in Workers, MarkRetry(w) PROVE UNCHANGED L!ledgerVars
  BY <1>5 DEF MarkRetry, Claimed, ExclusiveClaim, Holding, MarkPoints
<1>6. ASSUME NEW w \in Workers, MarkFailed(w)
      PROVE  job[w] \in Messages /\ L!GiveUp(job[w])
  BY <1>6 DEF MarkFailed, L!GiveUp, Claimed, ExclusiveClaim, Holding, MarkPoints
<1>7. ASSUME Recover PROVE UNCHANGED L!ledgerVars
  <2>1. \A m \in Messages : Verdict(status'[m]) = Verdict(status[m])
    BY <1>7 DEF Recover
  <2>2. UNCHANGED delivered
    BY <1>7 DEF Recover
  <2> QED
    BY <2>1, <2>2
<1>8. ASSUME UNCHANGED <<status, attempts, delivered>> PROVE UNCHANGED L!ledgerVars
  BY <1>8
<1> HIDE DEF Typed, TypeOK, Statuses, L!ledgerVars, Verdict, history
<1> QED
  BY <1>1, <1>2, <1>3, <1>4, <1>5, <1>6, <1>7, <1>8, RowSteps DEF L!Next

(* The queue implements the ledger: to the client, claims, retries, errors, *)
(* crashes and recoveries are invisible, and what is visible is lawful.     *)
THEOREM QueueImplementsLedger == Spec => ImplementsLedger
<1>1. Init => L!Init
  BY DEF Init, L!Init, Verdict
<1>2. QueueInv /\ [Next]_vars => [L!Next]_(L!ledgerVars)
  BY LedgerStep DEF QueueInv, Counted
<1> QED
  BY <1>1, <1>2, InvariantHolds, PTL DEF Spec, ImplementsLedger, L!Spec
=============================================================================
