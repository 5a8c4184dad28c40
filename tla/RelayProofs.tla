---------------------------- MODULE RelayProofs -----------------------------
(***************************************************************************)
(* Safety of the composed relay, on a machine that may lose power, for     *)
(* every number of clients, workers and messages.  The queue's invariants  *)
(* are taken over step by step from RelayQueueProofs; added to them is     *)
(* what the disk holds, and the room each receiving session has reserved.  *)
(***************************************************************************)
EXTENDS Relay, RelayQueueProofs, FiniteSetTheorems

Owed(st) == {m \in Messages : st[m] \in {"pending", "processing"}}

Base == RelayTypeOK /\ Typed /\ Claimed

\* A power failure must find the attempts on the disk within their bound too.
Paid == /\ Counted(takenBack)
        /\ \A m \in Messages :
             disk.attempts[m] + (IF disk.status[m] \in {"none", "pending"} THEN 1 ELSE 0)
               <= MaxAttempts + recovered[m]

Room == /\ Cardinality(A!Inside) <= MaxConnections
        /\ BacklogCount + Cardinality(Receivers) < MaxBacklog + MaxConnections
        /\ Cardinality(Owed(disk.status)) < MaxBacklog + MaxConnections

\* It must find messages never tried due, and no row of one taken back before.
Lined == /\ Ordered
         /\ \A m \in Messages :
              disk.status[m] \in {"none", "pending"} /\ disk.attempts[m] = 0
                => disk.wait[m] = 0
         /\ \A m \in forgotten : status[m] = "none" /\ disk.status[m] = "none"

\* The theorems of the ledger that the relay implements.
DP == INSTANCE DurableLedgerProofs
        WITH verdict <- [m \in Messages |-> Verdict(status[m])],
             deliveries <- delivered,
             durable <- [m \in Messages |-> Verdict(disk.status[m])],
             gone <- forgotten

-----------------------------------------------------------------------------
(* Every step is one of the queue's, or a power failure; and the disk       *)
(* changes only when it is written to, but for the clocks.                  *)
LEMMA QueueSteps ==
  ASSUME [RelayNext]_relayVars
  PROVE  \/ /\ [Next]_vars /\ UNCHANGED <<forgotten, takenBack>>
            /\ disk' = disk \/ (TickBoth /\ UNCHANGED stage) \/ (Sync /\ UNCHANGED stage)
         \/ PowerFail /\ stage' = NobodyInside
<1>1. ASSUME NEW s \in Sessions, Serve(s)
      PROVE  UNCHANGED <<vars, medium>>
  BY <1>1 DEF Serve
<1>2. ASSUME NEW s \in Sessions, Submit(s)
      PROVE  Next /\ UNCHANGED medium
  BY <1>2 DEF Submit, Next
<1>3. ASSUME NEW w \in Workers, Work(w)
      PROVE  Next /\ UNCHANGED medium
  BY <1>3 DEF Work, Next
<1>4. CASE SignalStop \/ Return \/ Begin
  BY <1>4 DEF SignalStop, Return, Begin, Next, medium
<1>5. CASE GoDown
  BY <1>5 DEF GoDown, Next, medium
<1>6. CASE TickBoth /\ UNCHANGED stage
  BY <1>6 DEF TickBoth, Next
<1>7. CASE Sync /\ UNCHANGED stage
  BY <1>7 DEF Sync
<1>8. CASE UNCHANGED relayVars
  BY <1>8 DEF relayVars, medium
<1> QED
  BY <1>1, <1>2, <1>3, <1>4, <1>5, <1>6, <1>7, <1>8 DEF RelayNext, medium

(* The disk keeps its types.                                                *)
LEMMA DiskTyped ==
  ASSUME Base, [RelayNext]_relayVars
  PROVE  /\ disk' \in [status: [Messages -> Statuses], attempts: [Messages -> Nat],
                       createdAt: [Messages -> Nat], wait: [Messages -> 0..RetryMax],
                       age: [Messages -> 0..StuckTimeout + 1]]
         /\ forgotten' \subseteq Messages
         /\ takenBack' \in [Messages -> Nat]
<1> USE TimesAssumption DEF Base, RelayTypeOK, TypeOK
<1>1. CASE disk' = disk /\ UNCHANGED <<forgotten, takenBack>>
  BY <1>1
<1>2. CASE TickBoth
  <2> DEFINE wt == [m \in Messages |-> IF disk.wait[m] > 0 THEN disk.wait[m] - 1 ELSE 0]
             ag == [m \in Messages |->
                      IF disk.status[m] = "processing" /\ disk.age[m] <= StuckTimeout
                        THEN disk.age[m] + 1 ELSE disk.age[m]]
  <2>1. disk' = [disk EXCEPT !.wait = wt, !.age = ag] /\ UNCHANGED <<forgotten, takenBack>>
    BY <1>2 DEF TickBoth
  <2>2. wt \in [Messages -> 0..RetryMax]
    <3>1. disk.wait \in [Messages -> 0..RetryMax] /\ RetryMax \in Nat
      OBVIOUS
    <3>2. ASSUME NEW n \in 0..RetryMax, n > 0 PROVE n - 1 \in 0..RetryMax
      BY <3>1, <3>2
    <3> HIDE DEF Base, RelayTypeOK, TypeOK
    <3> QED
      BY <3>1, <3>2
  <2>3. ag \in [Messages -> 0..StuckTimeout + 1]
    <3>1. disk.age \in [Messages -> 0..StuckTimeout + 1] /\ StuckTimeout \in Nat
      OBVIOUS
    <3>2. ASSUME NEW n \in 0..StuckTimeout + 1, n <= StuckTimeout
          PROVE  n + 1 \in 0..StuckTimeout + 1
      BY <3>1, <3>2
    <3> HIDE DEF Base, RelayTypeOK, TypeOK
    <3> QED
      BY <3>1, <3>2
  <2> HIDE DEF wt, ag
  <2> QED
    BY <2>1, <2>2, <2>3
<1>3. CASE Sync
  BY <1>3 DEF Sync, Table
<1>4. CASE PowerFail
  BY <1>4 DEF PowerFail
<1> QED
  BY <1>1, <1>2, <1>3, <1>4, QueueSteps

(* Sessions keep to their stages.                                           *)
LEMMA StageTyped ==
  ASSUME Base, [RelayNext]_relayVars
  PROVE  stage' \in [Sessions -> {"away", "ready", "receiving"}]
<1> USE DEF Base, RelayTypeOK, NobodyInside
<1>1. ASSUME NEW s \in Sessions, Serve(s) \/ Submit(s)
      PROVE  stage' \in [Sessions -> {"away", "ready", "receiving"}]
  BY <1>1 DEF Serve, Submit, A!Admit, A!Leave, A!Receive, A!GiveUp, A!Insert
<1>2. CASE UNCHANGED stage
  BY <1>2
<1>3. CASE GoDown
  BY <1>3 DEF GoDown
<1> QED
  BY <1>1, <1>2, <1>3
  DEF RelayNext, relayVars, Work, SignalStop, Return, Begin

(* Types, registers and claims survive every step, a power failure too.     *)
LEMMA BaseStep == Base /\ [RelayNext]_relayVars => Base'
<1> SUFFICES ASSUME Base, [RelayNext]_relayVars PROVE Base'
  OBVIOUS
<1>1. CASE [Next]_vars
  <2>1. Typed' /\ Claimed'
    BY <1>1, TypedStep, ClaimedStep DEF Base
  <2> QED
    BY <2>1, DiskTyped, StageTyped DEF Base, RelayTypeOK, Typed
<1>2. CASE PowerFail
  <2>1. /\ status' = disk.status /\ attempts' = disk.attempts
        /\ createdAt' = disk.createdAt /\ wait' = disk.wait /\ age' = disk.age
        /\ proc' = "down" /\ pc' = [w \in Workers |-> "idle"]
        /\ job' = [w \in Workers |-> NoMessage] /\ jobAttempts' = [w \in Workers |-> 0]
        /\ stale' = {} /\ stops' = stops + 1 /\ stops < MaxStops
        /\ UNCHANGED <<faults, delivered, lost, recovered>>
    BY <1>2 DEF PowerFail, Stop, history
  <2>2. TypeOK'
    BY <2>1, BoundsAssumption
    DEF Base, RelayTypeOK, TypeOK, Points, Claiming
  <2>3. Registers' /\ Claimed'
    BY <2>1 DEF Registers, Claimed, Snapshot, ExclusiveClaim, Holding, MarkPoints
  <2> QED
    BY <2>2, <2>3, DiskTyped, StageTyped DEF Base, RelayTypeOK, Typed
<1> QED
  BY <1>1, <1>2, QueueSteps
(* What the disk holds is never withdrawn: the table only adds messages,    *)
(* attempts and verdicts to it, and a power failure goes back no further.   *)
LEMMA DiskStep == Base /\ DiskIsKept /\ [RelayNext]_relayVars => DiskIsKept'
<1> SUFFICES ASSUME Base, DiskIsKept, [RelayNext]_relayVars PROVE DiskIsKept'
  OBVIOUS
<1> DEFINE Grows == \A m \in Messages :
                      /\ status[m] # "none" => status'[m] # "none"
                      /\ status[m] \in {"sent", "failed"} => status'[m] = status[m]
                      /\ attempts[m] <= attempts'[m]
<1>0. /\ attempts \in [Messages -> Nat] /\ attempts' \in [Messages -> Nat]
      /\ status \in [Messages -> Statuses] /\ disk.attempts \in [Messages -> Nat]
  <2>1. Base'
    BY BaseStep
  <2> QED
    BY <2>1 DEF Base, RelayTypeOK, TypeOK
<1>1. ASSUME [Next]_vars PROVE Grows
  <2> USE <1>0 DEF Base, Typed, TypeOK, Claimed, ExclusiveClaim, Holding, MarkPoints
  <2>1. ASSUME NEW m \in Messages, Enqueue(m) PROVE Grows
    BY <2>1 DEF Enqueue
  <2>2. ASSUME NEW w \in Workers, ClaimCommit(w) PROVE Grows
    BY <2>2 DEF ClaimCommit
  <2>3. ASSUME NEW w \in Workers, GmailAccept(w) PROVE Grows
    BY <2>3 DEF GmailAccept, rows
  <2>4. ASSUME NEW w \in Workers, MarkSent(w) \/ MarkRetry(w) \/ MarkFailed(w)
        PROVE  Grows
    BY <2>4 DEF MarkSent, MarkRetry, MarkFailed
  <2>5. CASE Recover
    BY <2>5 DEF Recover
  <2>6. CASE UNCHANGED <<status, attempts, delivered>>
    BY <2>6
  <2> QED
    BY <1>1, <2>1, <2>2, <2>3, <2>4, <2>5, <2>6, RowSteps
<1>2. CASE [Next]_vars /\ disk' = disk
  <2>1. Grows
    BY <1>1, <1>2
  <2> QED
    BY <1>0, <1>2, <2>1 DEF DiskIsKept
<1>3. CASE TickBoth
  <2>1. /\ UNCHANGED <<status, attempts>>
        /\ disk'.status = disk.status /\ disk'.attempts = disk.attempts
    BY <1>3 DEF TickBoth, Tick, Base, RelayTypeOK
  <2> QED
    BY <2>1 DEF DiskIsKept
<1>4. CASE Sync
  <2>1. UNCHANGED <<status, attempts>> /\ disk'.status = status /\ disk'.attempts = attempts
    BY <1>4 DEF Sync, Table, vars, rows
  <2> QED
    BY <1>0, <2>1 DEF DiskIsKept
<1>5. CASE PowerFail
  <2>1. disk' = disk /\ status' = disk.status /\ attempts' = disk.attempts
    BY <1>5 DEF PowerFail
  <2> QED
    BY <1>0, <2>1 DEF DiskIsKept
<1> QED
  BY <1>2, <1>3, <1>4, <1>5, QueueSteps

(* Deliveries and attempts stay paid for.                                   *)
LEMMA PaidStep == Base /\ Paid /\ [RelayNext]_relayVars => Paid'
<1> SUFFICES ASSUME Base, Paid, [RelayNext]_relayVars PROVE Paid'
  OBVIOUS
<1> DEFINE Bound(n, st, r) == n + (IF st \in {"none", "pending"} THEN 1 ELSE 0)
                                <= MaxAttempts + r
<1>0. /\ takenBack \in [Messages -> Nat] /\ recovered \in [Messages -> Nat]
      /\ lost \in [Messages -> Nat] /\ delivered \in [Messages -> Nat]
      /\ disk.attempts \in [Messages -> Nat] /\ attempts \in [Messages -> Nat]
      /\ recovered' \in [Messages -> Nat]
  <2>1. Base'
    BY BaseStep
  <2> QED
    BY <2>1 DEF Base, RelayTypeOK, TypeOK
<1>1. ASSUME [Next]_vars, UNCHANGED takenBack
      PROVE  /\ Counted(takenBack)'
             /\ \A m \in Messages : recovered[m] <= recovered'[m]
  <2>1. PICK x \in [Messages -> Nat] : x = takenBack
    BY <1>0
  <2>2. Counted(x)
    BY <2>1 DEF Paid
  <2>3. Counted(x)'
    BY <1>1, <2>2, CountedStep DEF Base
  <2>4. x = takenBack'
    BY <1>1, <2>1
  <2>5. Counted(takenBack)'
    BY <2>3, <2>4 DEF Counted, Credit, Explained
  <2>6. UNCHANGED recovered \/ Recover
    BY <1>1
    DEF Next, Enqueue, WorkerStep, ClaimSelect, ClaimCommit, ClaimAbort, GmailAccept,
        SendOK, SendTransient, SendPermanent, MarkSent, MarkRetry, MarkFailed, MarkError,
        Crash, Shutdown, Exit, Die, Start, StartFails, Tick, vars, history
  <2>7. ASSUME Recover, NEW m \in Messages PROVE recovered[m] <= recovered'[m]
    BY <1>0, <2>7 DEF Recover
  <2> QED
    BY <1>0, <2>5, <2>6, <2>7
<1>2. CASE [Next]_vars /\ UNCHANGED takenBack /\ disk' = disk
  BY <1>0, <1>1, <1>2, AttemptsAssumption DEF Paid
<1>3. CASE TickBoth
  <2>1. /\ [Next]_vars /\ UNCHANGED takenBack
        /\ disk'.status = disk.status /\ disk'.attempts = disk.attempts
    BY <1>3 DEF TickBoth, Next, Base, RelayTypeOK
  <2> QED
    BY <1>0, <1>1, <2>1, AttemptsAssumption DEF Paid
<1>4. CASE Sync
  <2>1. /\ [Next]_vars /\ UNCHANGED <<takenBack, recovered>>
        /\ disk'.status = status /\ disk'.attempts = attempts
    BY <1>4 DEF Sync, Table, vars, history
  <2> QED
    BY <1>1, <2>1 DEF Paid, Counted, AttemptsBounded
<1>5. CASE PowerFail
  <2>1. /\ disk' = disk /\ status' = disk.status /\ attempts' = disk.attempts
        /\ pc' = [w \in Workers |-> "idle"] /\ UNCHANGED <<delivered, lost, recovered>>
        /\ takenBack' = [m \in Messages |->
             takenBack[m] + IF m \in Taken(status) \ Taken(disk.status) THEN 1 ELSE 0]
    BY <1>5 DEF PowerFail, history
  <2>2. Credit(takenBack)'
    BY <2>1 DEF Credit
  <2>3. ASSUME NEW m \in Messages
        PROVE  delivered[m] <= lost[m] + recovered[m] + takenBack'[m]
                 + (IF disk.status[m] \in {"processing", "sent"} THEN 1 ELSE 0)
    <3>1. delivered[m] <= lost[m] + recovered[m] + takenBack[m]
            + (IF status[m] \in {"processing", "sent"} THEN 1 ELSE 0)
      BY DEF Paid, Counted, Explained
    <3>2. /\ m \in Taken(status) <=> status[m] \in {"processing", "sent"}
          /\ m \in Taken(disk.status) <=> disk.status[m] \in {"processing", "sent"}
      BY DEF Taken
    <3>3. takenBack'[m] = takenBack[m] + IF m \in Taken(status) \ Taken(disk.status)
                                           THEN 1 ELSE 0
      BY <2>1
    <3> QED
      BY <1>0, <3>1, <3>2, <3>3
  <2>4. Explained(takenBack)'
    BY <2>1, <2>3 DEF Explained
  <2>5. AttemptsBounded'
    BY <2>1 DEF Paid, AttemptsBounded
  <2> QED
    BY <2>1, <2>2, <2>4, <2>5 DEF Paid, Counted
<1> QED
  BY <1>2, <1>3, <1>4, <1>5, QueueSteps

-----------------------------------------------------------------------------
(* What a step of the queue does to the rows that count as backlog.         *)
LEMMA OwedSteps ==
  ASSUME Base, [Next]_vars
  PROVE  \/ Owed(status)' = Owed(status)
         \/ \E m \in Messages : /\ Enqueue(m) /\ m \notin Owed(status)
                               /\ Owed(status)' = Owed(status) \cup {m}
         \/ \E w \in Workers : \E m \in Owed(status) :
              /\ MarkSent(w) \/ MarkFailed(w)
              /\ proc = "up" /\ Owed(status)' = Owed(status) \ {m}
<1> USE DEF Base, Typed, TypeOK, Claimed, ExclusiveClaim, Holding, MarkPoints, Owed
<1>1. ASSUME NEW m \in Messages, Enqueue(m)
      PROVE  m \notin Owed(status) /\ Owed(status)' = Owed(status) \cup {m}
  BY <1>1 DEF Enqueue
<1>2. ASSUME NEW w \in Workers, ClaimCommit(w) PROVE Owed(status)' = Owed(status)
  BY <1>2 DEF ClaimCommit
<1>3. ASSUME NEW w \in Workers, GmailAccept(w) PROVE Owed(status)' = Owed(status)
  BY <1>3 DEF GmailAccept, rows
<1>4. ASSUME NEW w \in Workers, MarkRetry(w) PROVE Owed(status)' = Owed(status)
  BY <1>4 DEF MarkRetry
<1>5. ASSUME NEW w \in Workers, MarkSent(w) \/ MarkFailed(w)
      PROVE  /\ job[w] \in Owed(status) /\ proc = "up"
             /\ Owed(status)' = Owed(status) \ {job[w]}
  BY <1>5 DEF MarkSent, MarkFailed
<1>6. CASE Recover
  BY <1>6 DEF Recover
<1>7. CASE UNCHANGED <<status, attempts, delivered>>
  BY <1>7
<1> HIDE DEF Base, Typed, TypeOK, Claimed, ExclusiveClaim, Holding, MarkPoints, Owed
<1> QED
  BY <1>1, <1>2, <1>3, <1>4, <1>5, <1>6, <1>7, RowSteps

(* A worker leaves the backlog alone or, by a verdict, makes room for one.  *)
LEMMA WorkerOwes ==
  ASSUME Base, NEW w \in Workers, WorkerStep(w)
  PROVE  /\ UNCHANGED proc
         /\ \/ Owed(status)' = Owed(status)
            \/ \E m \in Owed(status) : proc = "up" /\ Owed(status)' = Owed(status) \ {m}
<1>1. UNCHANGED proc
  BY DEF WorkerStep, ClaimSelect, ClaimCommit, ClaimAbort, GmailAccept, SendOK,
         SendTransient, SendPermanent, MarkSent, MarkRetry, MarkFailed, MarkError
<1>2. ASSUME NEW m \in Messages, Enqueue(m) PROVE FALSE
  <2> USE DEF Base, Typed, TypeOK, Claimed, ExclusiveClaim, Holding, MarkPoints
  <2>1. status[m] = "none" /\ status'[m] = "pending"
    BY <1>2 DEF Enqueue
  <2>2. CASE ClaimCommit(w)
    BY <2>1, <2>2 DEF ClaimCommit
  <2>3. CASE MarkSent(w) \/ MarkRetry(w) \/ MarkFailed(w)
    BY <2>1, <2>3 DEF MarkSent, MarkRetry, MarkFailed
  <2>4. CASE UNCHANGED status
    BY <2>1, <2>4
  <2>5. \/ ClaimCommit(w) \/ MarkSent(w) \/ MarkRetry(w) \/ MarkFailed(w)
        \/ UNCHANGED status
    BY DEF WorkerStep, ClaimSelect, ClaimAbort, GmailAccept, SendOK,
           SendTransient, SendPermanent, MarkError, rows
  <2> QED
    BY <2>2, <2>3, <2>4, <2>5
<1>3. [Next]_vars
  BY DEF Next
<1> QED
  BY <1>1, <1>2, <1>3, OwedSteps

(* The sets that are counted are finite, and BacklogCount counts Owed.      *)
LEMMA Finite ==
  /\ BacklogCount = Cardinality(Owed(status))
  /\ BacklogCount' = Cardinality(Owed(status)')
  /\ IsFiniteSet(Owed(status)) /\ Cardinality(Owed(status)) \in Nat
  /\ IsFiniteSet(Owed(status)') /\ Cardinality(Owed(status)') \in Nat
  /\ IsFiniteSet(Receivers) /\ Cardinality(Receivers) \in Nat
  /\ IsFiniteSet(Receivers') /\ Cardinality(Receivers') \in Nat
  /\ IsFiniteSet(A!Inside) /\ Cardinality(A!Inside) \in Nat
  /\ IsFiniteSet(A!Inside') /\ Cardinality(A!Inside') \in Nat
  /\ Cardinality(Receivers) <= Cardinality(A!Inside)
  /\ Cardinality(Receivers') <= Cardinality(A!Inside')
<1>1. BacklogCount = Cardinality(Owed(status)) /\ BacklogCount' = Cardinality(Owed(status)')
  BY DEF BacklogCount, Owed
<1>2. /\ Owed(status) \subseteq Messages /\ Owed(status)' \subseteq Messages
      /\ Receivers \subseteq A!Inside /\ Receivers' \subseteq A!Inside'
      /\ A!Inside \subseteq Sessions /\ A!Inside' \subseteq Sessions
  BY DEF Owed, Receivers, A!Inside
<1>3. /\ IsFiniteSet(Owed(status)) /\ IsFiniteSet(Owed(status)')
      /\ IsFiniteSet(A!Inside) /\ IsFiniteSet(A!Inside')
  BY <1>2, ClientsAssumption, FS_Subset
<1>4. /\ IsFiniteSet(Receivers) /\ IsFiniteSet(Receivers')
      /\ Cardinality(Receivers) <= Cardinality(A!Inside)
      /\ Cardinality(Receivers') <= Cardinality(A!Inside')
  BY <1>2, <1>3, FS_Subset
<1> QED
  BY <1>1, <1>3, <1>4, FS_CardinalityType

(* Room is kept: a 354 is given only below the limit, to one of at most     *)
(* MaxConnections sessions; an INSERT turns a reservation into a row; and   *)
(* what a power failure brings back had fitted before.                      *)
LEMMA RoomStep == Base /\ Room /\ [RelayNext]_relayVars => Room'
<1> SUFFICES ASSUME Base, Room, [RelayNext]_relayVars PROVE Room'
  OBVIOUS
<1> USE Finite, RoomAssumption
<1>0. stage \in [Sessions -> {"away", "ready", "receiving"}]
  BY DEF Base, RelayTypeOK
<1>1. ASSUME NEW s \in Sessions, Serve(s) PROVE Room'
  <2>1. Owed(status)' = Owed(status) /\ disk' = disk
    BY <1>1 DEF Serve, Owed, vars, rows, medium
  <2>2. Cardinality(Owed(disk.status)') = Cardinality(Owed(disk.status))
    BY <2>1 DEF Owed
  <2>3. CASE A!Admit(s)
    <3>1. /\ A!Inside' = A!Inside \cup {s} /\ s \notin A!Inside
          /\ Receivers' = Receivers
      BY <1>0, <2>3 DEF A!Admit, A!Inside, Receivers
    <3>2. Cardinality(A!Inside) < MaxConnections
      BY <2>3 DEF A!Admit, A!Cardinality, Cardinality
    <3>3. Cardinality(A!Inside') = Cardinality(A!Inside) + 1
      BY <3>1, FS_AddElement
    <3> QED
      BY <2>1, <2>2, <3>1, <3>2, <3>3 DEF Room
  <2>4. CASE A!Leave(s) \/ A!GiveUp(s)
    <3>1. A!Inside' \subseteq A!Inside /\ Receivers' \subseteq Receivers
      BY <1>0, <2>4 DEF A!Leave, A!GiveUp, A!Inside, Receivers
    <3>2. /\ Cardinality(A!Inside') <= Cardinality(A!Inside)
          /\ Cardinality(Receivers') <= Cardinality(Receivers)
      BY <3>1, FS_Subset
    <3> QED
      BY <2>1, <2>2, <3>2 DEF Room
  <2>5. CASE A!Receive(s)
    <3>1. A!Inside' = A!Inside /\ BacklogCount < MaxBacklog
      BY <1>0, <2>5 DEF A!Receive, A!Inside
    <3> QED
      BY <2>1, <2>2, <3>1 DEF Room
  <2> QED
    BY <1>1, <2>3, <2>4, <2>5 DEF Serve
<1>2. ASSUME NEW s \in Sessions, Submit(s) PROVE Room'
  <2>1. PICK m \in Messages : Enqueue(m)
    BY <1>2 DEF Submit
  <2>2. disk' = disk /\ A!Insert(s)
    BY <1>2 DEF Submit, medium
  <2>3. Owed(status)' = Owed(status) \cup {m} /\ m \notin Owed(status)
    BY <2>1 DEF Enqueue, Owed, Base, Typed, TypeOK
  <2>4. Cardinality(Owed(status)') = Cardinality(Owed(status)) + 1
    BY <2>3, FS_AddElement
  <2>5. /\ A!Inside' \subseteq A!Inside
        /\ Receivers' = Receivers \ {s} /\ s \in Receivers
    BY <1>0, <2>2 DEF A!Insert, A!Inside, Receivers
  <2>6. /\ Cardinality(A!Inside') <= Cardinality(A!Inside)
        /\ Cardinality(Receivers') = Cardinality(Receivers) - 1
    BY <2>5, FS_Subset, FS_RemoveElement
  <2>7. Cardinality(Owed(disk.status)') = Cardinality(Owed(disk.status))
    BY <2>2 DEF Owed
  <2> QED
    BY <2>4, <2>6, <2>7 DEF Room
<1>3. ASSUME UNCHANGED stage, [Next]_vars, Owed(status)' \subseteq Owed(status),
             disk'.status \in {disk.status, status}
      PROVE  Room'
  <2>1. Cardinality(Owed(status)') <= Cardinality(Owed(status))
    BY <1>3, FS_Subset
  <2>2. A!Inside' = A!Inside /\ Receivers' = Receivers
    BY <1>3 DEF A!Inside, Receivers
  <2>3. Cardinality(Owed(disk.status)') \in
          {Cardinality(Owed(disk.status)), Cardinality(Owed(status))}
    BY <1>3 DEF Owed
  <2> QED
    BY <2>1, <2>2, <2>3 DEF Room
<1>4. ASSUME NEW w \in Workers, Work(w) PROVE Room'
  <2>1. [Next]_vars /\ UNCHANGED stage /\ disk' = disk /\ WorkerStep(w)
    BY <1>4 DEF Work, Next, medium
  <2>2. Owed(status)' \subseteq Owed(status)
    BY <2>1, WorkerOwes
  <2> QED
    BY <1>3, <2>1, <2>2
<1>5. CASE SignalStop \/ Return \/ Begin
  <2>1. [Next]_vars /\ UNCHANGED stage /\ disk' = disk
    BY <1>5 DEF SignalStop, Return, Begin, Next, medium
  <2>2. Owed(status)' = Owed(status)
    BY <1>5
    DEF SignalStop, Return, Begin, Shutdown, Exit, Die, Start, StartFails, Recover,
        rows, Owed, Base, Typed, TypeOK
  <2> QED
    BY <1>3, <2>1, <2>2
<1>6. CASE GoDown
  <2>1. stage' = [s \in Sessions |-> "away"]
    BY <1>6 DEF GoDown, NobodyInside
  <2>2. Receivers' = {} /\ A!Inside' = {}
    BY <2>1 DEF Receivers, A!Inside
  <2>3. disk' = disk /\ (status' = status \/ status' = disk.status)
    BY <1>6 DEF GoDown, Crash, Exit, Die, PowerFail, rows, medium
  <2>4. /\ Cardinality(Owed(disk.status)') = Cardinality(Owed(disk.status))
        /\ Cardinality(Owed(status)') \in
             {Cardinality(Owed(disk.status)), Cardinality(Owed(status))}
    BY <2>3 DEF Owed
  <2>5. Cardinality(Receivers') = 0 /\ Cardinality(A!Inside') = 0
    BY <2>2, FS_EmptySet
  <2> QED
    BY <2>4, <2>5 DEF Room
<1>7. CASE (TickBoth \/ Sync) /\ UNCHANGED stage
  <2>1. [Next]_vars /\ UNCHANGED <<stage, status>>
    BY <1>7 DEF TickBoth, Sync, Tick, Next, vars, rows
  <2>2. CASE TickBoth
    <3>1. disk'.status = disk.status
      BY <2>2 DEF TickBoth, Base, RelayTypeOK
    <3> QED
      BY <1>3, <2>1, <3>1 DEF Owed
  <2>3. CASE Sync
    <3>1. disk'.status = status
      BY <2>3 DEF Sync, Table
    <3> QED
      BY <1>3, <2>1, <3>1 DEF Owed
  <2> QED
    BY <1>7, <2>2, <2>3
<1>8. CASE UNCHANGED relayVars
  BY <1>3, <1>8 DEF relayVars, vars, rows, medium, Owed
<1> QED
  BY <1>1, <1>2, <1>4, <1>5, <1>6, <1>7, <1>8 DEF RelayNext

-----------------------------------------------------------------------------
(* A message that a power failure took back does not come back: ids are not *)
(* used again, and nothing but a client's DATA makes a row.                 *)
LEMMA ForgottenStay ==
  ASSUME Base, [RelayNext]_relayVars, NEW m \in forgotten,
         status[m] = "none", disk.status[m] = "none"
  PROVE  status'[m] = "none"
<1> USE DEF Base, RelayTypeOK, Typed, TypeOK
<1>1. ASSUME NEW s \in Sessions, Serve(s) PROVE status'[m] = "none"
  BY <1>1 DEF Serve, vars, rows
<1>2. ASSUME NEW s \in Sessions, Submit(s) PROVE status'[m] = "none"
  <2>1. PICK k \in Messages \ forgotten : Enqueue(k)
    BY <1>2 DEF Submit
  <2> QED
    BY <2>1 DEF Enqueue
<1>3. ASSUME NEW w \in Workers, Work(w) PROVE status'[m] = "none"
  <2>1. CASE ClaimCommit(w)
    BY <2>1 DEF ClaimCommit
  <2>2. CASE MarkSent(w) \/ MarkRetry(w) \/ MarkFailed(w)
    BY <2>2 DEF MarkSent, MarkRetry, MarkFailed, Claimed, ExclusiveClaim, Holding,
                MarkPoints
  <2>3. CASE UNCHANGED status
    BY <2>3
  <2> QED
    BY <1>3, <2>1, <2>2, <2>3
    DEF Work, WorkerStep, ClaimSelect, ClaimAbort, GmailAccept, SendOK,
        SendTransient, SendPermanent, MarkError, rows
<1>4. CASE SignalStop \/ Return \/ Begin
  BY <1>4 DEF SignalStop, Return, Begin, Shutdown, Exit, Die, Start, StartFails,
              Recover, rows
<1>5. CASE GoDown
  BY <1>5 DEF GoDown, Crash, Exit, Die, PowerFail, rows
<1>6. CASE TickBoth \/ Sync \/ UNCHANGED relayVars
  BY <1>6 DEF TickBoth, Tick, Sync, relayVars, vars, rows
<1> QED
  BY <1>1, <1>2, <1>3, <1>4, <1>5, <1>6 DEF RelayNext

(* What first attempts are ordered by survives every step, and what was     *)
(* taken back stays so.                                                     *)
LEMMA LinedStep == Base /\ Lined /\ [RelayNext]_relayVars => Lined'
<1> SUFFICES ASSUME Base, Lined, [RelayNext]_relayVars PROVE Lined'
  OBVIOUS
<1> DEFINE DiskLined == \A m \in Messages :
                          disk.status[m] \in {"none", "pending"} /\ disk.attempts[m] = 0
                            => disk.wait[m] = 0
           Stay == \A m \in forgotten : status[m] = "none" /\ disk.status[m] = "none"
<1>1. ASSUME NEW m \in forgotten PROVE status'[m] = "none"
  BY <1>1, ForgottenStay DEF Lined
<1>2. ASSUME [Next]_vars PROVE Ordered'
  BY <1>2, OrderedStep DEF Base, Lined
<1>3. CASE [Next]_vars /\ UNCHANGED <<disk, forgotten>>
  <2>1. DiskLined' /\ Stay'
    BY <1>1, <1>3 DEF Lined
  <2> QED
    BY <1>2, <1>3, <2>1 DEF Lined
<1>4. CASE TickBoth
  <2>1. /\ [Next]_vars /\ UNCHANGED <<status, forgotten>>
        /\ disk'.status = disk.status /\ disk'.attempts = disk.attempts
        /\ disk'.wait = [m \in Messages |-> IF disk.wait[m] > 0 THEN disk.wait[m] - 1 ELSE 0]
    BY <1>4 DEF TickBoth, Tick, Next, Base, RelayTypeOK
  <2>2. DiskLined' /\ Stay'
    BY <1>1, <2>1 DEF Lined
  <2> QED
    BY <1>2, <2>1, <2>2 DEF Lined
<1>5. CASE Sync
  <2>1. /\ [Next]_vars /\ UNCHANGED <<status, attempts, wait, forgotten>>
        /\ disk'.status = status /\ disk'.attempts = attempts /\ disk'.wait = wait
    BY <1>5 DEF Sync, Table, vars, rows
  <2>2. DiskLined' /\ Stay'
    BY <1>1, <2>1 DEF Lined, Ordered
  <2> QED
    BY <1>2, <2>1, <2>2 DEF Lined
<1>6. CASE PowerFail
  <2>1. /\ disk' = disk /\ status' = disk.status /\ attempts' = disk.attempts
        /\ wait' = disk.wait /\ pc' = [w \in Workers |-> "idle"]
        /\ forgotten' = forgotten \cup
             {m \in Messages : status[m] # "none" /\ disk.status[m] = "none"}
    BY <1>6 DEF PowerFail
  <2>2. Ordered'
    BY <2>1 DEF Lined, Ordered
  <2>3. DiskLined' /\ Stay'
    BY <2>1 DEF Lined
  <2> QED
    BY <2>2, <2>3 DEF Lined
<1> QED
  BY <1>3, <1>4, <1>5, <1>6, QueueSteps

-----------------------------------------------------------------------------
(* All parts together: the inductive invariant of RelaySpec.                *)
RelayInv == Base /\ DiskIsKept /\ Paid /\ Room /\ Lined

(* RelayInv holds in every reachable state, whatever the interleaving of    *)
(* clients, workers, failures of the process and failures of the power.     *)
THEOREM RelayInvariant == RelaySpec => []RelayInv
<1>1. RelayInit => RelayInv
  <2> SUFFICES ASSUME RelayInit PROVE RelayInv
    OBVIOUS
  <2>1. Init /\ MediumInit /\ stage = NobodyInside
    BY DEF RelayInit
  <2>2. Typed /\ Claimed /\ Counted(NoneExtra)
    BY <2>1, InitInv
  <2>3. Base
    BY <2>1, <2>2 DEF Base, RelayTypeOK, Typed, TypeOK, MediumInit, Table, NobodyInside
  <2>4. disk.status = status /\ disk.attempts = attempts /\ takenBack = NoneExtra
    BY <2>1 DEF MediumInit, Table, NoneExtra
  <2>5. DiskIsKept
    BY <2>3, <2>4 DEF DiskIsKept, Base, RelayTypeOK, TypeOK
  <2>6. Paid
    BY <2>2, <2>4 DEF Paid, Counted, AttemptsBounded
  <2>7. Owed(status) = {} /\ Owed(disk.status) = {} /\ Receivers = {} /\ A!Inside = {}
    BY <2>1, <2>4 DEF Init, Owed, Receivers, A!Inside, NobodyInside
  <2>8. Room
    BY <2>7, FS_EmptySet, Finite, RoomAssumption DEF Room
  <2>9. Lined
    <3>1. Ordered
      BY <2>1, InitInv
    <3>2. disk.wait = wait /\ forgotten = {}
      BY <2>1 DEF MediumInit, Table
    <3> QED
      BY <2>4, <3>1, <3>2 DEF Lined, Ordered
  <2> QED
    BY <2>3, <2>5, <2>6, <2>8, <2>9 DEF RelayInv
<1>2. RelayInv /\ [RelayNext]_relayVars => RelayInv'
  BY BaseStep, DiskStep, PaidStep, RoomStep, LinedStep DEF RelayInv
<1> QED
  BY <1>1, <1>2, PTL DEF RelaySpec

(* Rows, registers, disk and stages keep their types.                       *)
THEOREM RelayTypes == RelaySpec => []RelayTypeOK
<1>1. RelayInv => RelayTypeOK
  BY DEF RelayInv, Base
<1> QED
  BY <1>1, RelayInvariant, PTL

(* The rows, with the messages being received, never outgrow                *)
(* QUEUE_MAX_BACKLOG by SMTP_MAX_CONNECTIONS, in any life of the process.   *)
THEOREM RowsStayWithinLimits == RelaySpec => []BacklogWithinLimits
<1>1. RelayInv => BacklogWithinLimits
  BY Finite, RoomAssumption DEF RelayInv, Room, BacklogWithinLimits
<1> QED
  BY <1>1, RelayInvariant, PTL

(* A power failure costs at most one more delivery of a message.            *)
THEOREM DuplicatesAreStillExplained == RelaySpec => []DeliveriesStillExplained
<1>1. RelayInv => DeliveriesStillExplained
  <2> SUFFICES ASSUME RelayInv, NEW m \in Messages
               PROVE  delivered[m] <= lost[m] + recovered[m] + takenBack[m]
                                        + (IF m \in Taken(status) THEN 1 ELSE 0)
    BY DEF DeliveriesStillExplained
  <2>1. m \in Taken(status) <=> status[m] \in {"processing", "sent"}
    BY DEF Taken
  <2> QED
    BY <2>1 DEF RelayInv, Paid, Counted, Explained
<1> QED
  BY <1>1, RelayInvariant, PTL

(* What has reached the disk is never withdrawn.                            *)
THEOREM TheDiskIsKept == RelaySpec => []DiskIsKept
<1>1. RelayInv => DiskIsKept
  BY DEF RelayInv
<1> QED
  BY <1>1, RelayInvariant, PTL

(* Until the process goes down, sessions, backlog and signal move only as   *)
(* Admission allows, from its start on: a worker makes room by a verdict    *)
(* and by nothing else, and no other part of the relay touches them.        *)
THEOREM RelayKeepsAdmission == RelaySpec => KeepsAdmission
<1> DEFINE seen == <<stage, BacklogCount, proc>>
           Kept == proc' # "down" => [A!Next]_(A!vars)
<1>1. ASSUME RelayInv, RelayNext PROVE Kept \/ UNCHANGED seen
  <2> USE Finite
  <2>0. Base
    BY <1>1 DEF RelayInv
  <2>1. ASSUME NEW s \in Sessions, Serve(s) PROVE A!Next
    BY <2>1 DEF Serve, A!Next
  <2>2. ASSUME NEW s \in Sessions, Submit(s) PROVE A!Next
    BY <2>2 DEF Submit, A!Next
  <2>3. ASSUME NEW w \in Workers, Work(w) PROVE A!Next \/ UNCHANGED seen
    <3>1. UNCHANGED <<stage, proc>> /\ WorkerStep(w)
      BY <2>0, <2>3, WorkerOwes DEF Work
    <3>2. CASE Owed(status)' = Owed(status)
      BY <3>1, <3>2
    <3>3. ASSUME NEW m \in Owed(status), proc = "up", Owed(status)' = Owed(status) \ {m}
          PROVE  A!Next
      <4>1. Cardinality(Owed(status)') = Cardinality(Owed(status)) - 1
        BY <3>3, FS_RemoveElement
      <4>2. BacklogCount > 0 /\ BacklogCount' = BacklogCount - 1
        BY <4>1
      <4> QED
        BY <3>1, <3>3, <4>2 DEF A!Next, A!Drain
    <3> QED
      BY <2>0, <3>1, <3>2, <3>3, WorkerOwes
  <2>4. CASE SignalStop
    <3>1. proc = "up" /\ proc' = "stopping" /\ UNCHANGED <<stage, status>>
      BY <2>4 DEF SignalStop, Shutdown, rows
    <3>2. BacklogCount' = BacklogCount
      BY <3>1 DEF BacklogCount
    <3> QED
      BY <3>1, <3>2 DEF A!Next, A!Signal
  <2>5. CASE Return \/ GoDown \/ StartFails
    BY <2>5 DEF Return, GoDown, Exit, Crash, Die, PowerFail, StartFails
  <2>6. CASE Start /\ UNCHANGED stage
    <3>1. Owed(status)' = Owed(status)
      BY <2>0, <2>6 DEF Base, Typed, TypeOK, Start, Recover, Owed
    <3>2. BacklogCount' = BacklogCount
      BY <3>1 DEF BacklogCount, Owed
    <3>3. proc = "down" /\ proc' = "up" /\ UNCHANGED stage
      BY <2>6 DEF Start
    <3> QED
      BY <3>2, <3>3 DEF A!vars
  <2>7. CASE (TickBoth \/ Sync) /\ UNCHANGED stage
    BY <2>7 DEF TickBoth, Tick, Sync, vars, rows, BacklogCount
  <2> QED
    BY <1>1, <2>1, <2>2, <2>3, <2>4, <2>5, <2>6, <2>7 DEF RelayNext, Begin
<1>2. ASSUME UNCHANGED relayVars PROVE UNCHANGED seen
  BY <1>2 DEF relayVars, vars, rows, BacklogCount
<1>3. RelayInv /\ [RelayNext]_relayVars => [Kept]_seen
  BY <1>1, <1>2
<1> QED
  BY <1>3, RelayInvariant, PTL DEF RelaySpec, KeepsAdmission

-----------------------------------------------------------------------------
(* Also across power failures a message is in one worker's hands at most,   *)
(* and a mark meets the row its worker claimed.                             *)
THEOREM ClaimsStayExclusive == RelaySpec => []ExclusiveClaim
<1>1. RelayInv => ExclusiveClaim
  BY DEF RelayInv, Base, Claimed
<1> QED
  BY <1>1, RelayInvariant, PTL

(* Nor do they give a message attempts it would not have had: the disk's    *)
(* count goes back no further than the claims it shows.                     *)
THEOREM AttemptsStayBounded == RelaySpec => []AttemptsBounded
<1>1. RelayInv => AttemptsBounded
  BY DEF RelayInv, Paid, Counted
<1> QED
  BY <1>1, RelayInvariant, PTL

(* Nothing but a power failure withdraws a verdict, or claims a message     *)
(* before an older one that was never tried; and first attempts are again   *)
(* made in order after one.                                                 *)
THEOREM OnlyPowerTakesBack == RelaySpec => [][PowerFail \/ (Final /\ InOrder)]_vars
<1>1. RelayInv /\ [RelayNext]_relayVars => [PowerFail \/ (Final /\ InOrder)]_vars
  <2> SUFFICES ASSUME RelayInv, [RelayNext]_relayVars
               PROVE  PowerFail \/ (Final /\ InOrder)
    OBVIOUS
  <2>1. CASE [Next]_vars
    BY <2>1, FinalStep, InOrderStep DEF RelayInv, Base, Lined
  <2> QED
    BY <2>1, QueueSteps
<1> QED
  BY <1>1, RelayInvariant, PTL DEF RelaySpec

\* A power failure looks to the client like the ledger's.
LEMMA PowerLoses == Base /\ PowerFail => D!Lose
<1> SUFFICES ASSUME Base, PowerFail PROVE D!Lose
  OBVIOUS
<1>1. /\ disk' = disk /\ status' = disk.status /\ delivered' = delivered
      /\ forgotten' = forgotten \cup
           {m \in Messages : status[m] # "none" /\ disk.status[m] = "none"}
  BY DEF PowerFail, history
<1>2. \A s \in Statuses : Verdict(s) = "unknown" <=> s = "none"
  BY DEF Statuses, Verdict
<1>3. \A m \in Messages : status[m] \in Statuses /\ disk.status[m] \in Statuses
  BY DEF Base, RelayTypeOK, TypeOK
<1> QED
  BY <1>1, <1>2, <1>3 DEF D!Lose

(* Every other step is one of the ledger's on a machine that does not fail, *)
(* with the disk as it was or brought up to date.                           *)
LEMMA DurableSteps == RelayInv /\ [RelayNext]_relayVars => [D!DurableNext]_(D!durableVars)
<1> SUFFICES ASSUME RelayInv, [RelayNext]_relayVars
             PROVE  [D!DurableNext]_(D!durableVars)
  OBVIOUS
<1>0. Base /\ Lined /\ Typed /\ Claimed /\ Credit(takenBack)
  BY DEF RelayInv, Base, Paid, Counted
<1>1. ASSUME [Next]_vars, UNCHANGED forgotten, disk'.status = disk.status
      PROVE  [D!DurableNext]_(D!durableVars)
  <2>1. [L!Next]_(L!ledgerVars)
    BY <1>0, <1>1, LedgerStep
  <2>2. CASE UNCHANGED L!ledgerVars
    BY <1>1, <2>2 DEF L!ledgerVars, D!durableVars
  <2>3. CASE L!Next
    <3>1. D!Next
      BY <2>3 DEF L!Next, L!Accept, L!Deliver, L!Complete, L!GiveUp,
                  D!Next, D!Accept, D!Deliver, D!Complete, D!GiveUp
    <3>2. \A m \in forgotten : m \in Messages /\ Verdict(status'[m]) = Verdict(status[m])
      BY <1>0, ForgottenStay DEF Lined, Base, RelayTypeOK
    <3>3. D!Proceed
      BY <1>1, <3>1, <3>2 DEF D!Proceed
    <3> QED
      BY <3>3 DEF D!DurableNext
  <2> QED
    BY <2>1, <2>2, <2>3
<1>2. CASE [Next]_vars /\ UNCHANGED <<disk, forgotten>>
  BY <1>1, <1>2
<1>3. CASE TickBoth
  <2>1. [Next]_vars /\ UNCHANGED forgotten /\ disk'.status = disk.status
    BY <1>0, <1>3 DEF TickBoth, Next, Base, RelayTypeOK
  <2> QED
    BY <1>1, <2>1
<1>4. CASE Sync
  <2>1. disk'.status = status /\ UNCHANGED <<status, delivered, forgotten>>
    BY <1>4 DEF Sync, Table, vars, rows, history
  <2> QED
    BY <2>1 DEF D!Persist, D!DurableNext
<1>5. CASE PowerFail
  BY <1>0, <1>5, PowerLoses DEF D!DurableNext
<1> QED
  BY <1>2, <1>3, <1>4, <1>5, QueueSteps

(* The relay implements the ledger of a machine that may lose power.        *)
THEOREM RelayImplementsDurableLedger == RelaySpec => ImplementsDurableLedger
<1>1. RelayInit => D!DurableInit
  BY DEF RelayInit, Init, MediumInit, Table, D!DurableInit, D!Init, Verdict
<1> QED
  BY <1>1, DurableSteps, RelayInvariant, PTL
  DEF RelaySpec, ImplementsDurableLedger, D!DurableSpec

(* So whatever the power does, a message the table or the disk calls sent   *)
(* was taken by Gmail, and a verdict that reached the disk stands.          *)
THEOREM WhatIsSentWasDelivered ==
  RelaySpec => [](\A m \in Messages :
                    /\ "sent" \in {status[m], disk.status[m]} => delivered[m] > 0
                    /\ disk.status[m] \in {"sent", "failed"} => status[m] = disk.status[m])
<1> DEFINE Kept == \A m \in Messages :
                     /\ "sent" \in {status[m], disk.status[m]} => delivered[m] > 0
                     /\ disk.status[m] \in {"sent", "failed"} => status[m] = disk.status[m]
<1>1. D!DurableInit => DP!DurableInit
  BY DEF D!DurableInit, D!Init, DP!DurableInit, DP!Init
<1>2. [D!DurableNext]_(D!durableVars) => [DP!DurableNext]_(DP!durableVars)
  BY DEF D!DurableNext, D!durableVars, D!Proceed, D!Persist, D!Lose, D!Next,
         D!Accept, D!Deliver, D!Complete, D!GiveUp,
         DP!DurableNext, DP!durableVars, DP!Proceed, DP!Persist, DP!Lose, DP!Next,
         DP!Accept, DP!Deliver, DP!Complete, DP!GiveUp
<1>3. ImplementsDurableLedger => DP!DurableSpec
  BY <1>1, <1>2, PTL DEF ImplementsDurableLedger, D!DurableSpec, DP!DurableSpec
<1>4. DP!SentWasDelivered /\ DP!DurableVerdictsStand /\ RelayInv => Kept
  BY DEF DP!SentWasDelivered, DP!DurableVerdictsStand, Verdict, RelayInv, Base,
         RelayTypeOK, TypeOK, Statuses
<1> QED
  BY <1>3, <1>4, RelayImplementsDurableLedger, RelayInvariant,
     DP!DurableLedgerKeepsItsWord, PTL
=============================================================================
