------------------------- MODULE AuthThrottleProofs -------------------------
(***************************************************************************)
(* What the locks of AuthThrottle guarantee for any number of clients,     *)
(* users and addresses: entries stay below the limit, a lock is passed     *)
(* only by the sessions that had passed its check, a minute sees a bounded *)
(* number of failures, and an address's lock ends by time alone.           *)
(***************************************************************************)
EXTENDS AuthThrottle, FiniteSetTheorems, TLAPS

(* Counting a failure leaves a legal entry, below the limit.                *)
LEMMA CountedEntry == \A st \in Entry : Counted(st) \in Entry
  BY LimitsAssumption DEF Counted, Entry

(* recordAuthFailureKey keeps the shared state in its types.                *)
LEMMA RecordTypes ==
  ASSUME TypeOK, NEW k \in Keys, Record(k)
  PROVE  /\ auth' \in [Keys -> Entry]
         /\ slipped' \in [Keys -> Nat]
         /\ seen' \in [Keys -> Nat]
<1>1. auth' \in [Keys -> Entry]
  BY CountedEntry DEF TypeOK, Record
<1>2. slipped' \in [Keys -> Nat]
  BY DEF TypeOK, Record
<1>3. seen' \in [Keys -> Nat]
  BY DEF TypeOK, Record
<1> QED
  BY <1>1, <1>2, <1>3

\* A session past the connection's limit has failed less than three times.
Typed == /\ TypeOK
         /\ \A c \in Clients : pc[c] \in {"prompt", "checked"} => failures[c] \in 0..2

(* Each step keeps the types.                                               *)
LEMMA TypeStep == Typed /\ [Next]_vars => Typed'
<1> SUFFICES ASSUME Typed, [Next]_vars PROVE Typed'
  OBVIOUS
<1> USE LimitsAssumption, KeysAssumption, ClientsAssumption DEF Keys, Typed
<1>1. ASSUME NEW c \in Clients, AuthCommand(c) PROVE Typed'
  <2>1. failures[c] \in 0..2
    BY <1>1 DEF TypeOK, AuthCommand
  <2> QED
    BY <1>1, <2>1 DEF TypeOK, AuthCommand
<1>2. ASSUME NEW c \in Clients, Rejected(c) \/ Reconnect(c) PROVE Typed'
  <2>1. CASE Rejected(c)
    BY <2>1 DEF TypeOK, Rejected
  <2>2. CASE Reconnect(c)
    <3>1. failures' \in [Clients -> 0..3] /\ \A d \in Clients : d # c => failures'[d] = failures[d]
      BY <2>2 DEF TypeOK, Reconnect
    <3>2. pc' = [pc EXCEPT ![c] = "idle"] /\ user[c] \notin Users
      BY <2>2 DEF TypeOK, Reconnect
    <3> QED
      BY <2>2, <3>1, <3>2 DEF TypeOK, Reconnect
  <2> QED
    BY <1>2, <2>1, <2>2
<1>3. ASSUME NEW c \in Clients, NEW u \in Users, Present(c, u) PROVE Typed'
  BY <1>3 DEF TypeOK, Present
<1>4. ASSUME NEW c \in Clients, Wrong(c) PROVE Typed'
  <2>1. pc[c] = "checked" /\ user[c] \in Users /\ Record(user[c])
    BY <1>4 DEF TypeOK, Wrong
  <2>2a. failures[c] \in 0..2
    BY <2>1
  <2>2. /\ auth' \in [Keys -> Entry] /\ slipped' \in [Keys -> Nat]
        /\ seen' \in [Keys -> Nat]
    BY <2>1, RecordTypes
  <2>3. failures' \in [Clients -> 0..3]
    BY <1>4, <2>2a DEF TypeOK, Wrong
  <2>4. /\ pc' = [pc EXCEPT ![c] = "half"] /\ user' = [user EXCEPT ![c] = NoUser]
        /\ failures' = [failures EXCEPT ![c] = @ + 1] /\ watch' = watch
    BY <1>4 DEF Wrong
  <2> QED
    BY <2>2, <2>3, <2>4 DEF TypeOK
<1>5. ASSUME NEW c \in Clients, WrongAddress(c) PROVE Typed'
  <2>1. AddressOf[c] \in Keys /\ Record(AddressOf[c])
    BY <1>5 DEF WrongAddress
  <2>2. /\ auth' \in [Keys -> Entry] /\ slipped' \in [Keys -> Nat]
        /\ seen' \in [Keys -> Nat]
    BY <2>1, RecordTypes
  <2> QED
    BY <1>5, <2>2 DEF TypeOK, WrongAddress
<1>6. ASSUME NEW c \in Clients, Right(c) PROVE Typed'
  <2>1. auth' \in [Keys -> Entry]
    BY <1>6 DEF TypeOK, Right, Fresh, Entry
  <2>2. seen' \in [Keys -> Nat]
    BY <1>6 DEF TypeOK, Right
  <2> QED
    BY <1>6, <2>1, <2>2 DEF TypeOK, Right
<1>7. CASE Tick
  <2>1. \A st \in Entry :
          [st EXCEPT !.since  = IF @ < Window THEN @ + 1 ELSE @,
                     !.locked = IF @ > 0 THEN @ - 1 ELSE 0] \in Entry
    <3> SUFFICES ASSUME NEW st \in Entry
        PROVE  [st EXCEPT !.since  = IF @ < Window THEN @ + 1 ELSE @,
                          !.locked = IF @ > 0 THEN @ - 1 ELSE 0] \in Entry
      OBVIOUS
    <3>1. /\ st = [since |-> st.since, attempts |-> st.attempts, locked |-> st.locked]
          /\ st.since \in 0..Window /\ st.attempts \in 0..(Limit - 1)
          /\ st.locked \in 0..Lockout
      BY DEF Entry
    <3>2. /\ (IF st.since < Window THEN st.since + 1 ELSE st.since) \in 0..Window
          /\ (IF st.locked > 0 THEN st.locked - 1 ELSE 0) \in 0..Lockout
      BY <3>1
    <3> QED
      BY <3>1, <3>2 DEF Entry
  <2>2. auth' \in [Keys -> Entry]
    BY <1>7, <2>1 DEF TypeOK, Tick
  <2>3. seen' \in [Keys -> Nat] /\ watch' \in 0..(Window - 1)
    <3>1. seen \in [Keys -> Nat] /\ watch \in 0..(Window - 1) /\ Watch
      BY <1>7 DEF TypeOK, Tick
    <3> QED
      BY <3>1 DEF Watch
  <2>4. UNCHANGED <<pc, user, failures, slipped>>
    BY <1>7 DEF Tick
  <2> QED
    BY <2>2, <2>3, <2>4 DEF TypeOK
<1>8. CASE UNCHANGED vars
  BY <1>8 DEF TypeOK, vars
<1> QED
  BY <1>1, <1>2, <1>3, <1>4, <1>5, <1>6, <1>7, <1>8 DEF Next

(* The records of every reachable state are of the types the code assumes:  *)
(* counted failures stay below the limit, a connection's below three.       *)
THEOREM ThrottleTypes == Spec => []TypeOK
<1>1. Init => Typed
  BY LimitsAssumption, KeysAssumption
     DEF Init, Typed, TypeOK, Fresh, Entry
<1>2. Typed => TypeOK
  BY DEF Typed
<1> QED
  BY <1>1, <1>2, TypeStep, PTL DEF Spec
-----------------------------------------------------------------------------
(* The sessions past a check are finitely many, at most all of them.        *)
LEMMA PastCheckFinite ==
  \A k \in Keys : /\ PastCheck(k) \subseteq Clients
                  /\ IsFiniteSet(PastCheck(k))
                  /\ Cardinality(PastCheck(k)) \in Nat
<1>1. IsFiniteSet(Clients)
  BY ClientsAssumption
<1>2. \A k \in Keys : PastCheck(k) \subseteq Clients
  BY DEF PastCheck
<1> QED
  BY <1>1, <1>2, FS_Subset, FS_CardinalityType

\* What the sessions still past k's lock and those it let through come to.
Few(k) == Locked(k) => slipped[k] + Cardinality(PastCheck(k)) < Cardinality(Clients)

(* A step that lets nobody past k's check and sets no lock keeps the bound. *)
LEMMA FewStays ==
  ASSUME Typed, NEW k \in Keys, Few(k), slipped'[k] = slipped[k],
         Locked(k)' => Locked(k),
         Locked(k) => PastCheck(k)' \subseteq PastCheck(k)
  PROVE  Few(k)'
<1>1. ASSUME Locked(k)
      PROVE  /\ Cardinality(PastCheck(k)') \in Nat
             /\ Cardinality(PastCheck(k)') <= Cardinality(PastCheck(k))
  BY <1>1, PastCheckFinite, FS_Subset, FS_CardinalityType
<1>2. /\ Cardinality(Clients) \in Nat /\ slipped[k] \in Nat
      /\ Cardinality(PastCheck(k)) \in Nat
  BY ClientsAssumption, FS_CardinalityType, PastCheckFinite DEF Typed, TypeOK
<1> QED
  BY <1>1, <1>2 DEF Few

(* A failure recorded by a session that leaves the check keeps the bound:   *)
(* under a lock it takes the session's own place, and the failure that sets *)
(* a lock is made by a session the lock does not let through any more.      *)
LEMMA FewRecorded ==
  ASSUME Typed, NEW c \in Clients, NEW k \in Keys, Few(k), Record(k),
         c \in PastCheck(k), PastCheck(k)' = PastCheck(k) \ {c}
  PROVE  Few(k)'
<1>1. /\ Cardinality(Clients) \in Nat /\ slipped[k] \in Nat
      /\ Cardinality(PastCheck(k)) \in Nat /\ Cardinality(PastCheck(k)') \in Nat
      /\ IsFiniteSet(Clients) /\ IsFiniteSet(PastCheck(k))
  BY ClientsAssumption, FS_CardinalityType, PastCheckFinite, FS_Subset
     DEF Typed, TypeOK
<1>2. Cardinality(PastCheck(k)') = Cardinality(PastCheck(k)) - 1
  BY <1>1, FS_RemoveElement
<1>3. Cardinality(PastCheck(k)) <= Cardinality(Clients)
  BY <1>1, FS_Subset, PastCheckFinite
<1>4. CASE Locked(k)
  <2>1. slipped'[k] = slipped[k] + 1
    BY <1>4 DEF Record, Typed, TypeOK
  <2> QED
    BY <1>1, <1>2, <1>4, <2>1 DEF Few
<1>5. CASE ~Locked(k)
  <2>1. slipped'[k] = 0
    BY <1>5 DEF Record, Typed, TypeOK
  <2> QED
    BY <1>1, <1>2, <1>3, <2>1 DEF Few
<1> QED
  BY <1>4, <1>5

(* Time leaves a lock as it is or takes one unit off it.                    *)
LEMMA TickCountsDown ==
  ASSUME Typed, Tick, NEW k \in Keys
  PROVE  auth'[k].locked = IF Locked(k) THEN auth[k].locked - 1 ELSE 0
<1>1. auth[k] \in Entry
  BY DEF Typed, TypeOK
<1>2. auth'[k] = [auth[k] EXCEPT
                    !.since  = IF @ < Window THEN @ + 1 ELSE @,
                    !.locked = IF @ > 0 THEN @ - 1 ELSE 0]
  BY DEF Tick
<1> QED
  BY <1>1, <1>2 DEF Entry, Locked

(* What a step does to one key: nothing but that sessions leave its check,  *)
(* or pass it while it is open; a failure recorded by a session that leaves *)
(* the check; a success that forgets the key; or time passing.              *)
LEMMA KeySteps ==
  ASSUME Typed, [Next]_vars, NEW k \in Keys
  PROVE  \/ /\ auth'[k] = auth[k] /\ slipped'[k] = slipped[k]
            /\ seen'[k] = seen[k] /\ watch' = watch
            /\ Locked(k) => PastCheck(k)' \subseteq PastCheck(k)
         \/ /\ Record(k) /\ watch' = watch
            /\ \E c \in Clients : c \in PastCheck(k) /\ PastCheck(k)' = PastCheck(k) \ {c}
         \/ /\ auth'[k] = Fresh /\ slipped'[k] = slipped[k]
            /\ seen'[k] = 0 /\ watch' = watch
         \/ Tick /\ PastCheck(k)' = PastCheck(k)
<1> USE KeysAssumption, ClientsAssumption DEF Keys
<1> DEFINE Quiet == /\ auth'[k] = auth[k] /\ slipped'[k] = slipped[k]
                    /\ seen'[k] = seen[k] /\ watch' = watch
                    /\ Locked(k) => PastCheck(k)' \subseteq PastCheck(k)
<1> DEFINE Fails == /\ Record(k) /\ watch' = watch
                    /\ \E c \in Clients : /\ c \in PastCheck(k)
                                          /\ PastCheck(k)' = PastCheck(k) \ {c}
<1>1. ASSUME NEW c \in Clients, AuthCommand(c) PROVE Quiet
  BY <1>1 DEF AuthCommand, PastCheck, Typed, TypeOK
<1>2. ASSUME NEW c \in Clients, Rejected(c) \/ Reconnect(c) PROVE Quiet
  BY <1>2 DEF Rejected, Reconnect, PastCheck, Typed, TypeOK
<1>3. ASSUME NEW c \in Clients, NEW u \in Users, Present(c, u) PROVE Quiet
  BY <1>3 DEF Present, PastCheck, Typed, TypeOK
<1>4. ASSUME NEW c \in Clients, Wrong(c) PROVE Quiet \/ Fails
  <2>1. user[c] \in Users
    BY <1>4 DEF Wrong, Typed, TypeOK
  <2>2. CASE k = user[c]
    <3>1. c \in PastCheck(k) /\ PastCheck(k)' = PastCheck(k) \ {c}
      BY <1>4, <2>1, <2>2 DEF Wrong, PastCheck, Typed, TypeOK
    <3> QED
      BY <1>4, <2>2, <3>1 DEF Wrong
  <2>3. CASE k # user[c]
    <3>1. PastCheck(k)' \subseteq PastCheck(k)
      BY <1>4, <2>1, <2>3 DEF Wrong, PastCheck, Typed, TypeOK
    <3>2. auth'[k] = auth[k] /\ slipped'[k] = slipped[k] /\ seen'[k] = seen[k]
      BY <1>4, <2>1, <2>3 DEF Wrong, Record, Typed, TypeOK
    <3> QED
      BY <1>4, <3>1, <3>2 DEF Wrong
  <2> QED
    BY <2>2, <2>3
<1>5. ASSUME NEW c \in Clients, WrongAddress(c) PROVE Quiet \/ Fails
  <2>1. AddressOf[c] \in Addresses
    OBVIOUS
  <2>2. CASE k = AddressOf[c]
    <3>1. c \in PastCheck(k) /\ PastCheck(k)' = PastCheck(k) \ {c}
      BY <1>5, <2>1, <2>2 DEF WrongAddress, PastCheck, Typed, TypeOK
    <3> QED
      BY <1>5, <2>2, <3>1 DEF WrongAddress
  <2>3. CASE k # AddressOf[c]
    <3>1. PastCheck(k)' \subseteq PastCheck(k)
      BY <1>5, <2>1, <2>3 DEF WrongAddress, PastCheck, Typed, TypeOK
    <3>2. auth'[k] = auth[k] /\ slipped'[k] = slipped[k] /\ seen'[k] = seen[k]
      BY <1>5, <2>1, <2>3 DEF WrongAddress, Record, Typed, TypeOK
    <3> QED
      BY <1>5, <3>1, <3>2 DEF WrongAddress
  <2> QED
    BY <2>2, <2>3
<1>6. ASSUME NEW c \in Clients, Right(c)
      PROVE  \/ Quiet
             \/ /\ auth'[k] = Fresh /\ slipped'[k] = slipped[k]
                /\ seen'[k] = 0 /\ watch' = watch
  <2>1. PastCheck(k)' \subseteq PastCheck(k)
    BY <1>6 DEF Right, PastCheck, Typed, TypeOK
  <2>2. CASE k = user[c]
    BY <1>6, <2>2 DEF Right, Typed, TypeOK
  <2>3. CASE k # user[c]
    BY <1>6, <2>1, <2>3 DEF Right, Typed, TypeOK
  <2> QED
    BY <2>2, <2>3
<1>7. CASE Tick
  BY <1>7 DEF Tick, PastCheck
<1>8. CASE UNCHANGED vars
  BY <1>8 DEF vars, PastCheck
<1> QED
  BY <1>1, <1>2, <1>3, <1>4, <1>5, <1>6, <1>7, <1>8 DEF Next

(* Each step keeps the bound of each key.                                   *)
LEMMA FewStep ==
  ASSUME Typed, [Next]_vars, NEW k \in Keys, Few(k)
  PROVE  Few(k)'
<1>1. CASE /\ auth'[k] = auth[k] /\ slipped'[k] = slipped[k]
           /\ Locked(k) => PastCheck(k)' \subseteq PastCheck(k)
  BY <1>1, FewStays DEF Locked
<1>2. ASSUME NEW c \in Clients, Record(k), c \in PastCheck(k),
             PastCheck(k)' = PastCheck(k) \ {c}
      PROVE  Few(k)'
  BY <1>2, FewRecorded
<1>3. CASE auth'[k] = Fresh
  BY <1>3 DEF Few, Locked, Fresh
<1>4. CASE Tick /\ PastCheck(k)' = PastCheck(k)
  <2>1. Locked(k)' => Locked(k)
    BY <1>4, TickCountsDown DEF Locked
  <2> QED
    BY <1>4, <2>1, FewStays DEF Tick
<1> QED
  BY <1>1, <1>2, <1>3, <1>4, KeySteps

(* A lock lets through only the sessions that had passed its check.         *)
THEOREM LocksLetFewThrough == Spec => []LockLetsFewThrough
<1> DEFINE Inv == Typed /\ \A k \in Keys : Few(k)
<1>1. Init => Inv
  <2> SUFFICES ASSUME Init PROVE Inv
    OBVIOUS
  <2>1. Typed
    BY LimitsAssumption, KeysAssumption
       DEF Init, Typed, TypeOK, Fresh, Entry
  <2>2. ASSUME NEW k \in Keys PROVE Few(k)
    BY <2>2 DEF Init, Fresh, Few, Locked
  <2> QED
    BY <2>1, <2>2
<1>2. Inv /\ [Next]_vars => Inv'
  <2> SUFFICES ASSUME Inv, [Next]_vars PROVE Inv'
    OBVIOUS
  <2>1. Typed'
    BY TypeStep
  <2>2. ASSUME NEW k \in Keys PROVE Few(k)'
    BY <2>2, FewStep
  <2> QED
    BY <2>1, <2>2
<1>3. Inv => LockLetsFewThrough
  BY DEF LockLetsFewThrough, Few
<1> QED
  BY <1>1, <1>2, <1>3, PTL DEF Spec

-----------------------------------------------------------------------------
\* A lock is as old as its entry's window, and an open window holds a failure.
Aged(k) ==
  /\ Locked(k) => \/ auth[k].since = Window
                  \/ auth[k].since + auth[k].locked >= Lockout
  /\ ~Locked(k) /\ auth[k].since < Window => auth[k].attempts >= 1

\* The failures watched while k is locked, with those its lock can still let
\* through: only the slipped ones if the lock is older than the watch.
WatchedLocked(k) ==
  seen[k] + Cardinality(PastCheck(k))
    <= Others + IF auth[k].locked + watch < Lockout THEN 0 ELSE Limit + Before

\* The failures watched while k is open: those before its window, and those the
\* window has counted, not all of them if the window is older than the watch.
WatchedOpen(k) ==
  /\ auth[k].since >= Window => seen[k] <= Before
  /\ auth[k].since < Window /\ auth[k].since <= watch =>
       seen[k] <= Before + auth[k].attempts
  /\ auth[k].since < Window /\ auth[k].since > watch => seen[k] < auth[k].attempts

Watched(k) == /\ Aged(k)
              /\ Locked(k) => WatchedLocked(k)
              /\ ~Locked(k) => WatchedOpen(k)

(* The terms of the bound are numbers, in this order.                       *)
LEMMA BoundTerms == /\ Others \in Nat /\ Before \in Nat
                    /\ Others <= Before /\ Limit - 2 <= Before
                    /\ Cardinality(Clients) = Others + 1
<1>1. Cardinality(Clients) \in Nat /\ Cardinality(Clients) # 0
  BY ClientsAssumption, FS_CardinalityType, FS_EmptySet
<1>2. Others \in Nat /\ Cardinality(Clients) = Others + 1
  BY <1>1 DEF Others
<1> QED
  BY <1>2, LimitsAssumption DEF Before

(* What is known of one key's records.                                      *)
LEMMA KeyTypes ==
  ASSUME Typed, NEW k \in Keys
  PROVE  /\ auth[k].since \in 0..Window /\ auth[k].attempts \in 0..(Limit - 1)
         /\ auth[k].locked \in 0..Lockout
         /\ seen[k] \in Nat /\ watch \in 0..(Window - 1)
         /\ Cardinality(PastCheck(k)) \in Nat
<1>1. auth[k] \in Entry /\ seen[k] \in Nat /\ watch \in 0..(Window - 1)
  BY DEF Typed, TypeOK
<1> QED
  BY <1>1, PastCheckFinite DEF Entry

(* Sessions that leave the check change nothing of what was watched.        *)
LEMMA WatchedStays ==
  ASSUME Typed, NEW k \in Keys, Watched(k), auth'[k] = auth[k],
         seen'[k] = seen[k], watch' = watch,
         Locked(k) => PastCheck(k)' \subseteq PastCheck(k)
  PROVE  Watched(k)'
<1>1. Aged(k)'
  BY DEF Watched, Aged, Locked
<1>2. Locked(k)' = Locked(k)
  BY DEF Locked
<1>3. CASE Locked(k)
  <2>1. /\ Cardinality(PastCheck(k)') \in Nat
        /\ Cardinality(PastCheck(k)') <= Cardinality(PastCheck(k))
    BY <1>3, PastCheckFinite, FS_Subset, FS_CardinalityType
  <2>2. WatchedLocked(k)
    BY <1>3 DEF Watched
  <2> DEFINE bound == Others + IF auth[k].locked + watch < Lockout
                               THEN 0 ELSE Limit + Before
  <2>3. bound \in Nat
    BY BoundTerms, LimitsAssumption, KeyTypes
  <2>4. seen[k] + Cardinality(PastCheck(k)) <= bound
    BY <2>2 DEF WatchedLocked
  <2>5. seen[k] + Cardinality(PastCheck(k)') <= bound
    BY <2>1, <2>3, <2>4, KeyTypes
  <2>6. WatchedLocked(k)'
    BY <2>5 DEF WatchedLocked, Others, Before
  <2> QED
    BY <1>1, <1>2, <1>3, <2>6 DEF Watched
<1>4. CASE ~Locked(k)
  <2>1. WatchedOpen(k)'
    BY <1>4 DEF Watched, WatchedOpen, Before, Others
  <2> QED
    BY <1>1, <1>2, <1>4, <2>1 DEF Watched
<1> QED
  BY <1>3, <1>4

(* A failure recorded by a session that leaves the check is watched: under  *)
(* a lock in its session's place, else among those of its window.           *)
LEMMA WatchedRecorded ==
  ASSUME Typed, NEW c \in Clients, NEW k \in Keys, Watched(k), Record(k),
         watch' = watch, c \in PastCheck(k), PastCheck(k)' = PastCheck(k) \ {c}
  PROVE  Watched(k)'
<1> USE LimitsAssumption
<1>1. /\ Cardinality(PastCheck(k)') = Cardinality(PastCheck(k)) - 1
      /\ Cardinality(PastCheck(k)) <= Others + 1
  BY BoundTerms, ClientsAssumption, FS_Subset, PastCheckFinite, FS_RemoveElement
<1>2. /\ seen'[k] = seen[k] + 1
      /\ auth'[k] = IF Locked(k) THEN auth[k] ELSE Counted(auth[k])
  BY DEF Record, Typed, TypeOK
<1>3. CASE Locked(k)
  <2>1. Aged(k)' /\ Locked(k)'
    BY <1>2, <1>3 DEF Watched, Aged, Locked
  <2>2. WatchedLocked(k)
    BY <1>3 DEF Watched
  <2>3. WatchedLocked(k)'
    BY <1>1, <1>2, <1>3, <2>2, KeyTypes DEF WatchedLocked, Others, Before
  <2> QED
    BY <2>1, <2>3 DEF Watched
<1>4. CASE ~Locked(k)
  <2> DEFINE over  == auth[k].since >= Window
             start == IF over THEN 0 ELSE auth[k].since
             n     == IF over THEN 1 ELSE auth[k].attempts + 1
  <2>1. auth'[k] = IF n >= Limit
                   THEN [since |-> start, attempts |-> 0, locked |-> Lockout]
                   ELSE [since |-> start, attempts |-> n, locked |-> 0]
    BY <1>2, <1>4 DEF Counted
  <2>2. WatchedOpen(k)
    BY <1>4 DEF Watched
  <2>3. start \in 0..(Window - 1) /\ n \in 1..Limit
    BY KeyTypes
  <2>4. seen[k] + 1 <= Before + n
    BY <2>2, KeyTypes, BoundTerms DEF WatchedOpen
  <2>5. start > watch => seen[k] + 1 < n
    BY <2>2, KeyTypes DEF WatchedOpen
  <2> HIDE DEF start, n
  <2>6. CASE n >= Limit
    <3>1. auth'[k].since = start /\ auth'[k].locked = Lockout
      BY <2>1, <2>6
    <3>2. Aged(k)' /\ Locked(k)'
      BY <2>3, <3>1 DEF Aged, Locked
    <3>3. Lockout + watch >= Lockout
      BY KeyTypes
    <3>4. seen[k] + 1 + (Cardinality(PastCheck(k)) - 1) <= Others + (Limit + Before)
      BY <1>1, <2>3, <2>4, KeyTypes, BoundTerms
    <3>5. WatchedLocked(k)'
      BY <1>1, <1>2, <3>1, <3>3, <3>4, KeyTypes DEF WatchedLocked, Others, Before
    <3> QED
      BY <3>2, <3>5 DEF Watched
  <2>7. CASE ~(n >= Limit)
    <3>1. /\ auth'[k].since = start /\ auth'[k].attempts = n
          /\ auth'[k].locked = 0
      BY <2>1, <2>7
    <3>2. Aged(k)' /\ ~Locked(k)'
      BY <2>3, <3>1 DEF Aged, Locked
    <3>3. WatchedOpen(k)'
      BY <1>2, <2>3, <2>4, <2>5, <3>1, KeyTypes DEF WatchedOpen, Before, Others
    <3> QED
      BY <3>2, <3>3 DEF Watched
  <2> QED
    BY <2>6, <2>7
<1> QED
  BY <1>3, <1>4

(* A success leaves a key open, with nothing watched.                       *)
LEMMA WatchedForgotten ==
  ASSUME Typed, NEW k \in Keys, auth'[k] = Fresh, seen'[k] = 0, watch' = watch
  PROVE  Watched(k)'
<1>1. Aged(k)' /\ ~Locked(k)'
  BY LimitsAssumption DEF Aged, Locked, Fresh
<1>2. WatchedOpen(k)'
  BY BoundTerms, LimitsAssumption DEF WatchedOpen, Fresh, Before, Others
<1> QED
  BY <1>1, <1>2 DEF Watched

(* Time ages a window, and a watch with it or the watch begins anew.        *)
LEMMA TickAges ==
  ASSUME Typed, Tick, NEW k \in Keys
  PROVE  /\ auth'[k].since = IF auth[k].since < Window THEN auth[k].since + 1
                             ELSE auth[k].since
         /\ auth'[k].attempts = auth[k].attempts
         /\ \/ watch' = 0 /\ seen'[k] = 0
            \/ watch' = watch + 1 /\ watch' < Window /\ seen'[k] = seen[k]
<1>1. auth'[k] = [auth[k] EXCEPT
                    !.since  = IF @ < Window THEN @ + 1 ELSE @,
                    !.locked = IF @ > 0 THEN @ - 1 ELSE 0]
  BY DEF Tick
<1>2. /\ auth'[k].since = IF auth[k].since < Window THEN auth[k].since + 1
                          ELSE auth[k].since
      /\ auth'[k].attempts = auth[k].attempts
  BY <1>1, KeyTypes
<1>3. \/ watch' = 0 /\ seen'[k] = 0
      \/ watch' = watch + 1 /\ watch' < Window /\ seen'[k] = seen[k]
  BY DEF Tick, Watch
<1> QED
  BY <1>2, <1>3

(* Time keeps the bounds: when it ends a lock no window is open, so nothing *)
(* is counted twice, and a window that ends without a lock leaves less than *)
(* its limit.                                                               *)
LEMMA WatchedTick ==
  ASSUME Lockout >= Window, Typed, NEW k \in Keys, Few(k), Watched(k), Tick,
         PastCheck(k)' = PastCheck(k)
  PROVE  Watched(k)'
<1> USE LimitsAssumption
<1>1. CASE Locked(k)
  <2>1. auth[k].locked > 0 /\ auth'[k].locked = auth[k].locked - 1
    BY <1>1, TickCountsDown DEF Locked
  <2>2. WatchedLocked(k)
    BY <1>1 DEF Watched
  <2>3. \/ auth'[k].since = Window
        \/ auth'[k].since + auth'[k].locked >= Lockout
    BY <1>1, <2>1, TickAges, KeyTypes DEF Watched, Aged
  <2>4. CASE auth'[k].locked = 0
    <3>1. ~Locked(k)' /\ auth'[k].since >= Window
      BY <2>3, <2>4, TickAges, KeyTypes DEF Locked
    <3>2. seen'[k] <= Before
      BY <2>1, <2>2, <2>4, TickAges, KeyTypes, BoundTerms DEF WatchedLocked
    <3>3. auth'[k].since \in Nat
      BY TickAges, KeyTypes
    <3>4. Aged(k)'
      BY <3>1, <3>3 DEF Aged
    <3>5. WatchedOpen(k)'
      BY <3>1, <3>2, <3>3 DEF WatchedOpen, Before, Others
    <3> QED
      BY <3>1, <3>4, <3>5 DEF Watched
  <2>5. CASE auth'[k].locked # 0
    <3>1. Locked(k)' /\ Aged(k)'
      BY <2>1, <2>3, <2>5, KeyTypes DEF Locked, Aged
    <3>2. CASE watch' = 0 /\ seen'[k] = 0
      <4>1. Cardinality(PastCheck(k)) <= Others
        <5>1. slipped[k] \in Nat /\ slipped[k] + Cardinality(PastCheck(k)) < Others + 1
          BY <1>1, BoundTerms DEF Few, Typed, TypeOK
        <5> QED
          BY <5>1, KeyTypes, BoundTerms
      <4>2. auth'[k].locked + watch' < Lockout
        BY <2>1, <3>2, KeyTypes
      <4>3. WatchedLocked(k)'
        BY <3>2, <4>1, <4>2, KeyTypes, BoundTerms DEF WatchedLocked, Others, Before
      <4> QED
        BY <3>1, <4>3 DEF Watched
    <3>3. CASE watch' = watch + 1 /\ seen'[k] = seen[k]
      <4>1. auth'[k].locked + watch' = auth[k].locked + watch
        BY <2>1, <3>3, KeyTypes
      <4>2. WatchedLocked(k)'
        BY <2>2, <3>3, <4>1 DEF WatchedLocked, Others, Before
      <4> QED
        BY <3>1, <4>2 DEF Watched
    <3> QED
      BY <3>2, <3>3, TickAges
  <2> QED
    BY <2>4, <2>5
<1>2. CASE ~Locked(k)
  <2>1. auth'[k].locked = 0 /\ ~Locked(k)'
    BY <1>2, TickCountsDown DEF Locked
  <2>2. WatchedOpen(k) /\ (auth[k].since < Window => auth[k].attempts >= 1)
    BY <1>2 DEF Watched, Aged
  <2>3. Aged(k)'
    BY <2>1, <2>2, TickAges, KeyTypes DEF Aged
  <2>4. auth'[k].since >= Window => seen'[k] <= Before
    BY <2>2, TickAges, KeyTypes, BoundTerms DEF WatchedOpen
  <2>5. auth'[k].since < Window =>
          IF auth'[k].since <= watch' THEN seen'[k] <= Before + auth'[k].attempts
                                      ELSE seen'[k] < auth'[k].attempts
    BY <2>2, TickAges, KeyTypes, BoundTerms DEF WatchedOpen
  <2>6. auth'[k].since \in Nat /\ watch' \in Nat
    BY TickAges, KeyTypes
  <2>7. WatchedOpen(k)'
    BY <2>4, <2>5, <2>6 DEF WatchedOpen, Before, Others
  <2> QED
    BY <2>1, <2>3, <2>7 DEF Watched
<1> QED
  BY <1>1, <1>2

(* Each step keeps what is known of the failures watched.                   *)
LEMMA WatchedStep ==
  ASSUME Lockout >= Window, Typed, [Next]_vars, NEW k \in Keys, Few(k), Watched(k)
  PROVE  Watched(k)'
<1>1. ASSUME NEW c \in Clients, Record(k), watch' = watch, c \in PastCheck(k),
             PastCheck(k)' = PastCheck(k) \ {c}
      PROVE  Watched(k)'
  BY <1>1, WatchedRecorded
<1> QED
  BY <1>1, KeySteps, WatchedStays, WatchedForgotten, WatchedTick

(* With a lockout of a minute or more, a minute sees no more failures of a  *)
(* key than a limit's worth, those its lock lets through, and what came     *)
(* before.                                                                  *)
THEOREM BurstsAreBounded == Spec => []BurstBounded
<1> DEFINE Long == Lockout >= Window
           Inv  == /\ Typed
                   /\ \A k \in Keys : Few(k) /\ (Long => Watched(k))
<1>1. Init => Inv
  <2> SUFFICES ASSUME Init PROVE Inv
    OBVIOUS
  <2>1. Typed
    BY LimitsAssumption, KeysAssumption
       DEF Init, Typed, TypeOK, Fresh, Entry
  <2>2. ASSUME NEW k \in Keys PROVE Few(k) /\ Watched(k)
    <3>1. auth[k] = Fresh /\ seen[k] = 0
      BY <2>2 DEF Init
    <3>2. ~Locked(k) /\ auth[k].since = Window
      BY <3>1 DEF Locked, Fresh
    <3> QED
      BY <3>1, <3>2, BoundTerms, LimitsAssumption
         DEF Few, Watched, Aged, WatchedOpen
  <2> QED
    BY <2>1, <2>2
<1>2. Inv /\ [Next]_vars => Inv'
  <2> SUFFICES ASSUME Inv, [Next]_vars PROVE Inv'
    OBVIOUS
  <2>1. Typed'
    BY TypeStep
  <2>2. ASSUME NEW k \in Keys PROVE Few(k)' /\ (Long => Watched(k)')
    BY <2>2, FewStep, WatchedStep
  <2> QED
    BY <2>1, <2>2
<1>3. Inv => BurstBounded
  <2> SUFFICES ASSUME Inv, Long, NEW k \in Keys
      PROVE  seen[k] <= Limit + Others + Before
    BY DEF BurstBounded
  <2>1. CASE Locked(k)
    <3>1. WatchedLocked(k)
      BY <2>1 DEF Watched
    <3> QED
      BY <3>1, KeyTypes, BoundTerms, LimitsAssumption DEF WatchedLocked
  <2>2. CASE ~Locked(k)
    <3>1. WatchedOpen(k)
      BY <2>2 DEF Watched
    <3> QED
      BY <3>1, KeyTypes, BoundTerms, LimitsAssumption DEF WatchedOpen
  <2> QED
    BY <2>1, <2>2
<1> QED
  BY <1>1, <1>2, <1>3, PTL DEF Spec
-----------------------------------------------------------------------------
(* No step but the passing of time ends the lock of an address.             *)
THEOREM LocksOfAddressesRunOut == Spec => AddressLocksRunOut
<1> USE KeysAssumption, ClientsAssumption, LimitsAssumption DEF Keys
<1>1. Init => Typed
  BY DEF Init, Typed, TypeOK, Fresh, Entry
<1>2. Typed /\ [Next]_vars => [\A a \in Addresses : RunsOut(a)]_vars
  <2> SUFFICES ASSUME Typed, [Next]_vars, NEW a \in Addresses, Locked(a)
      PROVE  auth'[a].locked \in {auth[a].locked, auth[a].locked - 1}
    BY DEF RunsOut
  <2>1. ASSUME NEW k \in Keys, Record(k) PROVE auth'[a] = auth[a]
    BY <2>1 DEF Record, Typed, TypeOK
  <2>2. ASSUME NEW c \in Clients, Right(c) PROVE auth'[a] = auth[a]
    BY <2>2 DEF Right, Typed, TypeOK
  <2>3. ASSUME NEW c \in Clients, Wrong(c) \/ WrongAddress(c)
        PROVE  auth'[a] = auth[a]
    BY <2>1, <2>3 DEF Wrong, WrongAddress, Typed, TypeOK
  <2>4. CASE Tick
    BY <2>4, TickCountsDown
  <2> QED
    BY <2>2, <2>3, <2>4
       DEF Next, AuthCommand, Rejected, Reconnect, Present, vars
<1> QED
  BY <1>1, <1>2, TypeStep, PTL DEF Spec, AddressLocksRunOut
=============================================================================
