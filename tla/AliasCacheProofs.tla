-------------------------- MODULE AliasCacheProofs --------------------------
(***************************************************************************)
(* What the send-as cache of AliasCache guarantees for every interval,     *)
(* timeout and number of callers: refusals rest on a recent list, so do    *)
(* acceptances unless Gmail was out of reach, and a list that is too old   *)
(* is reported.                                                            *)
(***************************************************************************)
EXTENDS AliasCache, TLAPS

\* What a list, or an answer on its way, can be behind Gmail.
Lists == /\ list => grantedAgo <= age + Timeout
         /\ ~list => absentAgo <= age + Timeout
         /\ granted => grantedAgo = 0
         /\ ~granted => absentAgo = 0
         /\ outage => calm = 0

Answered == \A r \in Requesters :
              pc[r] = "answered" => /\ got[r] => grantedAgo <= Timeout - left[r]
                                    /\ ~got[r] => absentAgo <= Timeout - left[r]

\* A caller that stored its answer, and the list since, is as young as its call.
Stored == \A c \in Callers : pc[c] = "stored" => age <= Timeout - left[c]

\* Time since the goroutine's refresh before the present one was due.
Due == IF pc[Refresher] # "idle" THEN Interval + Timeout - left[Refresher]
       ELSE IF pending THEN Interval ELSE Interval - fire

\* The goroutine's last finished refresh has renewed the list, or has failed
\* and left its error.
Renewed == age <= Due \/ (err /\ calm <= Due)

(* A clock stays in its range and grows by one at most.                     *)
LEMMA LaterClock ==
  \A c \in Clock, b \in BOOLEAN :
    /\ Later(c, b) \in Clock
    /\ b => Later(c, b) = 0
    /\ Later(c, b) <= c + 1
    /\ \A n \in Nat : c <= n => Later(c, b) <= n + 1
  BY DurationsAssumption DEF Later, Clock

\* The part of the types that requesters' own steps change.
Places == /\ pc \in [Requesters -> Waiting \cup {"idle", "yes", "no", "error"}]
          /\ pc[Refresher] \in {"idle", "asked", "answered"}
          /\ got \in [Requesters -> BOOLEAN]
          /\ left \in [Requesters -> 0..Timeout]

(* A requester that moves on keeps those types.                             *)
LEMMA PlaceTypes ==
  ASSUME TypeOK, NEW r \in Requesters,
         NEW p \in Waiting \cup {"idle", "yes", "no", "error"},
         r = Refresher => p \in {"idle", "asked", "answered"},
         pc' = [pc EXCEPT ![r] = p],
         NEW t \in 0..Timeout, left' = [left EXCEPT ![r] = t],
         NEW b \in BOOLEAN, got' = [got EXCEPT ![r] = b]
  PROVE  Places'
<1>1. pc' \in [Requesters -> Waiting \cup {"idle", "yes", "no", "error"}]
  BY DEF TypeOK
<1>2. pc'[Refresher] \in {"idle", "asked", "answered"}
  <2>1. CASE r = Refresher
    BY <2>1 DEF TypeOK
  <2>2. CASE r # Refresher
    BY <2>2 DEF TypeOK, Requesters
  <2> QED
    BY <2>1, <2>2
<1>3. got' \in [Requesters -> BOOLEAN] /\ left' \in [Requesters -> 0..Timeout]
  BY DEF TypeOK
<1> QED
  BY <1>1, <1>2, <1>3 DEF Places

(* A refresh that is over, and one that begins, in particular.              *)
LEMMA EndTypes ==
  ASSUME TypeOK, NEW r \in Requesters, NEW p \in Waiting \cup {"idle", "yes", "no", "error"},
         r = Refresher => p = "idle", End(r, p)
  PROVE  Places'
<1>1. 0 \in 0..Timeout
  BY DurationsAssumption
<1> QED
  BY <1>1, PlaceTypes DEF End

LEMMA AskTypes ==
  ASSUME TypeOK, NEW r \in Requesters, Ask(r)
  PROVE  Places'
<1>1. Timeout \in 0..Timeout /\ "asked" \in Waiting
  BY DurationsAssumption DEF Waiting
<1>2. got[r] \in BOOLEAN /\ got' = [got EXCEPT ![r] = got[r]]
  BY DEF Ask, TypeOK
<1> QED
  BY <1>1, <1>2, PlaceTypes DEF Ask

(* Each step keeps the types.                                               *)
LEMMA TypeStep == TypeOK /\ [Next]_vars => TypeOK'
<1> SUFFICES ASSUME TypeOK, [Next]_vars PROVE TypeOK'
  OBVIOUS
<1> USE RefresherAssumption, DurationsAssumption
<1>1. ASSUME NEW r \in Requesters, Answer(r) PROVE TypeOK'
  <2>1. /\ left[r] \in 0..Timeout /\ left' = [left EXCEPT ![r] = left[r]]
        /\ granted \in BOOLEAN /\ "answered" \in Waiting
    BY <1>1 DEF Answer, TypeOK, Waiting
  <2>2. Places'
    BY <1>1, <2>1, PlaceTypes DEF Answer
  <2> QED
    BY <1>1, <2>2 DEF TypeOK, Places, Answer, gmail, cache, ticker, clocks
<1>2. ASSUME NEW r \in Requesters, Store(r) PROVE TypeOK'
  <2>1. Places'
    <3>1. CASE r = Refresher
      BY <1>2, <3>1, EndTypes DEF Store
    <3>2. CASE r # Refresher
      <4>1. /\ left[r] \in 0..Timeout /\ left' = [left EXCEPT ![r] = left[r]]
            /\ got[r] \in BOOLEAN /\ got' = [got EXCEPT ![r] = got[r]]
            /\ "stored" \in Waiting
        BY <1>2, <3>2 DEF Store, TypeOK, Waiting
      <4> QED
        BY <1>2, <3>2, <4>1, PlaceTypes DEF Store
    <3> QED
      BY <3>1, <3>2
  <2>2. list' \in BOOLEAN
    <3>1. got[r] \in BOOLEAN
      BY DEF TypeOK
    <3> QED
      BY <1>2, <3>1 DEF Store
  <2>3. age' \in Clock /\ err' \in BOOLEAN
    <3>1. age' = 0 /\ err' = FALSE
      BY <1>2 DEF Store
    <3>2. 0 \in Clock
      BY DEF Clock
    <3> QED
      BY <3>1, <3>2
  <2> QED
    BY <1>2, <2>1, <2>2, <2>3 DEF TypeOK, Places, Store, gmail, ticker, clocks
<1>3. ASSUME NEW r \in Requesters, Fail(r) PROVE TypeOK'
  <2>1. Places'
    <3>1. CASE r = Refresher
      BY <1>3, <3>1, EndTypes DEF Fail
    <3>2. CASE r # Refresher
      BY <1>3, <3>2, EndTypes DEF Fail
    <3> QED
      BY <3>1, <3>2
  <2> QED
    BY <1>3, <2>1 DEF TypeOK, Places, Fail, gmail, ticker, clocks
<1>4. ASSUME NEW c \in Callers, Check(c) \/ Reread(c) \/ Return(c) PROVE TypeOK'
  <2>1. c \in Requesters /\ c # Refresher
    BY DEF Requesters
  <2>2. Places'
    <3>1. CASE Ask(c)
      BY <2>1, <3>1, AskTypes
    <3>2. CASE End(c, "yes") \/ End(c, "no") \/ End(c, "idle")
      BY <2>1, <3>2, EndTypes
    <3> QED
      BY <1>4, <3>1, <3>2 DEF Check, Reread, Return
  <2>3. UNCHANGED <<gmail, cache, ticker, clocks>>
    BY <1>4 DEF Check, Reread, Return
  <2> QED
    BY <2>2, <2>3 DEF TypeOK, Places, gmail, cache, ticker, clocks
<1>5. CASE Refresh
  <2>1. Places'
    BY <1>5, AskTypes DEF Refresh, Requesters
  <2> QED
    BY <1>5, <2>1 DEF TypeOK, Places, Refresh, gmail, cache, clocks
<1>6. CASE ChangeAlias \/ ChangeWeather
  <2>1. 0 \in Clock
    BY DEF Clock
  <2> QED
    BY <1>6, <2>1 DEF TypeOK, ChangeAlias, ChangeWeather, cache, ticker
<1>7. CASE Tick
  <2>1. left' \in [Requesters -> 0..Timeout]
    BY <1>7 DEF TypeOK, Tick
  <2>2. age' \in Clock /\ grantedAgo' \in Clock /\ absentAgo' \in Clock /\ calm' \in Clock
    BY <1>7, LaterClock DEF TypeOK, Tick
  <2>3. fire' \in 1..Interval /\ pending' \in BOOLEAN
    BY <1>7 DEF TypeOK, Tick
  <2> QED
    BY <1>7, <2>1, <2>2, <2>3 DEF TypeOK, Tick, gmail
<1>8. CASE UNCHANGED vars
  BY <1>8 DEF TypeOK, vars, gmail, cache, ticker, clocks
<1> QED
  BY <1>1, <1>2, <1>3, <1>4, <1>5, <1>6, <1>7, <1>8 DEF Next, Step
-----------------------------------------------------------------------------
Behind == Lists /\ Answered /\ Stored

(* A step that leaves Gmail, the cache and the clocks alone and answers or  *)
(* stores nothing leaves nothing further behind.                            *)
LEMMA BehindStays ==
  ASSUME TypeOK, Behind, UNCHANGED <<gmail, cache, clocks>>,
         \A r \in Requesters : pc'[r] \in {"answered", "stored"} =>
           pc'[r] = pc[r] /\ got'[r] = got[r] /\ left'[r] = left[r]
  PROVE  Behind'
<1>1. Lists'
  BY DEF Behind, Lists, gmail, cache, clocks
<1>2. Answered'
  BY DEF Behind, Answered, clocks
<1>3. Stored'
  BY DEF Behind, Stored, cache, Requesters
<1> QED
  BY <1>1, <1>2, <1>3 DEF Behind

(* Each step keeps the list, and the answers on their way, as recent as     *)
(* their clocks say.                                                        *)
LEMMA BehindStep == TypeOK /\ Behind /\ [Next]_vars => Behind'
<1> SUFFICES ASSUME TypeOK, Behind, [Next]_vars PROVE Behind'
  OBVIOUS
<1> USE RefresherAssumption, DurationsAssumption
<1>1. ASSUME NEW r \in Requesters, Answer(r) PROVE Behind'
  <2>1. /\ pc' = [pc EXCEPT ![r] = "answered"] /\ got' = [got EXCEPT ![r] = granted]
        /\ UNCHANGED <<gmail, cache, left, clocks>>
    BY <1>1 DEF Answer
  <2>2. Lists'
    BY <2>1 DEF Behind, Lists, gmail, cache, clocks
  <2>3. Stored'
    BY <2>1 DEF Behind, Stored, cache, TypeOK, Requesters
  <2>4. ASSUME NEW q \in Requesters, pc'[q] = "answered"
        PROVE  /\ got'[q] => grantedAgo <= Timeout - left[q]
               /\ ~got'[q] => absentAgo <= Timeout - left[q]
    <3>1. CASE q = r
      <4>1. got'[q] = granted
        BY <2>1, <3>1 DEF TypeOK
      <4>2. Timeout - left[q] >= 0
        BY DEF TypeOK
      <4>3. /\ granted => grantedAgo <= Timeout - left[q]
            /\ ~granted => absentAgo <= Timeout - left[q]
        BY <4>2 DEF Behind, Lists
      <4> QED
        BY <4>1, <4>3
    <3>2. CASE q # r
      <4>1. pc[q] = "answered" /\ got'[q] = got[q]
        BY <2>1, <2>4, <3>2 DEF TypeOK
      <4> QED
        BY <4>1 DEF Behind, Answered
    <3> QED
      BY <3>1, <3>2
  <2>5. Answered'
    BY <2>1, <2>4 DEF Answered, clocks
  <2> QED
    BY <2>2, <2>3, <2>5 DEF Behind
<1>2. ASSUME NEW r \in Requesters, Store(r) PROVE Behind'
  <2>1. /\ pc[r] = "answered" /\ list' = got[r] /\ age' = 0
        /\ UNCHANGED <<gmail, clocks>>
    BY <1>2 DEF Store
  <2>2. Lists'
    <3>1. /\ got[r] => grantedAgo <= Timeout - left[r]
          /\ ~got[r] => absentAgo <= Timeout - left[r]
      BY <2>1 DEF Behind, Answered
    <3>2. grantedAgo \in Nat /\ absentAgo \in Nat /\ Timeout - left[r] <= 0 + Timeout
      BY DEF TypeOK, Clock
    <3>3. /\ got[r] => grantedAgo <= 0 + Timeout
          /\ ~got[r] => absentAgo <= 0 + Timeout
      BY <3>1, <3>2 DEF TypeOK
    <3> QED
      BY <2>1, <3>3 DEF Behind, Lists, gmail, clocks
  <2>3. ASSUME NEW q \in Requesters, pc'[q] = "answered"
        PROVE  pc[q] = "answered" /\ got'[q] = got[q] /\ left'[q] = left[q]
    BY <1>2, <2>3 DEF Store, End, TypeOK
  <2>4. Answered'
    BY <2>1, <2>3 DEF Behind, Answered, clocks
  <2>5. Stored'
    <3>1. left' \in [Requesters -> 0..Timeout]
      BY TypeStep DEF TypeOK
    <3> QED
      BY <2>1, <3>1 DEF Stored, Requesters
  <2> QED
    BY <2>2, <2>4, <2>5 DEF Behind
<1>3. ASSUME NEW r \in Requesters, Fail(r) PROVE Behind'
  <2>1. Lists'
    BY <1>3 DEF Fail, Behind, Lists, gmail, clocks
  <2>2. \A q \in Requesters : pc'[q] \in {"answered", "stored"} =>
          pc'[q] = pc[q] /\ got'[q] = got[q] /\ left'[q] = left[q]
    BY <1>3 DEF Fail, End, TypeOK
  <2>3. Answered'
    BY <1>3, <2>2 DEF Fail, Behind, Answered, clocks
  <2>4. Stored'
    BY <1>3, <2>2 DEF Fail, Behind, Stored, Requesters
  <2> QED
    BY <2>1, <2>3, <2>4 DEF Behind
<1>4. ASSUME NEW c \in Callers, Check(c) \/ Reread(c) \/ Return(c) PROVE Behind'
  <2>1. c \in Requesters
    BY DEF Requesters
  <2>2. UNCHANGED <<gmail, cache, clocks>>
    BY <1>4 DEF Check, Reread, Return
  <2>3. \/ End(c, "yes") \/ End(c, "no") \/ End(c, "idle") \/ Ask(c)
    BY <1>4 DEF Check, Reread, Return
  <2>4. \A q \in Requesters : pc'[q] \in {"answered", "stored"} =>
          pc'[q] = pc[q] /\ got'[q] = got[q] /\ left'[q] = left[q]
    BY <2>1, <2>3 DEF End, Ask, TypeOK
  <2> QED
    BY <2>2, <2>4, BehindStays
<1>5. CASE Refresh
  <2>1. Ask(Refresher) /\ UNCHANGED <<gmail, cache, clocks>>
    BY <1>5 DEF Refresh
  <2>2. \A q \in Requesters : pc'[q] \in {"answered", "stored"} =>
          pc'[q] = pc[q] /\ got'[q] = got[q] /\ left'[q] = left[q]
    BY <2>1 DEF Ask, TypeOK
  <2> QED
    BY <2>1, <2>2, BehindStays
<1>6. CASE ChangeAlias
  <2>1. Lists'
    BY <1>6 DEF ChangeAlias, Behind, Lists, cache, TypeOK, Clock
  <2>2. Answered'
    BY <1>6 DEF ChangeAlias, Behind, Answered, TypeOK
  <2>3. Stored'
    BY <1>6 DEF ChangeAlias, Behind, Stored, cache
  <2> QED
    BY <2>1, <2>2, <2>3 DEF Behind
<1>7. CASE ChangeWeather
  BY <1>7 DEF ChangeWeather, Behind, Lists, Answered, Stored, cache
<1>8. CASE Tick
  <2>1. /\ age \in Clock /\ grantedAgo \in Clock /\ absentAgo \in Clock
        /\ granted \in BOOLEAN /\ outage \in BOOLEAN /\ left \in [Requesters -> 0..Timeout]
    BY DEF TypeOK
  <2>2. /\ UNCHANGED <<granted, outage, list, pc, got>>
        /\ age' = Later(age, FALSE) /\ calm' = Later(calm, outage)
        /\ grantedAgo' = Later(grantedAgo, granted)
        /\ absentAgo' = Later(absentAgo, ~granted)
    BY <1>8 DEF Tick, gmail
  <2>3. \A r \in Requesters : pc[r] \in Waiting => left'[r] = left[r] - 1
    BY <1>8 DEF Tick
  <2>4. Lists'
    BY <2>1, <2>2 DEF Later, Behind, Lists, Clock
  <2>5. Answered'
    <3> SUFFICES ASSUME NEW r \in Requesters, pc[r] = "answered"
        PROVE  /\ got[r] => grantedAgo' <= Timeout - left'[r]
               /\ ~got[r] => absentAgo' <= Timeout - left'[r]
      BY <2>2 DEF Answered
    <3>1. left'[r] = left[r] - 1
      BY <2>3 DEF Waiting
    <3>2. /\ got[r] => grantedAgo <= Timeout - left[r]
          /\ ~got[r] => absentAgo <= Timeout - left[r]
      BY DEF Behind, Answered
    <3>3. /\ left[r] \in Nat /\ grantedAgo' \in Nat /\ absentAgo' \in Nat
          /\ grantedAgo' <= grantedAgo + 1 /\ absentAgo' <= absentAgo + 1
      BY <2>1, <2>2 DEF Clock, Later
    <3>4. /\ grantedAgo <= Timeout - left[r] => grantedAgo' <= Timeout - left'[r]
          /\ absentAgo <= Timeout - left[r] => absentAgo' <= Timeout - left'[r]
      BY <2>1, <3>1, <3>3 DEF Clock
    <3> QED
      BY <3>2, <3>4
  <2>6. Stored'
    BY <2>1, <2>2, <2>3 DEF Later, Behind, Stored, Waiting, Clock, Requesters
  <2> QED
    BY <2>4, <2>5, <2>6 DEF Behind
<1>9. CASE UNCHANGED vars
  BY <1>9 DEF vars, gmail, cache, clocks, Behind, Lists, Answered, Stored
<1> QED
  BY <1>1, <1>2, <1>3, <1>4, <1>5, <1>6, <1>7, <1>8, <1>9 DEF Next, Step
-----------------------------------------------------------------------------
LEMMA DueArithmetic ==
  \A l \in 0..Timeout, f \in 1..Interval :
    Interval + Timeout - l \in Nat /\ Interval \in Nat /\ Interval - f \in Nat
  BY DurationsAssumption

(* A step that is not of the goroutine and leaves time alone keeps its      *)
(* promise: the list it renewed is as young, or the outage as close.        *)
LEMMA RenewedStays ==
  ASSUME TypeOK, Renewed,
         pc'[Refresher] = pc[Refresher], left'[Refresher] = left[Refresher],
         UNCHANGED ticker,
         \/ age' = age /\ err' = err /\ calm' = calm
         \/ age' = 0
         \/ age' = age /\ err' = TRUE /\ calm' = 0
         \/ age' = age /\ err' = err /\ calm' = 0
  PROVE  Renewed'
<1>1. Due' = Due
  BY DEF Due, ticker
<1>2. Due \in Nat
  BY DurationsAssumption DEF Due, TypeOK, Requesters
<1> QED
  BY <1>1, <1>2 DEF Renewed

(* Each step keeps the goroutine's promise.                                 *)
LEMMA RenewedStep == TypeOK /\ Lists /\ Renewed /\ [Next]_vars => Renewed'
<1> SUFFICES ASSUME TypeOK, Lists, Renewed, [Next]_vars PROVE Renewed'
  OBVIOUS
<1> USE RefresherAssumption, DurationsAssumption
<1>a. Refresher \in Requesters /\ \A c \in Callers : c \in Requesters /\ c # Refresher
  BY DEF Requesters
<1>b. /\ left[Refresher] \in 0..Timeout /\ fire \in 1..Interval
      /\ age \in 0..Horizon /\ calm \in 0..Horizon /\ Due \in Nat
  BY <1>a DEF TypeOK, Clock, Due
<1>1. ASSUME NEW r \in Requesters, Answer(r) PROVE Renewed'
  <2>1. Due' = Due
    <3>1. pc[Refresher] # "idle" <=> pc'[Refresher] # "idle"
      BY <1>1 DEF Answer, TypeOK
    <3> QED
      BY <1>1, <3>1 DEF Answer, ticker, Due
  <2> QED
    BY <1>1, <2>1 DEF Answer, cache, clocks, Renewed
<1>2. ASSUME NEW r \in Requesters, Store(r) PROVE Renewed'
  <2>1. age' = 0
    BY <1>2 DEF Store
  <2>2. TypeOK'
    BY TypeStep
  <2>3. Due' \in Nat
    <3>1. left'[Refresher] \in 0..Timeout /\ fire' \in 1..Interval
      BY <1>a, <2>2 DEF TypeOK
    <3>2. /\ Interval + Timeout - left'[Refresher] \in Nat
          /\ Interval \in Nat /\ Interval - fire' \in Nat
      BY <3>1, DueArithmetic
    <3> QED
      BY <3>2 DEF Due
  <2> QED
    BY <2>1, <2>3 DEF Renewed
<1>3. ASSUME NEW r \in Requesters, Fail(r) PROVE Renewed'
  <2>1. err' = TRUE /\ calm' = calm /\ calm = 0
    BY <1>3 DEF Fail, Lists, clocks
  <2>2. TypeOK'
    BY TypeStep
  <2>3. Due' \in Nat
    <3>1. left'[Refresher] \in 0..Timeout /\ fire' \in 1..Interval
      BY <1>a, <2>2 DEF TypeOK
    <3>2. /\ Interval + Timeout - left'[Refresher] \in Nat
          /\ Interval \in Nat /\ Interval - fire' \in Nat
      BY <3>1, DueArithmetic
    <3> QED
      BY <3>2 DEF Due
  <2> QED
    BY <2>1, <2>3 DEF Renewed
<1>4. ASSUME NEW c \in Callers, Check(c) \/ Reread(c) \/ Return(c) PROVE Renewed'
  <2>1. c \in Requesters /\ c # Refresher
    BY <1>a
  <2>2. UNCHANGED <<cache, ticker, clocks>>
    BY <1>4 DEF Check, Reread, Return
  <2>3. \/ End(c, "yes") \/ End(c, "no") \/ End(c, "idle") \/ Ask(c)
    BY <1>4 DEF Check, Reread, Return
  <2>4. pc'[Refresher] = pc[Refresher] /\ left'[Refresher] = left[Refresher]
    BY <1>a, <2>1, <2>3 DEF End, Ask, TypeOK
  <2> QED
    BY <2>2, <2>4, RenewedStays DEF cache, clocks
<1>5. CASE Refresh
  <2>1. /\ pc[Refresher] = "idle" /\ pending
        /\ pc'[Refresher] = "asked" /\ left'[Refresher] = Timeout
    BY <1>5, <1>a DEF Refresh, Ask, TypeOK
  <2>2. Due = Interval /\ Due' = Interval
    BY <2>1 DEF Due
  <2> QED
    BY <1>5, <2>2 DEF Refresh, cache, clocks, Renewed
<1>6. CASE ChangeAlias
  BY <1>6 DEF ChangeAlias, cache, ticker, Renewed, Due
<1>7. CASE ChangeWeather
  BY <1>7, RenewedStays DEF ChangeWeather, cache
<1>8. CASE Tick
  <2>1. /\ pc' = pc /\ err' = err /\ age' = Later(age, FALSE) /\ calm' = Later(calm, outage)
        /\ fire' = (IF fire = 1 THEN Interval ELSE fire - 1)
        /\ pending' = (pending \/ fire = 1)
        /\ ~(pending /\ pc[Refresher] = "idle")
    BY <1>8 DEF Tick
  <2>2. age' <= age + 1 /\ calm' <= calm + 1 /\ age' \in Nat /\ calm' \in Nat
    BY <1>b, <2>1 DEF Later, TypeOK
  <2>3. Due' = Due + 1
    <3>1. CASE pc[Refresher] = "idle"
      <4>1. ~pending /\ Due = Interval - fire
        BY <2>1, <3>1 DEF Due
      <4>2. CASE fire = 1
        <5>1. pending' /\ pc'[Refresher] = "idle"
          BY <2>1, <3>1, <4>2
        <5>2. Due' = Interval
          BY <5>1 DEF Due
        <5> QED
          BY <4>1, <4>2, <5>2
      <4>3. CASE fire # 1
        <5>1. ~pending' /\ pc'[Refresher] = "idle" /\ fire' = fire - 1
          BY <2>1, <3>1, <4>1, <4>3
        <5>2. Due' = Interval - (fire - 1)
          BY <5>1 DEF Due
        <5> QED
          BY <1>b, <4>1, <5>2
      <4> QED
        BY <4>2, <4>3
    <3>2. CASE pc[Refresher] # "idle"
      <4>1. left'[Refresher] = left[Refresher] - 1
        BY <1>8, <1>a, <3>2 DEF Tick, TypeOK, Waiting
      <4> QED
        BY <1>b, <2>1, <3>2, <4>1 DEF Due
    <3> QED
      BY <3>1, <3>2
  <2>4. /\ age <= Due => age' <= Due'
        /\ calm <= Due => calm' <= Due'
    BY <1>b, <2>2, <2>3
  <2> QED
    BY <2>1, <2>4 DEF Renewed
<1>9. CASE UNCHANGED vars
  BY <1>9 DEF vars, cache, ticker, clocks, Renewed, Due
<1> QED
  BY <1>1, <1>2, <1>3, <1>4, <1>5, <1>6, <1>7, <1>8, <1>9 DEF Next, Step

(* The cache starts with what Gmail has just said.                          *)
LEMMA InitOK == Init => TypeOK /\ Behind /\ Renewed
<1> SUFFICES ASSUME Init PROVE TypeOK /\ Behind /\ Renewed
  OBVIOUS
<1> USE RefresherAssumption, DurationsAssumption DEF Init, Requesters
<1>1. TypeOK
  <2>1. 0 \in Clock /\ Horizon \in Clock /\ 0 \in 0..Timeout /\ Interval \in 1..Interval
    BY DEF Clock
  <2>2. grantedAgo \in Clock /\ absentAgo \in Clock
    BY <2>1
  <2> QED
    BY <2>1, <2>2 DEF TypeOK
<1>2. Behind
  BY DEF Behind, Lists, Answered, Stored
<1>3. Renewed
  BY DEF Renewed, Due
<1> QED
  BY <1>1, <1>2, <1>3
-----------------------------------------------------------------------------
(* The inductive invariant of the cache.                                    *)
THEOREM CacheInvariant == Spec => [](TypeOK /\ Behind /\ Renewed)
<1>1. TypeOK /\ Behind /\ Renewed /\ [Next]_vars => (TypeOK /\ Behind /\ Renewed)'
  BY TypeStep, BehindStep, RenewedStep DEF Behind
<1> QED
  BY <1>1, InitOK, PTL DEF Spec

(* Requesters, clocks and the ticker keep their types: no refresh outlasts  *)
(* its timeout.                                                             *)
THEOREM CacheTypes == Spec => []TypeOK
  BY CacheInvariant, PTL

(* A list too old to trust has its error on record, so /readyz says so.     *)
THEOREM StaleListIsReported == Spec => []StaleIsNotReady
<1>1. TypeOK /\ Renewed => StaleIsNotReady
  <2> SUFFICES ASSUME TypeOK, Renewed, age > MaxStale, age > Interval + Timeout
      PROVE  err
    BY DEF StaleIsNotReady, Ready
  <2>1. Due <= Interval + Timeout
    BY RefresherAssumption, DurationsAssumption DEF Due, TypeOK, Requesters
  <2> QED
    BY <2>1, DurationsAssumption DEF Renewed, TypeOK, Clock, Due, Requesters
<1> QED
  BY <1>1, CacheInvariant, PTL

(* A verdict "no" is given by a fresh list, or by one a refresh has stored. *)
THEOREM RefusalsAreJustified == Spec => RefusalJustified
<1>1. /\ TypeOK /\ Behind
      /\ [Next]_vars
      => [\A c \in Callers : Answers(c, "no") =>
            absentAgo <= Timeout + (IF Interval > Timeout THEN Interval ELSE Timeout)]_vars
  <2> SUFFICES ASSUME TypeOK, Behind, Next, NEW c \in Callers, Answers(c, "no")
      PROVE  absentAgo <= Timeout + (IF Interval > Timeout THEN Interval ELSE Timeout)
    OBVIOUS
  <2>0. c \in Requesters /\ c # Refresher
    BY RefresherAssumption DEF Requesters
  <2>1. pc[c] # "no" /\ pc'[c] = "no"
    BY DEF Answers
  <2>2. PICK d \in Callers : Check(d) \/ Reread(d) \/ Return(d)
    <3>1. ASSUME NEW r \in Requesters, Step(r) PROVE FALSE
      BY <2>0, <2>1, <3>1 DEF Step, Answer, Store, Fail, End, TypeOK
    <3>2. ~Refresh
      BY <2>0, <2>1 DEF Refresh, Ask, TypeOK
    <3>3. ~(ChangeAlias \/ ChangeWeather \/ Tick)
      BY <2>1 DEF ChangeAlias, ChangeWeather, Tick
    <3> QED
      BY <3>1, <3>2, <3>3 DEF Next
  <2>3. d \in Requesters
    BY DEF Requesters
  <2>4. d = c
    BY <2>0, <2>1, <2>2, <2>3 DEF Check, Reread, Return, End, Ask, TypeOK
  <2>5. ~list /\ (age <= Interval \/ pc[c] = "stored")
    BY <2>0, <2>1, <2>2, <2>4 DEF Check, Reread, Return, End, Ask, TypeOK
  <2>6. absentAgo <= age + Timeout
    BY <2>5 DEF Behind, Lists
  <2>7. pc[c] = "stored" => age <= Timeout
    <3>1. pc[c] = "stored" => age <= Timeout - left[c]
      BY DEF Behind, Stored
    <3> QED
      BY <2>0, <3>1, DurationsAssumption DEF TypeOK, Clock
  <2> QED
    BY <2>5, <2>6, <2>7, DurationsAssumption DEF TypeOK, Clock
<1> QED
  BY <1>1, CacheInvariant, PTL DEF Spec, RefusalJustified

(* A verdict "yes" is given by a list the goroutine has renewed, or has     *)
(* tried to renew while Gmail was out of reach.                             *)
THEOREM AcceptancesAreFresh == Spec => AcceptanceFresh
<1>1. /\ TypeOK /\ Behind /\ Renewed
      /\ [Next]_vars
      => [\A c \in Callers : Answers(c, "yes") =>
            \/ grantedAgo <= Interval + 2 * Timeout
            \/ calm <= Interval + Timeout]_vars
  <2> SUFFICES ASSUME TypeOK, Behind, Renewed, Next, NEW c \in Callers, Answers(c, "yes")
      PROVE  grantedAgo <= Interval + 2 * Timeout \/ calm <= Interval + Timeout
    OBVIOUS
  <2>0. c \in Requesters /\ c # Refresher /\ Refresher \in Requesters
    BY RefresherAssumption DEF Requesters
  <2>1. pc[c] # "yes" /\ pc'[c] = "yes"
    BY DEF Answers
  <2>2. PICK d \in Callers : Check(d) \/ Reread(d) \/ Return(d)
    <3>1. ASSUME NEW r \in Requesters, Step(r) PROVE FALSE
      BY <2>0, <2>1, <3>1 DEF Step, Answer, Store, Fail, End, TypeOK
    <3>2. ~Refresh
      BY <2>0, <2>1 DEF Refresh, Ask, TypeOK
    <3>3. ~(ChangeAlias \/ ChangeWeather \/ Tick)
      BY <2>1 DEF ChangeAlias, ChangeWeather, Tick
    <3> QED
      BY <3>1, <3>2, <3>3 DEF Next
  <2>3. d \in Requesters
    BY DEF Requesters
  <2>4. d = c
    BY <2>0, <2>1, <2>2, <2>3 DEF Check, Reread, Return, End, Ask, TypeOK
  <2>5. list
    BY <2>0, <2>1, <2>2, <2>4 DEF Check, Reread, Return, End, Ask, TypeOK
  <2>6. grantedAgo <= age + Timeout
    BY <2>5 DEF Behind, Lists
  <2>7. Due <= Interval + Timeout /\ Due \in Nat
    BY <2>0, DurationsAssumption DEF Due, TypeOK
  <2>8. age <= Due \/ calm <= Due
    BY DEF Renewed
  <2> QED
    BY <2>6, <2>7, <2>8, DurationsAssumption DEF TypeOK, Clock
<1> QED
  BY <1>1, CacheInvariant, PTL DEF Spec, AcceptanceFresh
=============================================================================
