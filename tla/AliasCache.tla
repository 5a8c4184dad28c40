----------------------------- MODULE AliasCache -----------------------------
(***************************************************************************)
(* The send-as alias cache of internal/gmail/sender.go, seen by one        *)
(* address that Gmail grants to the mailbox and revokes: the sessions that *)
(* ask IsAllowedSender at MAIL and the workers that ask it in Send, the    *)
(* goroutine of RunAliasRefresh, and the readiness the observability       *)
(* server derives from AliasStatus.  refreshAliases holds no lock while it *)
(* waits for Gmail, so several run at once and store what they got in any  *)
(* order.                                                                  *)
(*                                                                         *)
(* Time passes in ticks.  A refresh ends within Timeout (the 20 s of the   *)
(* goroutine and the 30 s of the HTTP client, and less at MAIL); steps     *)
(* that wait for nobody take less than a tick.  Clocks stop at Horizon.    *)
(***************************************************************************)
EXTENDS Integers

CONSTANTS Callers,    \* sessions in MAIL and workers in Send
          Refresher,  \* the goroutine of RunAliasRefresh
          Interval,   \* SENDAS_REFRESH_SECONDS
          Timeout,    \* the longest a refresh can take
          MaxStale,   \* READINESS_ALIAS_MAX_STALE_SECONDS
          Horizon     \* where the clocks stop

ASSUME RefresherAssumption == Refresher \notin Callers
ASSUME DurationsAssumption ==
  /\ Interval \in Nat \ {0} /\ Timeout \in Nat \ {0} /\ MaxStale \in Nat \ {0}
  /\ Horizon \in Nat
  /\ Horizon > Interval + 2 * Timeout /\ Horizon > 2 * Timeout
  /\ Horizon > MaxStale

Requesters == Callers \cup {Refresher}

VARIABLES
  granted,     \* Gmail lists the address
  outage,      \* Gmail cannot be reached, or answers 429 or 5xx
  list,        \* allowedSend has the address
  age,         \* time.Since(lastRefresh)
  err,         \* lastErr # ""
  pc,          \* where each IsAllowedSender and RunAliasRefresh is
  got,         \* what Gmail's answer, not yet stored, says of the address
  left,        \* time left to a refresh
  fire,        \* time to the ticker's next tick
  pending,     \* a tick waits in the ticker's channel
  grantedAgo,  \* time since Gmail last listed the address
  absentAgo,   \* time since it last did not
  calm         \* time since the last outage

cache  == <<list, age, err>>
gmail  == <<granted, outage>>
ticker == <<fire, pending>>
clocks == <<grantedAgo, absentAgo, calm>>
vars   == <<gmail, cache, pc, got, left, ticker, clocks>>

Waiting == {"asked", "answered", "stored"}
Clock   == 0..Horizon

(* NewAPISender has refreshed once; RunAliasRefresh has made its ticker.    *)
Init == /\ granted \in BOOLEAN /\ outage = FALSE
        /\ list = granted /\ age = 0 /\ err = FALSE
        /\ pc = [r \in Requesters |-> "idle"]
        /\ got = [r \in Requesters |-> FALSE]
        /\ left = [r \in Requesters |-> 0]
        /\ fire = Interval /\ pending = FALSE
        /\ grantedAgo = (IF granted THEN 0 ELSE Horizon)
        /\ absentAgo = (IF granted THEN Horizon ELSE 0)
        /\ calm = Horizon

(* A requester goes on to p, its refresh over.                              *)
End(r, p) == /\ pc' = [pc EXCEPT ![r] = p]
             /\ left' = [left EXCEPT ![r] = 0]
             /\ got' = [got EXCEPT ![r] = FALSE]
-----------------------------------------------------------------------------
\* Mutant of Ask: the context has no timeout of its own.
AskPatiently(r) == /\ pc' = [pc EXCEPT ![r] = "asked"]
                   /\ left' = [left EXCEPT ![r] = 2 * Timeout]
                   /\ UNCHANGED got

(* refreshAliases calls Gmail.                                              *)
Ask(r) == /\ pc' = [pc EXCEPT ![r] = "asked"]
          /\ left' = [left EXCEPT ![r] = Timeout]
          /\ UNCHANGED got

\* Mutant of Check: a miss is final, however old the list is.
CheckOnce(c) == /\ pc[c] = "idle"
                /\ End(c, IF list THEN "yes" ELSE "no")
                /\ UNCHANGED <<gmail, cache, ticker, clocks>>

(* IsAllowedSender up to the first look at the list: a hit is accepted      *)
(* however old the list is, a miss only believed of a fresh one.            *)
Check(c) == /\ pc[c] = "idle"
            /\ \/ list /\ End(c, "yes")
               \/ ~list /\ age <= Interval /\ End(c, "no")
               \/ ~list /\ age > Interval /\ Ask(c)
            /\ UNCHANGED <<gmail, cache, ticker, clocks>>

(* RunAliasRefresh takes a tick from its channel.                           *)
Refresh == /\ pc[Refresher] = "idle" /\ pending
           /\ pending' = FALSE
           /\ Ask(Refresher)
           /\ UNCHANGED <<gmail, cache, fire, clocks>>

(* Gmail answers with its list as it is now; the answer is on its way.      *)
Answer(r) == /\ pc[r] = "asked" /\ ~outage
             /\ pc' = [pc EXCEPT ![r] = "answered"]
             /\ got' = [got EXCEPT ![r] = granted]
             /\ UNCHANGED <<gmail, cache, left, ticker, clocks>>

\* Mutant of Store: the new list is added to the old one.
StoreAdded(r) == /\ pc[r] = "answered"
                 /\ list' = (list \/ got[r])
                 /\ age' = 0
                 /\ err' = FALSE
                 /\ IF r = Refresher THEN End(r, "idle")
                    ELSE pc' = [pc EXCEPT ![r] = "stored"] /\ UNCHANGED <<got, left>>
                 /\ UNCHANGED <<gmail, ticker, clocks>>

\* Mutant of Store: lastErr stays.
StoreKeepsError(r) == /\ pc[r] = "answered"
                      /\ list' = got[r]
                      /\ age' = 0
                      /\ IF r = Refresher THEN End(r, "idle")
                         ELSE pc' = [pc EXCEPT ![r] = "stored"] /\ UNCHANGED <<got, left>>
                      /\ UNCHANGED <<gmail, err, ticker, clocks>>

(* The answer replaces the list, also one that a later answer has brought.  *)
Store(r) == /\ pc[r] = "answered"
            /\ list' = got[r]
            /\ age' = 0
            /\ err' = FALSE
            /\ IF r = Refresher THEN End(r, "idle")
               ELSE pc' = [pc EXCEPT ![r] = "stored"] /\ UNCHANGED <<got, left>>
            /\ UNCHANGED <<gmail, ticker, clocks>>

\* Mutant of Fail: the goroutine's errors are not recorded.
FailSilently(r) == /\ pc[r] \in {"asked", "answered"} /\ outage
                   /\ err' = (err \/ r # Refresher)
                   /\ End(r, IF r = Refresher THEN "idle" ELSE "error")
                   /\ UNCHANGED <<gmail, list, age, ticker, clocks>>

(* The call or its answer is lost, or Gmail refuses: the list stays.        *)
Fail(r) == /\ pc[r] \in {"asked", "answered"} /\ outage
           /\ err' = TRUE
           /\ End(r, IF r = Refresher THEN "idle" ELSE "error")
           /\ UNCHANGED <<gmail, list, age, ticker, clocks>>

(* IsAllowedSender looks at the list again, under a new read lock.          *)
Reread(c) == /\ pc[c] = "stored"
             /\ End(c, IF list THEN "yes" ELSE "no")
             /\ UNCHANGED <<gmail, cache, ticker, clocks>>

(* The caller has its verdict: MAIL answers 250, 550 or 451, Send delivers, *)
(* fails for good or will be retried.                                       *)
Return(c) == /\ pc[c] \in {"yes", "no", "error"}
             /\ End(c, "idle")
             /\ UNCHANGED <<gmail, cache, ticker, clocks>>

(* The owner of the mailbox changes its send-as addresses.                  *)
ChangeAlias == /\ granted' = ~granted
               /\ grantedAgo' = 0 /\ absentAgo' = 0
               /\ UNCHANGED <<outage, cache, pc, got, left, ticker, calm>>

(* Gmail goes away or comes back.                                           *)
ChangeWeather == /\ outage' = ~outage
                 /\ calm' = 0
                 /\ UNCHANGED <<granted, cache, pc, got, left, ticker,
                                grantedAgo, absentAgo>>

Later(clock, now) == IF now THEN 0 ELSE IF clock < Horizon THEN clock + 1 ELSE clock

(* One unit of time, which no refresh outlasts and a free goroutine does    *)
(* not let pass before it takes its tick.  A tick that finds the channel    *)
(* full is dropped.                                                         *)
Tick == /\ \A r \in Requesters : pc[r] \in Waiting => left[r] > 0
        /\ ~(pending /\ pc[Refresher] = "idle")
        /\ left' = [r \in Requesters |-> IF left[r] > 0 THEN left[r] - 1 ELSE 0]
        /\ fire' = (IF fire = 1 THEN Interval ELSE fire - 1)
        /\ pending' = (pending \/ fire = 1)
        /\ age' = Later(age, FALSE)
        /\ grantedAgo' = Later(grantedAgo, granted)
        /\ absentAgo' = Later(absentAgo, ~granted)
        /\ calm' = Later(calm, outage)
        /\ UNCHANGED <<gmail, list, err, pc, got>>

Step(r) == Answer(r) \/ Store(r) \/ Fail(r)

Next == \/ \E r \in Requesters : Step(r)
        \/ \E c \in Callers : Check(c) \/ Reread(c) \/ Return(c)
        \/ Refresh \/ ChangeAlias \/ ChangeWeather \/ Tick

\* Time passes and every call is bounded by its timeout; when someone asks, and
\* what Gmail and its owner do, is free.
Fairness == /\ WF_vars(Tick) /\ WF_vars(Refresh)
            /\ \A r \in Requesters : WF_vars(Step(r))
            /\ \A c \in Callers : WF_vars(Reread(c)) /\ WF_vars(Return(c))

Spec == Init /\ [][Next]_vars /\ Fairness
-----------------------------------------------------------------------------
TypeOK == /\ granted \in BOOLEAN /\ outage \in BOOLEAN
          /\ list \in BOOLEAN /\ age \in Clock /\ err \in BOOLEAN
          /\ pc \in [Requesters -> Waiting \cup {"idle", "yes", "no", "error"}]
          /\ pc[Refresher] \in {"idle", "asked", "answered"}
          /\ got \in [Requesters -> BOOLEAN]
          /\ left \in [Requesters -> 0..Timeout]
          /\ fire \in 1..Interval /\ pending \in BOOLEAN
          /\ grantedAgo \in Clock /\ absentAgo \in Clock /\ calm \in Clock

Answers(c, p) == pc[c] # p /\ pc'[c] = p

(* A sender is refused for good, 550 or a permanent failure, only if Gmail  *)
(* did not list it recently, though the list may come from another caller's *)
(* refresh and from before the one that was stored last.                    *)
RefusalJustified ==
  [][\A c \in Callers : Answers(c, "no") =>
       absentAgo <= Timeout + (IF Interval > Timeout THEN Interval ELSE Timeout)]_vars

(* A sender is accepted only if Gmail listed it recently or was out of      *)
(* reach recently: the goroutine renews the list in time, whatever the      *)
(* callers' refreshes overwrite.                                            *)
AcceptanceFresh ==
  [][\A c \in Callers : Answers(c, "yes") =>
       \/ grantedAgo <= Interval + 2 * Timeout
       \/ calm <= Interval + Timeout]_vars

\* handleReadyz, as far as the cache decides it.
Ready == ~(err /\ age > MaxStale)

(* A list that is too old never looks ready: the error that kept it from    *)
(* being renewed is on record.                                              *)
StaleIsNotReady == age > MaxStale /\ age > Interval + Timeout => ~Ready

(* Once Gmail is back for good the relay becomes ready, and stays so.       *)
ReadyAgain == <>[]~outage => <>[]Ready

(* Once Gmail is back for good a revoked sender is refused.                 *)
RevokedIsRefused ==
  <>[](~granted /\ ~outage) => <>[](\A c \in Callers : pc[c] # "yes")

=============================================================================
