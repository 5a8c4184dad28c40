# gmail-smtp-relay: TLA+ models, model checking and proofs

The relay accepts mail over SMTP (465 with implicit TLS, 587 with STARTTLS),
answers 250 once a message is in a SQLite table, and lets a pool of workers
deliver the table's rows through the Gmail API. This directory models that
program: the modules are translated from the Go source, TLC checks them on small
instances, and TLAPS proves the safety properties for every value of the
constants.

Contents: [inventory](#1-inventory) · [modules](#2-modules) ·
[state and actions](#3-how-the-models-correspond-to-the-code) ·
[runs](#4-what-the-runs-check) · [bounds](#5-bounds) · [fairness](#6-fairness) ·
[proofs](#7-what-is-proved) · [disagreements](#8-where-code-and-documents-disagree) ·
[not modelled](#9-what-is-not-modelled) · [plan](#10-plan)

## 1. Inventory

| Component | State | Operations | Talks to |
|---|---|---|---|
| **Outbound queue** `internal/queue/sqlite.go` | rows of `outbound_queue`: status, attempts, next_attempt_at, updated_at, created_at | Enqueue, ClaimNextPending, MarkSent / MarkRetry / MarkFailed, RecoverStuckProcessing, BacklogCount, Stats | sessions (insert, backlog), workers (claim, mark), main (recovery), observability (counts) |
| **Delivery workers** `internal/worker/runner.go` | one goroutine each with the claimed message in hand; atomic counters | Run (ticker), processOne, backoffDuration, Stats | queue, Gmail sender |
| **Process lifecycle** `cmd/smtp-relay/main.go` | context, goroutines | recovery, construction, SIGTERM, 15 s shutdown of the servers, exit | everything; restarted by the container's restart policy |
| **SMTP server and sessions** `internal/smtp/server.go` | listeners, connection slots, one `session` per connection | accept loops, handleConn, each case of handleCommand, consumeData, Run / Shutdown | queue (BacklogCount, Enqueue), alias cache |
| **Authentication throttling** same file | `authState`, one map for users and addresses under a mutex; `session.authFailures` | authBlocked, recordAuthFailureKey, clearAuthState | all sessions |
| **Gmail sender, alias cache** `internal/gmail/sender.go` | set of allowed senders, time of last refresh, last error | Send, IsAllowedSender, RunAliasRefresh, refreshAliases, AliasStatus | Gmail API, sessions, workers |
| **Observability server** `internal/obs/http.go` | none | /healthz, /readyz, /status, /metrics | queue Stats, worker Stats, alias status |
| **Configuration** `internal/config/config.go` | none after startup | parse and validate | everyone's constants |
| **Certificate sidecar** `scripts/acme-cloudflare.sh` | deploy flag, certificates | issue, renew, restart relay | relay's container |
| **DNS sidecar** `scripts/cloudflare-dns-sync.py` | none | compare and write records | DNS API |
| **OAuth script** `scripts/oauth-bootstrap.sh` | none | one interactive exchange | OAuth API |

What is hard in each, and what makes it correct:

* **Queue and workers.** Several goroutines claim from one table; none of the
  marks looks at the status it overwrites; the process may die between any two
  statements, and the machine may lose the last commits; Gmail's answer may be
  lost after it took the message. Correct means: a message is in one worker's
  hands at a time, a verdict (sent, failed) is final, every duplicate delivery has
  a cause that cannot be avoided, attempts are bounded, first attempts follow
  created_at, and a message answered 250 is eventually sent or failed.
* **Lifecycle.** Recovery ignores who holds a row, and is safe only because it runs
  before any worker. It runs once, and only for rows older than the stuck timeout.
  The shutdown waits for sessions while the workers have already stopped.
* **Sessions.** The order of EHLO / STARTTLS / AUTH / MAIL / RCPT / DATA is the
  client's choice; the backlog is read before the body and used after it; the
  shutdown waits for sessions that only look at the context between commands.
  Correct means: no envelope without greeting, required TLS and authentication; no
  part of it older than the last command that should have ended it; a bounded
  backlog; slots that come back; a shutdown that ends.
* **Throttling.** Check, verification and recording are separate critical sections.
  Correct means a bound on the failures that slip past a lock and on those within
  a minute, and an address lock that no success undoes.
* **Alias cache.** Refreshes overlap and can store their answers out of order.
  Correct means that no refusal and no acceptance rests on a list older than the
  timing of the refreshes allows, and that a list that is too old is reported.
* **Observability.** A response is read statement by statement while workers go on.
  Correct means that its parts cannot contradict each other: the counters account
  for the rows, and the outcomes for the messages processed.
* **Certificate sidecar.** The flag is removed before the restart; correct means a
  renewed certificate is eventually served.

`PROJECT.json` lists these as hazards, each with its source line and with the
properties that cover it.

## 2. Modules

| Module | What it is |
|---|---|
| `Ledger` | Abstract: what a client and an operator may rely on about a queued message. A message becomes owed, is delivered some number of times while owed, and gets one verdict, sent or failed; sent only after a delivery. |
| `RelayQueue` | The table, the workers and the process lifetimes, statement by statement. Composes queue, workers, outcomes of `gmail.Send` and `main`. Implements `Ledger`. |
| `DurableLedger` | Abstract: the ledger on a machine that may lose power. What was said stands at once, reaches the disk later, and a failure takes it back to the disk and no further. |
| `PowerLoss` | Extends `RelayQueue` by the disk: which rows a power failure would leave. `Relay`, which extends it, implements `DurableLedger`. |
| `Backoff` | `backoffDuration`'s loop in wrapping integers, against its closed form. |
| `Admission` | Abstract: what the SMTP front end promises the queue. Who is inside the server, how far the backlog is looked at before a message is received, and what a session may still do after the shutdown signal. |
| `SmtpSession` | Connection slots, the dialogue of each session, DATA in its three steps, the backlog they share, and the shutdown. Implements `Admission`. |
| `Relay` | The composition `main.go` makes: `Admission` over the rows of `PowerLoss`, one context and one process for both. |
| `AuthThrottle` | The lockouts of AUTH, with the critical sections of several sessions interleaved. |
| `AliasCache` | The cache of send-as addresses: callers, the refreshing goroutine, outages, and readiness. |
| `Dashboard` | Extends `RelayQueue` by the worker counters and a response of /metrics or /status composed from separate reads. |
| `RelayQueueProofs`, `BackoffProofs`, `SmtpSessionProofs`, `DurableLedgerProofs`, `RelayProofs`, `AuthThrottleProofs`, `AliasCacheProofs`, `DashboardProofs` | Inductive invariants and theorems of the module each is named after. |
| `MCRelayQueue`, `MCSmtpSession`, `MCRelay`, `MCAuthThrottle`, `MCDashboard` | Instances for TLC: delays, addresses, symmetry. |

How they compose:

```
 Ledger <-- implemented by -- RelayQueue <-- EXTENDS -- PowerLoss <-- EXTENDS -- Relay
                                   ^                                               |
                                   +---- EXTENDS -- Dashboard          INSTANCE ---+
                                                                                   v
                              SmtpSession -- implements (refinement) --> Admission

 Ledger <-- EXTENDS -- DurableLedger <-- implemented by -- Relay
```

`Relay` uses the front end through its abstraction: `SmtpSession` has a backlog
that drains at any time and is checked and proved to take only `Admission`'s steps;
`Relay` replaces that backlog by `BacklogCount` over the real rows and shows that the
rows, too, move only as `Admission` allows (`KeepsAdmission`).

Definitions whose comment begins "Mutant of X" are not part of the model. Each is
the definition X with one plausible mistake; substituted for X it makes a property
fail, which shows that the property depends on that part of the code
(`PROJECT.json`, "mutants"). They stand just before the definition they alter.

## 3. How the models correspond to the code

### RelayQueue

| Variable | Code |
|---|---|
| `status`, `attempts`, `createdAt` | columns of the same name; `none` is a row not inserted yet |
| `wait` | `next_attempt_at` minus now, 0 when due |
| `age` | now minus `updated_at`, for a processing row, up to the first stuck value |
| `proc` | down, up, or stopping (context cancelled, servers shutting down) |
| `pc`, `job`, `jobAttempts` | where a worker is in `processOne`, its `*Message` and the `Attempts` in that struct |
| `stale` | workers whose open claim transaction read a snapshot that another commit has since outdated |
| `stops`, `faults` | use of the bounds of the instance |
| `delivered`, `lost`, `recovered` | history: what Gmail took, which answers were lost, which rows a start put back |

| Action | Code |
|---|---|
| `Enqueue` | the INSERT of a session's DATA |
| `ClaimSelect`, `ClaimCommit`, `ClaimAbort` | `ClaimNextPending`: SELECT, guarded UPDATE and COMMIT, or rollback |
| `GmailAccept` | Gmail takes the message (external) |
| `SendOK`, `SendTransient`, `SendPermanent` | what `Send` returns and how `processOne` branches |
| `MarkSent`, `MarkRetry`, `MarkFailed`, `MarkError` | the marks, or their failure |
| `Crash`, `Shutdown`, `Exit`, `Start`, `StartFails` | `main`; recovery is part of both starts |
| `Tick` | time |

Decisions a reader may ask about:

* *Two steps for a claim.* The transaction is deferred: its SELECT fixes a
  snapshot, and its UPDATE needs the write lock. SQLite in WAL mode refuses the
  upgrade (`SQLITE_BUSY_SNAPSHOT`) when another commit came in between; that is
  `stale`, and the claim then ends in `ClaimAbort`, exactly as when the UPDATE
  affects no row. Here the model relies on the library and not on the source.
* *Relative time.* The code compares instants with now, so the model keeps the
  distance to now. A tick is a second or more; the order of two timestamps within
  one second is not represented (see 9).
* *Stamps.* `created_at` is taken by the session before its INSERT, so its order
  need not be the order of insertion: `Enqueue` picks any stamp.
* *Sending is two steps.* `GmailAccept` and the answer are separate, so a timeout or
  a crash can fall between them. `SendTransient` covers both the refused message
  and the delivered one whose answer was lost, as the code cannot tell. A message
  Gmail takes only after the client's 30 s have passed is counted at the attempt.
* *While stopping*, the workers' context is cancelled: claims and marks fail, and a
  send in progress may still end either way. Sessions write with a background
  context, so `Enqueue` still succeeds.
* *Faults.* `StoreFails` while up is a lock wait beyond the driver's timeout or an
  I/O error.

### PowerLoss

`disk` is the table as it would be found after a power failure, `forgotten` the
messages whose row a failure took back altogether, and `takenBack` a history of
claims taken back. `sqlite.go:34` sets `synchronous = NORMAL` on a WAL database: a
commit is visible at once, and what reaches the disk is a prefix of the commits. So
`Sync` copies the table to `disk` at any moment, and `PowerFail` is a crash that puts
`disk` back. The PRAGMA is executed once, on one connection of the pool, so commits
of other connections may sync at once; `Sync` at any moment covers both cases.
`TickBoth` is `Tick` with the relative times of the disk's rows moved along.

To a client this is `DurableLedger`: a row's status is its verdict, the status on the
disk its durable verdict, `forgotten` the ids that are gone. `Sync` is `Persist`,
`PowerFail` is `Lose`, every other step one of the `Ledger`'s (`Proceed`) or a stutter.

### SmtpSession

| Variable | Code |
|---|---|
| `phase` | where `handleConn` is: no connection, before the greeting is out, reading a command, in `consumeData`, before `Enqueue`; or the accept loop is refusing the connection |
| `sess` | the `session` struct and `commandCount`; the sender is present or not, recipients are counted. Its field `old` is history: the facts that outlived the command that ends them |
| `inBody` | client's side: it is still sending the body |
| `backlog` | `BacklogCount` |
| `stopping`, `listening`, `cut` | context done; listeners open; `closeActiveConnections` has run |
| `late` | history: messages stored since the context was done |

Each listener has one accept loop, which hands a connection to a goroutine if there
is a slot (`Accept`) and otherwise writes the 421 itself (`Refuse`, `RefuseDone`); while
it does, it takes no other connection (`Arrives`). The signal (`Signal`) comes before
the listeners close (`CloseListeners`), and connections still arrive in between.

There is one action per case of `handleCommand` that changes the session, one
(`ReplyOnly`) for all answers that change nothing, and DATA is `Data` (checks, 354),
then `BodyComplete`, `BodyTooLarge` or `BodyReadError`, then `Store` or `StoreError`.
`Continue` is the top of the loop, where the context is looked at, and so part of
every handler that returns to it. `Hangup` is the return of `handleConn` with its
deferred close and slot release. Left open, as either outcome is possible in every
state: the credential check with the lockouts (`AuthThrottle`), the address pattern,
the alias policy (`AliasCache`), and errors of the store.

EHLO, HELO, RSET, STARTTLS, and a DATA that was stored or too large end the envelope;
STARTTLS also ends greeting and authentication. Each of these handlers passes its
result through `Ended`, which notes in `old` whatever of this the result still holds;
nothing is guarded by it. A 451 to DATA is not such an end: the code keeps the envelope
then, and the contract document promises a reset only after a successful DATA.

`Standing` maps a phase to `Admission`'s `stage`: away without a slot or before the
greeting, ready between commands, receiving inside a DATA.

### Relay

| Action | Code |
|---|---|
| `Serve` | a connection admitted, a DATA answered 354 or given up, a connection ended |
| `Submit` | `Enqueue` by a session in DATA, with the session's return to its loop |
| `Work` | `RelayQueue`'s worker steps |
| `SignalStop`, `Return` | SIGTERM; `main` returns |
| `GoDown` | a crash, a kill, a power failure; all connections end with it |
| `Begin` | `RelayQueue`'s starts |

`Return` waits for the sessions and for nobody else, as `main` waits for `Shutdown`,
which waits on the connections' wait group, and not for the runner's goroutines. An
exit with sessions left (the container's kill, or the 15 s of a shutdown that failed)
is in `GoDown`. A message whose row a power failure took back is not enqueued again
under the same id: ids are random, so `Submit` takes one not in `forgotten`.

### Backoff

The two actions are the loop's iteration, including its early return, and the code
after it; `Doubled` is two's-complement doubling at a width given by `MaxInt`.

### AuthThrottle

| Variable | Code |
|---|---|
| `auth` | `authState`: per user and per address the age of `WindowStart`, `Attempts`, and the time left to `LockedUntil` |
| `pc`, `user` | where a session is in AUTH, and the name it presented |
| `failures` | `session.authFailures` |
| `slipped` | history: failures met by the present lock |
| `watch`, `seen` | history: somebody's stopwatch, started at any moment and stopped within a window's time, and the failures of each key counted since |

An AUTH is split at each release of the mutex: `AuthCommand` (limit of the
connection, lock of the address), `Present` (credentials arrive, lock of the user) or
`Rejected`, then `Right` with `clearAuthState`, or `Wrong` (failure of the user) and
`WrongAddress` (failure of the address). `Counted` is `recordAuthFailureKey` for an entry
that is not locked; for a locked one the code returns early. The code takes one `now`
for the two recordings of a failure; the model lets time pass between them, which adds
behaviours and takes none away. `Reconnect` ends a
connection and opens the next. The watch (`Watch`, part of `Tick`) is no part of the
program and guards nothing; since it may start at any moment, what holds of every
count it shows holds of the failures in every window's length of time.

### AliasCache

| Variable | Code |
|---|---|
| `granted`, `outage` | Gmail: whether it lists the address, whether it can be reached (external) |
| `list`, `age`, `err` | `allowedSend` for the address, time since `lastRefresh`, `lastErr` |
| `pc`, `got`, `left` | each `IsAllowedSender` and the goroutine: where it is, the answer it carries, the time left to its context |
| `fire`, `pending` | the goroutine's ticker and the one tick its channel holds |
| `grantedAgo`, `absentAgo`, `calm` | history: time since Gmail last listed the address, did not, was out of reach |

`Check` is the first look under the read lock with its three ways on; `Ask`, `Answer`,
`Store`, `Fail` are `refreshAliases`, which holds no lock between asking Gmail and
storing the answer; `Reread` is the second look. `Ready` is `handleReadyz` as far as
the cache decides it; its test for an empty list is left out, since no list that was
stored is empty. The addresses are independent of each other, so one is modelled.

### Dashboard

`tally` holds the atomic counters of `Runner`, `uncounted` the workers between
`recordProcessed` and the `Add` of their outcome, `base` the rows sent and failed when
the process started, `report` a response being composed. `SendReturns` is the return
of `Send` with `recordProcessed`; nobody but the worker can see what lies between. Then
`CountOutcome`, then `Record`, the mark or its failure. `Reads` is the order in which
handler and `Runner.Stats` read; when `Store.Stats` fails, /status goes on with zeros
(/metrics answers 503, which ends the response). `lastProcessedAt` and the oldest
pending row are left out.

## 4. What the runs check

| Run | Properties | Shows |
|---|---|---|
| `queue_safety` | `TypeOK`, `ExclusiveClaim`, `DeliveriesExplained`, `AttemptsBounded`, `TerminalIsFinal`, `NoOvertaking`, `ImplementsLedger` | Two workers race over two messages through two crashes, shutdowns or failed starts. |
| `queue_settles` | `Settles` | With one stop and one database error, a waiting message is sent, failed, or left processing with no owner. |
| `queue_stranded` | `EveryMessageResolved` (violated) | One stop suffices to leave a message processing for ever. |
| `backoff` | `DoublesUpToCap`, `WithinBounds` | The loop is min(base·2^(attempt−1), cap), positive, unwrapped. |
| `session_safety` | `TypeOK`, `EnvelopeAuthorised`, `BacklogBounded`, `LateMessagesBounded`, `AdmissionSteps` | Three clients on two slots, plaintext AUTH allowed: STARTTLS forgets it, and EHLO, RSET and DATA the envelope; the overshoot of the backlog and of the shutdown; every step is one of `Admission`'s. |
| `session_drain` | `EnvelopeAuthorised`, `ImplementsAdmission`, `ShutdownDrains`, `ConnectionsEnd` | A 465 and a 587 client, TLS required: no AUTH and no envelope in plaintext, a shutdown ends, connections past their greeting end, and the front end implements `Admission` with its fairness. |
| `session_refused_465` | `RefusalsEnd` (violated) | In a running server a client refused on 465 can stop that listener's accept loop. |
| `session_sync` | `CommandsInSync` (violated) | After a read error inside a body the rest of it is read as commands. |
| `relay` | `RelayTypeOK`, `BacklogWithinLimits`, `DeliveriesStillExplained`, `DiskIsKept`, `KeepsAdmission`, `RoomReturns`, `ShutdownCompletes`, `ImplementsDurableLedger` | Two sessions on two slots and a worker on one table, through a crash, shutdown, failed start or power failure. |
| `throttle` | `TypeOK`, `LockLetsFewThrough`, `BurstBounded`, `AddressLocksRunOut` | Three clients of one address try one user. |
| `alias` | `TypeOK`, `StaleIsNotReady`, `RefusalJustified`, `AcceptanceFresh`, `ReadyAgain`, `RevokedIsRefused` | Two callers and the goroutine, an address that comes and goes, outages at any time. |
| `dashboard` | `BoardTypeOK`, `ReportCoversRows`, `ReportAddsUp` | A response put together read by read while two workers deliver and the process restarts. |

What the properties say:

* `ExclusiveClaim`: a worker between its claim and its mark is the only one holding
  the message, and the row still says processing with that worker's attempts. The
  marks' bare `WHERE id = ?` is correct because of it.
* `DeliveriesExplained`: deliveries of a message are at most its lost answers plus
  its recoveries, plus one if it is sent or in progress. The relay delivers at
  least once; this says how far from exactly once it can be, and that a message
  reported failed may have been delivered only through one of these causes.
* `AttemptsBounded`: claims are at most `WORKER_MAX_ATTEMPTS` plus recoveries.
* `TerminalIsFinal`: sent and failed rows never change again, nor are delivered again.
* `NoOvertaking`: no claim passes over an untried message with an older created_at,
  even one inserted between the claim's SELECT and its UPDATE.
* `ImplementsLedger`: `Ledger!Spec` under the mapping of statuses to verdicts.
* `Settles`, `EveryMessageResolved`: liveness; they differ in whether a row without
  an owner counts as an end.
* `EnvelopeAuthorised`: an envelope exists only on a greeted, authenticated session,
  recipients only with a sender, and AUTH succeeds only under TLS where TLS is
  required. No sender or recipient given before the session's last EHLO, HELO,
  STARTTLS, RSET, or stored or too large DATA is in it, and no greeting or
  authentication from before STARTTLS counts.
* `BacklogBounded`, `BacklogWithinLimits`: the backlog stays below
  `QUEUE_MAX_BACKLOG` + `SMTP_MAX_CONNECTIONS`, for the front end with any draining,
  and for the rows themselves through retries, recoveries, restarts and power
  failures. The second counts a message being received as the row it may become.
  The inequality is tight: one less is reached.
* `LateMessagesBounded`: after the shutdown signal each session past its greeting
  stores at most one message, and one accepted later none.
* `AdmissionSteps`, `ImplementsAdmission`: every step of the front end is a step of
  `Admission` or a stutter; the second adds `Admission`'s initial state and fairness.
* `ShutdownDrains`, `ConnectionsEnd`: sessions end after a shutdown; connections past
  their greeting end in any case.
* `RefusalsEnd`: while the server runs, the accept loop gets past a connection it
  refuses. (A shutdown ends the process, and the connection with it.)
* `CommandsInSync`: no line of a body is read as a command.
* `DeliveriesStillExplained`: as `DeliveriesExplained`, with one more cause: a power
  failure that took a claim back. Each failure costs a message one delivery at most.
* `DiskIsKept`: messages, attempts and verdicts that reached the disk are never
  withdrawn, whatever the process does before or after a failure.
* `ImplementsDurableLedger`: `DurableLedger!DurableSpec` under the mapping of
  statuses to verdicts, for the whole relay. In particular a power failure brings
  back nothing but what was on the disk, and never calls sent what Gmail did not take.
* `KeepsAdmission`: from a start, with its recovery, until the process goes down the
  rows, sessions and signal move only as `Admission` allows.
* `RoomReturns`: a relay that refuses mail for want of room takes mail again, unless
  a row is left processing with nobody at work on it.
* `ShutdownCompletes`: a signalled process comes down, whatever is in the queue.
* `LockLetsFewThrough`: a lock lets through at most one failure of each session that
  had passed its check, and none of the one that set it.
* `BurstBounded`: a window's length of time sees at most a limit's worth of failures
  of a key, those its lock lets through, and either those of the lock before or what
  an ending window holds. The bound is reached. It holds for lockouts at least as
  long as the window, a condition the property states.
* `AddressLocksRunOut`: only time ends the lock of an address.
* `RefusalJustified`, `AcceptanceFresh`: a sender is refused for good only if Gmail did
  not list it recently, and accepted only if Gmail did, or was out of reach recently;
  "recently" is counted in intervals and timeouts.
* `StaleIsNotReady`, `ReadyAgain`: a list that is too old is reported by /readyz, and
  once Gmail is back the relay becomes ready and stays so.
* `RevokedIsRefused`: once Gmail is back a revoked sender is refused.
* `ReportCoversRows`, `ReportAddsUp`: a response's counters account for the rows it
  shows, and its outcomes for the messages it shows processed, but for one in the
  hands of each worker. Both rest on the order of the reads.

The deadlock check is off for `SmtpSession`, where a server that has shut down with
all connections closed really stops; for `Relay` and `Dashboard`, where a process
that may not stop again and has nothing to do only lets time pass; and for
`Backoff`, whose function returns. It is on for the queue, the throttle and the cache.

## 5. Bounds

* **Two messages, two workers.** Every property of the queue is about one message
  and at most two workers, or (order) two messages. The theorems of section 7 hold
  for any number.
* **MaxAttempts = 2**, in the queue's runs, has a first try, a retry and exhaustion.
  `MaxStops` = 2 lets a row be recovered by one start and lost again, and lets a
  recovery follow a recovery; in `queue_settles` one stop and one fault can meet.
* **StuckTimeout = 1, RetryMax = 1**: ages are counted to `StuckTimeout + 1`, the
  first value the recovery takes, and later values behave the same. Waiting and age
  count down and up independently, so every order of retry, restart and recovery
  occurs.
* **MaxFaults = 0 in queue_safety**: a failed mark while the process is up leaves
  the same row as one while it stops, which the run has; `queue_settles` has both.
* **MaxStops and MaxFaults are bounds of the instance**, guards of `Stop` and
  `StoreFails`; the theorems hold for every value of them. For liveness they are
  part of what is said: finitely many stops and errors.
* **Sessions.** The limits (commands, recipients, backlog, connections) are the
  program's own at small values. `session_safety` has three clients on two slots,
  five commands each, so that the server is full and both slots race for the one
  place in the backlog; with TLS optional five commands are greeting, AUTH, MAIL,
  RCPT and DATA, or AUTH, STARTTLS and another AUTH. There a session could carry what it
  was told in plaintext through STARTTLS. The part of `EnvelopeAuthorised` that asks for
  TLS says nothing there: it is checked in `session_drain`, which has two clients and
  TLS required; seven commands are those five with EHLO and STARTTLS before them.
  The recipient limit of 1 has an accepted and a refused recipient.
* **relay**: two messages, two clients on two slots, one worker, a backlog of one, one
  attempt and one stop of any kind. Both sessions can pass the backlog check before
  either inserts, so that two rows stand where one is allowed and the bound of
  `BacklogWithinLimits` is reached; and the second message is also submitted while the
  first is in hand, stranded or taken back. One attempt means that a transient error
  fails the message: with a retry the run has millions of states, too many for its
  liveness properties. Retries are in the queue's own runs, and the theorems about
  `Relay` hold for any number of attempts.
* **dashboard**: two workers, two messages, two attempts, one restart. Both workers
  can be between count and mark while a response is read.
* **throttle**: three clients are enough for one session to set a lock, another to
  pass it and a third to succeed. A limit of five exceeds the three failures of one
  connection, so a connection ends before the limit is met, and it is large enough
  for the term `Limit - 2` of `BurstBounded` to be the larger one. A window of two
  ticks has an edge inside a minute; the lockout is as long.
* **alias**: an interval of two, a timeout of one, a staleness limit of one, so
  that a refresh can be late by a tick, overlap another and miss one. Clocks stop at
  the horizon of five, past every bound a property names; an assumption requires it.
* **Backoff**: attempts to 7, base and cap to 20 and a largest integer of 63, so that
  the cap is met on the first iteration, in the middle and never, and an
  unguarded loop wraps (as a mutant shows). The assumption that twice
  the base or cap is still a duration means settings below 2^62 ns, some 146
  years; `config.go` only asks for positive values, so this is an assumption about
  the deployment.

## 6. Fairness

`RelayQueue`: `Tick` (time passes); `Start` (the container's restart policy is
`unless-stopped`); `Exit` (main's shutdown is bounded by 15 s timeouts); and for each
worker the disjunction of its steps, because its ticker fires every poll interval,
its HTTP call has a 30 s timeout, and it is alone on its goroutine. Fairness is per
worker and not per action: nothing says that Gmail ever accepts, that an answer ever
arrives or that a claim ever succeeds, so liveness comes from the attempt counter.
Enqueue, Crash, Shutdown, StartFails have none.

`SmtpSession`: no client is assumed to do anything. A session past its greeting
takes steps because `setReadDeadline` precedes every read of a command: the client
acts or `Disconnect` comes. On 587 the greeting is a plain write. On 465 it waits
for the handshake, with no deadline, so there fairness begins only when
`closeActiveConnections` has cut the connection; a refused connection is not among
those it closes. `CloseListeners` and `CutConnections` are fair because `main`'s
goroutine runs and its 15 s pass. A session's steps are fair together, so none is
forced, but commands are bounded by `MaxCommands`.

`Relay`: as for the queue, and for each session, once the signal has come, its steps
together: that is `Admission`'s fairness, which `session_drain` shows the front end to
have. `Return` is fair in place of `Exit`: nothing kills the process, so
`ShutdownCompletes` rests on the sessions' end alone.

`AliasCache`: time; the goroutine takes its tick; a refresh ends, since its context
and the HTTP client have timeouts; a caller goes on. When somebody asks, when Gmail
goes away and what its owner does are free.

`AuthThrottle`, `Backoff` and `Dashboard` have safety properties only, and no fairness.

## 7. What is proved

All theorems are of the whole specification, for any sets of messages, workers,
sessions, users and addresses and any limits that satisfy the `ASSUME`s of the
modules. These say that limits are positive (as `config.go` validates), that
`NoMessage` is no message, that `Backoff` has values in 1..RetryMax (proved of the
code in `BackoffProofs`), that the horizon of the cache's clocks is past what is
measured with them, and that sessions, workers and messages are finitely many, and
clients not none, where they are counted.

**RelayQueueProofs.** None of the properties is inductive alone: that a mark cannot
hit a finished row needs that the row is processing, which needs that nobody else
held it when it was claimed, which needs that an UPDATE on an outdated snapshot
fails. The invariant `QueueInv` has four layers, each proved using those below:

1. `Typed`: `TypeOK`, and workers hold nothing while the process is down.
2. `Claimed`: `ExclusiveClaim`, and a claiming worker whose snapshot is not stale
   still sees a pending row with the attempts it read.
3. `Ordered`: such a worker's row is still among the oldest of those due.
4. `Counted`: `DeliveriesExplained`, `AttemptsBounded`, and what a holder's position
   says of its message: before Gmail's acceptance, and once it heads for a retry or
   a failure, the deliveries so far are already explained; past it there is one.
   The layer has a parameter, an extra allowance for each message, so that
   `RelayProofs` can use it with power failures.

| Theorem | Says |
|---|---|
| `InvariantHolds` | `[]QueueInv` |
| `TypeCorrect`, `ClaimsAreExclusive`, `DuplicatesAreExplained`, `AttemptsAreBounded` | the four invariants of `queue_safety` |
| `VerdictsAreFinal`, `ClaimsKeepOrder` | its action properties |
| `QueueImplementsLedger` | the refinement: every step is a step of the ledger or a stutter |

**BackoffProofs.** `LoopInv` says that while the loop goes on, d is at
least the base and at most MaxDuration: an iteration that would pass the cap
returns. So each doubling stays within twice MaxDuration and never wraps, and
`DelaysAreBounded` follows. `DelaysDouble` is the closed form: while the loop goes on,
d is the base times a power of two (`Doubling`), and leaving early returns what the
full doubling would, since powers only grow (`EarlyReturn`). The powers are a recursive
function. That it is what its definition says (`PowerUnfolds`), that it doubles and
that it grows are proved by induction over a set of naturals: the lemma `Induction`
takes the least element missing from the set, which the library's `WFMin` gives for
the order of the naturals without an operator parameter. `DelaysSuitTheQueue` then
gives `RelayQueue` what it assumes of `Backoff`: delays from 1 to the cap, which never
fall from one attempt to the next.

**SmtpSessionProofs.** `SessionInvariant` has two layers: `Safe` (types and
`EnvelopeAuthorised`, with its record of leftovers) and `Reserved`. A session that has
passed the backlog check has reserved a place, so what is bounded is the backlog plus
the number of receiving sessions, and there are at most as many of these as slots;
likewise late messages plus sessions past their greeting. `SessionTypes`,
`EnvelopesAreAuthorised`, `BacklogIsBounded` and `LateMessagesAreBounded` follow, and
`FrontEndKeepsAdmission`: every step is one of `Admission`'s, where the slot count of
`SmtpSession` has to give room among the fewer connections past their greeting.

Two more theorems say what the invariant does not. `SessionsWearOut` is the safety half
of `ConnectionsEnd` and `ShutdownDrains`: a served session has a budget of three times
its remaining commands plus what is left of a DATA (`Left`), and each of its steps,
whatever the client sends, spends some of it or ends the session; nobody else's step
touches it. What is left to TLC is that fairness makes those steps happen.
`FailuresAreRemembered`: only a success, or the end of the connection, gives AUTH
attempts back.

**RelayProofs.** Each step of `Relay` is a step of the queue or a power failure, so
the queue's layers carry over step by step; a power failure has to re-establish
them from what is known of the disk. `DiskIsKept` compares disk and table; `Paid` is
`Counted(takenBack)` with a bound on the attempts the disk would bring back; `Room` is
the reservation argument over the rows, of the table and of the disk, and is what
`BacklogWithinLimits` says of the table. `RelayTypes`,
`RowsStayWithinLimits`, `DuplicatesAreStillExplained`, `TheDiskIsKept` and
`RelayKeepsAdmission` follow, and what the queue alone promises and a power failure
does not take away: `ClaimsStayExclusive` and `AttemptsStayBounded`.

`Lined` is the queue's `Ordered`, which a power failure keeps because an untried row on
the disk is due there too, with the fact that a row taken back altogether stays gone.
With it `OnlyPowerTakesBack`: every step but a power failure keeps verdicts final and
first attempts in order (`Final`, `InOrder`, shared with `VerdictsAreFinal` and
`ClaimsKeepOrder` in `RelayQueueProofs`), so that a power failure is the only cause of a
withdrawn verdict or an overtaken message. And `RelayImplementsDurableLedger`, the
refinement, step by step. It is then used: `DurableLedgerKeepsItsWord`, proved of the
abstract ledger in **DurableLedgerProofs**, is carried over to the rows by
`WhatIsSentWasDelivered`. A row called sent, now or on the disk, is one Gmail took,
and a verdict on the disk is the last word.

**AuthThrottleProofs.** `ThrottleTypes`; `LocksLetFewThrough`, inductive together with
the types: each failure under a lock uses up a session that had passed the check,
and the session that sets the lock is no longer among them; and
`LocksOfAddressesRunOut`. `BurstsAreBounded` ties the failures seen by the watch to the
entry they went to (`Watched`). Under a lock that was set before the watch began, those
seen and those that can still slip past are at most the other sessions
(`WatchedLocked`); under one set since, a limit's worth and what came before are added.
Without a lock (`WatchedOpen`) the failures since the watch began are those counted in
the entry, if its window began with the watch or later, besides at most `Before` from
an earlier one; fewer than the entry's if its window is older. `Aged` keeps the entry's
clocks apart: when a lock runs out its window has run out too, which is where a lockout
of a window's length or more is needed.

**AliasCacheProofs.** `CacheInvariant`: what the list and an answer on its way can be
behind Gmail (`Behind`), and that the goroutine's last finished refresh has renewed
the list in time or has failed and left its error (`Renewed`), although callers'
refreshes overwrite both. From it `CacheTypes`, `StaleListIsReported`,
`RefusalsAreJustified` and `AcceptancesAreFresh`.

**DashboardProofs.** `BoardInvariant`: a row marked in this life of the process, or
about to be, has been counted (`Covered`), and each read bounds the reads before it
since the counters only grow (`InReport`). From it `BoardTypes`,
`EveryOutcomeCounted`, `RowsAreAccountedFor` and `OutcomesAreAccountedFor`.
`CountersNeverFall` is what the type that /metrics declares for them promises
(`http.go:206`), for the life of a process. `EveryOutcomeCounted` (each message
processed is under one outcome, or about to be) is proved only; no run checks it.
`DashboardOnlyWatches`: counters and reads do not disturb the queue, so that what is
proved of its steps holds while it is observed.

**Only model-checked.** Every safety property the passing runs check is proved, with
one exception: of `ImplementsAdmission` the safety part (`AdmissionSteps`) is. The
rest is liveness under fairness, which is outside the prover's temporal reasoning:
`Settles`, `ShutdownDrains`, `ConnectionsEnd`, the fairness part
of `ImplementsAdmission`, `RoomReturns`, `ShutdownCompletes`, `ReadyAgain`,
`RevokedIsRefused`.

## 8. Where code and documents disagree

1. **A message can stay processing for ever** (`queue_stranded`).
   `README.md:9` promises a queue that provides persistence. `main.go:41` recovers
   processing rows once, at startup, and only those older than the stuck timeout
   (900 s by default). A shutdown in the middle of a delivery cancels the context
   and with it the mark; the container comes back in seconds, the row is younger
   than the timeout, and no later step of that process looks at it.
2. **Commands out of a body** (`session_sync`). `server.go:579` reads on "to keep
   stream in sync". When the read itself fails, `server.go:396` answers 451 and the
   session continues; what the client sends of the body after that is taken for
   commands.
3. **A refusal can stop the 465 listener of a running server** (`session_refused_465`).
   `docs/smtp-behavior-contract.md:109` asks to reject early instead of exhausting
   resources. When all slots are taken, the accept loop writes the 421 itself
   (`server.go:171`); on 465 that write begins with the handshake, which has a write
   deadline and no read deadline, so the loop waits for the refused client. An
   accepted connection is in the same position until its greeting is flushed
   (`server.go:198`), before the first read deadline (line 213), and keeps its slot;
   `SMTP_READ_TIMEOUT_SECONDS` is applied nowhere. `ConnectionsEnd` therefore speaks
   of connections past their greeting.
4. **AUTH in plaintext when TLS is optional** (read in the code; no run of its own).
   `docs/smtp-compatibility-matrix.md:16` says of AUTH "Accept only over TLS", and
   `docs/smtp-behavior-contract.md:16` that "`STARTTLS` must complete before `AUTH` and
   before accepting a mail transaction", without exception. With
   `SMTP_REQUIRE_TLS_587=false`, a key the same contract lists (line 139) and whose
   default is true (`config.go:80`), the check at the top of the AUTH case
   (`server.go:291`) lets AUTH and a whole transaction through in plaintext. The TLS part
   of `EnvelopeAuthorised` is about the setting with TLS required (`session_drain`);
   without, what is checked is that STARTTLS forgets what was said before it
   (`session_safety`).

Not a disagreement, since no document speaks of it, but worth knowing: a successful
AUTH deletes its user's entry (`server.go:499`), also a lock that another session's
failure set after this one was checked. `AddressLocksRunOut` is stated, and proved,
of addresses only.

## 9. What is not modelled

* **Order of timestamps as text.** RFC 3339 with trailing zeros cut does not sort
  like time within one second. Every configured delay is in seconds and the tick of
  `RelayQueue` is a second or more; `Stamps` stands for created_at as the text
  orders it.
* **Line handling in `consumeData`** (dot-stuffing, sizes, header limits): only its
  three outcomes.
* **The client's view of its transactions.** After a 451 to DATA the envelope is
  kept; which recipients the client means by its next MAIL, and that it submits a
  message again when the 250 was lost, is in the client alone. `SmtpSession` keeps the
  envelope as the code does.
* **Oldest pending row, lastProcessedAt, log lines, latencies**: shown and never used.
* **The number of entries of `authState`**, which only a success removes: it is the
  number of different names and addresses clients present.
* **Configuration parsing**: a sequential function of the environment; what it
  validates appears as the modules' assumptions.
* **Building the MIME message** and the classification of Gmail's errors by text:
  `SendOK`, `SendTransient`, `SendPermanent` leave the outcome open.
* **Certificate and DNS sidecars, OAuth script**: programs of their own outside the
  Go source, in shell and Python, without state shared with the relay but the
  certificate files.

## 10. Plan

Done, in this order: `Ledger`, `RelayQueue`, `Backoff`, `SmtpSession`; then
`AuthThrottle`, `AliasCache`, `Admission`, `PowerLoss`, `Relay`, `Dashboard`,
`DurableLedger`, with their runs and proofs.

What could follow, most useful first:

1. `DataStream`: `consumeData` line by line against a reference definition of
   dot-unstuffing and limits.
2. `TimeText`: text order of timestamps against their order in time.
3. The client's transactions over `SmtpSession`: an end-to-end account of what a
   client was answered and what was delivered.
4. `CertDeploy`: flag, restart, and a failed restart of the certificate sidecar.
