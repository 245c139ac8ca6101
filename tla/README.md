# Verification of xstockstrat

TLA+ models of xstockstrat, the TLC configurations that check them on small
instances, and TLAPS proofs of what holds for every instance. The models are
translated from the code under `src/services`, line by line as listed in
`PROJECT.json` ("map"); documents are used only for what they *promise*.

1. [The system](#1-the-system): parts, state, operations, interactions, hazards
2. [Plan](#2-plan): modules, order, abstract specifications, theorems
3. [Order submission](#3-order-submission) - `OrderSubmission`
4. [Order lifecycle](#4-order-lifecycle) - `OrderLifecycle`
5. [The ledger's append path](#5-the-ledgers-append-path) - `LedgerAppend`
6. [The ledger's streams](#6-the-ledgers-streams) - `LedgerStream`
7. [Configuration](#7-configuration) - `ConfigWatch`
8. [Sessions, administrators, alerts, backfills](#8-sessions-administrators-alerts-backfills) - `Services`
9. [Pattern consumer and live bars](#9-pattern-consumer-and-live-bars) - `Feeds`
10. [Runs and bounds](#10-runs-and-bounds)
11. [Proofs](#11-proofs)
12. [Where code and documents disagree](#12-where-code-and-documents-disagree)
13. [What is not modelled](#13-what-is-not-modelled)

To check a module: `tlc -workers 2 -config idempotence.cfg MCIdempotence`
(the run's module and configuration are in `PROJECT.json`). To check a proof:
`tlapm OrderSubmissionProofs.tla`.

## 1. The system

xstockstrat is a trading platform of ten gRPC services, a Next.js UI and an MCP
agent. Every service has its own database schema (PostgreSQL, TimescaleDB) and
one running instance. Services talk by unary calls and server streams; the
**ledger** is the event log between them (`AppendEvent`, `StreamEvents`), and
**config** is a watched key-value store every service subscribes to.

```
 ui / agent --> trading ---broker REST---> Alpaca, IBKR
                  |  \---> notify (alerts, fan-out)
   append events  v
                ledger ==stream==> portfolio, analysis
 ingest --> marketdata <-- analysis --> indicators        config ==watch==> all
```

### trading (Go, `src/services/xstockstrat-trading`)

| part | state | operations | what is hard | what makes it correct |
|---|---|---|---|---|
| order submission | `order_intents` row per `client_order_id` (PENDING, UNKNOWN, COMPLETED, REJECTED), `orders` row | `PlaceOrder`/`submitOrder`, sweep of stale intents, resolution of UNKNOWN by `reconcileTick` | retries and concurrent calls, broker timeouts, crashes between broker and database, late answers | one order per id, verdicts final, replays agree, nothing PENDING for ever |
| order lifecycle | `s.orders` (memory) and `orders` (database), intents of cancel and replace | `CancelOrder`, `ReplaceOrder`, `pollFills`, `LoadInflightOrders` | decisions on copies read before a broker call, best-effort writes, restarts | no invented fill or cancel, one broker call per intent, fills are announced, replaces not lost |
| bracket protection and halt | `order_brackets`, `halted` (memory) and `broker_accounts.halted` | `createBracket`, `resizeBracket`, watchdog, `flattenAndHalt`, `haltAccount`, `ResumeAccount` | legs absent between cancel and submit, retries with new ids, memory and row written in opposite orders | a filled entry is protected or flattened once; a halt is lifted only by a resume, and a resume lifts it |
| reconciliation | candidate counters, findings | `reconcileTick`, `escalateSystemic` | snapshots taken at different times, skipped ticks | only a mismatch seen on consecutive ticks is a finding; each episode is reported once |
| offline accounts | baseline, confirmed orders | `ConfirmOrder`, `SnapshotOfflinePositions` | positions recomputed from orders while orders are confirmed | positions are the fold of confirmed orders |
| broker adapters | session | submit, cancel, replace, list, get | each broker's own idea of idempotency and of "not cancelable" | statuses translated without inventing terminal ones |

### ledger (TypeScript, `src/services/xstockstrat-ledger`)

| part | state | operations | what is hard | what makes it correct |
|---|---|---|---|---|
| append | `events`, `global_sequence`, `idempotency_keys` | `AppendEvent` | concurrent appends of one key, a pool of one connection, unseen commits | one event per key, one answer per key, commits in sequence order, no self-deadlock |
| streams | LISTEN connection, queue of rows, subscribers, per-stream cursor and buffer | `StreamEvents`, `EventNotifier` | subscribe / replay / live overlap, lost notifications, trimmed rows fetched late, reconnects | nothing lost, repeated or reordered for a consumer that resumes |
| queries | none | `QueryEvents`, `GetEvent`, `ExportEvents` | - | read only |

### the other services

| service | state | operations | what is hard | what makes it correct |
|---|---|---|---|---|
| portfolio (Go) | `positions`, realized P&L, a stream cursor in memory | fold of `order.filled`, position sync, account removal, risk checks | replay from 0 after every boot, read-compute-write in several statements | every fill folded exactly once |
| config (TS) | `config_values`, cached snapshots, subscribers, a LISTEN connection | `SetConfig`, `WatchConfig`, backstop, resend | write and notify are two statements, lost notifications, deltas that never delete | a watcher converges to the stored values |
| ingest (Python) | `backfill_jobs`, `backfill_chunks` | `TriggerBackfill`, `CancelBackfill`, resume at start | a crash in the middle of a chunk, cancel against finalize | a job that reports COMPLETED fetched every chunk; cancelled stays cancelled |
| analysis (Python) | P&L cursor, parked events, durable schedules, live-loop cooldowns | pattern consumer, schedules, live loop, reads with a budget | park and advance in two steps, redelivery, restarts | each event processed or parked; a schedule neither skipped nor run early |
| marketdata (Go) | bar hold (streak, held symbols), vendor stream sessions | `planBarRequest`/`applyBarCycle`, `streamManager` | plan and result apart, idle exit of the session loop against a new subscriber | a live symbol is not held for ever; a subscriber is served |
| identity (TS) | users, refresh tokens, codes, clients | login, refresh, revoke, roles | a token presented twice, two administrators demoted at once | one successor per token; only overlapping updates can leave no administrator |
| notify (TS) | subscribers, dedup window | `EmitAlert`, `StreamAlerts`, fan-out | dedup recorded before the send | an alert that was not sent is not suppressed |
| ui (Next.js) | the session cookies of a browser | refresh by the middleware and by a tab, login, logout | answers of concurrent refreshes arriving in any order, lost or given up | cookies move forward; only worthless cookies are cleared |
| indicators, agent | none of their own that outlives a request (agent: OAuth proxy state) | formulas and a sandbox; tools | - | outside this project |

The 40 hazards that come out of this, each at its line, are the list "hazards"
of `PROJECT.json`; one without a property has a note that says why.

## 2. Plan

Order of work: what moves money first, then what every other service depends
on, then the consumers.

| # | modules | composes / refines | status |
|---|---|---|---|
| 1 | `IntentTable`, `OrderSubmission`, `IntentOutcome`, `OrderSubmissionProofs` | refines `IntentOutcome` | modelled, checked, safety and refinement proved |
| 2 | `OrderLifecycle`, `OrderLifecycleProofs` | uses `IntentTable`; its liveness run by `Feeds` | modelled, checked, safety proved |
| 3 | `LedgerAppend`, `LedgerAppendProofs` | run with row 1 by `Idempotence` | modelled, checked, safety proved |
| 4 | `LedgerStream`, `EventFeed`, `LedgerStreamProofs` | extends `LedgerAppend`, refines `EventFeed` | modelled, checked, safety and the refinement's steps proved |
| 5 | `ConfigWatch`, `ConfigWatchProofs` | | modelled, checked, safety proved |
| 6 | `IdentityTokens`, `BrowserSession`, `ServicesProofs` | `BrowserSession` extends `IdentityTokens` | modelled, checked, safety proved |
| 7 | `IdentityAdmins`, `AlertFanout`, `Backfill`; proofs in `ServicesProofs` | run together by `Services`, with row 6 | modelled, checked, safety proved |
| 8 | `PatternConsumer`, `PatternConsumerProofs` | refines `EventFeed` | modelled, checked, safety and the refinement's steps proved |
| 9 | `BarStreams`, `BarStreamsProofs` | run by `Feeds`, with rows 2 and 8 | modelled, checked, safety proved |
| 10 | `BracketProtection` (legs, watchdog, flatten through the outcome of `IntentOutcome`, halt and resume), `FillFold` (portfolio's fold over `EventFeed`) | | open |
| 11 | `Reconciliation`, `DurableSchedule`, `BarHold` | | open |

Every module is written to be proved about: constants with named assumptions,
one action per operation, no RECURSIVE operator.

Conventions. An action is the code between two awaits (or two unlocks); what a
handler holds across them is explicit in its state. Bounds have names
(`MaxFaults`, `MaxTurns`, `MaxMishaps`, `MaxTroubles`, the sets of calls). Definitions named `Mut...` are
not part of any specification: each is a plausible bug of the definition below
it, with which a run must fail (`PROJECT.json`, "mutants").

## 3. Order submission

`IntentTable` holds the pure decisions about a row of `order_intents`
(`classifyIntentLookup`, `FinalizeIntent`, `ReclaimOrphanIntent`, ...);
`OrderSubmission` the processes on it; `IntentOutcome` what an intent promises.

- A **call** is one execution of `PlaceOrder`; its order id is a fresh UUID, so
  the call names its order. `pc` steps through `submitOrder`: insert or find the
  intent, look the existing row up, reclaim it if stale, record the order,
  submit, finalize. Each database statement and each broker call is a step.
- The **broker** decides an order at its own time. `SubmitOrderTimesOut` and
  `SubmitOrderBreaks` answer the caller while the broker may still take it.
- The **sweeper** selects stale PENDING rows and reclaims them one by one; the
  **reconciliation poller** lists the broker's orders in one step and resolves
  UNKNOWN intents against that listing in later ones.
- **Crash** ends any set of calls anywhere. What they wrote stays.
- Age is abstracted to "stale or not" (`GrowStale`), a request to its intent and
  content, the stored response to the order it holds.

Properties: `OneSubmissionPerIntent` (IBKR has no deduplication, the insert is
the only guard), `CompletedIntentReachedBroker`, `StoredAnswerIsSameRequest`,
`ReclaimAuditedOnce`, the refinement of `IntentOutcome` (which contains
`VerdictsAreFinal`, proved on its own as well), and the liveness properties
`PendingIsTemporary` and `UnknownIsResolved`.

Fairness: time passes and the tickers of sweeper and poller run while the
service is up (WF); a database error does not repeat on every tick (SF on the
reclaim and on the resolution of an intent). Nothing is assumed of handlers,
callers or the broker.

## 4. Order lifecycle

One order from the moment `submitOrder` records it. `mem` is `s.orders[id]`,
`db` its row, `wire` the broker's order. The mutex protects the map, not the
decisions: each handler works on the copy it `held`, `updateOrder` applies to the
latest entry (`Latest`), writes use the copy. The fill poller copies, reads the
broker (a report may be stale), applies, persists: four steps with anything in
between. Writes of orders and intents may fail. The end of
`applyBrokerOrderStatus` comes after the write, whether it succeeded or not
(`StartEmit`, in `PollPersist` and in `PersistOrder` of an order that
`reconcileNotCancelable` adopted): it hands the event of a fill to a goroutine
nobody waits for, and `Emit` is that goroutine, which appends `order.filled`
(`fills`) or fails, which is only logged (`lost`). `Restart` ends every handler and
every such goroutine and loads the in-flight rows, or fails to (`blind`, only logged
by `main.go`).

Abstractions: REJECTED also stands for EXPIRED; "transient" is every status
`alpacaStatusToProto` does not know; Alpaca's 204 on a cancel is taken as
canceled. The adapter may answer a cancel with "not cancelable", as Alpaca's
does, and a replaced order keeps its broker id, as IBKR's does: the code takes
nothing else from either answer (`trading.go:1574`). Prices, the state field of the answer, bracket legs and events other
than `order.filled` are left out; the sweep of an intent is one step.

Properties: `FillIsReal`, `OneBrokerCallPerIntent`, `ConfirmedCancelIsReal`,
`CancelRetryAgrees`, `ReplaceSurvives`, and in the run `feeds` `InflightIsTracked`
and `FillIsAnnounced`: an order the database shows as working and the broker fills
has its `order.filled` appended at last, unless the emission failed or the process
died after the row was written (`lost`) or a start could not read the rows
(`blind`). The two exceptions are the code's, not the property's convenience: once
the row says FILLED nothing looks at the order again (section 12). Fairness: the
poller goes on (WF on its steps, SF on the broker read, which may fail again and
again but not always), and a goroutine that has an event to append runs (WF on
`Emit`, which may fail).

## 5. The ledger's append path

`LedgerAppend`: a call is one `AppendEvent`. It waits for a pooled connection,
claims its key, and either finds the event the key names or draws a sequence and
inserts; `Commit` makes event and key visible and answers. Each statement may
fail (`Fail`), a commit may be applied and its answer lost (`CommitUnseen`), the
process may die (`CrashCalls`). A claim that conflicts with an open one waits,
as a PostgreSQL insert does (`KeyLocked`). Sequences come from a sequence object
and are not returned by a rollback.

Properties: `OneEventPerKey`, `AnswersAgree`, `EveryCallAnswered`, and
`CommitsInOrder` (for a pool of one, the default), which is proved and by which
nothing in section 6 is late with such a pool. Fairness: while calls hold a
connection or wait for one that is free, some call gets one or has its statement
answered (WF on the choice among them). The calls are finitely many, so nothing
need be said of who is served first. The statements of the pool have no timeout of
their own (`index.ts:31`): that the database answers or fails them is assumed.

`Idempotence` puts the order intents and these keys side by side: two tables that
make a repeated call harmless, one behaviour of one of them at a time (`subject`).

## 6. The ledger's streams

`LedgerStream` adds to it the NOTIFY that each commit sends, the one LISTEN
connection (`conn`, `wire`), the queue in which rows too big for a notification
are fetched (`queue`, `resolving`), a stream per consumer (`phase`, `cursor`,
`bound`, `buffer`, `maxSeq`), what was written and not yet received (`chan`) and
the consumer of portfolio that resumes behind `lastSeq`.

- The ledger is one Node process: a step is what runs between two awaits. The
  drain loop is cut into one step per row and `Quiet` keeps other steps of the
  process out while it runs.
- A reconnect bumps the generation (a fetch under way becomes `"stale"`), clears
  the queue and ends every stream; a row that cannot be fetched ends the streams
  that wait for it. A stream that ended has no further effect, so a consumer has
  one stream, and a broken connection may lose any suffix of what was written.
- `HandleFails`: the consumer gives the stream up without cancelling it. The
  leaked subscription has no effect on delivery.
- A "not found" answer to a fetch cannot happen, since the notification follows
  the commit; a timeout is a failed fetch. A failed replay query is a broken
  stream.

Starting and reconnecting are as best-effort as in the code. `Init` and `Crash` leave
the LISTEN connection `up` or `down` (`Started`): `start` awaits one attempt and the
server binds either way. From `Listen` on notifications arrive and may be dispatched,
since the handler is registered before the LISTEN is awaited; `Connected` is the
continuation, which ends the streams *only if it is not the first*. Two histories
record what this costs: `unheard` holds the events whose notification was lost and
that no ending of streams has made good, `skipped[c]` those that the open stream of a
consumer misses for ever because the notifier went on without ending it, by a first
`Connected` or by dispatching a later row (`PassOver`).

Properties: `InOrder`; `NoGap` - a cursor never passes an event it should have
delivered, except one that commits behind a higher sequence (`Late`, the ledger's
rule LEDGER-9) or was `skipped`; `CaughtUp` - a quiet live stream has delivered
everything else, no event waits for a reconnect that may never come; and `FeedSpec`,
with any pool: the whole pipeline implements `EventFeed`, a log and consumers that
receive what they want from it in order, once, and eventually, but for the events
that are *given up*, the same two kinds. `skipped` is no licence for the replay, the
buffer, the queue or the flush: only the two places named add to it, and an event
that any of those drops is a violation. That `skipped` is not empty is a
disagreement with what `eventNotifier.ts` promises; `GapReplayed` states the promise,
and the run `ledger_stream_gap` refutes it (section 12).

Fairness: the append path goes on (WF on its steps as a whole); steps of the notifier
and its reconnect timer (WF); a stream's own steps and the consumer's, which retries
for ever (WF). Faults are bounded by `MaxFaults`, drops and crashes are not fair.

## 7. Configuration

`ConfigWatch`: `SetConfig`, `WatchConfig` and the watching clients of one
namespace and environment. The rows of a scope are a **stamp**, the number of
writes they have seen: `stored` for the global rows, `mine` for the rows of the
user that some clients watch for, `cache` what the server last loaded, `seen` and
`seenMine` what a client has. A payload is the pair of stamps it was built from,
so "older than" and "the same" are what the properties compare; what a value is,
its validation and its encryption happen before the upsert and change nothing
else.

- The server is one Node process: a step is what runs between two awaits.
  `SetConfig` is two steps (`Upsert`, then `Announce`, which may fail or be cut
  off by a crash).
- The LISTEN connection is `open`, `deaf` (half open: nothing arrives, nothing
  fails until `livenessTick` finds out) or gone; `Relisten` is the backoff timer
  and the resync after it.
- `chain` is the serial chain: reloads and broadcasts run one at a time, while
  subscriptions run beside them. A subscriber is registered *before* its first
  snapshot is read; a broadcast that meets it `pending` records `missed`, and the
  subscriber's own loop makes the delta up.
- A registration key has no client in it, so two streams opened in the same
  millisecond may share it (`WatchSameKey`): the later replaces the earlier, and
  either's end unregisters the survivor, which the client's own deadline then
  notices.

Left out: the markers that `SetConfig` notifies besides (they cause a reload
like any other notification); deletions of rows, which only migrations do (that
a client which merges DELTA payloads keeps a deleted key, `watchcore.go:173`,
therefore has no property); creation of one key under two spellings.

Properties: `LiveStreamsHaveCache`, `NeverBackwards` (an action property over
streams, reconnects and restarts), and `WatchersConverge`. Fairness: what the
process has begun goes on (WF on the serial chain, on a subscription, on a
notification that arrived, on the second half of `SetConfig`), timers fire (WF on
boot, reconnect, backstop, the liveness check of a deaf connection and the
client's deadline). Writes, crashes and other faults are bounded and not fair.

## 8. Sessions, administrators, alerts, backfills

Four services that share no state; `Services` lets a behaviour be that of one of
them (`subject`) and keeps the others where they started, so one run asks four
questions and its states add up instead of multiplying.

**`IdentityTokens`, `BrowserSession`.** The refresh tokens and authorization
codes of one user. Transactions run at READ COMMITTED: a statement sees what is
committed when it starts and waits for a row another transaction has written
(`Locked`); an UPDATE of many rows is a start, which fixes the rows, and an end.
The pool has `PoolMax` clients and a transaction keeps one from `Connect` to
`Commit`. `rotateRefreshToken` and `redeemAuthCode` are claim, insert, commit;
login, logout, revocation of an app, password change and deactivation are what
runs against them. `BrowserSession` puts one browser in front: the cookies
(`jar`, `access`), requests of the middleware (which refreshes for every guarded
path and shares nothing between requests) and of tabs (one refresh POST at a
time each), answers in any order, lost or given up.
Properties: `SessionHasItsToken`, `CodeBuysOneSession`, `NoStandstill` (row locks
and pool never wait for each other in a circle), `JarMovesForward`.

**`IdentityAdmins`.** `SetUserRoles` and `SetUserActive` are one guarded UPDATE
each. Its start fixes what it sees of the *other* users, its end checks the guard
on the latest version of its own row - PostgreSQL's re-check. The guard is
therefore no lock: two updates of two administrators can both pass, and the office
is empty. `AdminRemains`, which the comment in the code promises, is refuted by the
run `admins_left`. What holds is `EmptiedByTwo`: updates that do not overlap leave an
administrator, in any number and order; when nobody is left, two statements that ran
at the same time (`met`) removed two different ones. It is about the outcome of a
whole behaviour, and a guard that reads the wrong rows breaks it without any race.

**`AlertFanout`.** `EmitAlert` with the streams, the Slack and mail fan-out and
Web Push. Statements run in the order they were issued (`index.ts:30`: one pooled
client), handlers resume in that order, and the fan-out is dispatched without
waiting. `StreamInOrder` relates three things: what a stream was given is in the
table, in the order of `created_at`, and complete for every alert emitted since it
opened. `OneSendPerWindow`: the dedup entry is written before the first await.

**`Backfill`.** A job from its trigger to its verdict: `StartRun`, the plan, the
chunks (all started by one gather; each looks at the registry, then waits for the
semaphore), `Finalize` and the write of its verdict, against `CancelBackfill`,
failed statements and restarts, which reconcile and resume. A failed statement
ends a chunk's worker, with the row written or not. `CompletedIsClean` is what the
comments say of COMPLETED - every planned chunk was fetched with every symbol - and
the run `backfill_clean` refutes it: a restart forgets (section 12).
`CompletedMeansFetched` is what is left of it, over all planned chunks and all lives
of the process: only a chunk that an earlier life left RUNNING or completed in part,
and that the resumed runner was therefore not handed, may be lacking; not one that a
cancellation kept from starting, that failed, or that this runner fetched in part.

## 9. Pattern consumer and live bars

Three followers of a feed that share no state are put side by side by `Feeds`, as
`Services` does: the poller of trading with its restart (`OrderLifecycle`, section 4),
a consumer that must lose nothing, and one that may lose bars but has a single
connection to give.

**`PatternConsumer`** is `pnl_pattern_consumer.py`. `log` is the ledger; an event
has a kind (opens a position, another order event, closes one, none of these), an
identity (user, account, symbol, mode) and a flaw: a poisoned event fails every
attempt with an error of the allow-list, a stuck one with any other. `cursor`,
`snapshots`, `windows` and `samples` are tables; `stage`, `pos`, `attempt` and the
replay pair are the consumer's own and are lost by `RestartConsumer`.

- `Process` is one transaction: what the event means (`Capture`, `Seal` with its
  attribution, `PassOver`) and the cursor. It may be applied and its answer lost
  (`ApplyUnseen`: the count and the audit event of a close follow its commit).
- `Fail` is `_process_with_retry`: another attempt, the end of the stream, or,
  after `Attempts` of them `MaxReplays` times on end, `Probe` and `Park`. `Connect`
  resumes at the cursor, inclusively, so its event comes again (`AlreadyDone`).
- `Park` and `ParkAdvance` are two steps; the announcement has the sequence as its
  idempotency key (`AppendParked`).
- `runs` is history: how often an event has exhausted its attempts.

Properties: `NothingSkipped` (an event at or below the cursor is in the tables or
logged as parked), `PositionsInOrder` (the windows of an identity follow each
other, a close is attributed once), `ParksAreEarned` (an event is parked for its own
failures, never for an outage or for those of another event, and announced once),
`ConsumerKeepsUp`: the consumer implements `EventFeed` - every event, in order, once,
and at last, the flawed ones included. Fairness: the loop of the supervisor never
exits (WF on its steps, so a pooled connection and the ledger's answer to an append,
for which `:406` and `:468` have no timeout, come at last); failures that come from
outside are bounded. `PositionsInOrder` says that a close is attributed once, not to
which snapshots (section 12).

**`BarStreams`** is the live path of marketdata: StreamBars calls, the feeds they
register with `streamManager`, and its session loop. Each section under the mutex is a
step; the loop's look at the subscribers and the reset of `running` are two
(`NobodyLeft`, `Stop`), as are the union of the symbols and the message that sends
it. `Drop` is any failure of a session, `GiveUp` the end of the budget, which closes
all feeds. A frame may carry a bar of any covered symbol, and a full channel loses it.
Quotes go the same way and are left out, as are the channels of the calls behind
`Forward`.

Properties: `OneLoop` (the vendor allows one connection), `ChannelClosedOnce` (a
second close, or a send after one, would panic), `ConnectionGivenBack`. Fairness:
goroutines run, the vendor answers with a frame or an error (WF) - the read of
`stream.go:309` has no deadline, so `ConnectionGivenBack` is worth what the vendor's
frames and the keep-alive of TCP are; callers come, go and stay as they like. What is *not* promised to a subscriber is in section 12.

## 10. Runs and bounds

| run | instance | distinct states | what it shows |
|---|---|---|---|
| `idempotence` | two calls on one Alpaca intent, two request contents; an append, two retries of it, and an append without a key, on two connections; `KeysSpec` | 110 k | sections 3 and 5: the safety properties, `ImplementsIntentOutcome`, `PendingIsTemporary`, `UnknownIsResolved`, `EveryCallAnswered` |
| `order_lifecycle` | two calls, each a cancel or a replace to one share, of an order for two shares; or one and a restart before, in or after it | 3.2 M | a cancel, its retry, a replace, the poller, the end of the submission and late reports agree on the order |
| `ledger_stream` | one consumer, two events of which one is trimmed, two connections, two faults, LISTEN up or not at the start; `FairSpec` | 149 k | `InOrder`, `NoGap`, `CaughtUp`, and the pipeline implements `EventFeed`, liveness included |
| `config_watch` | two clients, one of which may watch for a user, two writes, one fault, `FairSpec` | 631 k | section 7, liveness included |
| `services` | three calls, four tokens, one code, one tab, two pooled clients, one fault; two alerts, one stream, one endpoint, one mishap; three updates of two users; two chunks one at a time, one cancellation, two troubles | 2.0 M | section 8 |
| `feeds` | one call on an order for two shares and one restart; a position, three events, two attempts, two replays, two faults; two calls for different symbols, two session loops, two failures in a row, one bar; `FeedsSpec` | 298 k | section 9, `InflightIsTracked` and `FillIsAnnounced`, liveness included |
| `order_submission_rejected`, `order_lifecycle_filled_once`, `ledger_stream_gap`, `admins_left`, `backfill_clean`, `browser_session_cleared` | as above or smaller | violations | see section 12 |

Type correctness is proved for every module and every value of the constants; the
one type invariant that is also run, `TypeOK` of `LedgerStream`, says besides that a
lost connection has nothing on the wire and that only the head of the queue is
fetched.

Why these bounds reach the interesting cases:

- *Two calls.* Every race of submission is between the call that inserted the
  intent and one other (a retry, a concurrent duplicate, a changed request); the
  sweeper, the poller and crashes are always there and are not counted. The
  proofs cover any number of calls and intents. For one order, a call and its
  retry are the cases the intent table distinguishes.
- *An order for two shares* is the smallest that can be filled in part, and
  quantities 1 and 2 let a replace go up and down.
- *Restarts and faults* (`MaxTurns`, `MaxFaults`) are counted, not scheduled:
  one or two of them may occur between any two steps. A broker read that fails,
  a database write that fails, a statement that fails and a fetch that fails are
  not counted; they may fail at any time.
- *A pool of two* is the smallest in which transactions overlap; a pool of one,
  the default of the service, is the one in which a call that asks for a second
  connection would wait for itself.
- *Two writes, one fault* of `config_watch`: a second write lands while the first
  is being reloaded or delivered, and a fault may hit any step of either. The
  safety properties are proved for any number of both.
- *Three calls on one user* are two rotations of one token and a revocation
  between them, or a rotation, its retry and a login; four tokens let each of
  three calls insert one.
- *Three updates of two administrators* let the second race the first and the
  third start between them.
- *Two chunks, one at a time, two troubles* let one chunk be done while the other
  waits for the semaphore, and a restart meet a failed statement.
- *Two events, a batch of one row* put replay, buffer, live row, bound and a row
  behind a trimmed row into one behaviour: the first event may be replayed while
  the second is buffered, queued or lost with the connection. One consumer is enough
  for the run: consumers share only the LISTEN connection and the queue, whose
  failure or reconnect treats each of their streams alike, and the theorems are for
  any number of them, with any filters.
- *Three events of one position* are two openings and a close in any order, or an
  event that is stuck, one behind it and the announcement of the first; two faults let
  a lost answer meet a restart, or an outage meet the replays of a stuck event. An event
  that fails is never applied, so of those only one that opens and one that closes are
  produced (`MCProduced`). With two attempts and two replays both counters are
  counted and reset. One position keeps the run small; the proofs are for any number.
- *Two calls, two session loops*: the last call leaves while another comes, and a loop
  that has stopped is followed by a second. One bar is enough for the loop to read; the
  order and the symbols of many are proved (`OwnFeed`).

`CHECK_DEADLOCK FALSE` stands in every configuration since the number of calls
and faults is finite: a system in which all calls have ended and nothing is left
to deliver stops legitimately. That nothing stops too early is what the liveness
properties say. Symmetry is used in safety runs only (`order_lifecycle`,
`order_submission_rejected`), over calls and contents that are interchangeable.

Each property has a mutant, a `Mut...` operator that stands beside the
definition it breaks: an insert that does not notice the row, a verdict that can
be overwritten, a check before the claim instead of the claim, a reconnect that
tells no subscriber, a full row that overtakes a trimmed one, a broadcast that
forgets whom it skipped, an insert on a second pooled client, a dedup entry
written after the send. TLC finds the property violated with each.

## 11. Proofs

TLAPS proves every safety property of the passing runs (`NoStandstill`, which uses
ENABLED, in its state form), for every value of the constants, from the named assumptions of the modules alone (`...Assumption`: types
of constants, at least one connection, values apart from `Nil`). None of the
properties is inductive; each module has an invariant, a conjunction of named
parts, that is. Where a theorem needs more about the constants than the
assumptions say, its statement says so: `AppendInOrder`, `SomebodyGoesOn`.

**`OrderSubmissionProofs`** (1039 obligations): `TypeCorrect`, `OneSubmission`,
`CompletedReached`, `AuditedOnce`, `Final`, `StoredAnswers`, `Refines` - any number
of calls, intents, contents, crashes and sweeps. The invariant they share names, for
each intent, the one call that owns it, the call whose insert created the row: a
call inside the submission or already sent has a request (`RequestInv`), its row
exists and no other call owns that intent (`OwnerInv`); before it sends, the row has
no verdict (`UnsentInv`); what a listing or a handler has seen of the broker is true
of the broker (`BrokerInv`); nothing is stored before a verdict and nothing audited
before PENDING is left (`AuditInv`). `OneSubmission` follows from ownership,
`CompletedReached` from `BrokerInv` at the steps that complete a row, `Final` from
the guards of `FinalizeIntent` and of the reclaim, which the table lemmas state
once. `StoredAnswers` needs that a row keeps its owner's content and stores only
orders of that content (`ContentInv`), and that a call answered from the table ended
there (`AnsweredInv`). `Refines` maps each step to a step of `IntentOutcome` or a
stutter.

**`OrderLifecycleProofs`** (3170 obligations): `LifecycleTypeCorrect`,
`FillReal`, `InflightTracked`, `OneCall`, `ConfirmedCancel`, `ReplaceKept`,
`RetryAgrees` - any number of calls, quantities, failed writes and restarts. The
difficulty is that copies of the order are everywhere: in memory, in the database,
in the submission, in each call and in the poller.

- `Good(o)` says what each copy must satisfy whenever somebody may still write it:
  it claims no fill the broker does not have; before a restart it has no broker
  order id that memory lacks; after one, when nothing links an order any more, it
  agrees with the row. `CopyInv`, `SubmitInv`, `PollInv` and `CallerInv` say where
  good copies are, `TrackInv` what a restart that could read the database left out.
  `FillReal` and `InflightTracked` follow.
- `OwnerInv` gives each intent the one call whose insert found no row, until its
  broker call is behind it; `OneCall` follows as in `OrderSubmission`. `CancelInv`:
  no call has an answer before its broker call, and "canceled" after one is the
  broker's status, which no longer changes; with ownership, `ConfirmedCancel`.
- `QtyInv`: a replace changes the order only after its broker call, and in the first
  life no poll, submission answer or cancel changes a quantity after it, whatever
  copy it writes from; `ReplaceKept`.
- `RetryInv`: one call holds the intent of the cancel, only its last step completes
  the row, and the row stores what that call answers (`StoryInv`); until a cancel has
  changed the order (`Open`), no copy says CANCELED unless the broker does
  (`Honest`). Without the second part a cancel that was refused could be stored with
  an order that another path had marked as cancelled. `RetryAgrees` follows.

**`LedgerAppendProofs`** (725 obligations): `AppendTypeCorrect`, `AppendOnce`,
`AnswersAreOne`, `AppendInOrder`, `AppendsGoOn`. The log holds no event twice and
only events of calls that inserted (`LogInv`); the key table and the log agree in
both directions (`StoredInv`); a call that claimed a key excludes every other
claimer until it ends (`LockInv`); an answer names the event of its key
(`AnswerInv`); sequences are drawn once (`DrawnInv`); and with one connection there
is one holder, whose sequence, once drawn, is above every committed one
(`OneHolder`, `HighestInv`). `AppendInOrder` is about `PoolMax = 1` and needs the
last two; the other theorems hold for every pool. `AppendsGoOn` is the absence of a
standstill as a fact about states: a holder of a key's row already has its
connection, and the path of a duplicate asks for no second one, so as long as an
append is under way some append does not wait.

**`LedgerStreamProofs`** (4394 obligations): `StreamTypeCorrect`,
`DeliveredInOrder` (`InOrder`), `NothingPassedOver` (`NoGap`), `NothingHeldBack`
(`CaughtUp`), `PipelineIsFeed` - any number of consumers, filters, events, faults and
connections, every batch size, the LISTEN up at boot or not, rows dispatched before
`connect` goes on or not. Two orders meet here: notifications travel in the order of
commits, streams write in the order of sequences.

- `FlowInv`: what a stream's buffer holds was committed before what waits in the
  queue, and that before what is on the wire. `QueueInv` and `SourceAt`: what travels
  is committed and was asked for.
- `PositionAt`: a stream writes in rising sequence, behind what its consumer has; so
  `DeliveredInOrder`, which needs nothing else.
- `LossInv` ties the losses to the connection: while it is up, everything unheard has
  been made good or is recorded as skipped.
- `CoverAt`: every event at or below a stream's position has been written, is
  `Late` or is skipped. It is kept by `TrackAt`: what a stream asked for and has not
  written is in its buffer or the queue, on the wire, unheard, below the bound of its
  replay, or missed; and what has been told to it is preceded, in commit order, only
  by events that are no longer unheard. `NothingPassedOver` and `NothingHeldBack` are
  the two readings of this.
- `PipelineIsFeed`: the initial states are the feed's and every step publishes an
  event, gives events up, delivers to a consumer the first event of the log that it
  wants, has not seen and that is not given up, delivers one that is, or is not
  visible. It is the safety part of `FeedSpec`, for pools of any size.

**`ConfigWatchProofs`** (823 obligations): `LiveHaveCache`, `Forward`,
`WatchTypeCorrect`. `Told(c)`: a live stream that is behind the cache will be visited
by the broadcast that runs, and a pending one has its delta recorded as missed or is
still to be visited. `Newer(c)`: whatever may yet be written to a client's stream -
the cache, what a reload has read, the draft and the overlay of a subscription, also
of a client whose registration another stream took over - is at least as new as what
the client has. `ReloadInv` and `BroadcastInv` tie reloads to the table and
broadcasts to registrations. `Forward` is the action property that follows. The
types need `ControlInv`: a task that has begun stays at the head of the serial chain,
and a server that is down has neither listener nor timer.

**`ServicesProofs`** (4175 obligations): `SessionTypeCorrect`, `OneLiveToken`
(`SessionHasItsToken`), `CodeSpentOnce` (`CodeBuysOneSession`), `JarNeverGoesBack`
(`JarMovesForward`), `SomebodyGoesOn`, `AdminTypeCorrect`, `LastTwoOverlapped`,
`ServicesTypeCorrect` - any number of calls, tokens, codes, tabs, clients and faults.

- `ChainInv`: the rotations of a session lead back to its first token. `LiveInv`: its
  live token is its last one, and it has one until it was ended. `CodeInv`: a code is
  consumed together with the one session it bought. They are kept because a row that
  a transaction has claimed stays as it was claimed until its commit (`CallOK`), and
  two transactions claim two rows and insert two tokens (`Distinct`).
- `OnItsWay`: a token whose answer the browser has not read is known to nobody, so
  nobody can have rotated it and it is the last of its session. That is why an answer,
  however late, does not set the cookies back.
- `SomebodyGoesOn` is `NoStandstill` as a fact about states: with at least one pooled
  client and more tokens than calls, as long as a call is under way some call does not
  wait. Who holds a row waits for none and has its client; `CountInv` (a call inserts
  one token at most) shows that the bound on tokens is never what stops it.
- `LastTwoOverlapped` (`EmptiedByTwo`): what an update that is still running saw and
  what has left office since was removed by updates it has met (`MetInv`). So the
  update that empties the office saw somebody else there, and an update it ran with
  removed that one.
- `SideBySide`: a behaviour of `Services` is one of each of the four services, so
  every theorem about one of them holds in the run `services`;
  `ServicesTypeCorrect` uses it.
- `OneSend`, `StreamsInOrder`, `AlertTypeCorrect`: a key that is not in the window has
  not been sent in it, whichever restart or expiry came between (`WindowInv`). Inserts
  under way stand in the order of `created_at`, statements behind results, and every
  stream is behind all of them; an open one has been given what was answered since it
  opened (`StoredInv`, `PoolInv`, `GotInv`).
- `BackfillTypeCorrect`, `CompletedIsFetched`: a chunk that is over without a
  cancellation is over with its outcome (`OverInv`), a verdict of COMPLETED is
  pronounced on clean chunks only, but for those a restart left behind, and they stay
  so until it is written (`VerdictInv`), and a job that reports COMPLETED is not about to be run again
  (`ReportInv`).

**`PatternConsumerProofs`** (1049 obligations): `ConsumerTypeCorrect`,
`NoEventSkipped`, `PositionsFollow`, `ParkedForItself`, `ConsumerIsFeed` - any number
of positions, events, attempts, replays and failures. None of the promises is
inductive without the place of the consumer: the event in hand is the one behind the
cursor or one that comes again (`PlaceInv`), so an event is applied only when it is
the next. Rows name only events the cursor has passed (`RowInv`); since an applied
event is above all of them, its window begins behind the closed ones, its close ends
one window at most, and its sample is the first of its kind. `ReplayInv` says that
the replays counted for an event are exhausted attempts *of that event*, although the
event of the cursor comes first on every new stream; `ParkedForItself` follows.
`ConsumerIsFeed` maps the cursor to what has been delivered: each step publishes an
event, delivers the next one, or is not visible.

**`BarStreamsProofs`** (417 obligations): `StreamsTypeCorrect`, `OneConnection`,
`ClosedOnce`, `OwnFeed` - any number of calls, symbols, loops and bars. A loop that was
not started is nowhere (`LoopInv`), so the loop that `add` starts while `running` is
false is the only one; that a loop between its last look and its end is still alive,
with `running` true, is what keeps a second one from starting. `FeedInv` ties the
closings of a channel to the state of its feed; `BarInv` orders what a feed holds
against the bars received (`OwnFeed`: bars of its own symbols, once each, in order,
whatever was lost at a full channel). The theorems of both modules are about the
specification of the module; `Feeds` adds steps that leave its variables alone.

Method, in all modules: per-operator lemmas about rows, orders, sequences and
functions, per-action lemmas about the effect of a step, then one step per action
under the invariance theorem, and PTL at the end.

Left to TLC: liveness under fairness, which the provers do not handle
(`PendingIsTemporary`, `UnknownIsResolved`, `FillIsAnnounced`, `EveryCallAnswered`,
`WatchersConverge`, `ConnectionGivenBack`, and the halves of `FeedSpec` and
`ConsumerKeepsUp` that say that events arrive); and `NoStandstill` as stated, since it
uses ENABLED.

## 12. Where code and documents disagree

Runs that expect a violation, each with the line and the quotation in
`PROJECT.json` ("findings"):

- `order_submission_rejected` - a broken connection or a cancelled caller is
  taken for a rejection although the broker may work the order
  (`isUncertainBrokerOutcome`).
- `order_lifecycle_filled_once` - the poller and a cancel that finds the order
  filled can both emit `order.filled`.
- `ledger_stream_gap` - what was committed while nobody listened is not replayed by a
  stream that was open, if the first LISTEN came late (`connect` ends streams only when
  it *re*connects, and the server binds without a LISTEN), or if a later row was
  dispatched before `connect` went on.
- `admins_left` - of two guarded updates that run at once each sees the other's
  administrator still in office: none is left, despite "no count-then-write TOCTOU".
- `backfill_clean` - a chunk that was RUNNING at a crash is not handed on by the
  resumption, and the failed symbols of the earlier life are forgotten; the resumed
  job reports COMPLETED over both, although COMPLETED is "clean".
- `browser_session_cleared` - of two requests that refresh one token the loser is
  refused, and its answer, arriving last, clears the cookies the winner has just
  set. The middleware calls the cookies it clears stale ("token
  revoked/expired", `middleware.ts:72`); `authRedirect.ts:26` knows the danger
  and guards against it within one tab.

Observed while modelling, without a run of their own.

*Orders.* `applyBrokerOrderStatus` writes the FILLED row first (`trading.go:1870`) and
leaves `order.filled` to a goroutine nobody waits for (`:1889`), whose failure is only
logged (`:3874`). A crash or a failed emission in between loses the event for ever: a
FILLED row is neither reloaded at boot (`trading_repo.go:300`) nor polled, so
the fold of portfolio never sees the fill. No comment promises otherwise, hence no run;
`FillIsAnnounced` excepts exactly this (`lost`). `FinalizeIntent` binds protobuf bytes to columns that
`migrations/006_order_intents.up.sql:11` declares JSONB (`order_intent_repo.go:126`).
Bytes that are not JSON are refused, `submitOrder` only logs the failed write, and the
intent of an accepted order stays PENDING until the sweep makes it UNKNOWN, although
`trading.proto:221` calls PENDING "broker call not yet resolved". The runs assume that
the column takes the bytes (`ColumnTakesBytes = TRUE`), the proofs assume neither. An order that the broker fills on submission gets no `order.filled`
(`trading.go:768`). `CancelOrder`'s fail-open path records CANCELED for a working
order (`trading.go:1363` calls it deliberate, the comment at `:1434` excludes it);
a cancel while the submission awaits the broker is confirmed without a broker call
(`:1368`); a replace repeated to an earlier quantity is answered from its stored
verdict, REJECTED included (`:1541`).

*Config.* A listener that is dropped during the reload at boot leaves
`connectedOnce` false and arms no reconnect timer, although
`configServiceImpl.ts:396` says "every failure path reschedules itself"; only the
backstop remains.

*Identity and sessions.* A password reset that revokes the tokens of a user can cross
a rotation that has not committed: the successor is not among the rows its UPDATE
fixed and stays good, although `identityServiceImpl.ts:874` says "so a reset forces
re-login"; `SessionHasItsToken` counts a session as ended only if the revocation took
its live token. A COMMIT that was applied and whose answer was lost revokes the old token while the
caller is told of a failure; an answer lost after a rotation leaves a revoked token
in the browser; a handler that runs after the middleware's refresh still sees the
old access cookie, answers 401 and causes a second rotation.

*Ingest.* `CancelBackfill` says it "stops scheduling further chunks",
but every chunk looks at the registry when the gather starts it, before the
semaphore: a later cancellation stops none. A runner with an empty plan, and a
verdict past its check, write over CANCELED. The comment at `main.py:117` says the
reconciliation "only flips chunk-less jobs"; it flips every RUNNING or QUEUED one.
A cancellation after the verdict leaves its registry entry behind.

*Pattern consumer.* The position id has no window in it, although
`016_order_snapshots_pnl_patterns.up.sql:34` says "+ open window": a second window of
an identity is attributed to the snapshots of the first, whose oldest value wins
(`pnl_pattern_consumer.py:568`). An applied close whose count fails on the last attempt
of the last replay is parked all the same (`:460`). The dedup on the closing event that
`pnl_positions.py:6` speaks of is in no statement; the cursor in the transaction is
what keeps a redelivered close from sealing the next window.

*Live bars.* A subscriber that comes between the loop's last count and the reset of
`running` starts no loop and is served by nobody until another one comes
(`stream.go:220`), although `:204` says the loop runs until all subscribers are gone. The
symbols are sent once per session (`:289`), so a feed that joins a running session gets
no bars until that session fails. Every feed's bars go to the channels of all calls
(`marketdata_service.go:1636`), although "only matching messages are forwarded"
(`stream.go:51`). A call whose feed was closed by the give-up hangs until its client
leaves.

*Read in parts that are not modelled.* Two overlapping resumes and a halt can
leave the row halted and memory trading; a resume answers success for a halt that
short-circuited; a halt whose row write failed is lost on restart
(`trading.go:2885`, `:3175`). A bracket's position has no stop while it is resized
(`:3593`), its legs cover the part that was filled when they were made, and a
flatten does not cancel them. Portfolio's consumer starts at 0 on every boot while
its positions are kept (`portfolio_service.go:261`).

## 13. What is not modelled

"components" in `PROJECT.json` lists every part with its reason. In short:
numerical code (indicators, strategies, scoring, risk arithmetic), formatting and
transport, pages and routes of the UI, the agent, read-only queries, and the parts
that rows 10 and 11 of the plan name. Their hazards are in the list, each with a
note.

Within the modelled components: validation, risk and sizing before an intent
exists change nothing that is kept and are a refusal; several instances of a
service are not modelled, since the deployment runs one. `AlertFanout` leaves out
acknowledging, marking, listing and the registration of push endpoints (single
statements); `Backfill` fundamentals jobs, which have no chunks, and several jobs
behind the limiter; `IdentityTokens` the registration of clients, lists, and the
expiry of tokens and codes.

Most TypeScript of the repository is not code with state: generated protocol
buffers (about 70 000 lines), pages and components of the UI, end-to-end and unit
tests. The stateful TypeScript - ledger, config, identity, notify and the UI's
session handling - is what the modules model; the rest of the platform's state is
in its Go and Python services.
