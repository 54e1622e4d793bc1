# Captain: a TLA+ model of the trading system

Captain is a trading system of three Python processes, Online (signals and
position monitoring), Command (execution and the user interface) and Offline
(learning), over one Redis and one QuestDB. This directory holds TLA+ modules
of its core logic, the TLC configurations that check them on small instances,
and theorems about them that TLAPS checks for every instance.

## 1. The system

| part | source | state | operations |
|---|---|---|---|
| Online session loop | `captain-online/.../blocks/orchestrator.py` | `_session_evaluated_today`, `_pending_sessions`, `_all_signals`, timers | open a session once a day, Phase A (B1-B5C), Phase B at each opening-range breakout (B6), concentration and capacity checks, `SESSION_CLOSE` |
| OR tracker (B8) | `b8_or_tracker.py` | one OR state per asset | register, quote callbacks (stream thread), expiry check (session loop) |
| Position lifecycle (B7) | `orchestrator.py`, `b7_position_monitor.py`, `main.py` | `open_positions`, hash `captain:open_positions`, tables D03, D16, D23, `stream:trade_outcomes` | command listener, 10 s pass, UserStream callbacks, recovery at start |
| NKD trail (B7B) | `b7b_nkd_trail.py`, `shared/nkd_jitter.py` | phase, buffer, stop, `modify_seq`, outstanding modification | one trail step per open NKD position and pass |
| Shadow monitor | `b7_shadow_monitor.py` | `shadow_positions` | register, step, `stream:signal_outcomes` |
| Circuit breaker (B5C) | `b5c_circuit_breaker.py` | reads D23, D25, D17 | seven layers per candidate trade |
| Session budget | `orchestrator.py:910`, `shared/sod_session_budget.py` | D23 SOD columns | lock the budget of a session once |
| Sizing, selection, quality gate | `b4_kelly_sizing.py`, `b5_trade_selection.py`, `b5b_quality_gate.py`, `b8_concentration_monitor.py`, `b9_capacity_evaluation.py` | none | pure functions of a session's data |
| Command loop | `captain-command/.../blocks/orchestrator.py`, `b1_core_routing.py` | PELs of its groups, parity counters, pending maps | signal reader, command reader, auto-execution, routing |
| Broker adapter (B3) | `b3_api_adapter.py`, `shared/topstep_client.py` | `bracket:pending:*` | bracket order, fallback to separate legs, cancels |
| Command services | `b8_reconciliation.py`, `b9_incident_response.py`, `b7_notifications.py`, `b5_injection_flow.py`, `b4_tsm_manager.py`, `b12_compliance_gate.py` | D08, D16, D21, D25, journal | start-of-day reconciliation, incidents, notifications, injection decisions |
| Offline loop | `captain-offline/.../blocks/orchestrator.py` | PELs, dedupe token, job queue | outcome, command and signal-outcome readers, scheduler, job dispatch |
| AIM learning | `b1_aim_lifecycle.py`, `b1_dma_update.py`, `b1_drift_detection.py`, `b1_hdwm_diversity.py`, `b1_aim16_hmm.py` | D01, D02, D04 | life cycle of an AIM, meta-weights |
| Decay detection | `b2_bocpd.py`, `b2_cusum.py`, `b2_level_escalation.py` | D04, D12 | change-point state, escalation levels |
| Strategy management | `b3_pseudotrader.py`, `b4_injection.py`, `b5_sensitivity.py`, `b6_auto_expansion.py`, `version_snapshot.py` | D06, D11, D18 | validation, injection, snapshot and rollback |
| Account life cycle | `shared/account_lifecycle.py` | account stage | stages EVAL, XFA, LIVE, and failure |
| Market stream | `shared/topstep_stream.py` | connection state | reconnect, resubscribe |
| Command GUI, reports, Telegram, replay, scripts, `captain-gui` | - | - | presentation and tooling |

The processes meet in Redis. Streams (`stream:signals`, `stream:commands`,
`stream:trade_outcomes`, `stream:signal_outcomes`) are read by consumer groups,
one consumer each: an entry that was delivered stays in the consumer's pending
list (PEL) until it is acknowledged. The hash `captain:open_positions` is the
durable copy of Online's list. QuestDB tables are append-only, the state of a
row is its `LATEST ON`, and every `INSERT` commits by itself.

What is hard, per part:

* **position lifecycle**: three threads over one list and one hash, only one of
  which holds the lock for all it does; four books written without a
  transaction and retried; a crash at any of these points.
* **NKD trail**: a stop that may only tighten, while the answer of a modify
  call can be late, lost or wrong about what the broker did.
* **session loop and OR tracker**: a quote thread moves OR states that the
  session loop polls, a session ends once all its assets are resolved or
  expired, and every step in between can raise.
* **shadow monitor**: whether a signal is learned from once (real or
  theoretical) depends on which of two threads comes first.
* **Command**: at-least-once delivery of signals in front of an order that must
  be placed once.
* **budget**: a ledger that two processes read, change and write without a
  transaction, around a reset that takes place in the middle of a session.
* **Offline**: at-most-once delivery of outcomes in front of several updates
  that are not atomic; jobs in an append-only table; detectors whose state is
  the latest row of a table that also takes other rows.
* **AIMs**: the status of an AIM is read, thought about and written back by two
  threads without a lock, and the tables are compacted under them.

What makes each part correct:

* **position lifecycle**: an acknowledged position is never lost before its
  trade is in all books; a trade is booked once unless a fault intervenes; the
  books are never out of order, and an outcome is announced again only for an
  answer that was lost.
* **NKD trail**: the process never believes in a stop the broker does not hold,
  the stop never weakens, and the profit of a phase stays locked in.
* **Command**: no batch is lost, no order is doubled without a redelivery that
  is reported, what is announced as TAKEN is open, an entry gets its stop or
  its close, one tower executes a batch.
* **session loop**: a session is opened once a day, every asset is resolved and
  gets its signal, `SESSION_CLOSE` is published once.
* **shadow monitor**: a signal is learned from once.
* **budget and breaker**: the row of a session is the history of its trades,
  its budget is what the earlier sessions of the day left over, and a day is
  reset once.
* **Offline**: an outcome is learned from once, a job is executed, a decay
  detector forgets what it has persisted only where the latest row of its table
  has no detector, and answers a shift.
* **AIMs**: none is active that nobody has asked for, a worthless one is
  suppressed, a kind of indicator never stays without an active one.


## 2. The plan and where it stands

| module | with | subject | state |
|---|---|---|---|
| `PositionLifecycle` | `Settlement` | B7 and everything that touches the open positions | checked, proved |
| `Settlement` | - | the abstract ledger of a trade, which `PositionLifecycle` implements | refinement checked and proved |
| `NkdTrail` | runs in the pass of `PositionLifecycle` | the trailing stop | checked, proved |
| `CommandExecution` | writes the TAKEN entries `PositionLifecycle` reads | from a signal batch to the broker | checked, proved |
| `SessionPipeline` | publishes what `CommandExecution` reads | session loop, opening ranges, signals, shadows | checked, proved |
| `DailyBudget` | Online and Command over P3-D23 | budget of a session, ledger, reset | checked, proved |
| `OfflineLearning` | reads what `PositionLifecycle` and the shadows publish | readers, blocks, job queue, detectors over restarts | checked, proved |
| `DecayDetection` | says what the detectors of `OfflineLearning` can report | BOCPD, CUSUM, levels | checked, proved |
| `AimLifecycle` | - | the statuses and weights of the AIMs | checked, proved |

Left for later, in this order: `bracket:pending` (Command writes it, Online
matches the children of a bracket by price); the command reader and the
scheduler of Command; the version snapshots and the account life cycle, which
are sequential.

## 3. The modules

Each model is a module, an `MC` module with the definitions its configurations
need, and a module `...Proofs` with its theorems. Every definition of a model
stands for lines of the source; `PROJECT.json` lists them, together with, for
each property, one way to break the code that makes the property fail (these
variants stand next to the definition they change and are used by nothing else).
An action is what one thread does between two points at which another thread, a
crash or a failing call can be seen.

### PositionLifecycle and Settlement

Three threads of Online share `open` (`open_positions`) and `hash`
(`captain:open_positions`).

* The command listener (`lpc`, `cur`): `ReadBatch` moves entries to the PEL,
  `OpenPosition` appends under `_position_lock`, `PersistPosition` writes the
  hash after the lock was released, `AckTaken` acknowledges.
* The session loop (`mpc`): `StartPass` takes the lock for the whole pass;
  `WriteTrade`, `WriteSilo`, `WriteBreaker` and `PublishOutcome` are the four
  books of a resolved position, each committed by itself; `RemoveResolved`
  deletes from hash and list. A QuestDB write that raises (before or after its
  row reached the table) leaves the pass, with what it has written in place.
  An XADD that raises (`PublishFails`) is tried again, up to `Attempts` times,
  though the entry may have been added and only the answer been lost.
* The UserStream callbacks (`ucb`): `OnPositionUpdate` and
  `CaptureBracketChild` read entries, `WriteBack` puts them back later.

Every Redis call that raises may have taken effect (`RedisRaises`). One call of
the client is one command: `retry_on_error` in `shared/redis_client.py` names
Python's own `TimeoutError`, not that of redis-py, so the client does not send a
command again by itself. If it did, its repetitions would count as attempts.

`Crash` empties memory at any point; `Restart` recovers from the hash, or finds
Redis down and starts with nothing (`RestartBlind`).
A position is the index of the stream entry that opened it, because two TAKENs
of one signal share a field of the hash.

`Settlement` knows nothing of threads, locks or Redis: a trade is watched, its
four books are written in order, and it is let go when it is in the daily
losses; a fault may cost a repetition, and a lost answer may cost an outcome
that is announced twice. `PositionLifecycle` maps its list to `watched`, its
counters to the books, its crashes and failing writes to the ledger's faults,
and its failing Redis calls to the ledger's lost answers; `Settles` says that
each of its steps is one of the ledger or a stutter.

### NkdTrail

One position. `StartScan`, `HoldStop` or `SendModify`, then the answer of the
broker (`ModifyOK`, `ModifyRejected`, `ModifyRaises`) and `Mirror` are one poll
of `_scan_one_trail`; `PollUnresolved` and `Reconcile` are the polls before the
stop order's id is known. Prices are ticks relative to the entry of the signal,
so that the phase thresholds, the buffers, the jitter and the outward tick snap
are the code's own numbers. `late` holds the requests whose answer was lost and
which the broker may still apply. `stored` is the entry in Redis. The mirror reads
it (`MirrorRead`) and writes it back with new trail fields (`Mirror`); `UserWrite`
may overwrite it with an older copy whose entry price is the broker's average
(`main.py:355`). So the entry price in Redis may be another than the one in
memory, and a restart goes on with it: phases and profit are counted from `entry`,
one of `Entries`.

Abstractions: an average price is a whole tick, and any two entry prices differ
by at most `Slip` ticks, an amount that `ProfitIsLocked` allows for.

### CommandExecution

One reader per tower (`mem[t]`): `Connect` reads the PEL, `Read` the stream,
`Decide` is `_handle_signal` up to the orders (parity, self check), then for
each order `Refuse` or `Send` and the calls of `send_signal`, `Taken`, and `Ack`.
A call has three outcomes: it succeeds (`CallOK`), the broker refuses it
(`CallRejected`, `FlattenRejected`), or it raises before or after its effect
(`CallRaises`). `broker` counts, for each order, positions without a stop,
with a stop, closed ones, and separate targets; quantities are left out.

The parity key is `Hash[day][batch]`, an arbitrary function: the code hashes the
date of the handling with the session, the user and the set of assets.

### SessionPipeline

`pc` is the place of the session loop. `StartSession` opens a session in its
window, once a day; `PhaseA` (or one of its early returns) registers the assets
that the tracker does not know and leaves a pending session; `StartCheck` starts
`_check_or_breakouts`, which expires ranges without ticks and then works through
the pending sessions: `Visit`, `PublishSignals`, `LogSignals`, `RegisterShadow`,
`PhaseBDone`, and `CloseSession` with the blocks B8 and B9 behind it; `EndCheck`
pops what was completed. Two other threads are in it: `Quote` moves the state of a
range at any point, `TakeSignal` is the listener's removal of a shadow. A block
that raises is an action of its own (`PhaseARaises`, `B6Raises`,
`PostLoopRaises`, `RegisterFails`), as is an attempt of a publication that raises,
with or without effect (`PublishFails`, `CloseFails`); that of a batch is repeated
up to `Attempts` times. `RegisterEarly` is the registration of a day's ranges before the
session.

A run is a Phase A with something to trade; signals are named by run and asset.
Sizing, selection, quality gate and circuit breaker let through any subset.

### DailyBudget

A day has slots: the sessions open in order, and the last slot is the minute of
the reset. Online (`pc`): `OpenBudget` writes the row of a session with its
carry-over, or is skipped if the row looks opened already; `Screen` lets through
a set of assets that pass layers 1 and 2 of B5C; `ReadLedger` and `WriteLedger`
are the two halves of B7's booking. NKD, what B4 calls TRADE_WARMUP, and all
trades of an account without `topstep_optimisation` are let through without a
look (`Screened`); their results count like all others. Command (`cmd`):
`StartReset` fires in its minute unless it has run today, then `ResetRow` writes
one zero row after the other. The two are interleaved freely, each can crash or
raise. `real` and `seen` are the history the ledger is compared with: what the
trades of a session made today, and what earlier sessions had used up when it
opened. An amount is an integer and the budget of a session an exact fraction,
as the code's `Decimal` is up to its 28 digits: the row holds the numerator,
over the sum of the shares of the sessions that remain, and the layers compare
products.

### OfflineLearning and DecayDetection

`OfflineLearning` has the two threads of Offline. The listener reads a batch
(`Read`), takes an outcome through the blocks that learn from it (`Learn`,
`Detect`, `Persist`, and the escalation `Level3` or `Level2`), and acknowledges
it; `BlockRaises` is the handler's `except`, which goes on to the
acknowledgement, `ListenerRaises` the loop's. A Level 3 enqueues two jobs
(`Enqueued`), which the listener dispatches in part at once and the scheduler
sweeps daily, after `run_drift_detection` has appended its row for every asset
(`DriftRow`). A restart (`Crash`) loads the latest row of each detector. That row
may be one without detector columns (`EventRow`): of a decay event, a calibration,
the daily drift detection, or the bootstrap of an asset (`AssetAdded`). Or the
restore raises, and `start` goes on with the detectors it got to
(`CrashUnrestored`).

The probability of a change point is any value of `Cps` there;
`DecayDetection` computes it. It takes one asset through the loop of
`BOCPDDetector.update` (one step per run length: `Grow`, `Skip`, `Normalise`),
through `CUSUMDetector.update` and the two levels. The posterior is kept up to a
common factor, so that weights are whole numbers and the probability is a
fraction, and the likelihood of an observation is any positive number. Returns,
allowance and limits are whole multiples of a unit, as small as one likes, where
the code has floats. No property counts observations, which that unit would
decide: `rises` and `falls` hold what each stretch of observations since the last
breach adds up to, and `ShiftIsBreached` bounds these sums.

### AimLifecycle

The latest row of each AIM (`d01`), its latest weight (`d02`) and its streaks in
Redis are shared by the listener and the scheduler (`pc[p]`). `Load`,
`Consider`, `Gate` and `ResetStreak` are `run_aim_lifecycle`, which both run; it
decides on the rows it loaded (`seen`), not on those that are there when it
writes. `LoadWeights`, and AIM by AIM `CountTrade` (Redis) and `InsertWeight`
(QuestDB), are the update of the weights after an outcome; `Activate` and
`Deactivate` are the user's commands. The scheduler also retrains (`Retrain`,
`WriteRetrained`), checks the diversity of each kind (`CountActive` once,
`LookAtMember` AIM by AIM, `Revive`, `Weigh`), scans (`Scan`) and compacts the
tables (`KeepStates`, `DropStates`, `RefillStates`, `CompactWeights`). `granted`
is the history of who has wanted an AIM active.

Abstractions: weights are none, zero, low or high; an update draws all of them
when it reads the old ones; observations count only while an AIM warms up; the
life cycle of one AIM reads trades, weight and counters and appends its row in
one step; dropping and creating a table is one step. One assumption
about QuestDB is built in: a `WHERE` on the status is applied before `LATEST ON`
(`past`).

## 4. The runs

| run | checks | bounds |
|---|---|---|
| `position_safety` | `TypeOK`, `AckedIsDurable`, `MemoryIsRecoverable`, `FaultFreeExactlyOnce`, `BookingsBoundedByFaults`, `BooksInOrder`, and the refinement `Settles` | two TAKENs, of one signal or two; two attempts of a publication; one crash and one failing QuestDB write or Redis call, or two failing Redis calls |
| `position_liveness` | `ExitIsNotMissed`, `TakenIsHandledUnlessCrash` | two TAKENs, the first of `s1`; one fault: a crash, a failing QuestDB write or a failing Redis call |
| `trail` | `BrokerHoldsTheStop`, `ProfitIsLocked`, `BrokerNeverWeakens`, `TrailCatchesUp` | SHORT, four prices through all phases, one jitter, an average price two ticks lower; one crash and one of a lost answer, a rejection and a failing Redis call; no loss of the feed or of AUTO mode after such a call |
| `command_delivery` | `PendingIsInHand`, `NoSignalLost`, `EntriesBounded`, `TakenIsOpen`, `NakedNeedsFault`, `NoOrphanTarget`, `SignalIsHandled` | one tower, two batches, one exempt from parity; two orders, one with all levels; two days; any two of crash, failed ack, Redis error and broker fault |
| `session_pipeline` | `CloseOncePerRun`, `FreshRange`, `BreakoutSignalledOnce`, `UntakenHasShadow` | two sessions, two assets, one of them listed for both; two days, two runs; one fault of any kind, or two failing attempts of a publication on the first day, up to the registration of the shadows; one signal answered, on the first day, which is then the last |
| `session_liveness` | `SessionCloses` | the same for one day, without answers |
| `daily_budget` | `LedgerIsHistory`, `ScreenedOnTodaysBudget`, `TradeFitsDay`, `ResetOncePerDay` | two days of four sessions (one without a budget), two trades, each screened or of TRADE_WARMUP, one asset never screened; one fault |
| `offline_learning` | `LearnedAtMostOnce`, `LossIsBounded`, `DetectorsRemember`, `JobsAreRun` | two real outcomes of one asset and a theoretical one of another; one Level 3, one calibration; one fault of any kind |
| `offline_restore` | `RestartKeepsDetectors` is violated | one fault, no Level 3 |
| `decay_detection` | `CpIsHazard`, `SilentUntilCutOff`, `ShiftIsBreached` | runs of at most two, four observations, returns and allowance in whole units |
| `aim_lifecycle` | `ActiveIsGranted` | two AIMs of one kind, one of Tier 1 and one of Tier 2 and 3, the second with a warm-up of two trades; all tasks, one fault |
| `aim_liveness` | `StreakIsSuppressed`, `DiversityRestored` | two AIMs of Tier 1; the daily and the weekly task, no fault |

Why these bounds:

* **positions**: a race between the three threads of Online needs one position
  to be removed and one to be added, hence two; a second position of the same
  signal is the only way in which positions interact through the hash. The batch
  of a read is two where the code's is ten, so that it has a first and a last.
* **trail**: one price in phase A, those at which the phases B and C begin, to the
  tick, and one beyond the target.
* **command**: one order with a bracket and one that must take the fallback reach
  every call; a second batch makes one wait behind an interrupted one.
* **faults**: `PositionSafety` and `CommandDelivery` allow, by their constraint, two
  faults in one behaviour: a fault, and the recovery from it being hit by another.
  With two attempts of a publication two failing Redis calls are all attempts of
  one booking, each with or without effect; so they are in `SessionPipeline`.
  In `OfflineLearning` it is one fault of any kind; the theorems are about any number.
  `PositionLiveness` has one fault of any kind, `Trail` a failing call and a
  crash. The constraints of runs with a liveness property cut only steps without
  fairness: faults, TAKENs, the loss of the feed and of AUTO mode.
* **sessions**: two days are needed for a range to be stale, two sessions for one
  to be popped late behind another, an asset of both for a range to be read twice.
* **budget**: LON, NY and APAC are the sessions with a budget, NY_PRE the one
  without; the stakes (risk 2, win 10, budget 12) are such that one trade can use
  up most of a budget and two all of a day's; two days make a reset matter.
* **learning**: two outcomes of an asset make a batch that can be cut, the one of
  another stream makes the readers alternate; a window of two has a first and a
  second high probability.
* **detectors**: a cut-off at two is passed at the third observation; the
  likelihoods lie far enough apart for both levels to fire after it. The returns
  stand on both sides of the allowance and of the limits.
* **AIMs**: one AIM shows what a stale write does to itself, two what the choice
  of an AIM for its kind and the walk over all of them do. A
  warm-up of one trade and one of two, the second of which can be cut by a fault,
  and streaks of one are the shortest that have a before and an after.

`CHECK_DEADLOCK` is off where the bounds on days, batches, faults and outcomes
let a finished system stop, and in `Trail`, where the last step is that
the position is booked.

### Fairness

* `PositionLifecycle`: both threads of Online loop for ever and the container is
  restarted (the restart policy in `docker-compose`), hence weak fairness of the
  listener, the pass and `Restart`. `OpenPosition` is strongly fair: it waits for
  a lock the session loop takes for a pass and leaves free for most of the
  seconds in between.
* `NkdTrail`: weak fairness of the pass and of the restart. `CommandExecution`:
  of the reader with its restart; a broker call ends, by its 10 s timeout at the
  latest.
* `SessionPipeline`: weak fairness of the steps of Phase A and Phase B, and
  strong fairness of the clock, because time goes on whatever the loop is doing.
* `OfflineLearning`: weak fairness of the listener, the scheduler and the next
  day. `AimLifecycle`: of both threads, and strong fairness of the start of the
  daily and the weekly task: their dates come again and again, though the
  scheduler may be busy with another task at any of them.

The market, quotes, the broker's refusals, the user, `Publish` and all faults
are not fair, so `SignalIsHandled` holds although a broker may refuse
everything, and `SessionCloses` although no quote may come. Without faults being
bounded no liveness property would hold: the bound says that they stop.

## 5. The theorems

They hold for every value of the constants that the modules' `ASSUME`s allow, in
particular for any number of positions, orders, towers, sessions, assets, AIMs
and faults. No theorem assumes fairness. Each rests on an inductive invariant,
because the property by itself says too little about what a thread has in hand.

**PositionLifecycle.** `TypeCorrect` is inductive as it stands: lemmas give, for
each group of variables, what a step that touches it preserves and that the
other steps leave it alone. `BookingsBounded` (a position is in P3-D03 at most
once plus once per crash and failing write) is not: `BookingsInv` adds the
bookings a position can still get without a fault, one while it is open or yet
to be opened, and shows that only a fault raises the sum. `BooksAreInOrder`
needs the place of the pass: while a position is between two books, the next one
is strictly behind; and while it is published, how many attempts are left and
how many entries those that raised may have added. So an outcome that is
announced more often than it was counted was paid for by failing Redis calls,
and each booking gives at most `Attempts` entries. `AckedSurvives` and
`MemorySurvives` follow an entry through the listener's hand (`DurableInv`):
what is in the list is in the hash, or still to be put there by the listener, or
settled. `ExactlyOnce` says how many books a position has at each place of the
pass while nothing has failed (`ExactInv`). `SettlementImplemented` is the
refinement; it needs that a position leaves memory only when its loss is counted
(`SettledInv`). The ledger may announce an outcome once more only for an answer
that was lost.

**NkdTrail.** `BrokerHolds` and `NeverWeakens` rest on `TrailInv`: no copy of
the trail is ahead of the one it was made from (mirror and snapshot of a
callback behind memory, memory behind a request under way: `CopiesLag`), and as
long as every call was answered the broker is at least as tight as all of them
(`BrokerLeads`). `ProfitLocked` adds the arithmetic: a candidate computed in a
phase locks that phase's profit (`CandidateLocks`), and a tighter stop locks
more (`TighterLocksMore`). It holds for whichever of the `Entries` the profit is
counted from, but for `Slip`, and for the trail in memory as well as the stored
one: nothing keeps the entry price of Redis, overwritten by UserStream, together
with the stop and the phase beside it. `AlertedOnce` proves
`AlertedOncePerLife`, which no run checks.

**CommandExecution.** `IInv` ties the reader's place to what it has in hand
(`InHand`: the pending list, `Filled`: an unprotected position while the stop
or the close is sent); `TypeCorrect` and `PendingInHand` follow. `Books` counts
the order under way apart from what it has announced, covered by a target and
protected: with that order counted, `TAKEN <= open`, `targets <= open` and
`naked <= faults` are kept by every step, which proves `AnnouncedIsOpen`,
`TargetsHavePositions` and `NakedIsPaidFor`. `OneExecutesPerDay` needs only that
a recorded decision is what the day's hash and the tower's parity say.
`NothingIsLost` rests on `Deliveries`: the stream and the pending list repeat no
batch, share none, and with the routed batches they hold all that was published.
`OrdersAreNotRepeated` rests on `Entries`: an order is fresh while its batch is
undecided, or the order unsent, since the reader last started; a fresh order may
open one more position, and only a restart, paid for by a crash or a failed
acknowledgement, makes an order fresh again. It uses `OrdersAssumption`: an
order belongs to one batch and is listed once.

**SessionPipeline.** `RunInv` gives every pending session a run of its own;
`CloseInv` then says that a pending session was closed only by passes that B8 or
B9 cut short, which proves `ClosedOnce`. For `SignalledOnce` `SignalInv` adds
that an asset not yet resolved has no signal in its run and that while a batch
is sent its entries are those of attempts that raised, so that a second entry of
a signal was paid for by one; and for `Watched` that a signal without shadow is
one the loop is about to register.

`RangesAreFresh` follows a range from the early registration on: while Phase A
works, the ranges of the session's own assets are of today; and an asset that
waits for its own session has a range of today and of its run (`FreshInv`),
because by the end of the day it is overdue and the clock waits for the loop. It
uses `CutoffAssumption`: every cutoff lies within its day. In
`session_registry.json` the latest is that of APAC, 18:35.

**DailyBudget.** `ResetOnce` counts the restarts of Command against the resets.
`TodaysBudget` needs `DateInv`: the date of every row, of the row B7 holds and
of the rows still to be reset. `LedgerHolds` and `TradesFit` rest on
`LedgerInv`, and it on facts about sums over sets of sessions (`SumsExist`,
`SumUnfolds`, `SumOfNaturals`): while nothing has disturbed the day, the row of
a session opened today is what its trades made, the numerator of its budget is
its share of what the earlier sessions had left (`RowsAreHistory`), before the
reset a session without a row of today has no trade of today
(`RowsBeforeReset`), and each trade of today fits (`FitsDay`). The last holds
because a session's own share is one of those that remain, so that a limit that
layer 1 keeps is at most what is left of the day's. It is about the trades that
B5C screens: the others are let through whatever the day has lost, and what they
lose counts against those that follow. Shares are any positive numbers, amounts
any naturals.

**OfflineLearning.** `LearnedOnce` needs to know which outcomes are fresh:
undelivered, or behind the one in hand in a batch whose members differ
(`StreamInv`, `HandInv`, `FreshInv`). `Remembered` relates memory and row of a
detector to the outcomes that have been persisted (`RowInv`): an outcome is
forgotten by a restart only, whose restore raised or found a row without
detector columns. Whether such rows are rare it does not say; they are not
(section 6). `LossIsPaidFor` is a count: `Lost` adds to the outcomes that have
missed a block the one that waits for its acknowledgement and is about to;
`ThroughInv` says that the outcome in hand is through all blocks before its
place, so that an acknowledgement without a fault loses none; and `LossInv` that
the lost ones are paid for, one by an exception in a block, a batch by the
listener's or by a crash. `TypeCorrect` needs that a calibration counts a finite
set of assets.

**DecayDetection.** `ProbabilityIsHazard` is about the loop: after `r` run
lengths the weight moved to length 0 and the weight that grew are, added up over
what was visited, in the proportion of the hazard rate (`LoopInv`), until a weight
is cut off at `MaxRun`. `Silent` follows because the hazard rate lies below both
thresholds (`HazardAssumption`). `ShiftFound` says that no stretch of observations
since the last breach has risen, or fallen, by more in total than the highest
limit, whatever each of them adds: every such sum is at most CUSUM's, and that
at most the limit (`CusumInv`).

**AimLifecycle.** `OnlyGrantedAreActive` must follow every row that a thread has
loaded and will write back (`StatesInv`, `HandInv`) and every weight and counter
that the listener still carries (`LearnInv`): each `ACTIVE` among them was granted,
and a grant is never taken back. It is not about a lost DEACTIVATE.

Model-checked only:

* all liveness properties (`ExitIsNotMissed`, `TakenIsHandledUnlessCrash`,
  `TrailCatchesUp`, `SignalIsHandled`, `SessionCloses`, `JobsAreRun`,
  `StreakIsSuppressed`, `DiversityRestored`): liveness under fairness and
  `ENABLED` are beyond this prover.

Every invariant and every action property that a run checks is stated by a
theorem, and so is the refinement. Sums are folds, whose value for every set needs
an induction; the library's induction theorems take an operator, so the lemmas in
`DailyBudgetProofs` argue by a smallest counterexample instead: the proper subset
relation on the subsets of a finite set is well-founded (`SmallestSet`).
Cardinalities come from `FiniteSetTheorems`.

No module declares a `RECURSIVE` operator.

## 6. Where code and documentation disagree

One disagreement is a run, `offline_restore`: `_restore_detectors` says that
"accumulated detector state survives restarts"
(`captain-offline/.../orchestrator.py:869`), but the table it restores from also
gets rows without detector columns, and then the latest row has none. The
commonest is that of the daily drift detection (`b1_drift_detection.py:226`, for
every ACTIVE or WARM_UP asset): after it each restart before the asset's next
outcome loses the detectors. Others come with decay events, calibrations and the
bootstrap of an asset (`bootstrap.py:149`). Besides, a restore that raises is
logged and the process goes on with empty detectors, whose next row hides the old
one (`orchestrator.py:920`).

Met while modelling and contained in the modules, without a run:

*Online*

* the silo and the breaker are said to be updated atomically, but the second
  `INSERT` may fail alone; `BooksInOrder` says what does hold;
* a publication is tried up to three times, but XADD is not idempotent: if only its
  answer is lost, an outcome (`b7_position_monitor.py:757`) or a batch of signals
  (`b6_signal_output.py:528`) is in the stream twice;
* UserStream overwrites the `entry_price` of a stored position with the broker's
  average (`main.py:355`), and a restart computes phases and profit from it, although
  memory went on with the other;
* the UserStream write-back is said not to race with B7, but it can put a closed
  position back into the hash (`FaultFreeExactlyOnce` is about the books);
* stream delivery is said to be durable, but Online never reads its pending list
  (hence `TakenIsHandledUnlessCrash`);
* a position closed at the broker is said to be dropped (`main.py:346`), but it
  stays open here;
* a rejected modify is said to be repeated at the next poll, but in phase A the
  step gate waits for the next boundary; the first modification replaces the
  initial stop without the ratchet's comparison; the alert flag is lost in a
  crash; B7 books `SL_HIT` at the initial level after the trail moved the stop;
* an asset that P3-D00 lists for a second session is traded there on the range of
  its first, of yesterday if the early registration failed
  (`orchestrator.py:391-402`; `ORTracker.clear` has no caller), so `FreshRange` is
  about an asset's own session;
* a halt set by the user is said to be stored in D17 by Command, which does not.

*Command*

* a failed stop is said to lead to a flatten, but not if the call raises
  (`b3_api_adapter.py:401`);
* towers are said never to drift, but the parity key has the date of the handling
  (`orchestrator.py:535`), so that they may across midnight; a batch recovered from
  the pending list is executed however old it is;
* B5C skips every layer for a trade that B4 marks TRADE_WARMUP, and for an account
  without Topstep rules (`b5c_circuit_breaker.py:152-157`), but the trade stays
  recommended and its result counts in the ledger;
* an effective budget of exactly zero reads like a missing one and stands for
  the whole day's halt (`b5c_circuit_breaker.py:368`), so `TradeFitsDay` ends when
  the budget is used up; the row of NY_PRE is never reset
  (`b8_reconciliation.py:656`).

*Offline*

* BOCPD's probability is its hazard rate, so that Level 3 and BOCPD's Level 2
  cannot fire within the first 500 observations of a detector (`b2_bocpd.py:116`);
* an escalation marks the asset as at Level 2 (`_level2_active`) before
  `trigger_level2` has done anything, so that one that raises is repeated only when
  the probability has risen further;
* a counter of an AIM in Redis is changed before its weight is inserted
  (`b1_dma_update.py:239`): an INSERT that raises leaves a streak ahead of the
  weights;
* a job is executed again by each sweep, because the query finds every row that
  was ever `PENDING`; finished transitions are loaded again
  (`b4_injection.py:340`), and the phaser of an adopted strategy never starts;
* the token of `SESSION_CLOSE` is only compared with the last one
  (`orchestrator.py:795`); a dictionary is iterated by one thread and changed by
  the other (`orchestrator.py:989`); a restart repeats the daily run
  (`orchestrator.py:1246`); `_confirm_contract_roll` only logs;
* `update_d00_fields` reads a row and writes it back whole
  (`questdb_client.py:395`); the warm-up check reads the whole history of P3-D00
  (`bootstrap.py:231`);
* the update of the weights reaches every AIM that was ever active, until the
  compaction removes those rows; after it, a suppressed AIM is frozen as it is;
* `ACTIVATE_AIM` of a suppressed AIM does nothing, and one without a weight is
  activated but neither learns nor is suppressed by its streak;
* the diversity check says "all suppressed" but acts when none is active, and
  may activate an AIM that has never warmed up; the sensitivity scan writes
  `ACTIVE` for AIM-13 whatever its status was;
* the life cycle, the retraining and the compaction write back what they have
  read: a `DEACTIVATE_AIM` in between is lost. If the compaction is killed
  between dropping and refilling, the AIMs are seeded anew at the next start.

## 7. What is not modelled

Within the modelled components: amounts of money, fees and prices except for
the trail's and the budget's; notifications; the D34 and D17 logs; a broker that
fills partially; more than one user; in Command, the command reader, the scheduler
and `bracket:pending`; in Offline, the command reader but for the AIM commands,
the reports, the calibration itself and the HMM of AIM-16 (the drift detection
detects nothing, since no AIM's autoencoder is ever fitted; the row it appends
daily for every asset is in `OfflineLearning`); in B5C the layer 0 and
the statistical layers 3 to 6, which decide one trade from real-valued parameters.

Components that stay out, and why:

* sizing, trade selection, quality gate, features, AIM inputs, regime, the
  statistics of the pseudo-trader and of the sensitivity scan: arithmetic on
  real-valued market data without state or protocol;
* incidents, notifications, injection decisions, TSM files, version snapshots,
  account life cycle: sequential bookkeeping with one actor; what a snapshot
  does to a read and a write around it is in `AimLifecycle`;
* market and user streams: a wrapper around a third-party client; the modules
  that use them have its callbacks as actions of their own;
* GUI server, reports, Telegram, replay, scripts other than the compaction:
  presentation and tooling;
* storage and schemas: the modules use only that a table is append-only and
  that every write commits by itself.
