# Verification of the alpaca_bot trading runtime

`alpaca_bot` trades equities (and options) on an Alpaca account.  One process
runs three activities that share a Postgres ledger: a *supervisor* thread that
once a minute reconciles the ledger with the broker, decides entries and exits,
and dispatches orders; a *stream* thread that applies the broker's trade updates
as they arrive; and the broker itself, which fills, ends and refuses orders at
any time.  What must hold is easy to say and hard to test: the ledger ends up
agreeing with the account, no share is sold twice, no position is left without a
stop, a loss limit stays a limit, whatever the order in which the three meet, and
whatever is lost, late, refused or cut off by a crash.

This directory holds TLA+ models of that program, TLC configurations that check
them on small instances, and proofs that TLAPS checks for every instance.  Paths
below are relative to the repository root; these letters stand for files under
`src/alpaca_bot/`: `SR` `runtime/startup_recovery.py`, `OD`
`runtime/order_dispatch.py`, `TU` `runtime/trade_updates.py`, `SV`
`runtime/supervisor.py`, `CI` `runtime/cycle_intent_execution.py`, `EN`
`core/engine.py`, `OP` `runtime/option_dispatch.py`, `RP` `storage/repositories.py`.

## 1. Inventory

| Component | State | Operations | Talks to | What is hard | What makes it correct |
|---|---|---|---|---|---|
| Trade updates (`TU`, `trade_update_stream.py`) | none of its own; the ledger | one handler with a branch per update and order kind; replacement of a live stop | ledger under `store_lock`; broker *outside* the lock | late, repeated, missing updates; the broker call between two transactions | position follows the fills, fills are kept, the stop has the position's size |
| Startup recovery (`SR`) | none; ledger and a snapshot of the broker | one transaction of six passes | broker reads, then the ledger | the reads are not one instant, and the ledger moves between them and the transaction | never two sells for the same shares, never gives up a live stop, converges |
| Order dispatch (`OD`) | the pending rows of a round | mark, submit, save; cancel of a partial entry before its stop | ledger and broker alternately | crash or fill between submission and save; lost answers; refusals | never submits twice, nothing stuck, a refused stop becomes an exit |
| Intent execution (`CI`) | none | move a stop, exit a position, restore cover | ledger and broker alternately, outside the lock | a stop canceled, replaced or filled while it is moved; crash between cancel and exit | the stop never falls, an exit is known, a failed exit keeps its cover |
| Decision engine (`EN`, `cycle.py`, `cycle_runner.py`) | none | exits, stop updates and entries of one strategy | ledger rows in, intents and pending rows out | four passes over one stop; a greedy choice under two limits; twenty ways out of a loop | stops ratchet, sizes stay within the budget, nothing better is left out |
| Strategies and indicators (`strategy/`) | none | functions of bars | | index and window edges, a bar that is not complete | no signal looks ahead, long and put do not oppose each other |
| Sizing and weights (`risk/`) | none | functions | | rounding; caps and minima that move each other | bounds on size and risk, capital conserved |
| Supervisor loop (`SV`) | sessions, counters, flags of the day | startup, `run_cycle_once`, `run_forever`, watchdog | everything above | reads that fail, a dead stream thread, modes that change, slots shared by stale reads | progress in every mode, one thread, no session missed, slots used once |
| Session state, gates, floor (`SV`, `trader.py`) | flags, baselines in memory *and* in the ledger | update per cycle, reload at start, operator's commands | ledger | memory and ledger disagree after a restart or a lost save | a day that is closed to entries stays closed |
| Option dispatch (`OP`) | `option_orders` | submit, save, flatten at the close, breaker | ledger, broker | an answer saved over a fill; sales repeated every cycle | no sale without cover, positions end |
| Orders, positions and reports on them (`RP`) | tables | upserts; queries that match exits to entries | Postgres | COALESCE of fills; rows saved again in another order | an old record never erases a fill; gates see what was earned |
| Bootstrap, lock, connection (`bootstrap.py`, `storage/db.py`, `locks.py`) | advisory lock of a session, one connection for two threads | start, reconnect, commit, roll back | Postgres | the lock is lost with its session; one thread ends the other's transaction | one instance writes, work is saved whole |
| Broker gateway (`execution/alpaca.py`) | none | submit, cancel, replace, list | Alpaca over HTTP, with retries | a retry of a call whose answer was lost | |
| Admin commands (`admin/`) | rows | halt, close-only, resume, floor | ledger, beside the supervisor | written between a read and a save of the supervisor | a command is not undone |
| Notifications, summary, web pages | sent flags | one summary a day; pages | ledger | repeated or lost summaries | one a day, with the right numbers |
| Settings, replay, nightly jobs, tuning, backfill | files, rows | batch | ledger | little concurrency | |

`PROJECT.json` lists, component by component, what is left out, and forty hazards
at their lines with the properties that watch them.

## 2. The models

### How they fit together

```
Alpaca <- Ledger <- TradeUpdates, StartupRecovery, OrderDispatch <- TradingCore
    TradingCore <- MCTradingCore, MCLosses, DocClaims, TradingCoreProofs
OpenPosition <- IntentExecution   <- MCExits, MCStopUpdates (by INSTANCE), IntentExecutionProofs
StopContract <- PositionRules     <- PositionRulesProofs           (refinement)
EntrySlots, EntryDecision, EntrySignals, StrategyWeights, PositionRules <- MCDecisions
EntrySlots, EntryDecision, EntrySignals, StrategyWeights, SumLemmas <- EntriesProofs
SessionGates <- MCSessionDay, SessionGatesProofs (both with ConfidenceFloor by INSTANCE)
OptionOrders, TradeAccounting <- MCBooks (with LosingStreaks by INSTANCE)
OptionOrders, TradeAccounting, SumLemmas <- BooksProofs (with LosingStreaks by INSTANCE)
ProcessBounds <- Instances, StoreLock, StreamWatch, SessionLoop <- MCProcesses, ProcessesProofs
OptionBreaker (for the claims of §4)
```

An MC module that instantiates several models, or one model with several values of
its constants, has a variable `scene` (`day` in `MCTradingCore`) that says which of
them a behaviour is of; the variables of the others are off, or stay where they
start.  The parts do not share state in the code either: a scene is a question, not
an interaction.  Where components do share state (`TradingCore`,
`IntentExecution`, `EntrySlots`, `SessionGates`, `OptionOrders`), one module composes
them.

The grain is that of the locks: what the code does inside one transaction under
`store_lock` is one action, and every broker call is an action of its own, so that a
fill, an update, a command or a crash can fall between any two.

### The modules

| Module | Stands for | State | Actions |
|---|---|---|---|
| `Alpaca` | account and websocket (external) | `bo`, `held`, `low`, `updates`, `streamUp` | fills, lapses, price moves; `PlaceOrder`, `CancelOrder`, `ReplaceOrder` for the callers |
| `Ledger` | `orders`, `positions` | `rows`, `pos` | `Saved`, `SavedFill`: the upsert of `RP:404` |
| `TradeUpdates` | `_apply_trade_update_locked`, `_replace_broker_backed_stop_quantities` | `sreq`, the replacement under way | `ApplyUpdate` (one transaction), `ReplaceAccepted`/`Refused`/`Fails`, `SaveReplacement` |
| `StartupRecovery` | `recover_startup_state` | `snap`, what was read of the broker | three reads and `Recover`, the passes in the code's order |
| `OrderDispatch` | `dispatch_pending_orders` | `pending`, the round; `job`, the order in hand | `Take*`, `CancelPartialEntry`, `MarkSubmitting`, `Submit*`, `SaveAnswer` |
| `TradingCore` | startup, `run_cycle_once`, stream thread, crashes | `pc`, `mode`, `rounds`, `noEntries`, `aged`, `booting` | one per step between two points where another thread or the broker can act |
| `OpenPosition` | broker with prices, stream thread, recovery and dispatch around one position | orders with prices, rows with stop prices, `resize` | fills, updates, resync of a resized stop; recovery and dispatch as one step each |
| `IntentExecution` | `execute_cycle_intents` | `work`, the intent in hand and what it has read | read, cancel, replace, submit, save of stop updates and exits, each its own step |
| `StopContract` | abstract: a stop that only moves towards the profit and a trade that stays closed | price, stop, closed | move, close |
| `PositionRules` | `evaluate_cycle` for one open position | the trade's levels, the bar | one action per bar: nine exits or up to four passes of stop updates |
| `EntrySignals` | eleven long and eleven put evaluators, indicators, contract choice | bars of two days | a bar is added; evaluators are operators that yield a set |
| `EntryDecision` | the entry half of `evaluate_cycle` | loop position, candidates, choice, records | gates, one symbol, ranking, one choice |
| `EntrySlots` | the cycles of several strategies, their reads, dispatch, stream | rows, positions, what the cycle has read | each read, each strategy's turn, each order, crash |
| `StrategyWeights` | `compute_strategy_weights`, `compute_confidence_scores` | weights of a round | start, one round of cap or minimum, end |
| `SessionGates` | loss limit, consecutive-loss gate, flatten, trading status, readiness | rows and their copies in memory | the steps of a cycle, start, save lost, market, operator |
| `ConfidenceFloor` | raise and release of the floor beside a command | the row, or that there is none yet; the check and the command under way | load and store of both, day, market |
| `OptionOrders` | `option_dispatch.py`, flatten of options | rows, broker orders | cycle, mark, send, save, fills recorded, kill |
| `TradeAccounting` | the queries that match exits to entries | entry and exit rows, what was earned, whose rows were saved out of turn | fills of entries and exits, rows saved again, days; reports are operators |
| `OptionBreaker` | rolling loss of an option strategy; in no run, it serves the claims of §4 | fills, enabled | fills, check, operator, day |
| `LosingStreaks` | exclusion of losing strategies | streaks, results of today, positions, what the cycle has weighed and announced, log | cycle (its read of the options' results may fail, its events may be dropped), entry, exit, day ends, restart |
| `Instances` | processes and the advisory lock | lock, sessions, step of each process | start, reconnect (given the lock, refused, or its query for the lock raises), cycle, save, drop, kill |
| `StoreLock` | two threads, one connection, one transaction | lock, connection, buffered and saved rows | take, write, commit, probe, reconnect, report |
| `StreamWatch` | stream thread and watchdog | threads, name, backoff, attempts | stream ends, thread ends, watchdog after a cycle |
| `SessionLoop` | `run_forever` over days | clock, sessions, summary flags | iteration of each kind, clock failure, crash, day |

Orders of the core are identified by the client order ids the code derives: `entry`,
its protective `stop` (`TU:1006`), `recovery.stop` and `recovery.exit`, the
`rejection.exit` of the dispatcher, and `stop.replaced`, the id that the broker gives
to the replacement of a stop.  `OpenPosition` adds the bar or the number of the
replacement, for stops that are moved again and again.

### What the models leave out, and why it is sound or a stated limit

Core (`TradingCore` and what it extends)
- one symbol, one strategy, a long position, one session day; the entry has been
  decided (`cycle.py:207` saved it as `pending_submit`), the stop price is fixed;
- the orders of a round are taken in any order (the code follows `created_at`);
- `accepted` stands for every status of a live order, `NULL` fills are 0;
- a difference of entry prices alone is not a mismatch; the database does not fail;
- an order lapses only if it rests (the entry and stops);
- one replacement of a stop per behaviour; its own later replacement is refused;
- stops are refused when the market is at or below their price, sells when they
  exceed the free shares or the entry is open (wash trade), any order when its
  client order id is known: the refusals `OD:650` and the recovery are written for;
- a call lost in transit, with the retries of `execution/alpaca.py:42`, may or may
  not have been carried out; the answer is then an error or "duplicate";
- in extended hours the recovery's database-only mode gives no new intent.

Intents and rules
- `IntentExecution` has long positions only; a short one mirrors sides and prices.
  `OpenPosition` makes recovery and dispatch one step each, which `TradingCore` splits;
  orders that block an exit are canceled one by one in the code and at one instant here,
  but each of these calls may fail by itself; an exit of the session before is `accepted`
  or gone, for the code takes `new` and `held` the same way (`CI:687`);
- `PositionRules` takes ATR, daily trend and VWAP as inputs of a bar, for they need
  more history than a cycle keeps.

Entries
- `EntrySignals` starts a history with positive prices and days in order, as the data
  service gives them; a day without trades has no bar; it works in ticks and whole per cents and compares averages by
  cross-multiplication; ATR is exact for a period of 1 only; a daily series comes with
  or without today's bar; an option chain is eligible as a whole or absent;
- `EntryDecision` chooses what the market shows of a symbol when the loop reaches it;
- `EntrySlots` leaves out failed reads of closed orders and lost calls (the core has
  both): with such a failure an entry that was bought and sold while nobody looked
  counts as missing, and its symbol could be traded again; signals are arbitrary; a stop
  row stands for a recorded position; a sale is recorded once, by the stream thread or
  by the recovery, whichever comes first; a holding that the ledger gives to another
  strategy is not exited by this one's turn.

Day and books
- `SessionGates` counts money in units of the limit; the scene with commands has
  one step of loss that is over the limit, the scene of shorts an external short position
  whose loss is read at another moment than the equity;
- nothing seeds the row of the confidence floor: `ConfidenceFloor` begins with and without it;
- `OptionOrders` does not tell strategies apart, its cycles are in the regular
  session; on a `calm` day calls succeed, fills are recorded between cycles and nothing is
  killed; sales are bounded by `MaxSales`;
- `TradeAccounting` counts quantities in parts of a share, of which an entry order asks for
  one or two, at even prices (an average of two is a number), and has at most two exits a
  trade; a recovery saves the row of an exit that is still open again once a day; the digest
  counts whole shares only (`int(qty)`, `runtime/daily_summary.py:155`);
- `OptionBreaker` has one contract; `LosingStreaks` does not number days, and caps a streak
  at the length that excludes; which strategies a session weighs is arbitrary.

Process
- `Instances`: the session of a killed process times out, a dropped session frees the
  lock at once or later; ten failing cycles in a row are three; when the query for the lock
  raises after a reconnect the new connection stays in place, the next probe finds it alive
  and the process works on without the lock (`bootstrap.py:119`-`141`);
- `StoreLock`: the report of a failure is written and committed in one step; an
  option order has one row;
- `StreamWatch` counts time in cycles, attempts up to five, and does not have the
  path that stops a thread still alive, which its two callers never reach;
- `SessionLoop` leaves out days that close early and a clock that is wrong.

## 3. The runs

| Run | Module | Bounds | Properties | What it shows |
|---|---|---|---|---|
| `partial_fills` | `MCTradingCore` | `quiet`: 3 shares, 1 lost call, 1 crash, normal and extended, market above the stop; `free`: 2 shares, no failures, the market falls below the stop (and rises again between cycles) or the entry outlives its window | `TypeOK`, `SnapshotStaysSafe`, `RecoveryQueuesOnlyForHeldShares`, `ReconcileNeverClearsLiveStop`, `NeverResubmits` | two shares are the least that fill in parts, make a stop be resized and an entry canceled in part; with three a resize is itself resized, and interrupted |
| `crash_and_stream_loss` | `TradingCore` | 1 share, 1 crash, 1 death of the stream | `PositionEventuallyAgrees`, `EventuallyCovered` | recovery from both kinds of loss at every point |
| `one_trouble` | `MCLosses` | 1 share; one of a lost call, a lapse, an entry out of its window, another mode than normal (state constraint `OneTrouble`) | `FillsEventuallyRecorded`, `FlatOnceBelowStop` | convergence whatever single thing goes wrong; halted or after-hours cycles, even for ever, do not stop the reconciliation |
| `stop_updates` | `MCStopUpdates` | 2 shares with a late fill over 2 bars in a market that falls from 3, 2 replacements; 1 share over 2 bars and 3 prices with a crash and a lost call, 1 replacement; 1 share over 2 bars and 4 prices with 2 replacements; 2 shares, a partly filled entry | `StopNeverFalls`, `SoldStaysSold`, `LedgerEndsTrue` | moves of a stop beside the stream thread, which moves it too, and the broker |
| `exits` | `MCExits` | exits at the close with a crash, a lost call, a stale exit; exits at the close of 2 shares whose entry fills in parts or late; exits of some cycles with a crash and a lost call; all over 3 bars and 3 prices | `ExitsAreKnown`, `WorkingExitIsKept`, `FlatInTheEnd`, `CoverComesBack` | an exit is known, works until it is over, and never leaves the position bare for good |
| `decisions` | `MCDecisions` | 5 bars of 3 shapes over 2 days, 2 histories; 2 symbols with everything that can be in the way; 3 symbols, 3 slots, 3 rank modes; 4 strategies with 5 Sharpe ratios; 2 strategies, 2 symbols, 2 cycles, 1 crash; one position, long or short, at prices 1..7, eight rules, ages to 2 | `SignalsAgree`, `SignalsStand`, `EntriesAreBounded`, `ChoiceIsSound`, `WeightsAreSound`, `SlotsAreShared`, `OneCyclePerBar`, `LevelsRatchet`, `LossStaysCapped`, `KeepsContract` | both halves of `evaluate_cycle`: from bars to slots, and every bar of a small price range through all exits and passes |
| `session_day` | `MCSessionDay` | limit 1 of at most 2 losses, gate after 2, a lost save, a crash; limit 0 beside an external short that lost 1, a crash; one command, the audit, a crash; 3 equities, one command with 2 manual floors, age 2, with and without a row | `OneBaseline`, `BlockedForTheDay`, `BreachIsFlattened`, `FloorFollowsEquity` | what closes a day keeps it closed; the floor returns |
| `processes` | `MCProcesses` | 3 instances, 5 faults; 2 pieces of work of 2 rows in each thread, 2 faults; 4 deaths of the stream, 3 faults; 2 days, 2 faults, 1 crash | `SessionHoldsLock`, `CycleWorkIsWhole`, `OneThread`, `OneSummaryADay`, `NoSessionMissed`, `ProcessRecovers` | one writer, whole transactions, one stream thread, every session worked, all of it regained after faults |
| `books` | `MCBooks` | 2 contracts with a kill, or to the close; 2 trades of 2 half shares over 2 days; a stock and an option; 2 strategies, streaks of 2, 1 restart | `OptionsAreCovered`, `OptionsAreSettled`, `ReportsAreTrue`, `ExclusionIsForGood` | what follows the trades, and what gates read of it |

Every passing run exhausts its state space, `one_trouble` the part of it that its
constraint leaves.  Cycles, price moves and updates are not
bounded in the core, nor cycles in `processes`; where a bound ends a model (bars, days,
cycles of `decisions`, `session_day`, `processes`, `books`)
`CHECK_DEADLOCK` is off, elsewhere on: the supervisor always has a step.

Why the bounds are enough.  Every hazard of the core needs at most two partial fills,
one replaced stop and one loss; the runs with two and three shares have the quantities,
those with one share the losses, `one_trouble` every kind of trouble alone.  Two
instances can hand the lock over, the third waits while they do.  Two rows are the
least a lost connection can tear apart, two pieces of work the least of which one can
end the other.  Two strategies and two symbols are the least that compete, a
slot the least that is full.  Two days are the least over which something is carried.

The properties with many parts are conjunctions named for one theme; the comment of
each says which parts it has, and the parts are defined, with their own comments, in
the model they are about.

- `SnapshotStaysSafe`: a recovery that saw no open sell order may act on that until
  it writes, although the stream thread runs between its reads.
- `RecoveryQueuesOnlyForHeldShares`: a new stop or exit of the recovery never
  competes with an open sell order and never exceeds the holding.
- `ReconcileNeverClearsLiveStop`: three misses never clear a stop that is open
  under the bot's own id.
- `NeverResubmits`: an order that a dead process submitted is found before its row
  is dispatched again: what is submitted is not open, and an entry that bought shares
  is not submitted at all.  An entry that lapsed unfilled while the process was down is
  submitted again, rightly so.  After a lost answer only the broker's refusal of the
  duplicate protects the account, so the property speaks of runs without one.
- `StopNeverFalls`: over two bars without lost calls, for a position that is sold as a
  whole; section 4 has what a lost answer and a late event of the entry do to a stop.
- `SoldStaysSold`: an intent that read the ledger before a fill does not undo it.
- `WorkingExitIsKept`: no exit cancels another; a stop that is submitted beside a working
  exit does (section 4), and is left out.
- `FlatInTheEnd`: ledger and account agree for good, and what every cycle
  wants closed is closed, over crashes and lost calls.
- `CoverComesBack`: an exit cancels the stops first; if it then fails, or the process dies
  there, the position is closed or all its shares have orders again.  A second failure is
  left out: a recovery stop that ended is not renewed at its price (section 4).
- `LedgerEndsTrue`: supervisor and stream thread replace the stop in turn, each saves the
  replacement over the row as it was before its call, and fills come between; in the end
  the position is the account's and an active stop of the ledger works at the broker.  Its
  quantity is another matter: `LaterFillsResizeStop` in section 4.
- `BlockedForTheDay`: a block once announced survives restart, lost save, luck and
  command, in regular hours.
- `FloorFollowsEquity`: a raise, its release and what they are measured from, once the floor
  has a row.  Before that nothing is remembered: `ImprovementIsSaved` in section 4.
- `SessionHoldsLock`: of sessions that were given the lock; the process whose query for it
  raised works without (`OneProcessWrites` in section 4).
- `ProcessRecovers`: trading, connection and stream come back after any fault within
  the bounds.
- `ReportsAreTrue`: four matchings of exits to entries against the cash that moved, as
  long as rows are saved in turn; in whatever order they are saved the reports of a day
  agree with each other, the digest only for stocks sold in whole shares.
- `ExclusionIsForGood`: without entries a losing strategy has no win to come back with, and it
  does not come back, over days, restarts and the sale of a stock it had carried.  The ways
  out are an option held into the day, and an entry in a cycle that overlooked the exclusion:
  a failed read of the options' results counts as no losses (`SV:680`), a session
  without Sharpe ratios excludes nobody (`SV:669`).

Every property has a mutant in `PROJECT.json`: a plausible slip in the code under
which TLC finds that property violated in the same run.

### Fairness

- Core: `WF(Supervisor)` (`run_forever` loops with a sleep and catches what a cycle
  raises), `WF(Stream)` (the handler takes the next update as long as there is one),
  `WF(Sells(c))` per sell order (a market executes an exit, and a stop while the price
  is through it).  Nothing makes the entry fill, the price move, an order lapse, a call
  fail or the process crash.
- `exits` and `stop_updates`: the same three, and bars go on coming.
- `session_day`: cycles, starts (Docker restarts the container) and commands end; the
  broker does not refuse a flatten for ever, and days pass (strong, as either may be
  disabled in between).
- `processes`: each process steps and is started again, orphan sessions time out, both
  threads run.  Strong for what waits for `store_lock` or a connection that may come and
  go (`RenewConnection`, `Report`, `Take("stream")`): Python's lock does not
  starve a waiter for ever.  The watchdog runs, and a thread whose stream ended ends.
- `books`: cycles, recording of fills; bars go on coming (strong: only between cycles);
  sales fill; nothing for buys.

## 4. Where documents and code part

Three claims have a run that refutes them.

| Run | Claim | What the code does |
|---|---|---|
| `failed_stop_not_renewed` | `docs/superpowers/plans/2026-05-01-production-bug-fixes.md:54`: "Queue recovery stop for any open position with no active stop" | a recovery stop in status `error` at the same price is not queued again (`SR:736`): the position stays without cover although everything keeps running |
| `intent_lowers_stop` | `SYSTEM_OVERVIEW.md:275`, `STRATEGY.md:128`: a stop only moves up | a late event of the entry sets the position's stop back to the initial one (`TU:816`), and the next intent moves the broker's stop down |
| `resize_lost` | `tests/unit/test_trade_updates.py:352`: "later fills must resize it" | the resize is refused when the supervisor has just replaced that stop (`TU:642` only logs it), the supervisor saves the quantity it had read (`CI:426`), and the stop stays short |

The claims below are stated beside the models and refuted by the constants given (the
specification is `Spec`, without faults and in normal mode, where nothing else is said).
No run checks them; a cfg with that one property does.  Documents are under
`docs/superpowers/` where only a dated name is given.

| Definition | Claim at | Code | Constants |
|---|---|---|---|
| `DocClaims!ExitInsteadOfStop` | `SR:670` (log) | `SR:621` | `EntryQty` 1 |
| `DocClaims!PendingStopsAreSafe` | `2026-05-08-ah-stop-order-continuity.md:60` | `OD:541` | `EntryQty` 1 |
| `DocClaims!EntryCanceledBeforeAnySell` | `2026-05-04-partial-fill-wash-trade-fix.md:32` | `OD:541` | `EntryQty` 2 |
| `DocClaims!AbsentStopsOnlyAreCleared` | `2026-05-02-reconciliation-grace-period-design.md:21` | `SR:857` | `EntryQty` 2 |
| `IntentExecution!CancelsNoFreshExit` | `CI:1830` | `CI:1820` | `Shares` 1, `MaxPrice` 3, `MaxBar` 2, `Intents` {update_stop, exit} |
| `IntentExecution!StopOnlyRises` | `STRATEGY.md:128` | `CI:531` | `Shares` 1, `MaxPrice` 4, `MaxBar`, `MaxReplaced`, `MaxFaults`, `MaxStaleExits` 1, `Starts` {stale_exit}, `Intents` {update_stop} |
| `EntrySlots!SlotCap` | `SV:1223` | `SV:1389` | `MaxSlots` 1 |
| `EntrySlots!ExposureCap` | `STRATEGY.md:695` | `EN:872` | `MaxSlots` 2, `MaxExposure` 1 |
| `EntryDecision!ExposureCapHolds`, `ChoiceEndsAtCap` | `STRATEGY.md:695`, `:99` | `EN:1405`, `EN:1410` | those of `decisions` |
| `EntryDecision!EverySymbolRecorded`, `FullAccountRecorded` | `STRATEGY.md:616`, `:69` | `EN:950`, `EN:836` | those of `Obstructed` |
| `EntrySignals!WatermarkIsNew` | `STRATEGY.md:448` | `strategy/high_watermark.py:32` | those of `Signals` |
| `EntrySignals!FirstCross` | `STRATEGY.md:532` | `strategy/vwap_cross.py:64` | those of `Signals` |
| `EntrySignals!FlagBreaksOut` | `STRATEGY.md:518` | `strategy/bull_flag.py:58` | those of `Signals` |
| `EntrySignals!BreaksTodaysRange` | `2026-05-07-bearish-strategies-design.md:147` | `strategy/bear_orb.py:25` | those of `Signals` |
| `StrategyWeights!CapHolds` | `STRATEGY.md:753` | `risk/weighting.py:84` | three names |
| `SessionGates!LossLimitSticks` | `2026-05-01-loss-limit-enhancements.md:41` | `SV:750` | `Gate` 0, 1 lost save, 1 crash |
| `SessionGates!OnlyBreachFlattens` | `SV:741` | `SV:638` | `Gate` 2, 1 crash |
| `SessionGates!ResumeEndsGate` | `SV:3465` | `SV:3413` | `Gate` 2, 1 command |
| `SessionGates!ResumeClearsBlock` | `admin/cli.py:385` | `runtime/trader.py:55` | 1 crash, 2 commands |
| `SessionGates!ShortsSpareTheLimit` | `SV:729` | `SV:730` | `ExternalLoss` 2 |
| `ConfidenceFloor!NeverBelowManual` | `2026-05-08-confidence-driven-capital-deployment-design.md:65` | `SV:2597` | manual floor 90 |
| `ConfidenceFloor!BaselineIsManual` | the same | `SV:2679` | 1 command |
| `ConfidenceFloor!ImprovementIsSaved` | `SV:2562` | `SV:2581`, `SV:2663` | no command, `RaisePct` 6, equities {90, 96, 100} |
| `OptionOrders!ClosesOnce` | `2026-05-26-trading-system-bugs-design.md:53` | `SV:1499` | not calm |
| `OptionOrders!OneEntry` | `SV:1203` | the same | not calm |
| `OptionOrders!SellsAllAtClose` | `2026-05-07-bearish-strategies-design.md:40` | `OP:101` | not calm |
| `TradeAccounting!FailSafe` | `RP:687` | `RP:662` | one stock, as in `books` |
| `TradeAccounting!SumOfTrades` | `RP:630` | `RP:691` | one stock, as in `books` |
| `OptionBreaker!BreakerTrips` | `2026-05-28-option-circuit-breaker-design.md:17` | `RP:2401` | `Prices` {1, 2, 4}, `Threshold` 2, `WindowDays` 2, 6 fills, 3 days |
| `OptionBreaker!SparesWinners` | the same, `:42` | `RP:2401` | 6 fills, 4 days |
| `OptionBreaker!ReenableHolds` | `SV:2715` | `SV:2748` | 6 fills, 4 days |
| `LosingStreaks!ExclusionLifts` | `2026-05-08-confidence-driven-capital-deployment-design.md:77` | `SV:667` | `FairSpec`, no restart |
| `LosingStreaks!OncePerTransition` | `SV:667` | `SV:388` | 1 restart |
| `Instances!OneProcessWrites` | `2026-04-30-resilience-gaps.md:112` | `bootstrap.py:139`, `SV:2512` | those of `processes` |
| `Instances!OneAtATime` | `SYSTEM_OVERVIEW.md:75` | `OD:642` | those of `processes` |
| `StoreLock!RecordedIsSaved` | `TU:376` | `SV:508` | `Options` FALSE |
| `StoreLock!FailedLeavesNothing` | `TU:376` | `OP:83` | `Options` TRUE |
| `StreamWatch!FiveFailuresAreTold` | `SV:1674` | `SV:3765` | 2 deaths, 5 faults |
| `SessionLoop!SummaryNeverEndsIt` | `SV:3529` | `SV:3536` | those of `processes` |
| `SessionLoop!AfterHoursAreWorked` | `2026-04-28-extended-hours-trading-design.md:34` | `SV:3620` | those of `processes` |

## 5. The proofs

Checked by TLAPS from the named assumptions on the constants alone: entries of any
size, any number of processes, rows, days, failures and crashes.

`TradingCoreProofs`
- `TypeCorrectness`: `Spec => []TypeOK`.  One lemma per component, one case per
  action.  Its content is in the natural numbers: a fill never takes the holding or
  the position below zero, a job that has begun names an order, and the CASE
  definitions of recovery and position always apply.
- `SnapshotSafety`: `Spec => []SnapshotStaysSafe`, inductive relative to `TypeOK`.  Its
  key lemma `NothingSold`: without an open sell order neither broker nor stream thread
  opens one (a stop is replaced only while open) nor lowers the holding, and the
  supervisor, the only other one who could, is between its reads.
- `RecoverySafety`: `Spec => RecoveryQueuesOnlyForHeldShares`.  `RecoveredRow` follows
  a row through the six passes: only the two that queue can leave it waiting, and
  both look at the snapshot's sells and take its holding; `SnapshotStaysSafe` carries
  that from the snapshot to the account.

- `GivenUpStopsAreOver`: `Spec => ReconcileNeverClearsLiveStop`.  A stop is given up when
  the snapshot has its order in neither list.  `SnapshotCovers`: from the first read to
  the write, every order that is open is in the list of open ones, or is the replacement of
  a stop that is, and what the list of closed ones has is over.  `OwnIds` pairs the
  broker id of every row, and of every row the dispatcher has read, with its order.
- `NothingIsSubmittedTwice`: `Spec => []NeverResubmits`.  The invariant `NoOrderTwice`
  says that every open order has a live row or one being submitted, and that no order that
  waits for its submission (`Waiting`: in a row, in the round read, in hand) is open, as
  long as no answer is lost (`OrdersAgreeUnlessLost`).  A crash may leave the row of a sent
  order `submitting`, so it needs the snapshot to know what was bought by then
  (`FillIsKnown`, `SnapshotKnown`), that nothing is covered before the entry is bought
  (`EntryFirst`, `Unfilled`, `StopReplaced`), and that the job in hand agrees with its row
  (`JobStands`).

`PositionRulesProofs`
- `StopUpdatesRatchet`: each of the four passes improves on the stop it is given
  (`LevelsChain`), whatever the prices and percentages.
- `RulesKeepContract`: `PositionRules` implements `StopContract` (the refinement that
  `KeepsContract` checks): a level that is taken is on the right side of the market
  (`Taken`), initial states map to initial states, every bar to a move, a close or a
  stutter.
- `LossIsCapped`: the pass of the cap takes it unless the market is in the way, and the
  passes before and after it only improve on the stop.

`EntriesProofs`, of the slots
- `StrategiesShareSlots`: `Spec => []SlotsAreShared`, by `ReadsBoundClaims`, the invariant
  that compares what the cycle has read with what is so by now.  Claims only shrink between
  a read and its use, so what was read bounds them (`ReadsAreSound`, `ClaimsAreVisible`
  to the recovery, `ClaimsAreBlocked` in the strategies' turns); no two are of one symbol
  (`OneEach`); an entry is sent once and filled once (`SentOnce`); and the free slots a
  turn counts are free (`SlotsAreCounted`).
- `BarsAreEnteredOnce`: `Spec => OneCyclePerBar`.  A bar entered on is in the process's
  memory, or is the bar of a row that the cycle has read (`BarsAreRemembered`).

`EntriesProofs`, of the decision, from `DecisionAssumption`: prices are positive, `MAX_STOP_PCT` is a
percentage, no symbol is listed twice, and no stock is so cheap that its capped stop rounds
to its limit (for such a one the code raises)
- `EntriesStayBounded`: `DecisionSpec => []EntriesAreBounded`.  The lots are the least of three
  quotients, so each budget holds (`QuotientBound`, `LotsWithinBudget`); the cap lifts a stop
  to within half a tick of its percentage (`StopIsCapped`); a symbol becomes a candidate only
  when none of its checks stops it (`NoneStops`), so the size is positive.
- `ChoiceStaysSound`: `DecisionSpec => []ChoiceIsSound`, by `Sound`: a candidate waits, is chosen or no
  longer fits (`FittingIsKept`); what waits is in order (`InOrder`); whatever is better and no
  larger than a chosen one was chosen before it (`BetterIsServedFirst`), because exposure only
  grows; a record is of a symbol that is no candidate until the choice is recorded
  (`NoVerdictYet`).  `DominatingIsBetter` says for each of the three rank modes that stronger
  and more traded means better; in the balanced one it compares two sums of places.

`EntriesProofs`, of the weights, from `StrategyWeightsAssumption`: no more strategies than
rounds, and the minimum of all of them leaves capital over
- `WeightsStaySound`: `WeightsSpec => []WeightsAreSound`.  A round changes the sum only by what its
  divisions lose, at most one unit a strategy (`RoundsKeepCapital`, from the laws of sums and
  `SharesSum`, that the parts of an excess add up to it).  That every strategy ends with
  its minimum needs a variant: each round of the minimum lifts at least one strategy to it
  and no strategy leaves it (`RoundsFillFloor`), so the rounds do not run out first, and
  while one lies below some lies above.  `RanksAreOrdered` and `ScoresAreOrdered` compare the
  scores by the sets of strategies that lie below.

`EntriesProofs`, of the signals, from `EntrySignalsAssumption`: periods are positive, and in
every bar the low is positive and the close lies between low and high
- `SignalsNeverChange`: `SignalsSpec => SignalsStand`.  An evaluator that is given bars which agree
  up to its own and daily bars which agree but for today's (`Alike`) says the same: one lemma
  for each of the twenty-two.  The averages are recursive functions of the closes up to the
  bar, hence the same function (`EmasAgree`); `LaterBarsKeepSignals` shows that a bar
  that comes in leaves a day like that.
- `SignalsAlwaysAgree`: `SignalsSpec => []SignalsAgree`.  A long and a put ask for opposite trends of
  the same daily bars (`TrendsExclude`); momentum on daily bars that include today's does
  not, and is left out of `NoOpposite`, as the bull flag, whose stop may lie above its
  trigger, is of `StopBelowEntry`.  Below its trigger lies the stop because its anchor lies
  at or below it; that is immediate for the evaluators that anchor at the bar's low,
  follows from the bars that make the level for the others (`SignalsInv` keeps
  high above low in every bar and in the daily bar made of them), and for the pullback from
  the average itself: a close that crosses the average from below is a rising one
  (`CrossRises`, which unfolds the recursion of the average by one step).

`SessionGatesProofs`
- `DayHasOneBaseline`: `Spec => []OneBaseline`: a cycle takes a baseline only for a day
  whose row has none, and memory is otherwise loaded from the row.
- `NoEntryOnceBlocked`: `Spec => BlockedForTheDay`: what was announced is in the row
  (`AnnouncedIsSaved`), a process that knows its baseline remembers what the row says
  (`SavedIsRemembered`), and what it remembers closes the cycle (`FiredIsSeen`).
- `DrawdownIsFromPeak`, `FloorFallsWithReason`: the safety parts of `FloorFollowsEquity`, for any
  equities, markets, ages and days.  The first speaks of a floor that has a row, as long as
  no command has begun: without a row a check takes the equity of the moment for the
  watermark and saves none, and a command may write an older one, or zero.  Until a command writes beside it the check under way
  holds the row as it is (`RowIsOwn`), so it raises the watermark that is there.  That a
  raise does not lower the floor needs every floor within the cap (`BelowCap`): a manual floor
  above it is lowered by the next raise (`NeverBelowManual` in §4).

`IntentExecutionProofs`, for any number of shares, prices, bars, replacements, lost calls
and crashes, any of the four starts and either kind of intents (for the last two see there)
- `TypeCorrect`: `Spec => []TypeOK`, by the invariant `Sound`.  What makes it inductive: the
  row of a stop names a stop of the broker and any other row its own order (`GoodRows`), also
  in the copy an intent reads and writes back (`WorkSound`); what the open entry may still buy
  has room in the account (`EntryRoom`); an end the broker has announced is one (`EndsAreTrue`).
  One lemma per step, each of which says too which orders the step may place and cancel.
- `NoExitIsUnknown`: `Spec => []ExitsAreKnown`: no step forgets a row, a dispatch places what
  has one, and `Reserved` says that the row of an exit stands when it is submitted.
- `NoWorkingExitIsCanceled`: `Spec => WorkingExitIsKept`.  An exit cancels every open order to
  sell when it is refused for want of shares, so no other exit may be open by then
  (`NoneOpen`).  It was decided on by the ledger's rows, before the first intent of a
  cycle, when every exit that is open is active there (`OpenIsActive`): the recovery has just
  compared them, and nothing but the stream thread ends a row since, on an order that is over.
  The submission of a stop has no such guard, and is left out (§4).
- `StopsRise` and `SoldIsNotSavedAgain`, under `OnlyStopUpdates`: a session that begins with
  the stop of a whole position, gives stop updates only and loses neither calls nor the
  process.  `StopNeverFalls` and `SoldStaysSold` are these on the scene `bars` of
  `stop_updates`; here shares, prices, bars and replacements are any.  Without the
  hypotheses the claim is false (`StopOnlyRises`, §4): a late event of the entry, a lost answer
  or a crash between the replacement and its record leaves the ledger a lower price than
  the broker's, and the next update moves the stop down.
  The invariant `StopInv`: there is one open order to sell, made from the initial
  stop by replacements, that claims what the account still holds, or nothing is held
  (`Guards`, `Sold`); until it has a fill its price is at most those of the position's row and of
  the cycle, which go on as read (`Known`), except between a replacement and its
  record, when the price in hand is the broker's and the one asked for is at least that
  (`MoveIsUp`, `MoveIsRecorded`); after its first fill the broker replaces it no more, so the
  rows may lag.  Every row is under its own id (`OwnRows`) and every update tells what
  was (`UpdatesAgree`), so the stream thread writes no position before a fill.

`ProcessesProofs`
- `WorkingSessionHoldsLock`: with the types, `SessionHoldsLock` is
  inductive: a session that is dropped works no more, even when its process has
  not noticed.  `RowsAreSavedByHolder` draws the consequence for rows.  Both except the
  process that goes on after its query for the lock raised.
- `CycleWorkStaysWhole`: four invariants carry it.  What is buffered
  belongs to the piece of work in hand (`BufferIsCurrent`) and is all of it so far
  (`BufferIsFull`); a piece not yet begun is undecided (`AheadIsUndecided`); what
  is saved was recorded (`SavedIsRecorded`).  The probe and the option dispatcher, which
  use the connection without the lock, run in the main thread and so never inside the
  cycle's own transaction.
- `OneThreadAlways`: a live thread keeps its name in the supervisor
  (`NameIsKept`), so the watchdog starts none beside it.
- Of the sessions: `EveryDayHasOneSummary` (`SentIsRemembered`, `LateIsSummedUp`),
  `RegularSessionsAreWorked` (`RegularIsWorked`), `HolidaysStayQuiet`.

`SumLemmas`, for `OptionsStayCovered`, `ReportsStayTrue` and the proofs of weights and signals.  Sums over finite sets are folds of the library, whose
recursion no backend unfolds by itself.  `SumsExist` and `SumsAgree` say that the recursive
function the fold chooses exists and is determined on finite sets, each by a smallest set for
which it would fail (`SmallestSet`, from the well-foundedness of `<` on the naturals).  From
that follow the laws of sums that a proof uses: a sum by any of its terms (`SumTakes`, for the
fold takes its own choice), its growth with its terms (`SumGrows`), the change of one
(`SumChanges`), a sum by the parts its terms are sorted into (`SumByParts`), the sum over
records that keep apart (`SumOfImage`), and how sums add, scale and divide (`SumAdds`,
`SumScales`, `SharesSum`).

`BooksProofs`
- `OptionsCountFills`: `Spec => []CountedIsFilled`, for any number of contracts, bars, sales and
  kills.  A row is overwritten with nothing filled, or with what an update says; an update
  says what the broker had filled by then (`UpdatesAreTrue`), and no order is accepted twice,
  so that never becomes less (`BrokerOnlyFills`).
- `OptionsStayCovered`: `Spec => []OptionsAreCovered`: besides, on a calm day the account is
  never short of a contract, however many there are and however often they are sold.  What
  is inductive is not the holding but `Cover`: what was bought of a contract, less what is
  on record for sale, is never negative.  A sale is saved for the net of the rows, and that
  is covered when every earlier sale of the contract has been filled and recorded in full
  (`NetIsCovered`).  `SaleIsFilled` says that this is so until the cycle saves sales itself: a
  cycle begins with no sale open and no update on its way, no sale waits unsent between two
  cycles (`SaleIsInTurn`), the broker has what is on record (`SaleIsSent`), and what it has
  filled is on record or on its way, the last update being right (`SaleIsReported`).  On a day
  that is not calm the claim is false: see `ClosesOnce` in §4.
- `ReportsStayTrue`: `AccountingSpec => []ReportsAreTrue`, by the invariant `Accounted`, from
  `AccountingAssumption`: finitely many owners, even prices, orders of one or two parts of a share.  An
  entry is saved after the exits of the trades before it and on a later day than their entries
  (`EntriesFollow`, `ExitsFollow`), so the entry that the query finds is the exit's own unless
  that row was saved again since (`LatestIsOwn`), and one of the same day is found whenever
  there is one (`SameDayIsLatest`).  While an owner is in order its shares have cost what the
  row says (`CostIsKept`) and its exits of a day earn what the query makes of them
  (`EarnedIsKept`); a step that saves an entry row behind an exit ends that order for good
  (`SavedEntryKeepsEarned`).  `ReportIsEarned` sorts the exits by owner and day.  That a row
  saved later falsifies the number is no defect of the proof: see `FailSafe` and `SumOfTrades`
  in §4.
  That the reports of a day agree (`DayReportsAgree`) needs no order at all: they match the
  same exits to the same entries.
- `ExclusionStays`: `Spec => ExclusionIsForGood` of the losing streaks, by `StreaksInv`: who is
  excluded and had no chance has no result of today and no position of today, an option
  strategy no position at all, so the day leaves its streak as it is.

Only model-checked: that a
ranking exists (TLC finds one for every set of candidates it meets); that what was sold stays
sold where the entry was partly filled (`SoldStaysSold`); what becomes of options in
the end; that the floor returns and a breach is flattened;
and all liveness, which is out of TLAPS's reach, as is induction over data (what a recursive
function computes for every input: of the averages and the ATR the proofs use one step of
the recursion and the range, never the value).

## 6. Not modelled

- Short positions in intent execution and updates, fractional shares in dispatch (the
  decision has them), the expiry of a prior session's orders, failures of the
  database in the middle of a recovery.
- Replay and backtest: a sequential simulation that calls the engine modelled
  here and leaves no state behind.
- Nightly jobs, tuning, backfill: batch computations and downloads.
- Domain types and settings: values without a state of their own; the settings are
  the constants of the modules.
- The text of reports and notifications, web pages and login, migrations.

What would add most next: an abstract position that moves only by the account's fills,
implemented by the core once updates and recoveries have caught up; short positions in
`IntentExecution`; a proof that a stop stays up beside exits.
