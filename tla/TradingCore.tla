----------------------------- MODULE TradingCore -----------------------------
(***************************************************************************)
(* The trading runtime on one symbol and one session day: the supervisor   *)
(* thread (recovery, expiry of old entries, dispatch rounds, watchdog of   *)
(* the stream thread), the stream thread, and the broker, which share the  *)
(* ledger.  The process may crash between any two steps; the ledger and    *)
(* the broker survive.                                                     *)
(***************************************************************************)
EXTENDS TradeUpdates, StartupRecovery, OrderDispatch

CONSTANTS
    Modes,            \* trading modes a cycle may find
    DispatchRounds,   \* dispatch rounds of a cycle
    MaxCrashes,       \* crashes over a behaviour
    MaxDrops          \* deaths of the stream thread over a behaviour

AllModes == {"normal", "close_only", "halted", "extended"}

ASSUME ModesAssumption == Modes # {} /\ Modes \subseteq AllModes
ASSUME BoundsAssumption ==
    DispatchRounds \in Nat \ {0} /\ MaxCrashes \in Nat /\ MaxDrops \in Nat

VARIABLES
    pc,         \* where the supervisor thread is
    mode,       \* trading status and session type of the running cycle
    rounds,     \* dispatch rounds still to run in this cycle
    noEntries,  \* TRUE in a cycle that must not dispatch entries
    aged,       \* TRUE once the entry is past its active window
    booting,    \* TRUE from a crash to the end of the startup recovery
    crashes,    \* crashes so far (bounded by MaxCrashes)
    drops       \* stream deaths so far (bounded by MaxDrops)

control == <<pc, mode, rounds, booting, noEntries>>
environment == <<aged, crashes, drops>>
dispatch == <<pending, job>>
vars == <<brokerVars, ledger, sreq, snap, dispatch, control, environment>>

Locations ==
    {"orders", "positions", "closed", "recover", "expire", "expired", "gate", "dispatch", "watch"}

Init ==
    /\ BrokerInit /\ LedgerInit /\ TradeUpdatesInit /\ DispatchInit
    /\ snap = NoSnapshot
    /\ pc = "orders" /\ mode \in Modes /\ rounds = 0
    /\ booting = FALSE /\ noEntries = FALSE
    /\ aged = FALSE /\ crashes = 0 /\ drops = 0

-----------------------------------------------------------------------------
(***************************************************************************)
(* The supervisor: startup, run_cycle_once and run_forever.                *)
(***************************************************************************)
Goto(from, to) == pc = from /\ pc' = to

FetchOpenOrders ==
    /\ Goto("orders", "positions")
    /\ ReadOpenOrders
    /\ UNCHANGED <<brokerVars, ledger, sreq, dispatch, mode, rounds, booting, noEntries,
                   environment>>

FetchPositions ==
    /\ Goto("positions", "closed")
    /\ ReadPositions
    /\ UNCHANGED <<brokerVars, ledger, sreq, dispatch, mode, rounds, booting, noEntries,
                   environment>>

\* _load_recent_closed_orders: without an answer it goes on with none.
FetchClosedOrders ==
    /\ Goto("closed", "recover")
    /\ \/ ReadClosedOrders /\ UNCHANGED faults
       \/ Fault /\ UNCHANGED snap
    /\ UNCHANGED <<account, channel, lapses, ledger, sreq, dispatch, mode, rounds, booting,
                   noEntries, environment>>

\* At startup the stream thread is started after the recovery, and the first
\* cycle follows; a cycle whose recovery finds a mismatch enters nothing.
RunRecovery ==
    /\ pc = "recover"
    /\ Recover
    /\ \/ /\ booting /\ pc' = "orders" /\ booting' = FALSE
          /\ streamUp' = TRUE /\ snap' = NoSnapshot /\ UNCHANGED noEntries
       \/ /\ ~booting /\ pc' = "expire"
          /\ noEntries' = FindsMismatch /\ UNCHANGED <<booting, streamUp, snap>>
    /\ UNCHANGED <<account, updates, faults, lapses, sreq, dispatch, mode, rounds, environment>>

\* A read of the open orders or positions, or of the account after the recovery,
\* raises: the cycle is over, its watchdog included; a startup is run again.
CycleFails ==
    /\ pc \in {"orders", "positions", "expire"}
    /\ Fault
    /\ pc' = "orders" /\ snap' = NoSnapshot /\ noEntries' = FALSE
    /\ UNCHANGED <<account, channel, lapses, ledger, sreq, dispatch, mode, rounds, booting,
                   environment>>

MustExpireEntry ==
    aged /\ Entry \in OpenInSnapshot /\ IsActive(rows[Entry])

\* _expire_stale_entry_orders, the broker call.
NoEntryToExpire ==
    /\ Goto("expire", "gate")
    /\ ~MustExpireEntry
    /\ snap' = NoSnapshot
    /\ UNCHANGED <<brokerVars, ledger, sreq, dispatch, mode, rounds, booting, noEntries,
                   environment>>

CancelOldEntry ==
    /\ Goto("expire", "expired")
    /\ MustExpireEntry
    /\ CancelOrder(Entry)
    /\ UNCHANGED <<faults, snap, ledger, sreq, dispatch, mode, rounds, booting, noEntries,
                   environment>>

CancelOldEntryFails ==
    /\ Goto("expire", "gate")
    /\ MustExpireEntry
    /\ \/ ~IsOpen(bo[Entry]) /\ UNCHANGED brokerVars
       \/ Fault /\ UNCHANGED <<account, channel, lapses>>
       \/ Fault /\ CancelOrder(Entry)
    /\ snap' = NoSnapshot
    /\ UNCHANGED <<ledger, sreq, dispatch, mode, rounds, booting, noEntries, environment>>

\* _expire_stale_entry_orders, the row: its status and its fill are those of
\* the order as it was read at the head of the cycle.
SaveExpiredEntry ==
    /\ Goto("expired", "gate")
    /\ LET filled == snap.open[Entry].filled IN
       rows' = [rows EXCEPT
         ![Entry] = SavedFill(@, IF filled > 0 THEN "canceled" ELSE "expired",
                              @.qty, Entry, filled)]
    /\ snap' = NoSnapshot
    /\ UNCHANGED <<pos, brokerVars, sreq, dispatch, mode, rounds, booting, noEntries, environment>>

\* Trading status and session of the cycle; a halted one dispatches nothing.
OpenGate ==
    /\ pc = "gate"
    /\ mode' \in Modes
    /\ \/ /\ mode' = "halted"
          /\ pc' = "watch" /\ rounds' = 0 /\ noEntries' = FALSE
       \/ /\ mode' # "halted"
          /\ pc' = "dispatch" /\ rounds' = DispatchRounds
          /\ noEntries' = (noEntries \/ mode' = "close_only")
    /\ UNCHANGED <<brokerVars, ledger, sreq, snap, dispatch, booting, environment>>

StartRound ==
    /\ pc = "dispatch" /\ rounds > 0 /\ RoundIsOver
    /\ rounds' = rounds - 1
    /\ ListPending
    /\ UNCHANGED <<brokerVars, ledger, sreq, snap, job, pc, mode, booting, noEntries,
                   environment>>

Dispatch ==
    /\ pc = "dispatch"
    /\ DispatchStep(noEntries, aged, mode = "extended")
    /\ UNCHANGED <<sreq, snap, control, environment>>

EndDispatch ==
    /\ Goto("dispatch", "watch")
    /\ rounds = 0 /\ RoundIsOver
    /\ noEntries' = FALSE
    /\ UNCHANGED <<brokerVars, ledger, sreq, snap, dispatch, mode, rounds, booting, environment>>

\* The watchdog: a dead stream thread is replaced.  Its back-off delays later
\* restarts only.
WatchStream ==
    /\ Goto("watch", "orders")
    /\ streamUp' = TRUE
    /\ UNCHANGED <<account, updates, faults, lapses, ledger, sreq, snap, dispatch, mode, rounds,
                   booting, noEntries, environment>>

Supervisor ==
    \/ FetchOpenOrders \/ FetchPositions \/ FetchClosedOrders \/ RunRecovery \/ CycleFails
    \/ NoEntryToExpire \/ CancelOldEntry \/ CancelOldEntryFails \/ SaveExpiredEntry
    \/ OpenGate \/ StartRound \/ Dispatch \/ EndDispatch \/ WatchStream

-----------------------------------------------------------------------------
Stream ==
    /\ StreamStep
    /\ UNCHANGED <<snap, dispatch, control, environment>>

Broker ==
    /\ BrokerStep
    /\ UNCHANGED <<ledger, sreq, snap, dispatch, control, environment>>

EntryAges ==
    /\ ~aged
    /\ aged' = TRUE
    /\ UNCHANGED <<brokerVars, ledger, sreq, snap, dispatch, control, crashes, drops>>

\* stream.run() returns or raises between two updates; what was queued is lost.
StreamDies ==
    /\ streamUp /\ drops < MaxDrops /\ sreq = NoRequest
    /\ streamUp' = FALSE /\ updates' = <<>>
    /\ drops' = drops + 1
    /\ UNCHANGED <<account, faults, lapses, ledger, sreq, snap, dispatch, control, aged, crashes>>

Crash ==
    /\ crashes < MaxCrashes
    /\ crashes' = crashes + 1
    /\ pc' = "orders" /\ rounds' = 0 /\ booting' = TRUE /\ noEntries' = FALSE
    /\ streamUp' = FALSE /\ updates' = <<>>
    /\ snap' = NoSnapshot /\ pending' = NothingPending /\ job' = NoJob /\ sreq' = NoRequest
    /\ UNCHANGED <<account, faults, lapses, ledger, mode, aged, drops>>

Next == Supervisor \/ Stream \/ Broker \/ EntryAges \/ StreamDies \/ Crash

Spec == Init /\ [][Next]_vars

-----------------------------------------------------------------------------
Snapshot == [open : [OrderIds -> BrokerOrder], held : Nat, low : BOOLEAN,
             closed : [OrderIds -> BrokerOrder]]

\* Type invariant: every column, snapshot and local variable keeps its range.
TypeOK ==
    /\ BrokerTypeOK /\ LedgerTypeOK /\ TradeUpdatesTypeOK /\ DispatchTypeOK
    /\ snap \in Snapshot
    /\ pc \in Locations /\ mode \in Modes /\ rounds \in 0 .. DispatchRounds
    /\ aged \in BOOLEAN /\ booting \in BOOLEAN /\ noEntries \in BOOLEAN
    /\ crashes \in 0 .. MaxCrashes /\ drops \in 0 .. MaxDrops

-----------------------------------------------------------------------------
(***************************************************************************)
(* Safety.                                                                 *)
(***************************************************************************)

\* What a recovery has read stays safe to act on until it acts: when it saw no
\* sell order open, none is opened behind its back, by the stream thread's
\* replacements least of all, and the account never holds less than it read.
SnapshotStaysSafe ==
    ~HasBrokerSell =>
        /\ pc \in {"positions", "closed", "recover"} => OpenSells = {}
        /\ pc \in {"closed", "recover"} => snap.held <= held

\* The recovery newly queues a sell order only when no sell order is open at
\* the broker and for no more shares than the account holds, at the moment it
\* writes the row and not only at the moments it read the broker: two protective
\* orders for the same shares would leave the account short.
RecoveryQueuesOnlyForHeldShares ==
    [][\A c \in {RecoveryStop, RecoveryExit} :
         pc = "recover" /\ ~IsActive(rows[c]) /\ rows'[c].st = "pending_submit"
           => OpenSells = {} /\ rows'[c].qty <= held]_vars

\* A stop whose id is the bot's own is given up as missing only once it is no
\* longer open at the broker, however old the snapshots were that missed it.
ReconcileNeverClearsLiveStop ==
    [][\A c \in {Stop, RecoveryStop} :
         rows[c].st # "reconciled_missing" /\ rows'[c].st = "reconciled_missing"
           => rows[c].bid # NoId /\ ~IsOpen(bo[rows[c].bid])]_vars

\* A crash between the submission of an order and the save of its answer never
\* makes the bot submit it a second time: the restarted process finds the order
\* at the broker before it dispatches the row again.  An order is submitted under
\* its id anew only once it is over, and an entry that bought shares never is, as
\* long as no answer of the broker was lost.
NeverResubmits ==
    faults = 0 /\ job.stage = "submit" =>
        ~IsOpen(bo[job.id]) /\ (job.id = Entry => bo[Entry].filled = 0)

-----------------------------------------------------------------------------
(***************************************************************************)
(* Liveness.  The supervisor loop and the stream thread keep running, and  *)
(* the broker executes the sell orders the market lets it execute; nothing *)
(* makes the entry fill, the price move or an order lapse.                 *)
(***************************************************************************)
Sells(c) ==
    SellFills(c) /\ UNCHANGED <<ledger, sreq, snap, dispatch, control, environment>>

Fairness ==
    /\ WF_vars(Supervisor)
    /\ WF_vars(Stream)
    /\ \A c \in SellIds : WF_vars(Sells(c))

FairSpec == Spec /\ Fairness

\* Whatever updates are lost, late or applied to a ledger that has moved on, the
\* ledger ends with the position of the account and keeps it.
PositionEventuallyAgrees == <>[](pos = held)

\* The fills of an order the broker is done with end up in its row for good: no
\* later save of an older record takes them away.  (The replacement of a stop has
\* no row of its own id: its fills go to the row of the stop it replaced.)
FillsEventuallyRecorded ==
    \A c \in OrderIds \ {Replacement} :
        <>[](~IsOpen(bo[c]) /\ bo[c].filled > 0
               => rows[c].st = bo[c].st /\ rows[c].filled = bo[c].filled)

\* A market that stays below the stop price, in cycles that may trade, finds the
\* account flat in the end.
FlatOnceBelowStop == <>[](low /\ mode = "normal") => <>[](held = 0)

\* In the end every share of the account is claimed by an open sell order.
EventuallyCovered == <>[](held = 0 \/ Reserved({}) = held)
=============================================================================
