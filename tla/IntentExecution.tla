-------------------------- MODULE IntentExecution --------------------------
(***************************************************************************)
(* execute_cycle_intents: the supervisor carries out the stop updates and  *)
(* exits the cycle has decided on, one after the other, while the stream   *)
(* thread applies fills to the same rows.  Every broker call is made       *)
(* outside the store_lock from what was read under it before.              *)
(*                                                                         *)
(* Long positions only; a short one mirrors the prices and the sides.      *)
(***************************************************************************)
EXTENDS OpenPosition

CONSTANTS
    Starts,      \* which of the four initial situations a behaviour begins in
    Intents,     \* the kinds of intents the cycles give: "update_stop", "exit"
    Flattening,  \* TRUE: every cycle gives all its intents, as at the close
    MaxCrashes   \* crashes over a behaviour

ASSUME IntentAssumption ==
    /\ Starts \subseteq {"protected", "late_fill", "partial_entry", "stale_exit"}
    /\ Intents \subseteq {"update_stop", "exit"}
    /\ Flattening \in BOOLEAN /\ MaxCrashes \in Nat

VARIABLES
    pc,       \* where the supervisor is
    bar,      \* the bar the timestamps of the cycle's intents name
    latest,   \* the latest bar of the market data
    cache,    \* positions_by_symbol, read once for the intents of a cycle
    seen,     \* broker_positions_by_symbol: what the broker holds, read once
    quota,    \* intents the cycle has still to give
    work,     \* the intent being executed
    crashes   \* crashes so far (bounded by MaxCrashes)

local == <<bar, latest, cache, seen, quota, crashes>>
vars == <<deskVars, pc, local, work>>

NoWork == [id |-> NoId, px |-> 0, want |-> 0, ans |-> NoId, todo |-> {}, canceled |-> {},
           read |-> [c \in OrderIds |-> NoRow], flag |-> "none", qty |-> 0]
Work == [id : OrderIds \cup {NoId}, px : 0 .. MaxPrice, want : 0 .. MaxPrice,
         ans : OrderIds \cup {NoId}, todo : SUBSET SellIds, canceled : SUBSET SellIds,
         read : [OrderIds -> OrderRow], flag : {"none", "hard", "gone", "retry"},
         qty : 0 .. Shares]

NotRead == [qty |-> 0, px |-> 0, read |-> FALSE]
AsRead == [qty |-> pos.qty, px |-> pos.px, read |-> TRUE]

Init ==
    /\ \/ "protected" \in Starts /\ Protected
       \/ "late_fill" \in Starts /\ LateEntryFill
       \/ "partial_entry" \in Starts /\ PartialEntry
       \/ "stale_exit" \in Starts /\ StaleExitLeft
    /\ market = MaxPrice /\ replaced = 0 /\ resize = NoResize /\ faults = 0
    /\ pc = "recover" /\ bar = 1 /\ latest = 1 /\ cache = NotRead /\ seen = "not_read"
    /\ quota = 0 /\ work = NoWork /\ crashes = 0

Goto(from, to) == pc = from /\ pc' = to
Finish == pc' = "intents" /\ work' = NoWork

-----------------------------------------------------------------------------
(***************************************************************************)
(* The cycle around the intents.                                           *)
(***************************************************************************)
\* evaluate_cycle gives a position one exit, or stop updates and no exit.
IntentsPerCycle == 2

Recover ==
    /\ Goto("recover", "intents")
    /\ Reconcile
    /\ quota' = IntentsPerCycle /\ cache' = NotRead /\ seen' = "not_read" /\ bar' = latest
    /\ UNCHANGED <<latest, crashes, work>>

\* With the bar's new timestamp the intents get client order ids of their own.
\* A bar is told from the one before only when an id of that one is taken.
NewBar ==
    /\ latest = bar /\ bar < MaxBar
    /\ \E c \in {CycleStop(bar), CycleExit(bar)} : bo[c].st # "none"
    /\ latest' = bar + 1
    /\ UNCHANGED <<deskVars, pc, bar, cache, seen, quota, crashes, work>>

ReadPositions ==
    /\ pc = "intents" /\ quota > 0 /\ ~cache.read
    /\ cache' = AsRead
    /\ UNCHANGED <<deskVars, pc, bar, latest, seen, quota, crashes, work>>

\* list_positions for the stop updates; without an answer the check is skipped.
ReadBrokerPositions ==
    /\ pc = "intents" /\ quota > 0 /\ cache.read /\ seen = "not_read"
    /\ "update_stop" \in Intents
    /\ \/ seen' = (IF held > 0 THEN "held" ELSE "missing") /\ UNCHANGED faults
       \/ Fault /\ seen' = "unknown"
    /\ UNCHANGED <<broker, ledger, resize, pc, bar, latest, cache, quota, crashes, work>>

EndIntents ==
    /\ Goto("intents", "dispatch")
    /\ quota > 0 => ~Flattening
    /\ quota' = 0
    /\ UNCHANGED <<deskVars, bar, latest, cache, seen, crashes, work>>

DispatchRow ==
    /\ pc = "dispatch"
    /\ \/ CancelEntryForStop
       \/ /\ ~(rows[Stop].st = "pending_submit" /\ rows[Entry].st = "partially_filled")
          /\ \E c \in SellIds : Dispatch(c)
    /\ UNCHANGED <<pc, local, work>>

EndDispatch ==
    /\ Goto("dispatch", "recover")
    /\ \A c \in SellIds : rows[c].st # "pending_submit"
         \/ (rows[Entry].st = "partially_filled" /\ ~IsOpen(Entry))
    /\ UNCHANGED <<deskVars, local, work>>

-----------------------------------------------------------------------------
(***************************************************************************)
(* UPDATE_STOP.                                                            *)
(***************************************************************************)
\* Mutation: a stop that is not the initial one may be moved anywhere.
StopImprovesLax(p, px) == px # p.px

StopImproves(p, px) == px > p.px

BrokerCovers == seen # "missing"

\* The row the update moves; _latest_active_stop_order takes the newest.
LatestStop == IF ActiveRows(StopIds) = {} THEN {NoId} ELSE ActiveRows(StopIds)

UpdateStop ==
    /\ pc = "intents" /\ quota > 0 /\ cache.read /\ seen # "not_read"
    /\ "update_stop" \in Intents
    /\ quota' = quota - 1
    /\ \E px \in Prices, c \in LatestStop :
         \/ /\ cache.qty > 0 /\ StopImproves(cache, px) /\ BrokerCovers
            /\ \/ c # NoId /\ rows[c].bid # NoId /\ pc' = "replace"
               \/ c # NoId /\ rows[c].bid = NoId /\ pc' = "save_pending"
               \/ c = NoId /\ pc' = "entry_before_stop"
            /\ work' = [NoWork EXCEPT !.id = c, !.read = rows, !.px = px, !.want = px]
         \/ /\ ~(cache.qty > 0 /\ StopImproves(cache, px) /\ BrokerCovers)
            /\ UNCHANGED <<pc, work>>
    /\ UNCHANGED <<deskVars, bar, latest, cache, seen, crashes>>

\* _market_capped_stop_price: just below the market price the refusal names.
\* The call is made once more at that price if it still improves the stop.
Capped == market - 1

RetryCapped ==
    \/ /\ work.px = work.want /\ StopImproves(cache, Capped)
       /\ work' = [work EXCEPT !.px = Capped]
       /\ UNCHANGED pc
    \/ ~(work.px = work.want /\ StopImproves(cache, Capped)) /\ Finish

Target == work.read[work.id].bid

StopIsReplaced ==
    /\ Goto("replace", "save_stop")
    /\ Replaces(Target, bo[Target].qty, work.px)
    /\ work' = [work EXCEPT !.ans = Replacement(replaced')]
    /\ UNCHANGED <<ledger, resize, faults, local>>

\* The broker names the market price, or it does not take the change: the order
\* is gone, or it is none that can be replaced.
ReplaceIsRefused ==
    /\ pc = "replace"
    /\ ~CanReplace(Target, bo[Target].qty, work.px)
    /\ \/ IsOpen(Target) /\ work.px >= market /\ RetryCapped
       \/ ~(IsOpen(Target) /\ work.px >= market) /\ Finish
    /\ UNCHANGED <<deskVars, local>>

ReplaceIsLost ==
    /\ pc = "replace" /\ Fault
    /\ UNCHANGED broker \/ Replaces(Target, bo[Target].qty, work.px)
    /\ Finish
    /\ UNCHANGED <<ledger, resize, local>>

\* _cancel_blocking_orders: a cancel that fails is passed over.
CancelFreesShares ==
    \/ CancelsBlocking(OpenSells) /\ UNCHANGED faults
    \/ Fault /\ \E cs \in SUBSET OpenSells : CancelsBlocking(cs)

\* Without a stop: a new one for the quantity of the position as it was read.  A
\* call that is made again after its answer was lost is refused as a duplicate.
SubmitStop ==
    /\ pc = "submit_stop"
    /\ LET c == CycleStop(bar) IN
       \/ /\ Places(c, cache.qty, work.px)
          /\ work' = [work EXCEPT !.ans = c] /\ pc' = "save_stop" /\ UNCHANGED faults
       \/ /\ bo[c].st = "none" /\ cache.qty <= Free({}) /\ IsAboveMarket(c, work.px)
          /\ RetryCapped /\ UNCHANGED <<broker, faults>>
       \/ /\ bo[c].st = "none" /\ cache.qty > Free({})
          /\ CancelFreesShares /\ Finish
       \/ /\ bo[c].st = "none" /\ IsOpen(Entry)
          /\ Finish /\ UNCHANGED <<broker, faults>>
       \/ bo[c].st # "none" /\ pc' = "resync" /\ UNCHANGED <<broker, faults, work>>
       \/ Fault /\ (UNCHANGED broker \/ Places(c, cache.qty, work.px)) /\ Finish
       \/ Fault /\ Places(c, cache.qty, work.px) /\ pc' = "resync" /\ UNCHANGED work
    /\ UNCHANGED <<ledger, resize, local>>

\* _resync_duplicate_stop_order: the broker has the order, the ledger has not.
Resync ==
    /\ pc = "resync"
    /\ LET c == CycleStop(bar) IN
       \/ /\ Replaces(c, bo[c].qty, work.px)
          /\ pc' = "save_resync" /\ work' = [work EXCEPT !.ans = Replacement(replaced'),
                                                       !.qty = bo[c].qty]
          /\ UNCHANGED faults
       \/ ~CanReplace(c, bo[c].qty, work.px) /\ Finish /\ UNCHANGED <<broker, faults>>
       \/ Fault /\ (UNCHANGED broker \/ Replaces(c, bo[c].qty, work.px)) /\ Finish
    /\ UNCHANGED <<ledger, resize, local>>

\* The position goes back with the quantity of the cache, and the cache takes
\* the price that was asked for.
SavePosition == pos' = [qty |-> cache.qty, px |-> work.px]
RememberStop == cache' = [cache EXCEPT !.px = work.want]
OldRow(c, st) == Saved(rows[c], [work.read[c] EXCEPT !.st = st])

SaveStop ==
    /\ pc = "save_stop"
    /\ \/ /\ pos.qty > 0
          /\ SavePosition /\ RememberStop
          /\ rows' = [c \in OrderIds |->
               CASE c = work.ans -> Saved(rows[c], Row("accepted",
                        IF work.id = NoId THEN cache.qty ELSE work.read[work.id].qty,
                        work.px, work.ans))
                 [] c = work.id /\ c # work.ans -> OldRow(c, "replaced")
                 [] OTHER -> rows[c]]
       \/ pos.qty = 0 /\ UNCHANGED <<ledger, cache>>
    /\ Finish
    /\ UNCHANGED <<broker, resize, faults, bar, latest, seen, quota, crashes>>

\* Mutation: the position is not looked for before it is saved.
SavePendingBlindly ==
    /\ pc = "save_pending"
    /\ SavePosition /\ RememberStop
    /\ rows' = [rows EXCEPT ![work.id] = Saved(@, Row("pending_submit",
                   work.read[work.id].qty, work.px, NoId))]
    /\ Finish
    /\ UNCHANGED <<broker, resize, faults, bar, latest, seen, quota, crashes>>

\* A stop the broker does not have yet is only changed in the ledger.
SavePendingStop ==
    /\ pc = "save_pending"
    /\ \/ /\ pos.qty > 0
          /\ SavePosition /\ RememberStop
          /\ rows' = [rows EXCEPT ![work.id] = Saved(@, Row("pending_submit",
                        work.read[work.id].qty, work.px, NoId))]
       \/ pos.qty = 0 /\ UNCHANGED <<ledger, cache>>
    /\ Finish
    /\ UNCHANGED <<broker, resize, faults, bar, latest, seen, quota, crashes>>

\* The resync does not ask whether the position is still there.
SaveResync ==
    /\ pc = "save_resync"
    /\ SavePosition
    /\ rows' = [rows EXCEPT ![CycleStop(bar)] =
                  Saved(@, Row("accepted", work.qty, work.px, work.ans))]
    /\ Finish
    /\ UNCHANGED <<broker, resize, faults, local>>

-----------------------------------------------------------------------------
(***************************************************************************)
(* _cancel_partial_fill_entry, before a stop or an exit.                   *)
(***************************************************************************)
BeforeStop == "entry_before_stop"
BeforeExit == "entry_before_exit"
AfterEntry == IF pc \in {BeforeStop, "entry_canceled_for_stop"} THEN "submit_stop" ELSE "reserve"
AfterCancel == IF pc = BeforeStop THEN "entry_canceled_for_stop" ELSE "entry_canceled_for_exit"

\* A cancel that fails does not hold the intent up.
CancelPartialEntry ==
    /\ pc \in {BeforeStop, BeforeExit}
    /\ \/ /\ rows[Entry].st = "partially_filled" /\ pc' = AfterCancel
          /\ \/ Cancel(Entry)
             \/ bo[Entry].st = "canceled" /\ UNCHANGED broker
          /\ work' = [work EXCEPT !.read[Entry] = rows[Entry]] /\ UNCHANGED faults
       \/ /\ rows[Entry].st = "partially_filled" /\ pc' = AfterEntry
          /\ \/ bo[Entry].st = "filled" /\ UNCHANGED <<broker, faults>>
             \/ Fault /\ (UNCHANGED broker \/ Cancel(Entry))
          /\ UNCHANGED work
       \/ /\ rows[Entry].st # "partially_filled" /\ pc' = AfterEntry
          /\ UNCHANGED <<broker, faults, work>>
    /\ UNCHANGED <<ledger, resize, local>>

\* The row goes back with the fill it had when it was read.
SaveCanceledEntry ==
    /\ pc \in {"entry_canceled_for_stop", "entry_canceled_for_exit"} /\ pc' = AfterEntry
    /\ rows' = [rows EXCEPT ![Entry] = [work.read[Entry] EXCEPT !.st = "canceled"]]
    /\ UNCHANGED <<broker, pos, resize, faults, local, work>>

-----------------------------------------------------------------------------
(***************************************************************************)
(* EXIT.                                                                   *)
(***************************************************************************)
\* Mutation: an exit of this session does not keep another from being made.
NoFreshExit == TRUE

\* Exits of the session before that rest at the broker without a fill, by the ledger.
StaleExits ==
    {c \in ActiveRows(ExitIds) : c = StaleExit /\ rows[c].st = "accepted" /\ rows[c].bid # NoId}
MayExit == ActiveRows(ExitIds) \subseteq StaleExits

Exit ==
    /\ pc = "intents" /\ quota = IntentsPerCycle /\ cache.read /\ "exit" \in Intents
    /\ quota' = 0
    /\ \/ /\ cache.qty > 0 /\ MayExit
          /\ pc' = (IF StaleExits # {} THEN "stale_exit" ELSE "read_stops")
          /\ work' = [NoWork EXCEPT !.todo = StaleExits, !.read = rows]
       \/ ~(cache.qty > 0 /\ MayExit) /\ UNCHANGED <<pc, work>>
    /\ UNCHANGED <<deskVars, bar, latest, cache, seen, crashes>>

\* An order that is gone, for whatever reason, counts as canceled; after any
\* other failure the exit is given up.
CancelStaleExit ==
    /\ pc = "stale_exit"
    /\ \/ Cancel(StaleExit) /\ pc' = "read_stops" /\ UNCHANGED <<faults, work>>
       \/ ~IsOpen(StaleExit) /\ pc' = "read_stops" /\ UNCHANGED <<broker, faults, work>>
       \/ Fault /\ (UNCHANGED broker \/ Cancel(StaleExit)) /\ Finish
    /\ UNCHANGED <<ledger, resize, local>>

ReadStops ==
    /\ Goto("read_stops", "cancel_stops")
    /\ rows' = [c \in OrderIds |-> IF c \in work.todo THEN OldRow(c, "canceled") ELSE rows[c]]
    /\ work' = [work EXCEPT !.todo = ActiveRows(StopIds), !.read = rows]
    /\ UNCHANGED <<broker, pos, resize, faults, local>>

\* The refusal says that the stop was filled.
IsGone(c) == bo[c].st = "filled"

Canceled(c, flag) ==
    work' = [work EXCEPT !.todo = @ \ {c}, !.canceled = @ \cup {c},
                         !.flag = IF @ = "hard" THEN @ ELSE flag]

\* One stop after the other: those the broker does not know are only recorded.
CancelStop ==
    /\ pc = "cancel_stops"
    /\ \E c \in work.todo :
         LET b == work.read[c].bid IN
         \/ b = NoId /\ Canceled(c, work.flag) /\ UNCHANGED <<broker, faults>>
         \/ b # NoId /\ Cancel(b) /\ Canceled(c, work.flag) /\ UNCHANGED faults
         \/ /\ b # NoId /\ ~IsOpen(b)
            /\ Canceled(c, IF IsGone(b) THEN "gone" ELSE work.flag)
            /\ UNCHANGED <<broker, faults>>
         \/ /\ b # NoId /\ Fault
            /\ UNCHANGED broker \/ Cancel(b)
            /\ work' = [work EXCEPT !.todo = @ \ {c}, !.flag = "hard"]
    /\ UNCHANGED <<pc, ledger, resize, local>>

WithCanceled(rs) ==
    [c \in OrderIds |-> IF c \in work.canceled THEN OldRow(c, "canceled") ELSE rs[c]]

\* The exit is given up: a stop may be live, was filled, or the position is gone.
GiveUpExit ==
    /\ pc = "cancel_stops" /\ work.todo = {}
    /\ work.flag # "none" \/ pos.qty = 0
    /\ rows' = WithCanceled(rows)
    /\ Finish
    /\ UNCHANGED <<broker, pos, resize, faults, local>>

\* The position is read again, with the quantity it has by now.
Reverify ==
    /\ Goto("cancel_stops", BeforeExit) /\ work.todo = {}
    /\ work.flag = "none" /\ pos.qty > 0
    /\ work' = [work EXCEPT !.qty = pos.qty, !.px = pos.px]
    /\ UNCHANGED <<deskVars, local>>

\* Mutation: the row of an exit is saved only with the broker's answer.
ReserveNothing ==
    /\ Goto("reserve", "submit_exit")
    /\ UNCHANGED <<deskVars, local, work>>

ReserveExit ==
    /\ Goto("reserve", "submit_exit")
    /\ rows' = [rows EXCEPT ![CycleExit(bar)] = Saved(@, Row("submitting", work.qty, 0, NoId))]
    /\ UNCHANGED <<broker, pos, resize, faults, local, work>>

\* A refusal for want of free shares is answered by canceling the orders that
\* claim them, and one more try.
SubmitExit ==
    /\ pc = "submit_exit"
    /\ LET c == CycleExit(bar)
           blocked == bo[c].st = "none" /\ work.qty > Free({}) IN
       \/ Places(c, work.qty, 0) /\ pc' = "save_exit" /\ UNCHANGED <<faults, work>>
       \/ /\ blocked /\ work.flag = "none"
          /\ CancelFreesShares /\ work' = [work EXCEPT !.flag = "retry"]
          /\ UNCHANGED pc
       \/ /\ ~Accepts(c, work.qty, 0) /\ ~(blocked /\ work.flag = "none")
          /\ pc' = "exit_failed" /\ UNCHANGED <<broker, faults, work>>
       \/ /\ Fault /\ (UNCHANGED broker \/ Places(c, work.qty, 0))
          /\ pc' = "exit_failed" /\ UNCHANGED work
    /\ UNCHANGED <<ledger, resize, local>>

NeedsFailedExitStop == work.flag = "retry" \/ work.canceled # {}

SaveFailedExit ==
    /\ pc = "exit_failed"
    /\ LET rs == [WithCanceled(rows) EXCEPT
                    ![CycleExit(bar)] = Saved(@, Row("error", work.qty, 0, NoId))] IN
       rows' = IF NeedsFailedExitStop
               THEN [rs EXCEPT ![FailedExitStop] =
                       Saved(@, Row("pending_submit", work.qty, work.px, NoId))]
               ELSE rs
    /\ Finish
    /\ UNCHANGED <<broker, pos, resize, faults, local>>

SaveExit ==
    /\ pc = "save_exit"
    /\ rows' = [WithCanceled(rows) EXCEPT
                  ![CycleExit(bar)] = Saved(@, Row("accepted", work.qty, 0, CycleExit(bar)))]
    /\ Finish
    /\ UNCHANGED <<broker, pos, resize, faults, local>>

-----------------------------------------------------------------------------
Supervisor ==
    \/ Recover \/ ReadPositions \/ ReadBrokerPositions \/ EndIntents
    \/ DispatchRow \/ EndDispatch
    \/ UpdateStop \/ StopIsReplaced \/ ReplaceIsRefused \/ ReplaceIsLost
    \/ SubmitStop \/ Resync \/ SaveStop \/ SavePendingStop \/ SaveResync
    \/ CancelPartialEntry \/ SaveCanceledEntry
    \/ Exit \/ CancelStaleExit \/ ReadStops \/ CancelStop \/ GiveUpExit \/ Reverify
    \/ ReserveExit \/ SubmitExit \/ SaveFailedExit \/ SaveExit

Crash ==
    /\ crashes < MaxCrashes /\ crashes' = crashes + 1
    /\ pc' = "recover" /\ work' = NoWork /\ resize' = NoResize
    /\ quota' = 0 /\ cache' = NotRead /\ seen' = "not_read" /\ updates' = <<>>
    /\ UNCHANGED <<bo, held, market, replaced, ledger, faults, bar, latest>>

Next ==
    \/ Supervisor
    \/ (Stream \/ Market) /\ UNCHANGED <<pc, local, work>>
    \/ NewBar
    \/ Crash

Spec == Init /\ [][Next]_vars

-----------------------------------------------------------------------------
Locations ==
    {"recover", "intents", "dispatch", "replace", "save_stop", "save_pending", "submit_stop",
     "resync", "save_resync", BeforeStop, BeforeExit, "entry_canceled_for_stop",
     "entry_canceled_for_exit", "stale_exit", "read_stops", "cancel_stops", "reserve",
     "submit_exit", "exit_failed", "save_exit"}

\* Type invariant.
TypeOK ==
    /\ DeskTypeOK
    /\ pc \in Locations /\ bar \in 1 .. MaxBar /\ latest \in bar .. MaxBar
    /\ quota \in 0 .. IntentsPerCycle
    /\ cache \in [qty : 0 .. Shares, px : 0 .. MaxPrice, read : BOOLEAN]
    /\ seen \in {"not_read", "held", "missing", "unknown"}
    /\ work \in Work /\ crashes \in 0 .. MaxCrashes

\* What one step may not do: move a stop down, write a position back that the
\* stream thread has closed (only the recovery opens one), cancel an exit of this
\* session.
StopStaysUp ==
    \A c \in StopIds :
        pc \in {"replace", "resync"} /\ IsOpen(c) /\ bo'[c].st = "replaced"
          => bo'[Replacement(replaced')].px >= bo[c].px

StepKeepsSold == pos.qty = 0 /\ pos'.qty > 0 => pc = "recover" \/ updates' # updates

CancelsNoFreshExit == \A c \in ExitIds \ {StaleExit} : IsOpen(c) => bo'[c].st # "canceled"

\* Every exit order at the broker has its row, so that its fill finds it.
ExitsAreKnown == \A c \in ExitIds : bo[c].st # "none" => rows[c].st # "none"

\* The supervisor cancels no exit order of this session, unless it submits a stop
\* beside it: what an exit cancels to free shares are stops, and exits of the
\* session before, although it looks at the ledger only and calls may be lost.
WorkingExitIsKept == [][pc # "submit_stop" => CancelsNoFreshExit]_vars

StreamRuns == Stream /\ UNCHANGED <<pc, local, work>>
Sells(c) == SellFills(c) /\ UNCHANGED <<pc, local, work>>

Fairness ==
    /\ WF_vars(Supervisor) /\ WF_vars(NewBar)
    /\ WF_vars(StreamRuns)
    /\ \A c \in SellIds : WF_vars(Sells(c))

FairSpec == Spec /\ Fairness

-----------------------------------------------------------------------------
\* "The stop can only rise -- never falls once set."  No update of the supervisor
\* moves a stop that protects the position down, not even of a partly filled entry.
StopOnlyRises == [][StopStaysUp]_vars

\* "If the partial-fill stop is already at Alpaca, later fills must resize it."
\* While the market stays above the stops, they cover all shares in the end.
LaterFillsResizeStop ==
    [](\A c \in StopIds : IsOpen(c) => market > bo[c].px) => []<>(held > 0 => Free({}) = 0)
=============================================================================
