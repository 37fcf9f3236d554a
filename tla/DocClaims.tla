------------------------------ MODULE DocClaims ------------------------------
(***************************************************************************)
(* What documents of the repository say of the trading core and its code   *)
(* does not do; each statement is refuted by a run of its own.             *)
(***************************************************************************)
EXTENDS TradingCore

\* src/alpaca_bot/runtime/startup_recovery.py:670, logged when the market is
\* through the stop price of a position without cover: "queuing market exit
\* instead of stale stop".  So one recovery never queues both.
ExitInsteadOfStop ==
    [][pc = "recover" => ~(/\ ~IsActive(rows[RecoveryStop]) /\ ~IsActive(rows[RecoveryExit])
                           /\ rows'[RecoveryStop].st = "pending_submit"
                           /\ rows'[RecoveryExit].st = "pending_submit")]_vars

\* docs/superpowers/specs/2026-05-08-ah-stop-order-continuity.md:60, of stops not
\* yet submitted: "These are always safe to dispatch; normal exit paths
\* (`_execute_exit`) always cancel the pending stop record".  So no stop is
\* submitted for a flat account.
PendingStopsAreSafe ==
    [][job.stage = "submit" /\ job.id \in StopIds /\ job'.stage = "answered" => held > 0]_vars

\* docs/superpowers/specs/2026-05-02-reconciliation-grace-period-design.md:21:
\* "a stop order must be absent from the broker for N consecutive cycles before
\* being cleared" -- also the stop that replaced another one.
AbsentStopsOnlyAreCleared ==
    [][\A c \in StopIds :
         rows[c].st # "reconciled_missing" /\ rows'[c].st = "reconciled_missing"
           => ~IsOpen(bo[rows[c].bid])]_vars

\* docs/superpowers/specs/2026-05-04-partial-fill-wash-trade-fix.md:32: "Before
\* submitting any sell-side order for a symbol, detect and cancel the open
\* buy-side partial-fill entry order at the broker first."  So no exit is
\* submitted while the entry's row and its order are both partially filled.
EntryCanceledBeforeAnySell ==
    [][job.stage = "submit" /\ job.id \in ExitIds /\ job'.stage = "answered"
         => ~(rows[Entry].st = "partially_filled" /\ bo[Entry].st = "partially_filled")]_vars

\* docs/superpowers/plans/2026-05-01-production-bug-fixes.md:54: "Queue recovery
\* stop for any open position with no active stop".  So in a market that never
\* reaches the stop price an account that goes on holding shares is covered in
\* the end, whatever became of the submission of an earlier stop.
AnyPositionIsCovered == []~low => EventuallyCovered
=============================================================================
