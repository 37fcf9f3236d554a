--------------------------- MODULE OptionBreaker ----------------------------
(***************************************************************************)
(* The rolling-loss circuit breaker of an option strategy: every cycle it  *)
(* adds up the strategy's closed round trips of the last days and switches *)
(* the strategy off when they lost too much. One contract is bought and    *)
(* sold; its fills are kept in the order in which they were recorded.      *)
(***************************************************************************)
EXTENDS Integers, Sequences, FiniteSets, FiniteSetsExt

CONSTANTS Prices,       \* fill prices
          Threshold,    \* OPTION_STRATEGY_MAX_ROLLING_LOSS_USD, 0 is off
          WindowDays,   \* OPTION_STRATEGY_ROLLING_LOSS_DAYS
          MaxFills,     \* bound: fills
          LastDay       \* bound: session days

BreakerAssumption ==
    {Threshold, WindowDays, MaxFills, LastDay} \subseteq Nat

VARIABLES fills,     \* executed option orders: side, price, day
          enabled,   \* the strategy flag; no row counts as enabled
          day,
          last       \* what was done last: "check", "enable" or something else

vars == <<fills, enabled, day, last>>

Open == Len(fills) % 2 = 1

Fill(side, p) == fills' = Append(fills, [side |-> side, price |-> p, day |-> day])

-----------------------------------------------------------------------------
(* list_closed_option_trade_records: each buy is taken for a buy to close   *)
(* and matched to the last sale before it.                                 *)

SalesBefore(i) == {j \in 1 .. i - 1 : fills[j].side = "sell"}

Window == (day - WindowDays + 1) .. day

Since == Window

Closed == {i \in DOMAIN fills : /\ fills[i].side = "buy"
                                /\ fills[i].day \in Since
                                /\ SalesBefore(i) # {}}

RollingPnl ==
    MapThenSumSet(LAMBDA i : fills[Max(SalesBefore(i))].price - fills[i].price, Closed)

-----------------------------------------------------------------------------

(* A strategy without a closed trade in the window is absent from the sums. *)
CheckBreakers ==
    /\ Threshold > 0
    /\ LET trips == enabled /\ Closed # {} /\ RollingPnl <= -Threshold
       IN enabled' = (enabled /\ ~trips)
    /\ last' = "check"
    /\ UNCHANGED <<fills, day>>

(* alpaca-bot-admin enable-strategy.                                        *)
EnableStrategy ==
    /\ ~enabled
    /\ enabled' = TRUE
    /\ last' = "enable"
    /\ UNCHANGED <<fills, day>>

(* The strategy buys in a cycle, after the check, if it is enabled.          *)
Buy(p) ==
    /\ last = "check" /\ enabled /\ ~Open
    /\ Len(fills) < MaxFills
    /\ Fill("buy", p)
    /\ last' = "fill"
    /\ UNCHANGED <<enabled, day>>

(* What it bought is sold at the close of some day.                          *)
Sell(p) ==
    /\ Open
    /\ Fill("sell", p)
    /\ last' = "fill"
    /\ UNCHANGED <<enabled, day>>

NextDay ==
    /\ day < LastDay
    /\ day' = day + 1
    /\ last' = "day"
    /\ UNCHANGED <<fills, enabled>>

Init ==
    /\ fills = <<>>
    /\ enabled = TRUE
    /\ day = 1
    /\ last = "day"

Next ==
    \/ CheckBreakers \/ EnableStrategy \/ NextDay
    \/ \E p \in Prices : Buy(p) \/ Sell(p)

Spec == Init /\ [][Next]_vars

-----------------------------------------------------------------------------
(* Properties.                                                             *)

(* What the strategy earned: its sales, each against the buy before it.     *)
Sales == {i \in DOMAIN fills : fills[i].side = "sell" /\ fills[i].day \in Window}
Earned == MapThenSumSet(LAMBDA i : fills[i].price - fills[i - 1].price, Sales)

(* "A per-strategy rolling P&L circuit breaker that accumulates loss across *)
(* multiple sessions and stops new entries when the threshold is crossed": *)
(* after a check no strategy is on that lost the threshold in the window.  *)
BreakerTrips == last = "check" /\ enabled => Earned > -Threshold

(* "For all closed option round-trips": a strategy that has not lost is not *)
(* switched off.                                                           *)
SparesWinners ==
    [][enabled /\ ~enabled' => Earned < 0]_vars

(* "Re-enable via: alpaca-bot-admin enable-strategy": the operator's word   *)
(* stands until the strategy trades again.                                 *)
ReenableHolds == [][last = "enable" => enabled']_vars
=============================================================================
