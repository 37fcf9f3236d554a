---------------------------- MODULE PositionRules ----------------------------
(***************************************************************************)
(* What evaluate_cycle decides about one open position, cycle by cycle: an *)
(* exit, for one of nine reasons, or one to four stop updates in a row.    *)
(*                                                                         *)
(* Prices are cents; a percentage is an integer, and a price times a       *)
(* percentage is rounded to a cent where the code rounds it.  Quantities   *)
(* that need more history than a cycle keeps (ATR, daily trend, VWAP) are  *)
(* inputs.  A long and a short trade share the definitions: the code has   *)
(* the two cases side by side.                                             *)
(***************************************************************************)
EXTENDS Integers, Sequences

CONSTANTS
    Sides,          \* sides of the trades
    MaxPrice,       \* prices are 1 .. MaxPrice
    Entry,          \* the price the position was entered at
    Risks,          \* distances of the initial stop from the entry
    Rules,          \* the optional rules that are enabled
    TargetR, TriggerR,                        \* profit target and trailing trigger, in R
    TrailPct, BreakevenPct, BreakevenGapPct,  \* profit trail, breakeven trigger and trail
    StopCapPct, FavorablePct, LossPct,        \* stop cap, follow-through, early loss
    GivebackPct,    \* the return a trade that was up must not fall back to
    MaxShareLoss,   \* largest loss per share of one trade, or 0 for no such cap
    Atrs,           \* what the ATR of the daily bars times its multiplier may be; 0: none
    MinHold, NoFollowAge, EarlyLossAge,  \* ages, in cycles
    MaxAge          \* cycles of a behaviour

ASSUME PositionRulesAssumption ==
    /\ Sides \subseteq {"long", "short"}
    /\ MaxPrice \in Nat /\ Entry \in 1 .. MaxPrice
    /\ Risks \subseteq 1 .. Entry - 1
    /\ {TrailPct, BreakevenPct, BreakevenGapPct, StopCapPct, FavorablePct, LossPct, GivebackPct}
         \subseteq 0 .. 100
    /\ TrailPct > 0 /\ Atrs \subseteq Nat
    /\ {TargetR, TriggerR, MinHold, NoFollowAge, EarlyLossAge, MaxShareLoss, MaxAge} \subseteq Nat

VARIABLES
    trade,   \* the position: side, initial stop, stop, watermark, still open
    latest,  \* the latest completed bar of the symbol
    today,   \* the extremes of the session so far
    age,     \* cycles since the entry
    session, \* the session of the cycle
    levels,  \* the stop before the cycle and after each of its four passes
    reason   \* the reason of the exit the cycle gives, or "none"

rulesVars == <<trade, latest, today, age, session, levels, reason>>

Prices == 1 .. MaxPrice
CycleSessions == {"regular", "extended", "past_flatten"}
Bars == {b \in [high : Prices, low : Prices, close : Prices] :
           b.low <= b.close /\ b.close <= b.high}
ExitRules == {"profit_target", "no_follow_through", "giveback", "early_loss", "trend_filter",
              "vwap_breakdown"}
Reasons == ExitRules \cup {"none", "eod_flatten", "stop_breach_extended_hours"}

\* a is better than b for a trade of side s: further in the direction of profit.
Improves(s, a, b) == IF s = "long" THEN a > b ELSE a < b
AtLeast(s, a, b) == ~Improves(s, b, a)
BestOf(s, a, b) == IF Improves(s, a, b) THEN a ELSE b
Toward(s, p, d) == IF s = "long" THEN p + d ELSE p - d

\* round(p * pct / 100), and round(p / (pct / 100)), to the cent.
Times(p, pct) == (2 * p * pct + 100) \div 200
Over(p, pct) == (200 * p + pct) \div (2 * pct)

Favorable(s, b) == IF s = "long" THEN b.high ELSE b.low

\* Has price p moved from the entry by pct towards the profit?
Moved(s, p, pct) ==
    AtLeast(s, 100 * p, Toward(s, 100 * Entry, Entry * pct))

Risk(t) == IF t.side = "long" THEN Entry - t.initial ELSE t.initial - Entry

-----------------------------------------------------------------------------
(***************************************************************************)
(* Exits, in the order the code asks for them.                             *)
(***************************************************************************)
StopBreached(t, b) == AtLeast(t.side, t.stop, b.close)

TargetHit(t, b) == AtLeast(t.side, Favorable(t.side, b), Toward(t.side, Entry, TargetR * Risk(t)))

\* The best price since the entry: what the bars still show, or the watermark
\* the position carries over restarts and sessions.
BestPrice(t, b) == BestOf(t.side, t.best, Favorable(t.side, b))

NoFollowThrough(t, b, a) ==
    /\ a >= MinHold /\ NoFollowAge > 0 /\ a >= NoFollowAge
    /\ ~Moved(t.side, BestPrice(t, b), FavorablePct)
    /\ AtLeast(t.side, Entry, b.close)

Giveback(t, b, a) ==
    /\ a >= MinHold /\ t.side = "long"
    /\ Moved("long", BestPrice(t, b), FavorablePct)
    /\ 100 * b.close <= Entry * (100 + GivebackPct)

EarlyLoss(t, b, a) ==
    /\ a >= MinHold /\ EarlyLossAge > 0 /\ a >= EarlyLossAge /\ t.side = "long"
    /\ 100 * b.close <= Entry * (100 - LossPct)

\* What the daily bars and the volume-weighted price say of the position.
TrendFails(a, input) == a >= MinHold /\ ~input.trend
VwapBroken(a, input) == a >= MinHold /\ input.vwapBroken

Exits(t, b, a, input) ==
    LET holds(rule) == CASE rule = "profit_target" -> TargetHit(t, b)
                         [] rule = "no_follow_through" -> NoFollowThrough(t, b, a)
                         [] rule = "giveback" -> Giveback(t, b, a)
                         [] rule = "early_loss" -> EarlyLoss(t, b, a)
                         [] rule = "trend_filter" -> TrendFails(a, input)
                         [] rule = "vwap_breakdown" -> VwapBroken(a, input) IN
    {rule \in ExitRules \cap Rules : holds(rule)}

Order == <<"profit_target", "no_follow_through", "giveback", "early_loss", "trend_filter",
           "vwap_breakdown">>

FirstExit(fired) ==
    IF fired = {} THEN "none"
    ELSE Order[CHOOSE i \in 1 .. Len(Order) :
                 Order[i] \in fired /\ \A j \in 1 .. i - 1 : Order[j] \notin fired]

\* An old bar of a regular session decides nothing but the passes below.
ExitOf(t, b, a, input, ses, fresh) ==
    CASE ses = "past_flatten" -> "eod_flatten"
      [] ses = "extended" ->
            IF t.stop > 0 /\ StopBreached(t, b) THEN "stop_breach_extended_hours" ELSE "none"
      [] ses = "regular" -> IF fresh THEN FirstExit(Exits(t, b, a, input)) ELSE "none"

-----------------------------------------------------------------------------
(***************************************************************************)
(* Stop updates: four passes, each of which starts from the stop the one   *)
(* before has left and emits an update exactly when it changes it.         *)
(***************************************************************************)
\* Mutation: a stop the market is already through is taken too.
TakenAnywhere(s, old, new, close) == IF Improves(s, new, old) THEN new ELSE old

\* A new stop is taken if it is better than the one before and the close has
\* not reached it.
Taken(s, old, new, close) == IF Improves(s, new, old) /\ Improves(s, close, new) THEN new ELSE old

Trailing(t, b, input) ==
    LET trigger == Toward(t.side, Entry, TriggerR * Risk(t))
        candidate == IF input.atr > 0 THEN Toward(t.side, Favorable(t.side, b), -input.atr)
                     ELSE IF t.side = "long" THEN b.low ELSE b.high IN
    IF AtLeast(t.side, Favorable(t.side, b), trigger)
    THEN Taken(t.side, t.stop, BestOf(t.side, Entry, candidate), b.close) ELSE t.stop

ProfitTrail(t, b, day, old) ==
    IF "profit_trail" \notin Rules THEN old
    ELSE Taken(t.side, old,
               IF t.side = "long" THEN Times(day.high, TrailPct) ELSE Over(day.low, TrailPct), b.close)

Breakeven(t, b, old) ==
    LET gap == IF t.side = "long" THEN 100 - BreakevenGapPct ELSE 100 + BreakevenGapPct IN
    IF "breakeven" \in Rules /\ Moved(t.side, Favorable(t.side, b), BreakevenPct)
    THEN Taken(t.side, old, BestOf(t.side, Entry, Times(BestPrice(t, b), gap)), b.close) ELSE old

\* The better of the cap in percent and the one in dollars.
StopCap(t) ==
    LET pct == Times(Entry, IF t.side = "long" THEN 100 - StopCapPct ELSE 100 + StopCapPct) IN
    IF MaxShareLoss = 0 THEN pct ELSE BestOf(t.side, pct, Toward(t.side, Entry, -MaxShareLoss))

\* Mutation: a stop that another pass has moved is left to it.
CapUpAlone(t, b, old) ==
    IF t.stop > 0 /\ old = t.stop THEN Taken(t.side, old, StopCap(t), b.close) ELSE old

\* Mutation: the cap is compared with the stop the position came with.
CapUpStale(t, b, old) == IF t.stop > 0 THEN Taken(t.side, t.stop, StopCap(t), b.close) ELSE old

CapUp(t, b, old) == IF t.stop > 0 THEN Taken(t.side, old, StopCap(t), b.close) ELSE old

Unmoved(t) == <<t.stop, t.stop, t.stop, t.stop, t.stop>>

LevelsOf(t, b, day, input, ses, fresh) ==
    LET regular == ses = "regular"
        s1 == IF regular /\ fresh THEN Trailing(t, b, input) ELSE t.stop
        s2 == IF ses # "extended" THEN ProfitTrail(t, b, day, s1) ELSE s1
        s3 == Breakeven(t, b, s2)
        s4 == IF ses # "extended" THEN CapUp(t, b, s3) ELSE s3 IN
    <<t.stop, s1, s2, s3, s4>>

-----------------------------------------------------------------------------
RulesInit ==
    /\ \E s \in Sides, r \in Risks :
         LET p == Toward(s, Entry, -r) IN
         trade = [side |-> s, initial |-> p, stop |-> p, best |-> Entry, open |-> TRUE]
    /\ latest = [high |-> Entry, low |-> Entry, close |-> Entry]
    /\ today = [high |-> Entry, low |-> Entry]
    /\ age = 0 /\ session = "regular" /\ reason = "none"
    /\ levels = Unmoved(trade)

Wider(day, b) == [high |-> IF b.high > day.high THEN b.high ELSE day.high,
                  low |-> IF b.low < day.low THEN b.low ELSE day.low]

Inputs == [trend : BOOLEAN, vwapBroken : BOOLEAN, atr : Atrs]

\* The executor carries an exit out or fails to, and moves the stop as far as the
\* calls succeed; the watermark is stored before the decision.
Carried(t, b, ls, ex) ==
    IF ex # "none" THEN {[t EXCEPT !.open = FALSE], t}
    ELSE {[t EXCEPT !.stop = ls[i]] : i \in 1 .. 5}

Decide(b, day, input, ses, fresh) ==
    LET t == [trade EXCEPT !.best = BestPrice(trade, b)] IN
    /\ reason' = ExitOf(t, b, age, input, ses, fresh)
    /\ levels' = IF reason' = "none" THEN LevelsOf(t, b, day, input, ses, fresh)
                 ELSE Unmoved(t)
    /\ trade' \in Carried(t, b, levels', reason')

\* A cycle with a new bar of the session.
Cycle ==
    /\ trade.open /\ age < MaxAge
    /\ age' = age + 1
    /\ latest' \in Bars /\ session' \in CycleSessions
    /\ today' = Wider(today, latest')
    /\ \E input \in Inputs : Decide(latest', today', input, session', TRUE)

\* A cycle whose latest bar is old: the symbol has not traded, or its data is late.
StaleCycle ==
    /\ trade.open /\ age < MaxAge
    /\ age' = age + 1
    /\ session' = "regular"
    /\ UNCHANGED <<latest, today>>
    /\ \E input \in Inputs : Decide(latest, today, input, session', FALSE)

\* With a new session the bars of the day start anew.
NewSession ==
    /\ trade.open /\ age < MaxAge
    /\ age' = age + 1
    /\ latest' \in Bars
    /\ today' = [high |-> latest'.high, low |-> latest'.low]
    /\ session' = "regular"
    /\ \E input \in Inputs : Decide(latest', today', input, session', TRUE)

\* The stop order fills at the broker.
StopFills ==
    /\ trade.open
    /\ trade' = [trade EXCEPT !.open = FALSE]
    /\ latest' \in Bars
    /\ AtLeast(trade.side, trade.stop, IF trade.side = "long" THEN latest'.low ELSE latest'.high)
    /\ reason' = "none" /\ levels' = Unmoved(trade)
    /\ UNCHANGED <<today, age, session>>

RulesNext == Cycle \/ StaleCycle \/ NewSession \/ StopFills

RulesSpec == RulesInit /\ [][RulesNext]_rulesVars

-----------------------------------------------------------------------------
\* Type invariant.
TypeOK ==
    /\ trade \in [side : {"long", "short"}, initial : Int, stop : Int, best : Int, open : BOOLEAN]
    /\ latest \in Bars /\ today \in [high : Prices, low : Prices]
    /\ age \in 0 .. MaxAge /\ session \in CycleSessions /\ reason \in Reasons
    /\ levels \in [1 .. 5 -> Int]

\* The updates of one cycle come one after the other, each better than the one
\* before and than the stop the position has; none is sent the market would
\* answer at once, although four passes with three notions of the best price,
\* some of them over old bars, give them.
LevelsRatchet ==
    \A i \in 1 .. 4 : levels[i + 1] = levels[i]
                      \/ (Improves(trade.side, levels[i + 1], levels[i])
                          /\ Improves(trade.side, latest.close, levels[i + 1]))

\* After a cycle of the regular session that does not exit, no later update
\* leaves the trade with more risk than the cap allows, unless the market is
\* already through the cap.
LossStaysCapped ==
    session = "regular" /\ reason = "none" /\ trade.open /\ age > 0
      => AtLeast(trade.side, levels[5], StopCap(trade))
         \/ AtLeast(trade.side, StopCap(trade), latest.close)

\* The rules keep what the strategy promises of the stop.
Contract == INSTANCE StopContract WITH side <- trade.side, stop <- trade.stop,
                                       price <- latest.close, open <- trade.open
KeepsContract == Contract!Spec
=============================================================================
