--------------------------- MODULE EntryDecision ----------------------------
(***************************************************************************)
(* The entry half of one decision cycle of one strategy: market gates,     *)
(* free slots, the filters each symbol of the watchlist passes through,    *)
(* sizing, ranking, the greedy choice under the exposure cap, and the      *)
(* decision records written on the way. Money is counted in ticks and      *)
(* quantities in 1/Scale shares; what the market shows of a symbol is      *)
(* chosen when the loop reaches it.                                        *)
(***************************************************************************)
EXTENDS Integers, Sequences, FiniteSets, SequencesExt, FiniteSetsExt

CONSTANTS Watchlist,       \* the symbols, in their order
          Views,           \* what the cycle may see of a symbol
          Sessions,        \* subset of {"regular", "after_hours", "pre_market"}
          RankModes,       \* ENTRY_CANDIDATE_RANK_MODE
          ProxyCloses,     \* daily closes of the market proxies
          Period,          \* length of their averages
          Occupied,        \* slots already taken (global_open_count)
          SlotLimit,       \* MAX_OPEN_POSITIONS
          HeldExposure,    \* notional of this strategy's open positions
          ExposureLimit,   \* equity * MAX_PORTFOLIO_EXPOSURE_PCT
          RiskBudget,      \* equity * RISK_PER_TRADE_PCT
          MaxNotional,     \* equity * MAX_POSITION_PCT
          MaxLoss,         \* MAX_LOSS_PER_TRADE_DOLLARS, 0 is off
          MinNotional,     \* MIN_POSITION_NOTIONAL
          MaxStopPct,      \* MAX_STOP_PCT, in percent
          LowestClose, HighestClose,  \* bounds of close to entry, in percent
          Scale            \* FRACTIONAL_QUANTITY_SCALE

(* The code looks at a price only after it has checked that it has one; a   *)
(* stock so cheap that the capped stop rounds to its limit raises.          *)
DecisionAssumption ==
    /\ {Period, Scale} \subseteq Nat \ {0}
    /\ MaxStopPct \in 1 .. 100
    /\ {SlotLimit, ExposureLimit, RiskBudget, MaxNotional, MaxLoss, MinNotional} \subseteq Nat
    /\ HeldExposure \cup Occupied \subseteq Nat
    /\ Watchlist \in Seq(ToSet(Watchlist)) \ {<<>>} /\ IsInjective(Watchlist)
    /\ \A v \in Views :
         /\ {v.limit, v.entry} \subseteq Nat \ {0}
         /\ {v.stop, v.close, v.volume} \subseteq Nat
         /\ {v.option, v.fractionable} \subseteq BOOLEAN
         /\ v.option \/ 50 < v.limit * MaxStopPct

VARIABLES setting,   \* session, rank mode, slots and exposure of the cycle
          at,        \* "gates", "scan", "rank", "pick" or "done"
          next,      \* the symbol the loop has reached
          candidates,
          ranked,    \* candidates still to be picked from, best first
          chosen,    \* the entries, in the order they were picked
          exposure,
          records    \* decision records: <<symbol, verdict>>

decisionVars == <<setting, at, next, candidates, ranked, chosen, exposure, records>>

-----------------------------------------------------------------------------
(* Market gates. The index's own last bar is left out, the others' kept;   *)
(* a series that is too short never blocks.                                *)

LastN(s, n) == SubSeq(s, Len(s) - n + 1, Len(s))

AboveAverage(s) == Last(s) * Len(s) > FoldSeq(LAMBDA c, sum : c + sum, 0, s)

Regime(s) == Len(s) > Period /\ ~AboveAverage(LastN(Front(s), Period))

Vix(s) == Len(s) >= Period /\ AboveAverage(LastN(s, Period))

(* Fewer than half of the sectors with enough history are above average.   *)
Sector(series) ==
    LET known == {s \in series : Len(s) >= Period}
    IN 2 * Cardinality({s \in known : AboveAverage(LastN(s, Period))}) < Cardinality(known)

-----------------------------------------------------------------------------
(* Sizing, in 1/Scale shares or in contracts.                              *)

Lots(budget, price, fractionable) ==
    IF fractionable THEN (budget * Scale) \div price ELSE (budget \div price) * Scale

\* Mutation: the notional limit is forgotten.
RiskOnlySize(v, stop) == Lots(RiskBudget, v.limit - stop, v.fractionable)

calculate_position_size(v, stop) ==
    Min({Lots(RiskBudget, v.limit - stop, v.fractionable),
         Lots(MaxNotional, v.limit, v.fractionable)}
        \cup IF MaxLoss = 0 THEN {} ELSE {Lots(MaxLoss, v.limit - stop, v.fractionable)})

calculate_option_position_size(v) ==
    Min({RiskBudget \div (100 * v.limit), MaxNotional \div (100 * v.limit)})

EffectiveStop(v) == Max({v.stop, (v.limit * (100 - MaxStopPct) + 50) \div 100})

Quantity(v) == IF v.option THEN Scale * calculate_option_position_size(v)
                           ELSE calculate_position_size(v, EffectiveStop(v))

-----------------------------------------------------------------------------
(* The checks of one symbol, in the order of the loop.                     *)

Regular == setting.session = "regular"

Filters(v) ==
  <<<<v.held,                              "skipped_existing_position">>,
    <<v.bars = "none",                     "silent_no_bars">>,
    <<v.traded,                            "skipped_already_traded">>,
    <<Regular /\ v.bars = "old",           "silent_stale_bar">>,
    <<v.news,                              "silent_news">>,
    <<v.spread = "very_wide" \/ (Regular /\ v.spread = "wide"), "silent_spread">>,
    <<v.staleDaily,                        "daily_bars_stale">>,
    <<setting.session = "after_hours" /\ v.bars \in {"old", "out_of_window"}, "silent_signal_age">>,
    <<Regular /\ v.bars = "at_flatten",    "entry_execution_at_or_after_flatten">>,
    <<~v.signal \/ v.bars = "out_of_window", "skipped_no_signal">>,
    <<v.yesterday,                         "stale_signal">>>>

Quality(v) ==
  <<<<v.close * 100 < v.entry * LowestClose,  "close_too_far_below_entry">>,
    <<v.close * 100 > v.entry * HighestClose, "close_too_far_above_entry">>,
    <<~v.option /\ v.close > v.limit,         "close_above_limit_price">>,
    <<v.belowVwap,                            "below_vwap">>>>

Sizing(v) ==
    IF v.option THEN <<<<Quantity(v) < 1, "silent_no_contract">>>>
    ELSE IF v.stop >= v.limit THEN <<<<TRUE, "silent_stop_at_limit">>>>
    ELSE <<<<Quantity(v) = 0, "quantity_zero">>,
           <<Quantity(v) * v.limit < MinNotional * Scale, "below_min_notional">>>>

(* The first check that stops the symbol; the later ones are not reached.  *)
FirstStop(checks) ==
    LET stops == {i \in DOMAIN checks : checks[i][1]}
    IN IF stops = {} THEN "candidate" ELSE checks[Min(stops)][2]

Verdict(v) ==
    LET filter == FirstStop(Filters(v))
        quality == FirstStop(Quality(v))
    IN IF filter # "candidate" THEN filter
       ELSE IF quality # "candidate" THEN quality
       ELSE FirstStop(Sizing(v))

Silent == {"silent_no_bars", "silent_stale_bar", "silent_news", "silent_spread",
           "silent_signal_age", "silent_no_contract", "silent_stop_at_limit", "candidate"}

(* The exposure a candidate is counted with: for options the premium of    *)
(* one share of each contract, not of a hundred.                           *)
CandidateExposure(c) == c.limit * c.quantity

-----------------------------------------------------------------------------
(* Ranking.                                                                *)

Stronger(a, b) == a.close * b.entry - b.close * a.entry

FirstDecides(keys) ==
    \E i \in DOMAIN keys : keys[i] > 0 /\ \A j \in 1 .. i - 1 : keys[j] = 0

Before(mode, a, b) ==
    FirstDecides(IF mode = "relative_volume"
                 THEN <<a.volume - b.volume, Stronger(a, b), b.index - a.index>>
                 ELSE <<Stronger(a, b), a.volume - b.volume, b.index - a.index>>)

Place(mode, c) == Cardinality({d \in candidates : Before(mode, d, c)})

Places(c) == {Place("close", c), Place("relative_volume", c)}

SumOfPlaces(c) == Place("close", c) + Place("relative_volume", c)

\* Mutation: the candidate with the worse place comes first.
WorstPlaceFirst(a, b) ==
    FirstDecides(<<Max(Places(a)) - Max(Places(b)), Place("close", b) - Place("close", a)>>)

Balanced(a, b) ==
    FirstDecides(<<Max(Places(b)) - Max(Places(a)), SumOfPlaces(b) - SumOfPlaces(a),
                   Place("close", b) - Place("close", a)>>)

Better(a, b) == IF setting.mode = "balanced" THEN Balanced(a, b) ELSE Before(setting.mode, a, b)

Rankings ==
    {s \in SetToSeqs(candidates) : \A i, j \in DOMAIN s : Better(s[i], s[j]) => i < j}

-----------------------------------------------------------------------------
(* Each gate that blocks leaves a record of each symbol not held. A full   *)
(* account leaves one record for all of them.                              *)
TakeGates(gates, disabled, held) ==
    /\ at = "gates"
    /\ records' = IF disabled THEN {}
                  ELSE IF gates # {} THEN (ToSet(Watchlist) \ held) \X gates
                  ELSE IF setting.slots = 0 /\ ToSet(Watchlist) \ held # {}
                       THEN {<<"all", "capacity_full">>} ELSE {}
    /\ at' = IF disabled \/ gates # {} \/ setting.slots = 0 THEN "done" ELSE "scan"
    /\ UNCHANGED <<setting, next, candidates, ranked, chosen, exposure>>

Scan(v) ==
    /\ at = "scan"
    /\ LET verdict == Verdict(v)
       IN /\ candidates' = candidates \cup
                (IF verdict # "candidate" THEN {}
                 ELSE {[index |-> next, option |-> v.option, entry |-> v.entry,
                        close |-> v.close, volume |-> v.volume, limit |-> v.limit,
                        stop |-> IF v.option THEN 0 ELSE EffectiveStop(v),
                        quantity |-> Quantity(v)]})
          /\ records' = records \cup
                (IF verdict \in Silent THEN {} ELSE {<<Watchlist[next], verdict>>})
    /\ next' = next + 1
    /\ at' = IF next = Len(Watchlist) THEN "rank" ELSE "scan"
    /\ UNCHANGED <<setting, ranked, chosen, exposure>>

Rank ==
    /\ at = "rank"
    /\ ranked' \in Rankings
    /\ at' = "pick"
    /\ UNCHANGED <<setting, next, candidates, chosen, exposure, records>>

Pick ==
    /\ at = "pick"
    /\ ranked # <<>>
    /\ Len(chosen) < setting.slots
    /\ LET c == Head(ranked)
       IN IF exposure + CandidateExposure(c) > ExposureLimit * Scale
          THEN UNCHANGED <<chosen, exposure>>
          ELSE /\ chosen' = Append(chosen, c)
               /\ exposure' = exposure + CandidateExposure(c)
    /\ ranked' = Tail(ranked)
    /\ UNCHANGED <<setting, at, next, candidates, records>>

RecordChoice ==
    /\ at = "pick"
    /\ ranked = <<>> \/ Len(chosen) = setting.slots
    /\ records' = records \cup
          {<<Watchlist[c.index], IF c \in ToSet(chosen) THEN "accepted" ELSE "capacity_full">>
             : c \in candidates}
    /\ at' = "done"
    /\ ranked' = <<>>
    /\ UNCHANGED <<setting, next, candidates, chosen, exposure>>

Gates(regime, vix, sectors) ==
    (IF Regime(regime) THEN {"regime_blocked"} ELSE {})
      \cup (IF Vix(vix) THEN {"vix_blocked"} ELSE {})
      \cup (IF Sector(sectors) THEN {"sector_blocked"} ELSE {})

DecisionInit ==
    /\ setting \in [session : Sessions, mode : RankModes,
                    slots : {Max({SlotLimit - n, 0}) : n \in Occupied}, held : HeldExposure]
    /\ at = "gates"
    /\ next = 1
    /\ candidates = {}
    /\ ranked = <<>>
    /\ chosen = <<>>
    /\ exposure = setting.held * Scale
    /\ records = {}

DecisionNext ==
    \/ \E regime, vix \in ProxyCloses, sectors \in SUBSET ProxyCloses :
         \E disabled \in BOOLEAN, held \in SUBSET ToSet(Watchlist) :
           TakeGates(Gates(regime, vix, sectors), disabled, held)
    \/ \E v \in Views : Scan(v)
    \/ Rank
    \/ Pick
    \/ RecordChoice

DecisionSpec == DecisionInit /\ [][DecisionNext]_decisionVars

-----------------------------------------------------------------------------
(* Properties.                                                             *)

Notional(c) == c.limit * c.quantity * (IF c.option THEN 100 ELSE 1)

(* However the stop was capped and the size rounded, an entry risks no      *)
(* more than the budget, ties up no more than the position limit, and       *)
(* loses no more than MAX_STOP_PCT of its price.                            *)
EntriesAreBounded ==
    \A i \in DOMAIN chosen : LET c == chosen[i] IN
        /\ c.quantity > 0
        /\ Notional(c) <= MaxNotional * Scale
        /\ (c.limit - c.stop) * c.quantity * (IF c.option THEN 100 ELSE 1) <= RiskBudget * Scale
        /\ ~c.option => (c.limit - c.stop) * 100 <= c.limit * MaxStopPct + 50

(* When the cycle ends, no candidate is left behind for which there is      *)
(* still a slot and room under the cap; and the slots are kept.             *)
NoRoomWasted ==
    /\ Len(chosen) <= setting.slots
    /\ at = "done" /\ Len(chosen) < setting.slots =>
         \A c \in candidates \ ToSet(chosen) : exposure + CandidateExposure(c) > ExposureLimit * Scale

(* In every rank mode: a candidate that is at least as strong and as much   *)
(* traded as one that was taken, better in one of the two, and no larger,   *)
(* was taken before it.                                                     *)
NoBetterLeftBehind ==
    \A i \in DOMAIN chosen : \A c \in candidates :
        /\ Stronger(c, chosen[i]) >= 0
        /\ c.volume >= chosen[i].volume
        /\ Stronger(c, chosen[i]) > 0 \/ c.volume > chosen[i].volume
        /\ CandidateExposure(c) <= CandidateExposure(chosen[i])
        => \E j \in 1 .. i - 1 : chosen[j] = c

(* A symbol that entered the ranking has exactly one verdict in the end.    *)
OneVerdictEach ==
    at = "done" => \A c \in candidates :
        Cardinality({r \in records : r[1] = Watchlist[c.index]}) = 1

(* Slots, cap and ranking are all respected by the greedy choice.           *)
ChoiceIsSound == NoRoomWasted /\ NoBetterLeftBehind /\ OneVerdictEach

(* What the cap is for: the notional of what the strategy holds and enters  *)
(* stays below the share of equity it may use.                              *)
ExposureCapHolds ==
    setting.held * Scale + FoldSeq(LAMBDA c, sum : Notional(c) + sum, 0, chosen)
        <= ExposureLimit * Scale

(* A cycle writes a record of every symbol it evaluates, whatever becomes   *)
(* of the symbol.                                                           *)
EverySymbolRecorded ==
    at = "done" /\ next > Len(Watchlist) => {r[1] : r \in records} = ToSet(Watchlist)

(* With no slot left, every symbol of the cycle gets its record.            *)
FullAccountRecorded ==
    at = "done" /\ records # {} => {r[1] : r \in records} \subseteq ToSet(Watchlist)

(* The choice ends at the first candidate that would exceed the cap: what   *)
(* is chosen is a first part of the ranking.                                *)
ChoiceEndsAtCap == at = "done" => \A s \in Rankings : IsPrefix(chosen, s)
=============================================================================
