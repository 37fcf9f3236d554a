---------------------------- MODULE EntrySignals ----------------------------
(***************************************************************************)
(* The strategies: what the eleven long evaluators and the eleven put      *)
(* evaluators read in the bars of one symbol, bar by bar over two days.    *)
(* Prices are whole ticks, thresholds whole per cents; averages are        *)
(* compared by cross-multiplication, so nothing is rounded that the code   *)
(* does not round.  An evaluator yields a set: one signal, or none.        *)
(***************************************************************************)
EXTENDS Integers, Sequences, FiniteSets, FiniteSetsExt

CONSTANTS
    Slots, EntryWindow,      \* the bars of a day, and those inside the entry window
    Shapes,                  \* what an intraday bar may look like
    Histories,               \* the daily bars of the days before
    Chains,                  \* the option chain of the symbol: a sequence of contracts
    MaxBars, MaxDay,
    SmaPeriod, Lookback, VolumeLookback, HighDays, OpeningBars,
    EmaPeriod, AtrPeriod, BandPeriod, SqueezeBars,
    RelativeVolume, Buffer, LimitPct, DipPct, GapPct, RunPct, RangePct, SqueezePct

\* A bar of a part of a day, and of a whole day; prices are positive.
Bar == [day : Int, slot : Nat, open : Nat, high : Nat, low : Nat, close : Nat, volume : Nat]
Daily == [day : Int, open : Nat, high : Nat, low : Nat, close : Nat, volume : Nat]
SoundBar(b) == 0 < b.open /\ 0 < b.low /\ b.low <= b.close /\ b.close <= b.high

EntrySignalsAssumption ==
    /\ {SmaPeriod, Lookback, VolumeLookback, HighDays, OpeningBars, EmaPeriod, AtrPeriod,
        BandPeriod, SqueezeBars, RelativeVolume, Buffer} \subseteq Nat \ {0}
    /\ {LimitPct, DipPct, GapPct, RunPct, RangePct, SqueezePct, MaxBars, MaxDay} \subseteq Nat
    /\ Slots \subseteq Nat /\ EntryWindow \subseteq Slots
    /\ Shapes \subseteq [open : Nat, high : Nat, low : Nat, close : Nat, volume : Nat]
    /\ \A shape \in Shapes : SoundBar(shape)
    /\ Histories \subseteq Seq(Daily)
    /\ \A h \in Histories :
         /\ \A k \in DOMAIN h : SoundBar(h[k]) /\ h[k].day < 1
         /\ \A k \in 2..Len(h) : h[k - 1].day < h[k].day

VARIABLES
    bars,       \* the completed intraday bars, of today and of the days before
    completed,  \* the daily bars of completed days
    withToday,  \* the daily series ends with today's bar in progress
    chain, day

signalVars == <<bars, completed, withToday, chain, day>>

Longs == {"breakout", "momentum", "orb", "high_watermark", "ema_pullback", "vwap_reversion",
          "gap_and_go", "bull_flag", "vwap_cross", "bb_squeeze", "failed_breakdown"}
Bears == {"bear_breakdown", "bear_momentum", "bear_orb", "bear_low_watermark",
          "bear_ema_rejection", "bear_vwap_breakdown", "bear_gap_and_drop", "bear_flag",
          "bear_vwap_cross_down", "bear_bb_squeeze_down", "bear_failed_breakout"}

-----------------------------------------------------------------------------
(* Reading bars. *)

High(s, from, to) == Max({s[k].high : k \in from..to})
Low(s, from, to) == Min({s[k].low : k \in from..to})
Closes(s, from, to) == SumFunctionOnSet([k \in from..to |-> s[k].close], from..to)
Volumes(s, from, to) == SumFunctionOnSet([k \in from..to |-> s[k].volume], from..to)
Rounded(n, d) == (2 * n + d) \div (2 * d)

\* Mutation: the opening range is read at the end of what was fetched.
LastBar(s, i) == Len(s)

\* The first bar of the day of bar i.
First(s, i) == Min({k \in 1..i : \A j \in k..i : s[j].day = s[i].day})

DayBar(s, d) ==
    LET of == {k \in DOMAIN s : s[k].day = d} IN
    [day |-> d, open |-> s[Min(of)].open, high |-> High(s, Min(of), Max(of)),
     low |-> Low(s, Min(of), Max(of)), close |-> s[Max(of)].close,
     volume |-> Volumes(s, Min(of), Max(of))]

\* A day on which the symbol did not trade has no bar.
DayBars(s, d) == IF \E k \in DOMAIN s : s[k].day = d THEN <<DayBar(s, d)>> ELSE <<>>

DailyOf(s, done, d) == done \o (IF withToday THEN DayBars(s, d) ELSE <<>>)

\* The last daily bar is left out: it may be today's.
SmaEnd(daily) == Len(daily) - 1
SmaKnown(daily) == Len(daily) >= SmaPeriod + 1
SmaSum(daily) == Closes(daily, SmaEnd(daily) - SmaPeriod + 1, SmaEnd(daily))
Uptrend(daily) == SmaKnown(daily) /\ daily[SmaEnd(daily)].close * SmaPeriod > SmaSum(daily)
Downtrend(daily) == SmaKnown(daily) /\ daily[SmaEnd(daily)].close * SmaPeriod < SmaSum(daily)

\* The daily bars are in the order of their days.
DaysBefore(daily, d) ==
    SubSeq(daily, 1, Cardinality({k \in DOMAIN daily : daily[k].day < d}))

TrueRange(s, k) == Max({s[k].high - s[k].low, s[k].high - s[k - 1].close, s[k - 1].close - s[k].low})

AtrKnown(daily) == Len(daily) >= AtrPeriod + 1
TrueRanges(daily) ==
    SumFunctionOnSet([k \in 2..(AtrPeriod + 1) |-> TrueRange(daily, k)], 2..(AtrPeriod + 1))
Atr(daily) ==
    LET atr[k \in (AtrPeriod + 1)..Len(daily)] ==
            IF k = AtrPeriod + 1 THEN TrueRanges(daily) \div AtrPeriod
            ELSE (atr[k - 1] * (AtrPeriod - 1) + TrueRange(daily, k)) \div AtrPeriod
    IN atr[Len(daily)]

\* The price and the volume sums of a volume-weighted average: vwap = Vp / (3 * volume).
Vp(s, from, to) ==
    SumFunctionOnSet([k \in from..to |-> (s[k].high + s[k].low + s[k].close) * s[k].volume],
                     from..to)
Vwap3(s, from, to) == 3 * Volumes(s, from, to)

\* The moving average at bar i, times (EmaPeriod + 1) to the (i - 1).
Power(n) ==
    LET power[k \in 0..n] == IF k = 0 THEN 1 ELSE (EmaPeriod + 1) * power[k - 1] IN power[n]
EmaOf(close, i) ==
    LET ema[k \in 1..i] ==
            IF k = 1 THEN close[1]
            ELSE 2 * close[k] * Power(k - 2) + (EmaPeriod - 1) * ema[k - 1]
    IN ema[i]
Ema(s, i) == EmaOf([k \in 1..i |-> s[k].close], i)

\* The same started from the mean of the first EmaPeriod closes, times EmaPeriod as well.
SeededEmaOf(close, i) ==
    LET ema[k \in EmaPeriod..i] ==
            IF k = EmaPeriod THEN SumFunctionOnSet(close, 1..EmaPeriod)
            ELSE 2 * close[k] * EmaPeriod * Power(k - EmaPeriod - 1) + (EmaPeriod - 1) * ema[k - 1]
    IN ema[i]
SeededEma(s, i) == SeededEmaOf([k \in 1..i |-> s[k].close], i)
SeededScale(i) == EmaPeriod * Power(i - EmaPeriod)

\* Bands of one standard deviation: the sum, and the variance times BandPeriod squared.
BandSum(s, i) == Closes(s, i - BandPeriod + 1, i)
BandVar(s, i) ==
    LET window == (i - BandPeriod + 1)..i IN
    BandPeriod * SumFunctionOnSet([k \in window |-> s[k].close * s[k].close], window)
    - BandSum(s, i) * BandSum(s, i)
Squeezed(s, i) == 4 * 10000 * BandVar(s, i) < SqueezePct * SqueezePct * BandSum(s, i) * BandSum(s, i)
Outside(gap, s, i) == gap > 0 /\ gap * gap > BandVar(s, i)

Busy(s, i, from, to, times) ==
    /\ Volumes(s, from, to) > 0
    /\ s[i].volume * (to - from + 1) >= times * Volumes(s, from, to)
Surge(s, i, times) == i > VolumeLookback /\ Busy(s, i, i - VolumeLookback, i - 1, times)

-----------------------------------------------------------------------------
(* Long entries: a level, the price the trigger stands on, and the anchor of the stop. *)

Setup(cond, level, trigger, anchor) ==
    IF cond THEN {[level |-> level, trigger |-> trigger, anchor |-> anchor]} ELSE {}

Breakout(s, daily, i) ==
    LET level == High(s, i - Lookback, i - 1) IN
    Setup(/\ i > Max({Lookback, VolumeLookback})
          /\ s[i].high > level /\ s[i].close > level
          /\ Surge(s, i, RelativeVolume), level, level, level)

Momentum(s, daily, i) ==
    LET n == Len(daily)  level == High(daily, n - HighDays + 1, n) IN
    Setup(/\ n >= HighDays /\ s[i].high > level /\ s[i].close > level
          /\ Surge(s, i, RelativeVolume), level, s[i].high, level)

Orb(s, daily, i) ==
    LET from == First(s, i)  to == First(s, i) + OpeningBars - 1
        level == High(s, from, to) IN
    Setup(/\ i > to /\ s[i].high > level /\ s[i].close > level
          /\ Busy(s, i, from, to, RelativeVolume), level, s[i].high, Low(s, from, to))

HighWatermark(s, daily, i) ==
    LET n == Len(daily) - 1  level == High(daily, n - HighDays + 1, n) IN
    Setup(/\ n >= HighDays /\ s[i].high > level /\ s[i].close > level
          /\ Surge(s, i, RelativeVolume), level, level, level)

EmaPullback(s, daily, i) ==
    Setup(/\ i > EmaPeriod
          /\ s[i].close * Power(i - 1) > Ema(s, i)
          /\ s[i - 1].close * Power(i - 2) <= Ema(s, i - 1)
          /\ Surge(s, i, RelativeVolume),
          Rounded(Ema(s, i), Power(i - 1)), s[i].high, s[i - 1].low)

VwapReversion(s, daily, i) ==
    LET from == First(s, i)  vp == Vp(s, from, i)  v == Vwap3(s, from, i) IN
    Setup(/\ v > 0 /\ 100 * s[i].low * v <= (100 - DipPct) * vp /\ s[i].close * v >= vp
          /\ Surge(s, i, RelativeVolume), Rounded(vp, v), s[i].high, s[i].low)

GapAndGo(s, daily, i) ==
    LET prior == DaysBefore(daily, s[i].day)  n == Len(prior) IN
    Setup(/\ First(s, i) = i /\ n > 0
          /\ 100 * s[i].open > (100 + GapPct) * prior[n].close /\ s[i].close > prior[n].high
          /\ Surge(s, i, RelativeVolume), prior[n].high, s[i].high, prior[n].high)

BullFlag(s, daily, i) ==
    LET from == First(s, i)  top == High(s, from, i - 1)  low == Low(s, from, i - 1) IN
    Setup(/\ i > from /\ from > VolumeLookback
          /\ 100 * (top - s[from].open) >= RunPct * s[from].open
          /\ top > low /\ 100 * (s[i].high - s[i].low) <= RangePct * (top - low)
          /\ s[i].volume * (i - from) <= Volumes(s, from, i - 1)
          /\ Volumes(s, from - VolumeLookback, from - 1) > 0
          /\ Volumes(s, from, i - 1) * VolumeLookback
               >= RelativeVolume * Volumes(s, from - VolumeLookback, from - 1) * (i - from),
          top, top, s[i].low)

VwapCross(s, daily, i) ==
    LET from == First(s, i)  vp == Vp(s, from, i)  v == Vwap3(s, from, i) IN
    Setup(/\ i - from >= 2
          /\ Vwap3(s, from, i - 2) > 0
          /\ s[i - 1].close * Vwap3(s, from, i - 2) < Vp(s, from, i - 2)
          /\ v > 0 /\ s[i].close * v >= vp
          /\ Surge(s, i, RelativeVolume), Rounded(vp, v), s[i].high, s[i].low)

\* The level is the upper band; its place between ticks is not told apart.
BbSqueeze(s, daily, i) ==
    Setup(/\ i >= BandPeriod + SqueezeBars
          /\ \A k \in (i - SqueezeBars)..(i - 1) : Squeezed(s, k)
          /\ Outside(BandPeriod * s[i].close - BandSum(s, i - 1), s, i - 1)
          /\ Surge(s, i, RelativeVolume), s[i].close, s[i].high, s[i].low)

FailedBreakdown(s, daily, i) ==
    LET prior == DaysBefore(daily, s[i].day)  n == Len(prior) IN
    Setup(/\ n > 0 /\ s[i].low < prior[n].low
          /\ 100 * s[i].close >= (100 + DipPct) * prior[n].low
          /\ Surge(s, i, RelativeVolume), prior[n].low, s[i].high, s[i].low)

SetupOf(name, s, daily, i) ==
    CASE name = "breakout" -> Breakout(s, daily, i)
      [] name = "momentum" -> Momentum(s, daily, i)
      [] name = "orb" -> Orb(s, daily, i)
      [] name = "high_watermark" -> HighWatermark(s, daily, i)
      [] name = "ema_pullback" -> EmaPullback(s, daily, i)
      [] name = "vwap_reversion" -> VwapReversion(s, daily, i)
      [] name = "gap_and_go" -> GapAndGo(s, daily, i)
      [] name = "bull_flag" -> BullFlag(s, daily, i)
      [] name = "vwap_cross" -> VwapCross(s, daily, i)
      [] name = "bb_squeeze" -> BbSqueeze(s, daily, i)
      [] name = "failed_breakdown" -> FailedBreakdown(s, daily, i)

\* Momentum alone drops today's daily bar before anything else.
DailyFor(name, daily, d) == IF name = "momentum" THEN DaysBefore(daily, d) ELSE daily

InitialStop(setup, daily) == Max({1, setup.anchor - Max({1, Atr(daily)})})

\* The long signals of a strategy at bar i.
Long(name, s, daily, i) ==
    LET known == DailyFor(name, daily, s[i].day) IN
    IF s[i].slot \in EntryWindow /\ Uptrend(known) /\ AtrKnown(known)
    THEN {[level |-> p.level, stop |-> p.trigger + Buffer,
           limit |-> Rounded((p.trigger + Buffer) * (100 + LimitPct), 100),
           initial |-> InitialStop(p, known)] : p \in SetupOf(name, s, known, i)}
    ELSE {}

-----------------------------------------------------------------------------
(* Puts: the level of the break, and the contract that is bought for it. *)

Eligible(contracts, type) ==
    {k \in DOMAIN contracts : /\ contracts[k].type = type /\ contracts[k].ask > 0
                              /\ contracts[k].dte /\ contracts[k].tight}

Nearest(ks, contracts, field, to) ==
    LET gap(k) == IF contracts[k][field] > to THEN contracts[k][field] - to
                                              ELSE to - contracts[k][field]
    IN Min({k \in ks : \A j \in ks : gap(k) <= gap(j)})

\* By delta when any contract has one (zero stands for none), else by strike.
Selected(contracts, type, price, target) ==
    LET ks == Eligible(contracts, type)  known == {k \in ks : contracts[k].delta > 0} IN
    IF ks = {} THEN {}
    ELSE {contracts[IF known # {} THEN Nearest(known, contracts, "delta", target)
                                  ELSE Nearest(ks, contracts, "strike", price)]}

DeltaTarget == 40

PutOn(level, s) ==
    {[level |-> level, contract |-> c] : c \in Selected(chain, "put", s[Len(s)].close, DeltaTarget)}

Put(cond, level, s) == IF chain # <<>> /\ cond THEN PutOn(level, s) ELSE {}

\* A call is bought where the breakout strategy signals.
Call(s, daily, i) ==
    {[level |-> p.level, contract |-> c] :
        p \in (IF chain = <<>> THEN {} ELSE Long("breakout", s, daily, i)),
        c \in Selected(chain, "call", s[Len(s)].close, DeltaTarget)}

BearBreakdown(s, daily, i) ==
    Put(/\ i > Max({Lookback, VolumeLookback})
        /\ s[i].low < Low(s, i - Lookback, i - 1)
        /\ Surge(s, i, RelativeVolume), s[i].low, s)

BearMomentum(s, daily, i) ==
    Put(i > 3 /\ s[i - 2].close > s[i - 1].close /\ s[i - 1].close > s[i].close, s[i].close, s)

BearOrb(s, daily, i) ==
    Put(/\ i > OpeningBars /\ s[i].close < Low(s, 1, OpeningBars)
        /\ Busy(s, i, 1, OpeningBars, RelativeVolume), s[i].close, s)

BearLowWatermark(s, daily, i) ==
    LET n == Len(daily) - 1  level == Low(daily, n - HighDays + 1, n) IN
    Put(n >= HighDays /\ s[i].low < level /\ s[i].close < level, s[i].low, s)

BearEmaRejection(s, daily, i) ==
    Put(/\ i > EmaPeriod
        /\ s[i - 1].close * SeededScale(i - 1) >= SeededEma(s, i - 1)
        /\ s[i].close * SeededScale(i) < SeededEma(s, i), s[i].close, s)

BearVwapBreakdown(s, daily, i) ==
    LET vp == Vp(s, 1, i)  v == Vwap3(s, 1, i) IN
    Put(v > 0 /\ 100 * s[i].high * v > (100 + DipPct) * vp /\ s[i].close * v < vp, s[i].close, s)

\* Only the very first bar of the window can be the signal.
BearGapAndDrop(s, daily, i) ==
    LET prior == daily[Len(daily) - 1] IN
    Put(/\ i = 1 /\ Len(daily) >= 2
        /\ 100 * s[i].open < (100 - GapPct) * prior.close /\ s[i].close < prior.low
        /\ prior.volume > 0 /\ s[i].volume >= RelativeVolume * prior.volume, s[i].close, s)

\* A pole of two to four bars, the shortest that falls far enough, then two bars of rest.
BearFlag(s, daily, i) ==
    LET starts == {n \in 2..4 : n < i - 1 /\ i - n - 2 >= 1
                                /\ 100 * (s[i - n - 2].open - Low(s, i - n - 2, i - 3)) >= RunPct * s[i - n - 2].open}
        n == Min(starts) IN
    Put(/\ i > 4 /\ starts # {}
        /\ 100 * (High(s, i - 2, i - 1) - Low(s, i - 2, i - 1)) <= RangePct * s[i - 3].close
        /\ Volumes(s, i - 2, i - 1) * n <= Volumes(s, i - n - 2, i - 3) * 2
        /\ s[i].close < Low(s, i - 2, i - 1), Low(s, i - n - 2, i - 3), s)

BearVwapCrossDown(s, daily, i) ==
    Put(/\ i > 1 /\ Vwap3(s, 1, i - 1) > 0
        /\ s[i - 1].close * Vwap3(s, 1, i - 1) >= Vp(s, 1, i - 1)
        /\ s[i].close * Vwap3(s, 1, i) < Vp(s, 1, i), s[i].close, s)

BearBbSqueezeDown(s, daily, i) ==
    Put(/\ i > BandPeriod + SqueezeBars
        /\ (Squeezed(s, i - 1) \/ 40000 * BandVar(s, i - 1)
             = SqueezePct * SqueezePct * BandSum(s, i - 1) * BandSum(s, i - 1))
        /\ Outside(BandSum(s, i - 1) - BandPeriod * s[i].close, s, i - 1), s[i].close, s)

BearFailedBreakout(s, daily, i) ==
    LET level == High(s, Max({1, i - Lookback}), i - 1)
        from == Max({1, i - VolumeLookback}) IN
    Put(/\ i > 1 /\ s[i].high > level /\ 100 * s[i].close < (100 - DipPct) * level
        /\ IF Volumes(s, from, i - 1) > 0 THEN Busy(s, i, from, i - 1, RelativeVolume)
                                          ELSE RelativeVolume <= 1, s[i].close, s)

BreakOf(name, s, daily, i) ==
    CASE name = "bear_breakdown" -> BearBreakdown(s, daily, i)
      [] name = "bear_momentum" -> BearMomentum(s, daily, i)
      [] name = "bear_orb" -> BearOrb(s, daily, i)
      [] name = "bear_low_watermark" -> BearLowWatermark(s, daily, i)
      [] name = "bear_ema_rejection" -> BearEmaRejection(s, daily, i)
      [] name = "bear_vwap_breakdown" -> BearVwapBreakdown(s, daily, i)
      [] name = "bear_gap_and_drop" -> BearGapAndDrop(s, daily, i)
      [] name = "bear_flag" -> BearFlag(s, daily, i)
      [] name = "bear_vwap_cross_down" -> BearVwapCrossDown(s, daily, i)
      [] name = "bear_bb_squeeze_down" -> BearBbSqueezeDown(s, daily, i)
      [] name = "bear_failed_breakout" -> BearFailedBreakout(s, daily, i)

\* Mutation: the trend of the puts is read with today's bar.
BearOnLast(name, s, daily, i) ==
    IF SmaKnown(daily) /\ daily[Len(daily)].close < daily[Len(daily) - 1].close
    THEN BreakOf(name, s, daily, i) ELSE {}

\* The puts know no entry window of their own.
Bear(name, s, daily, i) == IF Downtrend(daily) THEN BreakOf(name, s, daily, i) ELSE {}

-----------------------------------------------------------------------------
SignalsInit ==
    /\ bars = <<>> /\ day = 1
    /\ completed \in Histories /\ chain \in Chains /\ withToday \in BOOLEAN

\* The next bar of the day completes; the symbol need not trade in every slot.
NextBar ==
    /\ Len(bars) < MaxBars
    /\ \E slot \in Slots, shape \in Shapes :
        /\ \A k \in DOMAIN bars : bars[k].day = day => bars[k].slot < slot
        /\ bars' = Append(bars, [day |-> day, slot |-> slot, open |-> shape.open, high |-> shape.high,
                                 low |-> shape.low, close |-> shape.close, volume |-> shape.volume])
    /\ UNCHANGED <<completed, withToday, chain, day>>

NextDay ==
    /\ day < MaxDay
    /\ completed' = completed \o DayBars(bars, day)
    /\ day' = day + 1
    /\ UNCHANGED <<bars, withToday, chain>>

SignalsNext == NextBar \/ NextDay

SignalsSpec == SignalsInit /\ [][SignalsNext]_signalVars

-----------------------------------------------------------------------------
(* Properties. *)

LongAt(name, i) == Long(name, bars, DailyOf(bars, completed, day), i)
BearAt(name, i) == Bear(name, bars, DailyOf(bars, completed, day), i)

\* Orders of a signal, without the initial stop, whose buffer reads today's range.
Orders(signals) == {<<p.level, p.stop, p.limit>> : p \in signals}
Levels(signals) == {p.level : p \in signals}

StepKeepsSignals ==
    day' = day => \A i \in {k \in DOMAIN bars : bars[k].day = day} :
        /\ \A name \in Longs :
             Orders(Long(name, bars', DailyOf(bars', completed', day'), i)) = Orders(LongAt(name, i))
        /\ \A name \in Bears :
             Levels(Bear(name, bars', DailyOf(bars', completed', day'), i)) = Levels(BearAt(name, i))
        /\ Levels(Call(bars', DailyOf(bars', completed', day'), i))
             = Levels(Call(bars, DailyOf(bars, completed, day), i))

\* No look-ahead: what a strategy says of a bar does not change when later bars
\* of the day come in, neither that it signals nor at which prices.
SignalsStand == [][StepKeepsSignals]_signalVars

\* Momentum drops today's daily bar before it looks at the trend, so it agrees
\* with the others only while the series has none.
NoOpposite ==
    \A i \in DOMAIN bars : bars[i].day = day /\ i = Len(bars) =>
        ~ (\E a \in {n \in Longs : withToday => n # "momentum"}, b \in Bears : LongAt(a, i) # {} /\ BearAt(b, i) # {})

\* The bull flag is left out: its anchor is the flag bar, and nothing keeps that
\* bar below the pole.
StopBelowEntry ==
    \A i \in DOMAIN bars : i = Len(bars) =>
        \A name \in Longs \ {"bull_flag"} : \A p \in LongAt(name, i) :
            p.initial < p.stop /\ p.stop <= p.limit

\* No bar is bought and bet against, and stops lie below their entries. The last bar
\* of today gives no long entry and no put together, momentum aside on days whose own
\* bar is among the daily ones; and the stop of a long signal lies below the trigger
\* of the entry, which lies at or below the limit, the bull flag aside.
SignalsAgree == NoOpposite /\ StopBelowEntry

\* The watermark strategy buys a close above the highest high of the last
\* HighDays days.
WatermarkIsNew ==
    \A i \in DOMAIN bars : i = Len(bars) /\ bars[i].day = day =>
        (LongAt("high_watermark", i) # {}
            => bars[i].close > High(completed, Len(completed) - HighDays + 1, Len(completed)))

\* The cross of the session's VWAP is traded the first time in a day.
FirstCross ==
    \A i, j \in DOMAIN bars : i < j /\ bars[i].day = day /\ bars[j].day = day =>
        ~ (LongAt("vwap_cross", i) # {} /\ LongAt("vwap_cross", j) # {})

\* A put on the break of the opening range closes below today's opening range.
BreaksTodaysRange ==
    \A i \in DOMAIN bars : i = Len(bars) /\ bars[i].day = day /\ BearAt("bear_orb", i) # {} =>
        bars[i].close < Low(bars, First(bars, i), First(bars, i) + OpeningBars - 1)

\* A bull flag is bought on a close above the bars before it.
FlagBreaksOut ==
    \A i \in DOMAIN bars : i = Len(bars) =>
        \A p \in LongAt("bull_flag", i) : bars[i].close > p.level
=============================================================================
