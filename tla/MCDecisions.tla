----------------------------- MODULE MCDecisions -----------------------------
(***************************************************************************)
(* What a cycle decides, one part per scene: the signals of the strategies, *)
(* the entries (their filters on a short list with everything that can be   *)
(* in the way, the choice on a longer list of candidates), the weights of   *)
(* the strategies, the cycles of several strategies that share slots and    *)
(* symbols, and the exits and stop updates of one position.  What belongs   *)
(* to another scene is off, or stays where it starts.  The filters alone    *)
(* have constants of their own, with the amounts of the choice.             *)
(***************************************************************************)
EXTENDS EntrySlots, EntryDecision, StrategyWeights, EntrySignals, PositionRules

VARIABLE scene

sceneVars == <<signalVars, weightVars, decisionVars, vars, rulesVars, scene>>

\* The active strategies of the scene of the slots.
TwoStrategies == <<"momentum", "breakout">>

-----------------------------------------------------------------------------
(* Signals: bar shapes, daily histories and an option chain.               *)
Shape(o, h, l, c, v) == [open |-> o, high |-> h, low |-> l, close |-> c, volume |-> v]
BarShapes ==
    {Shape(100, 101, 99, 100, 1), Shape(104, 106, 96, 105, 4), Shape(96, 102, 94, 95, 4)}

DailyBar(d, c, h, l) == [day |-> d, open |-> c, high |-> h, low |-> l, close |-> c, volume |-> 2]
Rising == <<DailyBar(-2, 98, 99, 97), DailyBar(-1, 100, 101, 99), DailyBar(0, 101, 103, 98)>>
Falling == <<DailyBar(-2, 102, 103, 101), DailyBar(-1, 100, 101, 99), DailyBar(0, 99, 101, 96)>>

OptionContract(t, k, d) ==
    [type |-> t, strike |-> k, delta |-> d, ask |-> 2, dte |-> TRUE, tight |-> TRUE]
TwoHistories == {Rising, Falling}
OneChain ==
    {<<OptionContract("put", 100, 35), OptionContract("put", 95, 0), OptionContract("call", 105, 0)>>}

-----------------------------------------------------------------------------
(* Decisions.                                                              *)
\* What a cycle may see of a symbol.
Fine == [held |-> FALSE, bars |-> "latest", traded |-> FALSE, news |-> FALSE,
         spread |-> "narrow", staleDaily |-> FALSE, signal |-> TRUE,
         yesterday |-> FALSE, entry |-> 40, close |-> 41, limit |-> 42, stop |-> 40,
         volume |-> 2, belowVwap |-> FALSE, option |-> FALSE, fractionable |-> FALSE]

\* Each check fails once, and once together with a later one.
Obstacles ==
    {[Fine EXCEPT !.held = TRUE], [Fine EXCEPT !.bars = "none"],
     [Fine EXCEPT !.traded = TRUE, !.news = TRUE],
     [Fine EXCEPT !.bars = "old"], [Fine EXCEPT !.bars = "old", !.signal = FALSE],
     [Fine EXCEPT !.news = TRUE], [Fine EXCEPT !.spread = "wide"],
     [Fine EXCEPT !.spread = "very_wide", !.staleDaily = TRUE],
     [Fine EXCEPT !.staleDaily = TRUE], [Fine EXCEPT !.bars = "out_of_window"],
     [Fine EXCEPT !.bars = "at_flatten"], [Fine EXCEPT !.signal = FALSE],
     [Fine EXCEPT !.yesterday = TRUE], [Fine EXCEPT !.close = 36],
     [Fine EXCEPT !.close = 45], [Fine EXCEPT !.close = 43],
     [Fine EXCEPT !.belowVwap = TRUE], [Fine EXCEPT !.stop = 42],
     [Fine EXCEPT !.limit = 900, !.stop = 700], [Fine EXCEPT !.limit = 3100]}

\* Candidates that differ in strength, volume, stop and size.
Candidates ==
    {[Fine EXCEPT !.close = c, !.volume = u, !.stop = s, !.fractionable = f]
       : c \in {40, 42}, u \in {1, 3}, s \in {20, 41}, f \in BOOLEAN}

OptionCandidates ==
    {[Fine EXCEPT !.option = TRUE, !.limit = ask, !.volume = u] : ask \in {1, 2, 9}, u \in {1, 3}}

ThreeSymbols == <<"A", "B", "C">>
ChoiceViews ==
    Candidates \cup {[Fine EXCEPT !.news = TRUE], [Fine EXCEPT !.limit = 44, !.stop = 43]}
NoHistory == {<<>>}

Obstructed == INSTANCE EntryDecision WITH
    Watchlist <- <<"A", "B">>, Views <- Obstacles \cup Candidates \cup OptionCandidates,
    Sessions <- {"regular", "after_hours", "pre_market"}, RankModes <- {"close"},
    ProxyCloses <- {<<>>, <<1, 2, 1>>, <<2, 1, 2>>}, Occupied <- {0, 1}, SlotLimit <- 1,
    HeldExposure <- {0}, MaxLoss <- 0

-----------------------------------------------------------------------------
ASSUME BoundsAreSound ==
    /\ EntrySignalsAssumption /\ StrategyWeightsAssumption
    /\ DecisionAssumption /\ Obstructed!DecisionAssumption /\ PositionRulesAssumption

-----------------------------------------------------------------------------
SignalsOff ==
    /\ SignalsInit /\ ~ withToday
    /\ completed = Rising
DecisionOff ==
    /\ setting = [slots |-> 0] /\ at = "gates" /\ next = 1 /\ candidates = {}
    /\ ranked = <<>> /\ chosen = <<>> /\ exposure = 0 /\ records = {}
WeightsOff == WeightsInit /\ \A n \in Members : sharpe[n] = 0
RulesOff == RulesInit /\ trade.side = "long"
EntriesOff == SignalsOff /\ DecisionOff /\ WeightsOff

SceneInit ==
    /\ Init
    /\ \/ scene = "signals" /\ SignalsInit /\ DecisionOff /\ WeightsOff /\ RulesOff
       \/ scene = "filters" /\ Obstructed!DecisionInit /\ SignalsOff /\ WeightsOff /\ RulesOff
       \/ scene = "choice" /\ DecisionInit /\ SignalsOff /\ WeightsOff /\ RulesOff
       \/ scene = "weights" /\ WeightsInit /\ SignalsOff /\ DecisionOff /\ RulesOff
       \/ scene = "slots" /\ EntriesOff /\ RulesOff
       \/ scene = "position" /\ RulesInit /\ EntriesOff

OthersStay == UNCHANGED <<rulesVars, scene>>
SceneNext ==
    \/ scene = "signals" /\ SignalsNext /\ UNCHANGED <<decisionVars, weightVars, vars>> /\ OthersStay
    \/ scene = "filters" /\ Obstructed!DecisionNext /\ UNCHANGED <<signalVars, weightVars, vars>> /\ OthersStay
    \/ scene = "choice" /\ DecisionNext /\ UNCHANGED <<signalVars, weightVars, vars>> /\ OthersStay
    \/ scene = "weights" /\ WeightsNext /\ UNCHANGED <<signalVars, decisionVars, vars>> /\ OthersStay
    \/ scene = "slots" /\ Next /\ UNCHANGED <<signalVars, decisionVars, weightVars>> /\ OthersStay
    \/ scene = "position" /\ RulesNext /\ UNCHANGED <<signalVars, decisionVars, weightVars, vars, scene>>

SceneSpec == SceneInit /\ [][SceneNext]_sceneVars

=============================================================================
