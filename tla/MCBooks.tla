------------------------------- MODULE MCBooks -------------------------------
(***************************************************************************)
(* What follows the trades, one per scene: option orders with a kill of    *)
(* the process; option orders to the close of a calm day; the reports over *)
(* the trades of a stock over two days, in half shares; those over a stock *)
(* and an option; the exclusion of strategies with a losing streak.  The   *)
(* scenes "calm" and "stock" have this module's constants.  What belongs   *)
(* to another scene is off, or empty.                                      *)
(***************************************************************************)
EXTENDS OptionOrders, TradeAccounting

VARIABLES
    streak, today, held, announced, checked, weighed, logged, restarts, chance,
    scene

streakVars == <<streak, today, held, announced, checked, weighed, logged, restarts, chance>>
sceneVars == <<vars, accountingVars, streakVars, scene>>

Stocks == [c \in Contracts |-> "AAPL"]
StockOwner == {<<"AAPL", "orb">>}
Strategies == {"orb", "option"}

Kills == INSTANCE OptionOrders WITH
    Quantity <- 1, MaxSales <- 1, MaxCrashes <- 1, Days <- {FALSE}

StockAndOption == INSTANCE TradeAccounting WITH
    Owners <- StockOwner \cup {<<"MSFT", "option">>}, Parts <- 1, Ordered <- 1, Prices <- {4, 8},
    Trades <- 2, LastDay <- 2

Streaks == INSTANCE LosingStreaks WITH
    Options <- {"option"}, LosingStreak <- 2, MaxRestarts <- 1

ASSUME BoundsAreSound ==
    /\ Kills!OptionAssumption
    /\ StockAndOption!AccountingAssumption
    /\ Streaks!StreakAssumption

-----------------------------------------------------------------------------
Off == "off"
OrdersOff ==
    /\ rows = <<>> /\ broker = <<>> /\ updates = <<>> /\ process = Off
    /\ bar = Off /\ sales = Off /\ crashes = Off /\ calm = FALSE
ReportsOff ==
    /\ entries = <<>> /\ exits = <<>> /\ current = <<>> /\ now = Off
    /\ day = 0 /\ cost = Off /\ earned = Off /\ moved = {}
StreaksOff ==
    /\ streak = Off /\ today = Off /\ held = Off /\ announced = Off /\ checked = Off
    /\ weighed = Off /\ logged = Off /\ restarts = Off /\ chance = Off

SceneInit ==
    \/ scene = "kills" /\ Kills!Init /\ ReportsOff /\ StreaksOff
    \/ scene = "calm" /\ Init /\ ReportsOff /\ StreaksOff
    \/ scene = "stock" /\ AccountingInit /\ OrdersOff /\ StreaksOff
    \/ scene = "both" /\ StockAndOption!AccountingInit /\ OrdersOff /\ StreaksOff
    \/ scene = "streaks" /\ Streaks!Init /\ OrdersOff /\ ReportsOff

OrdersOnly == UNCHANGED <<accountingVars, streakVars, scene>>
ReportsOnly == UNCHANGED <<vars, streakVars, scene>>
StreaksOnly == UNCHANGED <<vars, accountingVars, scene>>

SceneNext ==
    \/ scene = "kills" /\ Kills!Next /\ OrdersOnly
    \/ scene = "calm" /\ Next /\ OrdersOnly
    \/ scene = "stock" /\ AccountingNext /\ ReportsOnly
    \/ scene = "both" /\ StockAndOption!AccountingNext /\ ReportsOnly
    \/ scene = "streaks" /\ Streaks!Next /\ StreaksOnly

\* The supervisor loops, the stream thread runs, bars go on coming; the broker owes
\* nothing but the fills of its market orders.
SceneCycle ==
    \/ scene = "kills" /\ Kills!Cycle /\ OrdersOnly
    \/ scene = "calm" /\ Cycle /\ OrdersOnly
SceneRecordFill ==
    \/ scene = "kills" /\ Kills!RecordFill /\ OrdersOnly
    \/ scene = "calm" /\ RecordFill /\ OrdersOnly
SceneNextBar ==
    \/ scene = "kills" /\ Kills!NextBar /\ OrdersOnly
    \/ scene = "calm" /\ NextBar /\ OrdersOnly
SaleFills(id) ==
    scene = "calm" /\ Side(id) = "sell" /\ Fill(id) /\ OrdersOnly

SceneFairSpec ==
    /\ SceneInit /\ [][SceneNext]_sceneVars
    /\ WF_sceneVars(SceneCycle) /\ WF_sceneVars(SceneRecordFill) /\ SF_sceneVars(SceneNextBar)
    /\ \A id \in Ids : WF_sceneVars(SaleFills(id))

-----------------------------------------------------------------------------
\* With no kill there is time and again a moment when every record is decided: sent,
\* or marked failed, the two statuses in between left behind.  What was bought is sold:
\* the day ends without a position, when fills are recorded between cycles.
Undecided(id) == rows[id].status \in {"pending_submit", "submitting"}
OptionsAreSettled ==
    /\ []<>(scene = "kills" /\ crashes = 0 => \A id \in Kills!Ids : ~Undecided(id))
    /\ <>[](scene = "calm" => \A c \in Contracts : Held(c) = 0)

\* A strategy excluded for its losing days is given no entry to win with: it stays
\* excluded, unless an option was held into the day or a cycle overlooked it.
ExclusionIsForGood ==
    [][scene = "streaks" =>
         \A s \in Streaks!Excluded \ chance : s \in Streaks!Excluded']_sceneVars
=============================================================================
