--------------------------- MODULE ConfidenceFloor ---------------------------
(***************************************************************************)
(* The floor under the confidence of every strategy: raised by the         *)
(* supervisor when equity or volatility asks for it, kept through a        *)
(* hysteresis band, lowered again to the value an operator has set, who    *)
(* may set a new one from the command line at the same time.  Nothing      *)
(* seeds the row: the first raise or the first command writes it, and      *)
(* until then there is no watermark, either.                               *)
(*                                                                         *)
(* Floors are percents, equity is in percent of its range, volatility is   *)
(* what the two thresholds tell apart.                                     *)
(***************************************************************************)
EXTENDS Integers

CONSTANTS
    Default,       \* settings.confidence_floor
    ManualFloors,  \* values an operator may set
    Step, Cap,     \* floor_raise_step, and 80
    Equities,      \* values of the account's equity
    RaisePct,      \* drawdown_raise_pct, even
    MaxAge,        \* floor_auto_raise_max_age_days
    MaxSets        \* commands of the operator

ConfidenceFloorAssumption ==
    /\ {Default, Step, Cap, RaisePct, MaxAge, MaxSets} \subseteq Nat
    /\ ManualFloors \subseteq 0 .. 100 /\ Equities \subseteq Nat \ {0}

Never == -1

VARIABLES
    equity, volatility,
    row,      \* the confidence_floor_store row, or NoRow
    raised,   \* days since floor_raised_at, or Never
    check,    \* the supervisor's check: "idle", or what it has loaded
    command,  \* the operator's command: "idle", or what it has loaded
    sets,     \* commands left
    said      \* history: the value an operator has last set, the highest equity
              \* checked at all, and the highest checked since there is a row

vars == <<equity, volatility, row, raised, check, command, sets, said>>

Missing(r) == r.by = "nobody"

Idle == [at |-> "idle", row |-> [floor |-> 0, baseline |-> 0, watermark |-> 0, by |-> "system"],
         raised |-> Never]

\* What a command and, but for the watermark, a check take for a row that is not there.
NoRow == [floor |-> Default, baseline |-> Default, watermark |-> 0, by |-> "nobody"]

FirstRow == [floor |-> Default, baseline |-> Default, watermark |-> equity, by |-> "system"]

Init ==
    /\ equity \in Equities /\ volatility = "calm"
    /\ row \in {NoRow, FirstRow}
    /\ raised = Never /\ check = Idle /\ command = Idle /\ sets = MaxSets
    /\ said = [manual |-> Default, seen |-> row.watermark, peak |-> row.watermark]

\* The row is replaced whole, its clock included, whatever it has become since.
Upserted(new, stamp) == row' = new /\ raised' = stamp

MarketMoves ==
    /\ equity' \in Equities /\ volatility' \in {"calm", "band", "high"}
    /\ UNCHANGED <<row, raised, check, command, sets, said>>

\* Nothing reads the clock while a check or a command is under way.
DayPasses ==
    /\ check = Idle /\ command = Idle
    /\ raised' = IF raised = Never \/ raised > MaxAge THEN raised ELSE raised + 1
    /\ UNCHANGED <<equity, volatility, row, check, command, sets, said>>

-----------------------------------------------------------------------------
(***************************************************************************)
(* The supervisor's check loads the row, and writes it back whole.         *)
(***************************************************************************)
Load ==
    /\ check = Idle
    /\ check' = [at |-> "loaded", row |-> row, raised |-> raised]
    /\ UNCHANGED <<equity, volatility, row, raised, command, sets, said>>

Lower(a, b) == IF a < b THEN a ELSE b
Higher(a, b) == IF a > b THEN a ELSE b

IsRaised(r) == r.floor > r.baseline

\* Drawdown in percent, times the watermark.
Drawdown(r) == 100 * (r.watermark - equity)

DrawdownRaises(r) == Drawdown(r) > RaisePct * r.watermark
DrawdownKeeps(r) == IsRaised(r) /\ 2 * Drawdown(r) > RaisePct * r.watermark
Raises(r) == DrawdownRaises(r) \/ volatility = "high"

Keeps(r) == Raises(r) \/ DrawdownKeeps(r) \/ (IsRaised(r) /\ volatility # "calm")

RaisedFloor(r) == IF Raises(r) THEN Lower(r.floor + Step, Cap) ELSE r.floor

\* Mutation: the hysteresis band winds the clock, too.
RestampedByBand(c) == IF Keeps(c.row) THEN 0 ELSE c.raised

\* The clock of a raise: only a fresh trigger winds it.
Restamped(c) ==
    IF Raises(c.row) \/ (IsRaised(c.row) /\ c.raised = Never) THEN 0 ELSE c.raised

Cleared(r) == r.baseline

Watermark(r) == Higher(r.watermark, equity)

\* Without a row the check starts from the equity it has been given.
WithTaken(c) == IF Missing(c.row) THEN [c EXCEPT !.row.watermark = equity] ELSE c

Clears(c) ==
    LET floor == RaisedFloor(c.row) IN
    /\ floor > c.row.baseline
    /\ \/ ~Keeps(c.row)
       \/ ~Raises(c.row) /\ c.row.by # "operator" /\ Restamped(c) > MaxAge

Store ==
    LET c == WithTaken(check)
        r == c.row
        floor == IF Clears(c) THEN Cleared(r) ELSE RaisedFloor(r)
        stamp == IF Clears(c) THEN Never ELSE Restamped(c) IN
    /\ check # Idle /\ check' = Idle
    /\ IF floor = r.floor /\ Watermark(r) = r.watermark /\ stamp = check.raised
       THEN UNCHANGED <<row, raised>>
       ELSE Upserted([floor |-> floor, baseline |-> r.baseline,
                      watermark |-> Watermark(r), by |-> "system"], stamp)
    /\ said' = [said EXCEPT !.seen = Higher(@, equity),
                            !.peak = IF Missing(row') THEN @ ELSE Higher(@, equity)]
    /\ UNCHANGED <<equity, volatility, command, sets>>

-----------------------------------------------------------------------------
(***************************************************************************)
(* set-confidence-floor loads the row for its watermark, then writes it.   *)
(***************************************************************************)
CommandLoads ==
    /\ sets > 0 /\ sets' = sets - 1
    /\ command = Idle
    /\ command' = [at |-> "loaded", row |-> row, raised |-> raised]
    /\ UNCHANGED <<equity, volatility, row, raised, check, said>>

CommandStores == \E value \in ManualFloors :
    /\ command # Idle /\ command' = Idle
    /\ Upserted([floor |-> value, baseline |-> value,
                 watermark |-> command.row.watermark, by |-> "operator"], Never)
    /\ said' = [said EXCEPT !.manual = value]
    /\ UNCHANGED <<equity, volatility, check, sets>>

Next == MarketMoves \/ DayPasses \/ Load \/ Store \/ CommandLoads \/ CommandStores

Spec == Init /\ [][Next]_vars

\* The supervisor goes on checking, a command ends, and days go on passing.
FairSpec == Spec /\ WF_vars(Load \/ Store) /\ WF_vars(CommandStores) /\ SF_vars(DayPasses)

-----------------------------------------------------------------------------
\* A check that finds a reason to raise the floor.
Triggers == check # Idle /\ Raises(WithTaken(check).row)

\* A raise is lifted only by a calm market or by its age, and only to the baseline.
LowersWithReason ==
    check # Idle /\ check' = Idle /\ row' # row /\ row'.floor < check.row.floor =>
        /\ row'.floor = row'.baseline
        /\ LET r == WithTaken(check).row
           IN \/ ~DrawdownKeeps(r) /\ volatility = "calm"
              \/ ~Raises(r) /\ check.raised > MaxAge

\* Once there is a row the drawdown is measured from the highest equity that a check
\* has seen since, as long as no command has been given.
WatermarkIsPeak == sets = MaxSets /\ check = Idle => row.watermark >= said.peak

-----------------------------------------------------------------------------
\* What the documents say.

\* The floor returns to the last manually set value, not below it.
NeverBelowManual == row.floor >= row.baseline

\* The baseline is never changed by the system.
BaselineIsManual == row.baseline = said.manual

\* src/alpaca_bot/runtime/supervisor.py:2562: "Also updates the equity high-watermark
\* whenever equity improves."  So a check that finds a higher equity than every check
\* before it stores that, as long as no command interferes.
ImprovementIsSaved ==
    [][sets = MaxSets /\ 0 < said.seen /\ said.seen < said'.seen
         => row'.watermark = said'.seen]_vars
=============================================================================
