---------------------------- MODULE MCSessionDay -----------------------------
(***************************************************************************)
(* The gates of a session day and the confidence floor, one per scene: the *)
(* gates with lost saves and restarts and no operator; the loss limit      *)
(* beside external short positions; the gates with an operator and the     *)
(* readiness audit; the floor with an operator.  What belongs to another   *)
(* scene stays where it starts.                                            *)
(***************************************************************************)
EXTENDS SessionGates

VARIABLES
    equity, volatility, row, raised, check, command, sets, floorSaid,       \* ConfidenceFloor
    scene

floorVars == <<equity, volatility, row, raised, check, command, sets, floorSaid>>

\* The constants of this module are those of the first scene.
Commands == INSTANCE SessionGates WITH
    Limit <- 0, Worst <- 1, ExternalLoss <- 0, Gate <- 1, FirstAudits <- {"none"},
    MaxFailures <- 2, MaxLostSaves <- 0, MaxCrashes <- 1, MaxCommands <- 1

Shorts == INSTANCE SessionGates WITH
    Limit <- 0, Worst <- 1, ExternalLoss <- 1, Gate <- 0, FirstAudits <- {"not_needed"},
    MaxFailures <- 2, MaxLostSaves <- 0, MaxCrashes <- 1, MaxCommands <- 0

Floor == INSTANCE ConfidenceFloor WITH
    Default <- 25, ManualFloors <- {20, 40}, Step <- 10, Cap <- 80, Equities <- {90, 96, 100},
    RaisePct <- 6, MaxAge <- 2, MaxSets <- 1, said <- floorSaid

ASSUME BoundsAreSound ==
    /\ Commands!SessionGatesAssumption /\ Shorts!SessionGatesAssumption
    /\ Floor!ConfidenceFloorAssumption

-----------------------------------------------------------------------------
Off == "off"
FloorOff ==
    /\ equity = Off /\ volatility = Off /\ row = Off /\ raised = Off
    /\ check = Off /\ command = Off /\ sets = Off /\ floorSaid = Off

GatesOnly == scene = "gates" /\ UNCHANGED <<floorVars, scene>>
CommandsOnly == scene = "commands" /\ UNCHANGED <<floorVars, scene>>
ShortsOnly == scene = "shorts" /\ UNCHANGED <<floorVars, scene>>
FloorOnly == scene = "floor" /\ UNCHANGED <<vars, scene>>

SceneInit ==
    \/ scene = "gates" /\ Init /\ FloorOff
    \/ scene = "commands" /\ Commands!Init /\ FloorOff
    \/ scene = "shorts" /\ Shorts!Init /\ FloorOff
    \/ scene = "floor" /\ Init /\ Floor!Init

SceneNext ==
    \/ GatesOnly /\ Next
    \/ CommandsOnly /\ Commands!Next
    \/ ShortsOnly /\ Shorts!Next
    \/ FloorOnly /\ Floor!Next

\* The process runs its cycles and checks, Docker restarts it, a command ends.
Runs ==
    \/ GatesOnly /\ (Cycle \/ Start)
    \/ ShortsOnly /\ (Shorts!Cycle \/ Shorts!Start)
    \/ FloorOnly /\ (Floor!Load \/ Floor!Store)
CommandEnds == FloorOnly /\ Floor!CommandStores

\* The broker does not refuse an exit for ever; days go on passing.
Passes ==
    \/ GatesOnly /\ Flatten /\ ~position'
    \/ ShortsOnly /\ Shorts!Flatten /\ ~position'
    \/ FloorOnly /\ Floor!DayPasses

sceneVars == <<vars, floorVars, scene>>
SceneSpec ==
    /\ SceneInit /\ [][SceneNext]_sceneVars
    /\ WF_sceneVars(Runs) /\ WF_sceneVars(CommandEnds) /\ SF_sceneVars(Passes)

-----------------------------------------------------------------------------
\* A position held when a breach was announced does not outlast it in regular
\* hours, unless trading is halted.
BreachIsFlattened ==
    (scene \in {"gates", "shorts"} /\ said.loss)
      ~> (scene \in {"gates", "shorts"} /\ (~position \/ session = "extended" \/ status = "halted"))

\* The floor follows the equity: unless fresh triggers keep coming it goes back to
\* the baseline, even in a drawdown that stays within the band for ever; a raise is
\* lifted only by a calm market or by its age, and only to the baseline; and once a
\* row is stored the drawdown is measured from the highest equity a check has seen
\* since, as long as no command has begun.
FloorReturns ==
    \/ []<>(scene = "floor" /\ Floor!Triggers)
    \/ []<>(scene = "floor" => ~Floor!IsRaised(row))
NoFlapping == [][scene = "floor" => Floor!LowersWithReason]_floorVars
FloorFollowsEquity ==
    FloorReturns /\ NoFlapping /\ [](scene = "floor" => Floor!WatermarkIsPeak)
=============================================================================
