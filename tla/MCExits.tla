------------------------------- MODULE MCExits -------------------------------
(***************************************************************************)
(* The exits of IntentExecution to the end, under fairness, in three       *)
(* situations: the exits every cycle gives at the close, with a crash and  *)
(* a lost call, whose constants are this module's; such exits of an entry  *)
(* whose fills arrive in parts or late; exits that some cycles give, with  *)
(* a crash or a lost call.  Prices, bars and replacements are those of     *)
(* this module in all three.                                               *)
(***************************************************************************)
EXTENDS IntentExecution

VARIABLE scene  \* the situation of the behaviour

sceneVars == <<vars, scene>>

Parts == INSTANCE IntentExecution WITH
    Shares <- 2, MaxFaults <- 0, Starts <- {"protected", "late_fill", "partial_entry"},
    MaxCrashes <- 0

Attempts == INSTANCE IntentExecution WITH
    MaxStaleExits <- 0, Starts <- {"protected"}, Flattening <- FALSE

ASSUME BoundsAreSound ==
    /\ Parts!OpenPositionAssumption /\ Parts!IntentAssumption
    /\ Attempts!OpenPositionAssumption /\ Attempts!IntentAssumption

SceneInit ==
    \/ scene = "close" /\ Init
    \/ scene = "parts" /\ Parts!Init
    \/ scene = "attempts" /\ Attempts!Init

SceneNext ==
    \/ scene = "close" /\ Next /\ UNCHANGED scene
    \/ scene = "parts" /\ Parts!Next /\ UNCHANGED scene
    \/ scene = "attempts" /\ Attempts!Next /\ UNCHANGED scene

SceneSupervisor ==
    /\ \/ scene = "close" /\ Supervisor
       \/ scene = "parts" /\ Parts!Supervisor
       \/ scene = "attempts" /\ Attempts!Supervisor
    /\ UNCHANGED scene

SceneStreamRuns ==
    /\ \/ scene = "close" /\ StreamRuns
       \/ scene = "parts" /\ Parts!StreamRuns
       \/ scene = "attempts" /\ Attempts!StreamRuns
    /\ UNCHANGED scene

SceneNewBar ==
    /\ \/ scene = "close" /\ NewBar
       \/ scene = "parts" /\ Parts!NewBar
       \/ scene = "attempts" /\ Attempts!NewBar
    /\ UNCHANGED scene

SceneSells(c) ==
    /\ \/ scene = "close" /\ Sells(c)
       \/ scene = "parts" /\ Parts!Sells(c)
       \/ scene = "attempts" /\ Attempts!Sells(c)
    /\ UNCHANGED scene

\* That of IntentExecution, for each of the three.
SceneSpec ==
    /\ SceneInit /\ [][SceneNext]_sceneVars
    /\ WF_sceneVars(SceneSupervisor) /\ WF_sceneVars(SceneStreamRuns)
    /\ WF_sceneVars(SceneNewBar)
    /\ \A c \in SellIds : WF_sceneVars(SceneSells(c))

-----------------------------------------------------------------------------
\* Whatever the cycles and the stream thread write over each other, and whichever
\* calls were lost, the position of the ledger ends as that of the account, and one
\* whose exit every cycle asks for is flat in the end, and stays so.
FlatInTheEnd == <>[](pos.qty = held /\ (scene # "attempts" => held = 0))

\* An exit cancels the stops before it is submitted.  Whatever it meets then, a
\* fill of the stop, a lost call or a crash, the position is gone or orders for all
\* its shares are at the broker again and again.  A second failure is left out: a
\* recovery stop that ended is not renewed at its price.
CoverComesBack ==
    scene = "attempts" => []<>(faults + crashes > 1 \/ held = 0 \/ Free({}) = 0)
=============================================================================
