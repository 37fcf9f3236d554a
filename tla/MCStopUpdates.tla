---------------------------- MODULE MCStopUpdates ----------------------------
(***************************************************************************)
(* The stop updates of IntentExecution to the end, under fairness, in four *)
(* situations, each with the bounds its question needs: an entry that      *)
(* fills late, in a falling market, so that the stream thread resizes the  *)
(* stop the supervisor moves; one share, with a crash and a lost call; a   *)
(* session of several bars; a partly filled entry.                         *)
(***************************************************************************)
EXTENDS Integers, FiniteSets

VARIABLES bo, held, market, replaced, updates, rows, pos, resize, faults,
          pc, bar, latest, cache, seen, quota, work, crashes,
          scene  \* the situation of the behaviour

vars == <<bo, held, market, replaced, updates, rows, pos, resize, faults,
          pc, bar, latest, cache, seen, quota, work, crashes, scene>>

Races == INSTANCE IntentExecution WITH
    Shares <- 2, MaxPrice <- 3, MaxBar <- 2, MaxReplaced <- 2, MaxFaults <- 0,
    MaxStaleExits <- 0, Starts <- {"late_fill"}, Intents <- {"update_stop"},
    Flattening <- FALSE, MaxCrashes <- 0

Losses == INSTANCE IntentExecution WITH
    Shares <- 1, MaxPrice <- 3, MaxBar <- 2, MaxReplaced <- 1, MaxFaults <- 1,
    MaxStaleExits <- 0, Starts <- {"protected"}, Intents <- {"update_stop"},
    Flattening <- FALSE, MaxCrashes <- 1

Bars == INSTANCE IntentExecution WITH
    Shares <- 1, MaxPrice <- 4, MaxBar <- 2, MaxReplaced <- 2, MaxFaults <- 0,
    MaxStaleExits <- 0, Starts <- {"protected"}, Intents <- {"update_stop"},
    Flattening <- FALSE, MaxCrashes <- 0

Partial == INSTANCE IntentExecution WITH
    Shares <- 2, MaxPrice <- 2, MaxBar <- 1, MaxReplaced <- 0, MaxFaults <- 0,
    MaxStaleExits <- 0, Starts <- {"partial_entry"}, Intents <- {"update_stop"},
    Flattening <- FALSE, MaxCrashes <- 0

ASSUME BoundsAreSound ==
    /\ Races!OpenPositionAssumption /\ Races!IntentAssumption
    /\ Losses!OpenPositionAssumption /\ Losses!IntentAssumption
    /\ Bars!OpenPositionAssumption /\ Bars!IntentAssumption
    /\ Partial!OpenPositionAssumption /\ Partial!IntentAssumption

Init ==
    \/ scene = "races" /\ Races!Init
    \/ scene = "losses" /\ Losses!Init
    \/ scene = "bars" /\ Bars!Init
    \/ scene = "partial" /\ Partial!Init

Next ==
    \/ scene = "races" /\ Races!Next /\ market' <= market /\ UNCHANGED scene
    \/ scene = "losses" /\ Losses!Next /\ UNCHANGED scene
    \/ scene = "bars" /\ Bars!Next /\ UNCHANGED scene
    \/ scene = "partial" /\ Partial!Next /\ UNCHANGED scene

Supervisor ==
    /\ \/ scene = "races" /\ Races!Supervisor
       \/ scene = "losses" /\ Losses!Supervisor
    /\ UNCHANGED scene

StreamRuns ==
    /\ \/ scene = "races" /\ Races!StreamRuns
       \/ scene = "losses" /\ Losses!StreamRuns
    /\ UNCHANGED scene

NewBar ==
    /\ \/ scene = "races" /\ Races!NewBar
       \/ scene = "losses" /\ Losses!NewBar
    /\ UNCHANGED scene

Sells(c) ==
    /\ c \in DOMAIN rows
    /\ \/ scene = "races" /\ Races!Sells(c)
       \/ scene = "losses" /\ Losses!Sells(c)
    /\ UNCHANGED scene

\* The fairness is that of IntentExecution, for the first two, which are followed to
\* their end.
Spec ==
    /\ Init /\ [][Next]_vars
    /\ WF_vars(Supervisor) /\ WF_vars(StreamRuns) /\ WF_vars(NewBar)
    /\ \A c \in Races!SellIds : WF_vars(Sells(c))

-----------------------------------------------------------------------------
\* While the broker answers and the position is whole, the supervisor never moves a
\* stop that protects it down, whatever prices its intents ask for and whichever stop
\* they find, over several bars.
StopNeverFalls == [][scene = "bars" => Bars!StopStaysUp]_vars

\* A position the stream thread has closed is not written back by the intent
\* that was under way for it, while no call is lost; only the recovery opens a
\* position.
SoldStaysSold ==
    [][/\ scene = "bars" => Bars!StepKeepsSold
       /\ scene = "partial" => Partial!StepKeepsSold]_vars

\* Whatever the supervisor and the stream thread write over each other, and whichever
\* call was lost, the position of the ledger ends as that of the account, and a stop
\* it calls active as one that works at the broker: the two threads replace the stop
\* in turn, each saves the replacement over the row as it was before its call, and a
\* fill may come between.
LedgerEndsTrue ==
    <>[](scene \in {"races", "losses"} =>
            /\ pos.qty = held
            /\ \A c \in Races!StopIds \cap DOMAIN rows :
                 Races!IsActive(rows[c]) => rows[c].bid # Races!NoId /\ Races!IsOpen(rows[c].bid))
=============================================================================
