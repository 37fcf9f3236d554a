---------------------------- MODULE MCTradingCore ----------------------------
(***************************************************************************)
(* Two instances of the trading core in one run: the cfg's constants with  *)
(* a market that stays above the stop and an entry within its window, and  *)
(* a smaller position without faults, where the market may fall below the  *)
(* stop (and rise again between two cycles) or the entry outlive its       *)
(* window, one of the two at a time.                                       *)
(***************************************************************************)
EXTENDS TradingCore

VARIABLE day  \* which instance the behaviour is of

FreeDay == INSTANCE TradingCore WITH
    EntryQty <- 2, MaxFaults <- 0, MaxCrashes <- 0, Modes <- {"normal"}

MCInit ==
    \/ day = "quiet" /\ Init
    \/ day = "free" /\ FreeDay!Init

MCNext ==
    \/ day = "quiet" /\ Next /\ ~low' /\ ~aged' /\ UNCHANGED day
    \/ /\ day = "free" /\ FreeDay!Next /\ ~(low' /\ aged') /\ UNCHANGED day
       /\ low /\ ~low' => pc = "orders"

MCSpec == MCInit /\ [][MCNext]_<<vars, day>>
=============================================================================
