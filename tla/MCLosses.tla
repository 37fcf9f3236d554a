------------------------------ MODULE MCLosses ------------------------------
(***************************************************************************)
(* The trading core with one thing going wrong at a time: a call is lost,  *)
(* an order lapses, the entry outlives its window, or the cycle is one of  *)
(* another mode than the normal.                                           *)
(***************************************************************************)
EXTENDS TradingCore

Troubles == faults + lapses + (IF mode # "normal" THEN 1 ELSE 0) + (IF aged THEN 1 ELSE 0)

\* State constraint: the behaviours in which no second trouble comes to the first.
\* None of them has to end there: a cycle of the normal mode is always possible.
OneTrouble == Troubles <= 1
=============================================================================
