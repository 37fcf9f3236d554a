---------------------------- MODULE StopContract ----------------------------
(***************************************************************************)
(* What the strategy promises of one open trade, whatever rules it runs:   *)
(* the stop moves in one direction only, towards the profit, and is put    *)
(* only where the market has not yet been; a trade that is over stays      *)
(* over, with the stop it had.                                             *)
(***************************************************************************)
EXTENDS Integers

VARIABLES side, stop, price, open

vars == <<side, stop, price, open>>

\* a is a better stop than b for a trade of that side.
Better(s, a, b) == IF s = "long" THEN a > b ELSE a < b

Init == side \in {"long", "short"} /\ stop \in Int /\ price \in Int /\ open = TRUE

\* The price moves; then the stop may follow it, and stays behind it.
Move ==
    /\ open /\ price' \in Int /\ stop' \in Int
    /\ stop' # stop => Better(side, stop', stop) /\ Better(side, price', stop')
    /\ UNCHANGED <<side, open>>

Close == open /\ open' = FALSE /\ price' \in Int /\ UNCHANGED <<side, stop>>

Next == Move \/ Close

Spec == Init /\ [][Next]_vars
=============================================================================
