--------------------------- MODULE LosingStreaks ----------------------------
(***************************************************************************)
(* The exclusion of strategies on a losing streak. Every cycle the trailing *)
(* losing days before today are counted from the closed trades, a strategy  *)
(* with too many is given no entries in this cycle, and the changes are     *)
(* written to the audit log against a set kept in memory.                   *)
(*                                                                          *)
(* The days are not numbered: a streak, capped, is all a count looks at.    *)
(***************************************************************************)
EXTENDS Naturals, FiniteSets

CONSTANTS Strategies,    \* the active strategies
          Options,       \* those that trade options
          LosingStreak,  \* LOSING_STREAK_N
          MaxRestarts    \* bound: restarts of the supervisor

StreakAssumption ==
    /\ Options \subseteq Strategies
    /\ LosingStreak \in Nat \ {0}
    /\ MaxRestarts \in Nat

VARIABLES streak,      \* trailing losing days before today, up to LosingStreak
          today,       \* the result of today's closed trades
          held,        \* "no", "today" or "carried": an open position
          announced,   \* _strategy_streak_excluded
          checked,     \* a cycle has computed it in this process, today
          weighed,     \* the strategies in that session's Sharpe ratios
          logged,      \* the last audit event of each strategy
          restarts,
          chance       \* history: strategies that may win today though excluded

vars == <<streak, today, held, announced, checked, weighed, logged, restarts, chance>>

(* compute_losing_day_streaks, capped, of all closed trades.                *)
Excluded == {s \in Strategies : streak[s] >= LosingStreak}

\* Mutation: a day without a trade ends a streak.
ForgivingStreak(s) ==
    IF today[s] = "lost" THEN (IF streak[s] < LosingStreak THEN streak[s] + 1 ELSE streak[s])
    ELSE 0

StreakAfter(s) ==
    CASE today[s] = "lost" -> IF streak[s] < LosingStreak THEN streak[s] + 1 ELSE streak[s]
      [] today[s] \in {"won", "even"} -> 0
      [] OTHER -> streak[s]

(* What a cycle finds excluded of the strategies that were enabled when the *)
(* session was weighed. Without the rows of the options, whose read may     *)
(* fail, their strategies have no streak.                                  *)
Found(active) == {Excluded \cap active, (Excluded \ Options) \cap active}

Weigh == weighed' \in IF checked THEN {weighed} ELSE SUBSET Strategies

(* It writes what changed since the last cycle; an event that cannot be     *)
(* appended is dropped, and the set in memory moves on all the same.       *)
Cycle ==
    /\ Weigh
    /\ \E excluded \in Found(weighed'), dropped \in SUBSET Strategies :
        /\ logged' = [s \in Strategies |->
              CASE s \in dropped -> logged[s]
                [] s \in excluded \ announced ->
                     IF logged[s] \in {"excluded", "again"} THEN "again" ELSE "excluded"
                [] s \in announced \ excluded -> "restored"
                [] OTHER -> logged[s]]
        /\ announced' = excluded
        /\ checked' = TRUE
        /\ UNCHANGED <<streak, today, held, restarts, chance>>

(* A strategy found excluded gets no entry in the cycle and none of its own *)
(* is dispatched; one that the cycle overlooked has a chance again.         *)
Enter(s) ==
    /\ checked /\ s \notin announced
    /\ held[s] = "no"
    /\ held' = [held EXCEPT ![s] = "today"]
    /\ chance' = chance \cup ({s} \cap (Excluded \ announced))
    /\ UNCHANGED <<streak, today, announced, checked, weighed, logged, restarts>>

(* The day's result may turn with each trade. A stock carried over from an  *)
(* earlier day has no entry row of today and does not count; an option does. *)
Exit(s) ==
    /\ held[s] # "no"
    /\ held' = [held EXCEPT ![s] = "no"]
    /\ \E result \in {"won", "even", "lost"} :
         today' = IF held[s] = "today" \/ s \in Options
                  THEN [today EXCEPT ![s] = result] ELSE today
    /\ UNCHANGED <<streak, announced, checked, weighed, logged, restarts, chance>>

NextDay ==
    /\ streak' = [s \in Strategies |-> StreakAfter(s)]
    /\ today' = [s \in Strategies |-> "none"]
    /\ held' = [s \in Strategies |-> IF held[s] = "no" THEN "no" ELSE "carried"]
    /\ checked' = FALSE
    /\ chance' = {s \in Options : held[s] # "no"}
    /\ UNCHANGED <<announced, weighed, logged, restarts>>

Restart ==
    /\ restarts < MaxRestarts
    /\ restarts' = restarts + 1
    /\ announced' = {}
    /\ checked' = FALSE
    /\ UNCHANGED <<streak, today, held, weighed, logged, chance>>

Init ==
    /\ streak = [s \in Strategies |-> 0]
    /\ today = [s \in Strategies |-> "none"]
    /\ held = [s \in Strategies |-> "no"]
    /\ announced = {}
    /\ checked = FALSE
    /\ weighed = {}
    /\ logged = [s \in Strategies |-> "none"]
    /\ restarts = 0
    /\ chance = {}

Next ==
    \/ Cycle \/ NextDay \/ Restart
    \/ \E s \in Strategies : Enter(s) \/ Exit(s)

Spec == Init /\ [][Next]_vars

(* Days pass, the supervisor loops, a strategy enters whenever it may again *)
(* and again, and what is held is sold.                                    *)
FairSpec ==
    /\ Spec
    /\ WF_vars(Cycle)
    /\ WF_vars(NextDay)
    /\ \A s \in Strategies : SF_vars(Enter(s)) /\ SF_vars(Exit(s))

-----------------------------------------------------------------------------
(* Properties.                                                             *)

(* The exclusion of a strategy is for good: given no entry to win with it    *)
(* does not come back, over days, restarts and the sale of a stock it had   *)
(* carried.  The exceptions are an option held into the day and an entry in *)
(* a cycle that overlooked the exclusion.                                  *)
ExclusionIsForGood == [][\A s \in Excluded \ chance : s \in Excluded']_vars

(* "Audit events fire exactly once per transition": a strategy is not       *)
(* announced as excluded twice in a row.                                   *)
OncePerTransition == \A s \in Strategies : logged[s] # "again"

(* "Effectively excluded until it logs a winning trade": a strategy that      *)
(* enters whenever it may comes back, or gets a trade it could win.         *)
ExclusionLifts ==
    \A s \in Strategies : s \in Excluded ~> (s \notin Excluded \/ held[s] = "today")
=============================================================================
