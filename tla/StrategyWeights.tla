--------------------------- MODULE StrategyWeights ---------------------------
(***************************************************************************)
(* compute_strategy_weights and compute_confidence_scores: the capital     *)
(* weights and the confidence of the active strategies from their Sharpe   *)
(* ratios.  Weights are integers out of Whole; a division may lose one     *)
(* unit, which Slack allows for.                                           *)
(***************************************************************************)
EXTENDS Integers, FiniteSets, FiniteSetsExt

CONSTANTS
    Members,      \* the active strategies
    Sharpes,      \* their Sharpe ratios, as integers
    Whole,        \* one, as a weight
    MinWeight, MaxWeight,
    Rounds,       \* rounds of either loop: 50 in the code
    Floor         \* the confidence floor, out of Whole

\* What the divisions of a round may lose, over both loops.
Slack == Cardinality(Members) * (Rounds + 1)

\* Every loop has more rounds than there are strategies, and the minimum of all
\* of them leaves capital over: 22 strategies, 50 rounds, a minimum of 1 %.
StrategyWeightsAssumption ==
    /\ {Whole, MinWeight, MaxWeight, Floor} \subseteq Nat /\ Rounds \in Nat
    /\ Sharpes \subseteq Nat /\ MinWeight < MaxWeight /\ Floor <= Whole
    /\ IsFiniteSet(Members) /\ Members # {} /\ Cardinality(Members) <= Rounds
    /\ MinWeight * Cardinality(Members) + Slack <= Whole

VARIABLES sharpe, weight, phase, round

weightVars == <<sharpe, weight, phase, round>>

\* Without a positive Sharpe ratio, or with one strategy, there is nothing to share.
WeightsInit ==
    /\ sharpe \in [Members -> Sharpes]
    /\ weight = LET total == SumFunctionOnSet(sharpe, Members) IN
                [n \in Members |-> IF total = 0 THEN Whole \div Cardinality(Members)
                                 ELSE (Whole * sharpe[n]) \div total]
    /\ phase = IF SumFunctionOnSet(sharpe, Members) = 0 \/ Cardinality(Members) = 1
               THEN "done" ELSE "cap"
    /\ round = 0

OverCap == {n \in Members : weight[n] > MaxWeight}
\* Mutation: a strategy without any weight is no longer active.
UnderFloorOfSome == {n \in Members : weight[n] > 0 /\ weight[n] < MinWeight}

UnderFloor == {n \in Members : weight[n] < MinWeight}
AboveFloor == {n \in Members : weight[n] > MinWeight}

To(next) == phase' = next /\ round' = 0 /\ UNCHANGED <<sharpe, weight>>

\* What a strategy below the cap has after it got its part of the excess.
Topped(n, free, excess) ==
    weight[n] + (IF SumFunctionOnSet(sharpe, free) > 0
                 THEN (excess * sharpe[n]) \div SumFunctionOnSet(sharpe, free)
                 ELSE excess \div Cardinality(free))

CapRound ==
    LET free == Members \ OverCap
        excess == SumFunctionOnSet(weight, OverCap) - MaxWeight * Cardinality(OverCap) IN
    /\ phase = "cap" /\ round < Rounds /\ OverCap # {} /\ free # {}
    /\ weight' = [n \in Members |-> IF n \in OverCap THEN MaxWeight ELSE Topped(n, free, excess)]
    /\ round' = round + 1
    /\ UNCHANGED <<sharpe, phase>>

CapEnds ==
    /\ phase = "cap"
    /\ round = Rounds \/ OverCap = {} \/ OverCap = Members
    /\ To("floor")

Reduced(n, deficit) == weight[n] - (deficit * weight[n]) \div SumFunctionOnSet(weight, AboveFloor)

FloorRound ==
    LET deficit == MinWeight * Cardinality(UnderFloor) - SumFunctionOnSet(weight, UnderFloor) IN
    /\ phase = "floor" /\ round < Rounds /\ UnderFloor # {} /\ AboveFloor # {}
    /\ weight' = [n \in Members |-> IF n \in UnderFloor THEN MinWeight
                                  ELSE IF n \in AboveFloor THEN Reduced(n, deficit)
                                  ELSE weight[n]]
    /\ round' = round + 1
    /\ UNCHANGED <<sharpe, phase>>

FloorEnds ==
    /\ phase = "floor"
    /\ round = Rounds \/ UnderFloor = {} \/ AboveFloor = {}
    /\ To("done")

WeightsNext == CapRound \/ CapEnds \/ FloorRound \/ FloorEnds

WeightsSpec == WeightsInit /\ [][WeightsNext]_weightVars

\* The share of the positive Sharpe ratios that lie below, from the floor up to one.
Positive == {n \in Members : sharpe[n] > 0}
Ranks == Cardinality(Positive)
SharpeRank(n) == Cardinality({m \in Positive : sharpe[m] < sharpe[n]})
AllEqual == \A m, n \in Positive : sharpe[m] = sharpe[n]

Score(n) ==
    IF sharpe[n] = 0 \/ (Ranks > 1 /\ AllEqual) THEN Floor
    ELSE IF Ranks = 1 THEN Whole
    ELSE Floor + (SharpeRank(n) * (Whole - Floor)) \div (Ranks - 1)

-----------------------------------------------------------------------------
\* No round makes or loses capital.
CapitalKept == SumFunctionOnSet(weight, Members) \in (Whole - Slack) .. (Whole + Slack)

\* In the end every strategy keeps its minimum.
AllAlive == phase = "done" => \A n \in Members : weight[n] >= MinWeight

\* A strategy with the better Sharpe ratio has no lower confidence; one that
\* is better than every other has all of it.
BestIsTrusted ==
    /\ \A m, n \in Members : sharpe[m] <= sharpe[n] => Score(m) <= Score(n)
    /\ \A n \in Members : Score(n) \in Floor .. Whole
    /\ \A n \in Members :
         sharpe[n] > 0 /\ (\A m \in Members \ {n} : sharpe[m] < sharpe[n]) => Score(n) = Whole

\* No round of capping and topping up makes or loses capital, in the end every
\* strategy keeps its minimum weight, and a strategy with the better Sharpe ratio
\* has no lower confidence.
WeightsAreSound == CapitalKept /\ AllAlive /\ BestIsTrusted

-----------------------------------------------------------------------------
\* The documents' cap on a single strategy.
CapHolds == phase = "done" => \A n \in Members : weight[n] <= MaxWeight + Slack
=============================================================================
