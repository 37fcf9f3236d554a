----------------------------- MODULE EntriesProofs -----------------------------
(***************************************************************************)
(* Entries, for any number of strategies, symbols and slots, every market  *)
(* and every limit.  The decision of one cycle: an entry keeps within the  *)
(* limits of its size however the stop was capped and the size rounded, no *)
(* slot or room under the cap is left unused while a candidate would fit,  *)
(* nothing better is passed over, and each candidate gets one verdict.     *)
(* The cycles of several strategies: they share symbols, slots and bars.   *)
(* The weights of the strategies: rounds of capping and topping up keep    *)
(* the capital, and every strategy ends with its minimum.                  *)
(* The signals of the strategies: no evaluator reads beyond its bar, a     *)
(* long and a put ask for opposite trends of the same daily bars, and the  *)
(* initial stop of a long signal lies below its trigger.                   *)
(***************************************************************************)
EXTENDS EntrySlots, EntryDecision, StrategyWeights, EntrySignals, SumLemmas

(***************************************************************************)
(* Sizes.                                                                  *)
(***************************************************************************)

(* A quotient times its divisor is at most the dividend.                    *)
LEMMA QuotientBound ==
    ASSUME NEW a \in Nat, NEW b \in Nat \ {0}
    PROVE  a \div b \in Nat /\ (a \div b) * b <= a
BY Z3

(* A product grows with its factors.                                        *)
LEMMA ProductGrows ==
    ASSUME NEW a \in Nat, NEW b \in Nat, NEW c \in Nat, a <= b
    PROVE  a * c \in Nat /\ a * c <= b * c /\ c * a <= c * b
BY Z3

(* The lots a budget buys cost no more than the budget.                     *)
LEMMA LotsWithinBudget ==
    ASSUME NEW budget \in Nat, NEW price \in Nat \ {0}, NEW fractionable \in BOOLEAN,
           Scale \in Nat \ {0}
    PROVE  /\ Lots(budget, price, fractionable) \in Nat
           /\ price * Lots(budget, price, fractionable) <= budget * Scale
<1>1. CASE fractionable
  <2>1. budget * Scale \in Nat
    OBVIOUS
  <2> DEFINE lots == (budget * Scale) \div price
  <2>2. lots \in Nat /\ lots * price <= budget * Scale
    BY <2>1, QuotientBound
  <2>3. lots * price = price * lots
    BY <2>2
  <2> QED
    BY <1>1, <2>2, <2>3 DEF Lots
<1>2. CASE ~fractionable
  <2> DEFINE pieces == budget \div price
  <2>1. pieces \in Nat /\ pieces * price <= budget
    BY QuotientBound
  <2> HIDE DEF pieces
  <2>2. (pieces * price) * Scale <= budget * Scale
    BY <2>1, ProductGrows
  <2>3. price * (pieces * Scale) = (pieces * price) * Scale /\ pieces * Scale \in Nat
    BY <2>1
  <2> QED
    BY <1>2, <2>2, <2>3 DEF Lots, pieces
<1> QED
  BY <1>1, <1>2

(* The least element of a finite set of numbers.                            *)
LEMMA MinIsLeast ==
    ASSUME NEW S \in SUBSET Nat, S # {}
    PROVE  Min(S) \in S /\ \A n \in S : Min(S) <= n
<1> DEFINE Less == {ss \in Nat \X Nat : ss[1] < ss[2]}
<1>1. IsWellFoundedOn(Less, Nat)
  BY NatLessThanWellFounded DEF OpToRel
<1>2. PICK n \in S : \A m \in S : <<m, n>> \notin Less
  <2> HIDE DEF Less
  <2> QED
    BY <1>1, WFMin
<1>3. ASSUME NEW m \in S PROVE n <= m
  <2>1. m \in Nat /\ n \in Nat
    OBVIOUS
  <2>2. <<m, n>> \in Nat \X Nat /\ <<m, n>>[1] = m /\ <<m, n>>[2] = n
    BY <2>1
  <2>3. m < n => <<m, n>> \in Less
    BY <2>2, Zenon
  <2> QED
    BY <1>2, <2>1, <2>3
<1> QED
  BY <1>3 DEF Min

(* The larger of two numbers.                                               *)
LEMMA MaxOfTwo ==
    ASSUME NEW a \in Int, NEW b \in Int
    PROVE  Max({a, b}) \in {a, b} /\ Max({a, b}) >= a /\ Max({a, b}) >= b
<1>1. \E x \in {a, b} : \A y \in {a, b} : x >= y
  OBVIOUS
<1> QED
  BY <1>1 DEF Max

(* The capped stop lies below the limit, by at most MAX_STOP_PCT of it.     *)
LEMMA StopIsCapped ==
    ASSUME DecisionAssumption, NEW v \in Views, ~v.option, v.stop < v.limit
    PROVE  /\ EffectiveStop(v) \in Nat
           /\ EffectiveStop(v) < v.limit
           /\ (v.limit - EffectiveStop(v)) * 100 <= v.limit * MaxStopPct + 50
<1> DEFINE part == v.limit * MaxStopPct
           cap == (v.limit * (100 - MaxStopPct) + 50) \div 100
<1>1. v.limit \in Nat \ {0} /\ v.stop \in Nat /\ MaxStopPct \in 1 .. 100 /\ 50 < part
  BY DEF DecisionAssumption
<1>2. part \in Nat /\ v.limit * (100 - MaxStopPct) = 100 * v.limit - part /\ part <= 100 * v.limit
  <2>1. part \in Nat /\ v.limit * (100 - MaxStopPct) = v.limit * 100 - part
    BY <1>1, Z3
  <2>2. v.limit * (100 - MaxStopPct) >= 0
    BY <1>1, Z3
  <2> QED
    BY <1>1, <2>1, <2>2
<1> HIDE DEF part
<1>3. cap \in Nat /\ cap < v.limit /\ (v.limit - cap) * 100 <= part + 50
  <2>1. cap = (100 * v.limit - part + 50) \div 100
    BY <1>2
  <2> QED
    BY <1>1, <1>2, <2>1
<1> HIDE DEF cap
<1>4. EffectiveStop(v) \in {v.stop, cap} /\ EffectiveStop(v) >= cap
  <2>1. EffectiveStop(v) = Max({v.stop, cap})
    BY DEF EffectiveStop, cap
  <2>2. v.stop \in Int /\ cap \in Int
    BY <1>1, <1>3
  <2> QED
    BY <2>1, <2>2, MaxOfTwo
<1> QED
  BY <1>1, <1>3, <1>4 DEF part

(* What the size of a stock entry may risk and tie up.                      *)
LEMMA SizeIsBounded ==
    ASSUME DecisionAssumption, NEW v \in Views, NEW stop \in Nat, stop < v.limit
    PROVE  LET q == calculate_position_size(v, stop)
           IN /\ q \in Nat
              /\ (v.limit - stop) * q <= RiskBudget * Scale
              /\ v.limit * q <= MaxNotional * Scale
<1> DEFINE risk == v.limit - stop
           byRisk == Lots(RiskBudget, risk, v.fractionable)
           byNotional == Lots(MaxNotional, v.limit, v.fractionable)
           byLoss == Lots(MaxLoss, risk, v.fractionable)
           sizes == {byRisk, byNotional} \cup IF MaxLoss = 0 THEN {} ELSE {byLoss}
           q == calculate_position_size(v, stop)
<1>1. /\ v.limit \in Nat \ {0} /\ risk \in Nat \ {0} /\ v.fractionable \in BOOLEAN
      /\ Scale \in Nat \ {0} /\ RiskBudget \in Nat /\ MaxNotional \in Nat /\ MaxLoss \in Nat
  BY DEF DecisionAssumption
<1> HIDE DEF risk
<1>2. byRisk \in Nat /\ risk * byRisk <= RiskBudget * Scale
  BY <1>1, LotsWithinBudget
<1>3. byNotional \in Nat /\ v.limit * byNotional <= MaxNotional * Scale
  BY <1>1, LotsWithinBudget
<1>4. byLoss \in Nat
  BY <1>1, LotsWithinBudget
<1>5. q = Min(sizes)
  BY DEF calculate_position_size, risk
<1> HIDE DEF byRisk, byNotional, byLoss
<1>6. q \in Nat /\ q <= byRisk /\ q <= byNotional
  BY <1>2, <1>3, <1>4, <1>5, MinIsLeast
<1> HIDE DEF q
<1>7. risk * q <= risk * byRisk /\ v.limit * q <= v.limit * byNotional
  BY <1>1, <1>2, <1>3, <1>6, ProductGrows
<1>8. risk * q \in Int /\ risk * byRisk \in Int /\ v.limit * q \in Int /\ v.limit * byNotional \in Int
      /\ RiskBudget * Scale \in Int /\ MaxNotional * Scale \in Int
  BY <1>1, <1>2, <1>3, <1>6
<1>9. risk * q <= RiskBudget * Scale /\ v.limit * q <= MaxNotional * Scale
  BY <1>2, <1>3, <1>7, <1>8
<1> QED
  BY <1>6, <1>9 DEF q, risk

(* What the size of an option entry may tie up: its premium is its risk.    *)
LEMMA OptionSizeIsBounded ==
    ASSUME DecisionAssumption, NEW v \in Views
    PROVE  LET q == calculate_option_position_size(v)
           IN /\ q \in Nat
              /\ (v.limit * 100) * q <= RiskBudget
              /\ (v.limit * 100) * q <= MaxNotional
<1> DEFINE premium == v.limit * 100
           byRisk == RiskBudget \div premium
           byNotional == MaxNotional \div premium
           q == calculate_option_position_size(v)
<1>1. premium \in Nat \ {0} /\ RiskBudget \in Nat /\ MaxNotional \in Nat /\ premium = 100 * v.limit
  BY DEF DecisionAssumption
<1>2. q = Min({byRisk, byNotional})
  BY <1>1 DEF calculate_option_position_size
<1> HIDE DEF premium
<1>3. /\ byRisk \in Nat /\ byRisk * premium <= RiskBudget
      /\ byNotional \in Nat /\ byNotional * premium <= MaxNotional
  BY <1>1, QuotientBound
<1> HIDE DEF byRisk, byNotional
<1>4. q \in Nat /\ q <= byRisk /\ q <= byNotional
  BY <1>2, <1>3, MinIsLeast
<1> HIDE DEF q
<1>5. q * premium <= byRisk * premium /\ q * premium <= byNotional * premium
  BY <1>1, <1>3, <1>4, ProductGrows
<1>6. q * premium \in Int /\ byRisk * premium \in Int /\ byNotional * premium \in Int /\ premium * q = q * premium
  BY <1>1, <1>3, <1>4
<1>7. premium * q <= RiskBudget /\ premium * q <= MaxNotional
  BY <1>1, <1>3, <1>5, <1>6
<1> QED
  BY <1>4, <1>7 DEF q, premium

-----------------------------------------------------------------------------
(***************************************************************************)
(* One symbol.                                                             *)
(***************************************************************************)
Candidate ==
    [index : Nat, option : BOOLEAN, entry : Nat \ {0}, close : Nat, volume : Nat,
     limit : Nat \ {0}, stop : Nat, quantity : Nat \ {0}]

\* What EntriesAreBounded asks of one entry.
Bounded(c) ==
    /\ c.quantity > 0
    /\ Notional(c) <= MaxNotional * Scale
    /\ (c.limit - c.stop) * c.quantity * (IF c.option THEN 100 ELSE 1) <= RiskBudget * Scale
    /\ ~c.option => (c.limit - c.stop) * 100 <= c.limit * MaxStopPct + 50

\* The candidate that Scan makes of a symbol.
CandidateOf(v) ==
    [index |-> next, option |-> v.option, entry |-> v.entry, close |-> v.close,
     volume |-> v.volume, limit |-> v.limit, stop |-> IF v.option THEN 0 ELSE EffectiveStop(v),
     quantity |-> Quantity(v)]

(* When no check stops the symbol, none of them holds.                      *)
LEMMA NoneStops ==
    ASSUME NEW n \in Nat, NEW checks, DOMAIN checks = 1 .. n,
           \A i \in 1 .. n : checks[i][2] # "candidate",
           FirstStop(checks) = "candidate"
    PROVE  \A i \in 1 .. n : ~checks[i][1]
<1> DEFINE stops == {i \in DOMAIN checks : checks[i][1]}
<1>1. stops \in SUBSET Nat
  OBVIOUS
<1>2. ASSUME stops # {} PROVE FALSE
  <2>1. Min(stops) \in stops
    BY <1>1, <1>2, MinIsLeast
  <2>2. FirstStop(checks) = checks[Min(stops)][2]
    BY <1>2 DEF FirstStop
  <2> QED
    BY <2>1, <2>2
<1> QED
  BY <1>2

(* A candidate has passed the checks of its size.                           *)
LEMMA CandidateHasSize ==
    ASSUME NEW v \in Views, Verdict(v) = "candidate"
    PROVE  IF v.option THEN ~(Quantity(v) < 1) ELSE ~(v.stop >= v.limit) /\ Quantity(v) # 0
<1>1. FirstStop(Sizing(v)) = "candidate"
  BY DEF Verdict
<1>2. CASE v.option
  <2> DEFINE checks == <<<<Quantity(v) < 1, "silent_no_contract">>>>
  <2>1. Sizing(v) = checks
    BY <1>2 DEF Sizing
  <2>2. DOMAIN checks = 1 .. 1 /\ \A i \in 1 .. 1 : checks[i][2] # "candidate"
    OBVIOUS
  <2>3. checks[1][1] <=> Quantity(v) < 1
    OBVIOUS
  <2> HIDE DEF checks
  <2>4. \A i \in 1 .. 1 : ~checks[i][1]
    BY <1>1, <2>1, <2>2, NoneStops
  <2>5. 1 \in 1 .. 1
    OBVIOUS
  <2>6. ~(Quantity(v) < 1)
    BY <2>3, <2>4, <2>5, Zenon
  <2> QED
    BY <1>2, <2>6
<1>3. CASE ~v.option /\ v.stop >= v.limit
  <2> DEFINE checks == <<<<TRUE, "silent_stop_at_limit">>>>
  <2>1. Sizing(v) = checks
    BY <1>3 DEF Sizing
  <2>2. DOMAIN checks = 1 .. 1 /\ \A i \in 1 .. 1 : checks[i][2] # "candidate"
    OBVIOUS
  <2>3. checks[1][1]
    OBVIOUS
  <2> HIDE DEF checks
  <2>4. \A i \in 1 .. 1 : ~checks[i][1]
    BY <1>1, <2>1, <2>2, NoneStops
  <2> QED
    BY <2>3, <2>4
<1>4. CASE ~v.option /\ ~(v.stop >= v.limit)
  <2> DEFINE checks == <<<<Quantity(v) = 0, "quantity_zero">>,
                         <<Quantity(v) * v.limit < MinNotional * Scale, "below_min_notional">>>>
  <2>1. Sizing(v) = checks
    BY <1>4 DEF Sizing
  <2>2. DOMAIN checks = 1 .. 2 /\ \A i \in 1 .. 2 : checks[i][2] # "candidate"
    OBVIOUS
  <2>3. checks[1][1] <=> Quantity(v) = 0
    OBVIOUS
  <2> HIDE DEF checks
  <2>4. \A i \in 1 .. 2 : ~checks[i][1]
    BY <1>1, <2>1, <2>2, NoneStops
  <2>5. 1 \in 1 .. 2
    OBVIOUS
  <2>6. ~(Quantity(v) = 0)
    BY <2>3, <2>4, <2>5, Zenon
  <2> QED
    BY <1>4, <2>6
<1> QED
  BY <1>2, <1>3, <1>4

(* Whatever the market shows of a symbol, the candidate made of it is       *)
(* bounded.                                                                *)
LEMMA CandidateIsBounded ==
    ASSUME DecisionAssumption, NEW v \in Views, next \in Nat, Verdict(v) = "candidate"
    PROVE  CandidateOf(v) \in Candidate /\ Bounded(CandidateOf(v))
<1> DEFINE q == Quantity(v)
           c == CandidateOf(v)
<1>1. /\ v.limit \in Nat \ {0} /\ v.entry \in Nat \ {0} /\ v.stop \in Nat /\ v.close \in Nat
      /\ v.volume \in Nat /\ v.option \in BOOLEAN /\ v.fractionable \in BOOLEAN
      /\ Scale \in Nat \ {0} /\ RiskBudget \in Nat /\ MaxNotional \in Nat
  BY DEF DecisionAssumption
<1>2. /\ c.index = next /\ c.option = v.option /\ c.limit = v.limit /\ c.quantity = q
      /\ c.stop = IF v.option THEN 0 ELSE EffectiveStop(v)
  BY DEF CandidateOf
<1>3. CASE v.option
  <2> DEFINE k == calculate_option_position_size(v)
             premium == v.limit * 100
  <2>1. k \in Nat /\ premium * k <= RiskBudget /\ premium * k <= MaxNotional /\ premium \in Nat
    BY <1>1, OptionSizeIsBounded
  <2>2. q = Scale * k /\ premium = v.limit * 100
    BY <1>3 DEF Quantity
  <2>3. q >= 1 /\ q \in Nat \ {0}
    BY <1>1, <1>3, <2>1, <2>2, CandidateHasSize
  <2> HIDE DEF k, premium
  <2>4. (premium * k) * Scale <= RiskBudget * Scale /\ (premium * k) * Scale <= MaxNotional * Scale
    BY <1>1, <2>1, ProductGrows
  <2>5. v.limit * q * 100 = (premium * k) * Scale
    <3>1. v.limit * (Scale * k) * 100 = ((v.limit * 100) * k) * Scale
      BY <1>1, <2>1, Z3
    <3> QED
      BY <2>2, <3>1
  <2> HIDE DEF q
  <2>6. Notional(c) = v.limit * q * 100 /\ (c.limit - c.stop) * c.quantity * 100 = v.limit * q * 100
    BY <1>1, <1>2, <1>3 DEF Notional
  <2>7. c \in Candidate
    BY <1>1, <1>2, <1>3, <2>3 DEF CandidateOf, Candidate, q
  <2> HIDE DEF c
  <2>8. c.quantity > 0 /\ c.option
    BY <1>2, <1>3, <2>3
  <2>9. Notional(c) <= MaxNotional * Scale /\ (c.limit - c.stop) * c.quantity * 100 <= RiskBudget * Scale
    BY <2>4, <2>5, <2>6
  <2>10. (IF c.option THEN 100 ELSE 1) = 100
    BY <2>8
  <2> QED
    BY <2>7, <2>8, <2>9, <2>10, Zenon DEF Bounded, c
<1>4. CASE ~v.option
  <2>1. ~(v.stop >= v.limit) /\ q # 0
    BY <1>4, CandidateHasSize
  <2>2. v.stop < v.limit
    BY <1>1, <2>1
  <2>3. /\ EffectiveStop(v) \in Nat /\ EffectiveStop(v) < v.limit
        /\ (v.limit - EffectiveStop(v)) * 100 <= v.limit * MaxStopPct + 50
    BY <1>4, <2>2, StopIsCapped
  <2>4. q = calculate_position_size(v, EffectiveStop(v))
    BY <1>4 DEF Quantity
  <2>5. /\ q \in Nat /\ (v.limit - EffectiveStop(v)) * q <= RiskBudget * Scale
        /\ v.limit * q <= MaxNotional * Scale
    BY <2>3, <2>4, SizeIsBounded
  <2>6. c \in Candidate
    BY <1>1, <1>4, <2>1, <2>3, <2>5 DEF CandidateOf, Candidate
  <2> HIDE DEF q
  <2>7. Notional(c) = v.limit * q
    BY <1>1, <1>2, <1>4, <2>5 DEF Notional
  <2>8. (c.limit - c.stop) * c.quantity * 1 = (v.limit - EffectiveStop(v)) * q
    BY <1>1, <1>2, <1>4, <2>3, <2>5
  <2> HIDE DEF c
  <2>9. c.quantity > 0 /\ ~c.option
    BY <1>2, <1>4, <2>1, <2>5
  <2>10. Notional(c) <= MaxNotional * Scale /\ (c.limit - c.stop) * c.quantity * 1 <= RiskBudget * Scale
    BY <2>5, <2>7, <2>8
  <2>11. (c.limit - c.stop) * 100 <= c.limit * MaxStopPct + 50
    BY <1>2, <1>4, <2>3
  <2>12. (IF c.option THEN 100 ELSE 1) = 1
    BY <2>9
  <2> QED
    BY <2>6, <2>9, <2>10, <2>11, <2>12, Zenon DEF Bounded, c
<1> QED
  BY <1>3, <1>4

-----------------------------------------------------------------------------
(***************************************************************************)
(* The ranking.                                                            *)
(***************************************************************************)

\* At least as strong and as much traded, and better in one of the two.
Dominates(c, d) ==
    /\ Stronger(c, d) >= 0
    /\ c.volume >= d.volume
    /\ Stronger(c, d) > 0 \/ c.volume > d.volume

(* The first of three keys that differ decides.                             *)
LEMMA FirstOfThree ==
    ASSUME NEW x \in Int, NEW y \in Int, NEW z \in Int
    PROVE  FirstDecides(<<x, y, z>>) <=> x > 0 \/ (x = 0 /\ (y > 0 \/ (y = 0 /\ z > 0)))
<1> DEFINE keys == <<x, y, z>>
<1>1. DOMAIN keys = 1 .. 3 /\ keys[1] = x /\ keys[2] = y /\ keys[3] = z
  OBVIOUS
<1> HIDE DEF keys
<1>2. FirstDecides(keys) <=> \/ keys[1] > 0
                             \/ keys[2] > 0 /\ keys[1] = 0
                             \/ keys[3] > 0 /\ keys[1] = 0 /\ keys[2] = 0
  <2>1. FirstDecides(keys) <=> \E i \in 1 .. 3 : keys[i] > 0 /\ \A j \in 1 .. i - 1 : keys[j] = 0
    BY <1>1 DEF FirstDecides
  <2> QED
    BY <2>1
<1> QED
  BY <1>1, <1>2 DEF keys

(* The fractions that Stronger compares are ordered.                        *)
LEMMA StrongerChains ==
    ASSUME NEW e \in Candidate, NEW c \in Candidate, NEW d \in Candidate,
           Stronger(e, c) >= 0, Stronger(c, d) >= 0
    PROVE  /\ Stronger(e, d) >= 0
           /\ Stronger(e, c) > 0 \/ Stronger(c, d) > 0 => Stronger(e, d) > 0
<1> DEFINE e1 == e.close  c1 == c.close  d1 == d.close
           e2 == e.entry  c2 == c.entry  d2 == d.entry
<1>1. /\ e1 \in Nat /\ c1 \in Nat /\ d1 \in Nat
      /\ e2 \in Nat \ {0} /\ c2 \in Nat \ {0} /\ d2 \in Nat \ {0}
  BY DEF Candidate
<1>2. /\ Stronger(e, c) = e1 * c2 - c1 * e2
      /\ Stronger(c, d) = c1 * d2 - d1 * c2
      /\ Stronger(e, d) = e1 * d2 - d1 * e2
  BY DEF Stronger
<1> HIDE DEF e1, c1, d1, e2, c2, d2
<1>3. (e1 * d2 - d1 * e2) * c2 = (e1 * c2 - c1 * e2) * d2 + (c1 * d2 - d1 * c2) * e2
  BY <1>1, Z3
<1> DEFINE x == e1 * c2 - c1 * e2  y == c1 * d2 - d1 * c2  z == e1 * d2 - d1 * e2
<1>4. x \in Int /\ y \in Int /\ z \in Int /\ x >= 0 /\ y >= 0
  BY <1>1, <1>2
<1>5. z * c2 = x * d2 + y * e2
  BY <1>3
<1> HIDE DEF x, y, z
<1>6. x * d2 >= 0 /\ y * e2 >= 0 /\ (x > 0 => x * d2 > 0) /\ (y > 0 => y * e2 > 0)
  BY <1>1, <1>4, Z3
<1>7. (z * c2 >= 0 => z >= 0) /\ (z * c2 > 0 => z > 0)
  BY <1>1, <1>4, Z3
<1>8. x * d2 \in Int /\ y * e2 \in Int
  BY <1>1, <1>4
<1>9. z >= 0 /\ (x > 0 \/ y > 0 => z > 0)
  BY <1>4, <1>5, <1>6, <1>7, <1>8
<1> QED
  BY <1>2, <1>9 DEF x, y, z

(* What Before compares, key by key.                                        *)
LEMMA BeforeIs ==
    ASSUME NEW a \in Candidate, NEW b \in Candidate
    PROVE  /\ Stronger(a, b) \in Int
           /\ Before("relative_volume", a, b) <=>
                \/ a.volume > b.volume
                \/ /\ a.volume = b.volume
                   /\ Stronger(a, b) > 0 \/ (Stronger(a, b) = 0 /\ a.index < b.index)
           /\ \A mode : mode # "relative_volume" =>
                (Before(mode, a, b) <=>
                   \/ Stronger(a, b) > 0
                   \/ /\ Stronger(a, b) = 0
                      /\ a.volume > b.volume \/ (a.volume = b.volume /\ a.index < b.index))
<1>1. /\ Stronger(a, b) \in Int /\ a.volume - b.volume \in Int /\ b.index - a.index \in Int
      /\ a.volume \in Nat /\ b.volume \in Nat /\ a.index \in Nat /\ b.index \in Nat
  BY DEF Candidate, Stronger
<1>2. Before("relative_volume", a, b) <=>
        FirstDecides(<<a.volume - b.volume, Stronger(a, b), b.index - a.index>>)
  BY DEF Before
<1>3. \A mode : mode # "relative_volume" =>
        (Before(mode, a, b) <=>
           FirstDecides(<<Stronger(a, b), a.volume - b.volume, b.index - a.index>>))
  BY DEF Before
<1>4. /\ FirstDecides(<<a.volume - b.volume, Stronger(a, b), b.index - a.index>>) <=>
           \/ a.volume - b.volume > 0
           \/ /\ a.volume - b.volume = 0
              /\ Stronger(a, b) > 0 \/ (Stronger(a, b) = 0 /\ b.index - a.index > 0)
      /\ FirstDecides(<<Stronger(a, b), a.volume - b.volume, b.index - a.index>>) <=>
           \/ Stronger(a, b) > 0
           \/ /\ Stronger(a, b) = 0
              /\ a.volume - b.volume > 0 \/ (a.volume - b.volume = 0 /\ b.index - a.index > 0)
  BY <1>1, FirstOfThree
<1>5. /\ a.volume - b.volume > 0 <=> a.volume > b.volume
      /\ a.volume - b.volume = 0 <=> a.volume = b.volume
      /\ b.index - a.index > 0 <=> a.index < b.index
  BY <1>1
<1> QED
  BY <1>1, <1>2, <1>3, <1>4, <1>5, Zenon

(* The dominating candidate comes first in either order, and whatever comes *)
(* before it comes before the dominated one.                               *)
LEMMA DominatingComesFirst ==
    ASSUME NEW c \in Candidate, NEW d \in Candidate, Dominates(c, d), NEW mode
    PROVE  /\ Before(mode, c, d)
           /\ ~Before(mode, c, c)
           /\ \A e \in Candidate : Before(mode, e, c) => Before(mode, e, d)
<1>1. c.volume \in Nat /\ d.volume \in Nat /\ c.index \in Nat /\ d.index \in Nat
  BY DEF Candidate
<1>2. Stronger(c, d) \in Int /\ Stronger(c, c) = 0
  BY BeforeIs DEF Stronger, Candidate
<1>3. Before(mode, c, d)
  <2>1. CASE mode = "relative_volume"
    BY <1>1, <1>2, <2>1, BeforeIs DEF Dominates
  <2>2. CASE mode # "relative_volume"
    BY <1>1, <1>2, <2>2, BeforeIs DEF Dominates
  <2> QED
    BY <2>1, <2>2
<1>4. ~Before(mode, c, c)
  <2>1. CASE mode = "relative_volume"
    BY <1>1, <1>2, <2>1, BeforeIs
  <2>2. CASE mode # "relative_volume"
    BY <1>1, <1>2, <2>2, BeforeIs
  <2> QED
    BY <2>1, <2>2
<1>5. ASSUME NEW e \in Candidate, Before(mode, e, c) PROVE Before(mode, e, d)
  <2>1. e.volume \in Nat /\ e.index \in Nat /\ Stronger(e, c) \in Int /\ Stronger(e, d) \in Int
    BY BeforeIs DEF Candidate
  <2>2. Stronger(e, c) >= 0 =>
          Stronger(e, d) >= 0 /\ (Stronger(e, c) > 0 \/ Stronger(c, d) > 0 => Stronger(e, d) > 0)
    BY StrongerChains DEF Dominates
  <2>3. CASE mode = "relative_volume"
    <3>1. \/ e.volume > c.volume
          \/ /\ e.volume = c.volume
             /\ Stronger(e, c) > 0 \/ (Stronger(e, c) = 0 /\ e.index < c.index)
      BY <1>5, <2>3, BeforeIs
    <3>2. \/ e.volume > d.volume
          \/ e.volume = d.volume /\ Stronger(e, d) > 0
      BY <1>1, <1>2, <2>1, <2>2, <3>1 DEF Dominates
    <3> QED
      BY <2>3, <3>2, BeforeIs
  <2>4. CASE mode # "relative_volume"
    <3>1. \/ Stronger(e, c) > 0
          \/ /\ Stronger(e, c) = 0
             /\ e.volume > c.volume \/ (e.volume = c.volume /\ e.index < c.index)
      BY <1>5, <2>4, BeforeIs
    <3>2. \/ Stronger(e, d) > 0
          \/ Stronger(e, d) = 0 /\ e.volume > d.volume
      BY <1>1, <1>2, <2>1, <2>2, <3>1 DEF Dominates
    <3> QED
      BY <2>4, <3>2, BeforeIs
  <2> QED
    BY <2>3, <2>4
<1> QED
  BY <1>3, <1>4, <1>5

(* In both orders the dominating candidate has the better place.            *)
LEMMA DominatingHasBetterPlace ==
    ASSUME candidates \in SUBSET Candidate, IsFiniteSet(candidates),
           NEW c \in candidates, NEW d \in candidates, Dominates(c, d), NEW mode
    PROVE  Place(mode, c) \in Nat /\ Place(mode, d) \in Nat /\ Place(mode, c) < Place(mode, d)
<1> DEFINE beforeC == {e \in candidates : Before(mode, e, c)}
           beforeD == {e \in candidates : Before(mode, e, d)}
<1>1. c \in Candidate /\ d \in Candidate
  OBVIOUS
<1>2. beforeC \subseteq beforeD /\ c \in beforeD /\ c \notin beforeC
  BY <1>1, DominatingComesFirst
<1>3. IsFiniteSet(beforeD)
  BY FS_Subset
<1> HIDE DEF beforeC, beforeD
<1>4. /\ Cardinality(beforeC) \in Nat /\ Cardinality(beforeD) \in Nat
      /\ Cardinality(beforeC) <= Cardinality(beforeD)
      /\ Cardinality(beforeC) # Cardinality(beforeD)
  <2>1. IsFiniteSet(beforeC) /\ Cardinality(beforeC) <= Cardinality(beforeD)
        /\ (Cardinality(beforeD) = Cardinality(beforeC) => beforeD = beforeC)
    BY <1>2, <1>3, FS_Subset
  <2> QED
    BY <1>2, <1>3, <2>1, FS_CardinalityType
<1>5. Place(mode, c) = Cardinality(beforeC) /\ Place(mode, d) = Cardinality(beforeD)
  BY DEF Place, beforeC, beforeD
<1> QED
  BY <1>4, <1>5

(* In every rank mode the dominating candidate comes first.                 *)
LEMMA DominatingIsBetter ==
    ASSUME candidates \in SUBSET Candidate, IsFiniteSet(candidates),
           NEW c \in candidates, NEW d \in candidates, Dominates(c, d)
    PROVE  Better(c, d)
<1>1. CASE setting.mode # "balanced"
  <2>1. c \in Candidate /\ d \in Candidate
    OBVIOUS
  <2> QED
    BY <1>1, <2>1, DominatingComesFirst DEF Better
<1>2. CASE setting.mode = "balanced"
  <2> DEFINE closeC == Place("close", c)  volumeC == Place("relative_volume", c)
             closeD == Place("close", d)  volumeD == Place("relative_volume", d)
  <2>1. /\ closeC \in Nat /\ closeD \in Nat /\ closeC < closeD
        /\ volumeC \in Nat /\ volumeD \in Nat /\ volumeC < volumeD
    BY DominatingHasBetterPlace
  <2> HIDE DEF closeC, volumeC, closeD, volumeD
  <2>2. /\ Max({closeC, volumeC}) \in {closeC, volumeC}
        /\ Max({closeD, volumeD}) \in {closeD, volumeD}
        /\ Max({closeD, volumeD}) >= closeD /\ Max({closeD, volumeD}) >= volumeD
    BY <2>1, MaxOfTwo
  <2> DEFINE x == Max({closeD, volumeD}) - Max({closeC, volumeC})
             y == (closeD + volumeD) - (closeC + volumeC)
             z == closeD - closeC
  <2>3. x \in Int /\ y \in Int /\ z \in Int /\ x > 0
    BY <2>1, <2>2
  <2>4. Balanced(c, d) <=> FirstDecides(<<x, y, z>>)
    BY DEF Balanced, Places, SumOfPlaces, closeC, volumeC, closeD, volumeD
  <2> HIDE DEF x, y, z
  <2>5. Balanced(c, d)
    BY <2>3, <2>4, FirstOfThree
  <2> QED
    BY <1>2, <2>5 DEF Better
<1> QED
  BY <1>1, <1>2

(* A ranking holds every candidate, the better before the worse.            *)
LEMMA RankingHoldsAll ==
    ASSUME IsFiniteSet(candidates), NEW s \in Rankings
    PROVE  /\ s \in Seq(candidates)
           /\ ToSet(s) = candidates
           /\ \A i, j \in DOMAIN s : Better(s[i], s[j]) => i < j
<1> DEFINE n == Cardinality(candidates)
<1>1. /\ n \in Nat
      /\ s \in [1 .. n -> candidates]
      /\ \A i, j \in 1 .. n : i # j => s[i] # s[j]
      /\ \A i, j \in DOMAIN s : Better(s[i], s[j]) => i < j
  BY FS_CardinalityType DEF Rankings, SetToSeqs
<1>2. s \in Injection(1 .. n, candidates)
  BY <1>1 DEF Injection, IsInjective
<1>3. IsFiniteSet(1 .. n) /\ Cardinality(1 .. n) = n
  BY <1>1, FS_Interval
<1>4. s \in Surjection(1 .. n, candidates)
  BY <1>2, <1>3, FS_Injection
<1>5. ToSet(s) = candidates
  BY <1>1, <1>4 DEF Surjection, ToSet
<1>6. s \in Seq(candidates)
  BY <1>1
<1> QED
  BY <1>1, <1>5, <1>6

-----------------------------------------------------------------------------
(***************************************************************************)
(* The cycle.                                                              *)
(***************************************************************************)
Shape ==
    /\ at \in {"gates", "scan", "rank", "pick", "done"}
    /\ next \in Nat \ {0}
    /\ setting.slots \in Nat
    /\ exposure \in Nat
    /\ candidates \in SUBSET Candidate /\ IsFiniteSet(candidates)
    /\ ranked \in Seq(candidates) /\ chosen \in Seq(candidates)
    /\ at \in {"gates", "scan", "rank"} => ranked = <<>> /\ chosen = <<>>
    /\ at = "gates" => next = 1 /\ candidates = {}
    /\ at = "scan" => next <= Len(Watchlist)
    /\ at = "done" => ranked = <<>>

\* A symbol is made a candidate once.
OneOfEach ==
    /\ \A c \in candidates : c.index \in 1 .. Len(Watchlist) /\ c.index < next
    /\ \A c, d \in candidates : c.index = d.index => c = d

AllBounded == \A c \in candidates : Bounded(c)

InOrder == \A i, j \in DOMAIN ranked : Better(ranked[i], ranked[j]) => i < j

Fits(c) == exposure + CandidateExposure(c) <= ExposureLimit * Scale

\* A candidate that still fits is not passed over.
FittingIsKept ==
    at \in {"pick", "done"} => \A c \in candidates :
        c \in ToSet(ranked) \cup ToSet(chosen) \/ ~Fits(c)
          \/ (at = "done" /\ Len(chosen) = setting.slots)

SlotsAreKept == Len(chosen) <= setting.slots

\* A candidate comes after all that are better and no larger.
BetterIsServedFirst ==
    \A i \in DOMAIN chosen : \A c \in candidates :
        Better(c, chosen[i]) /\ CandidateExposure(c) <= CandidateExposure(chosen[i])
          => \E j \in 1 .. i - 1 : chosen[j] = c

\* Until the choice is recorded no record is of a candidate.
NoVerdictYet ==
    at \in {"scan", "rank", "pick"} => \A r \in records :
        \E i \in 1 .. Len(Watchlist) :
            i < next /\ r[1] = Watchlist[i] /\ \A c \in candidates : c.index # i

Sound ==
    /\ Shape /\ OneOfEach /\ AllBounded /\ InOrder /\ FittingIsKept /\ SlotsAreKept
    /\ BetterIsServedFirst /\ NoVerdictYet /\ OneVerdictEach

(* What a sequence holds without its head, and with one more at its end.    *)
LEMMA TailAndAppend ==
    ASSUME NEW S, NEW s \in Seq(S), NEW x \in S
    PROVE  /\ s # <<>> => Head(s) \in S /\ Tail(s) \in Seq(S) /\ ToSet(s) = ToSet(Tail(s)) \cup {Head(s)}
           /\ Append(s, x) \in Seq(S) /\ ToSet(Append(s, x)) = ToSet(s) \cup {x}
           /\ ToSet(s) \subseteq S
<1>1. ASSUME s # <<>> PROVE Head(s) \in S /\ Tail(s) \in Seq(S) /\ ToSet(s) = ToSet(Tail(s)) \cup {Head(s)}
  <2>1. Len(s) \in Nat \ {0} /\ Head(s) = s[1] /\ Tail(s) \in Seq(S) /\ Len(Tail(s)) = Len(s) - 1
        /\ \A i \in 1 .. Len(s) - 1 : Tail(s)[i] = s[i + 1]
    BY <1>1
  <2>2. ASSUME NEW i \in 1 .. Len(s) PROVE s[i] \in ToSet(Tail(s)) \cup {Head(s)}
    <3>1. CASE i = 1
      BY <2>1, <3>1
    <3>2. CASE i # 1
      <4>1. i - 1 \in 1 .. Len(s) - 1 /\ s[i] = Tail(s)[i - 1]
        BY <2>1, <3>2
      <4>2. DOMAIN Tail(s) = 1 .. Len(s) - 1
        BY <2>1
      <4> QED
        BY <4>1, <4>2, Zenon DEF ToSet
    <3> QED
      BY <3>1, <3>2
  <2>3. ASSUME NEW i \in 1 .. Len(Tail(s)) PROVE Tail(s)[i] \in ToSet(s)
    <3>1. i + 1 \in 1 .. Len(s) /\ Tail(s)[i] = s[i + 1]
      BY <2>1
    <3> QED
      BY <3>1 DEF ToSet
  <2>4. Head(s) \in ToSet(s) /\ Head(s) \in S
    BY <2>1 DEF ToSet
  <2> QED
    BY <2>1, <2>2, <2>3, <2>4 DEF ToSet
<1>2. Append(s, x) \in Seq(S) /\ ToSet(Append(s, x)) = ToSet(s) \cup {x}
  <2>1. /\ Append(s, x) \in Seq(S) /\ Len(Append(s, x)) = Len(s) + 1 /\ Len(s) \in Nat
        /\ \A i \in 1 .. Len(s) : Append(s, x)[i] = s[i]
        /\ Append(s, x)[Len(s) + 1] = x
    OBVIOUS
  <2>2. ASSUME NEW i \in 1 .. Len(s) + 1 PROVE Append(s, x)[i] \in ToSet(s) \cup {x}
    BY <2>1 DEF ToSet
  <2>3. ASSUME NEW i \in 1 .. Len(s) PROVE s[i] \in ToSet(Append(s, x))
    BY <2>1 DEF ToSet
  <2>4. x \in ToSet(Append(s, x))
    BY <2>1 DEF ToSet
  <2> QED
    BY <2>1, <2>2, <2>3, <2>4 DEF ToSet
<1>3. ToSet(s) \subseteq S
  BY DEF ToSet
<1> QED
  BY <1>1, <1>2, <1>3

(* The order of the candidates changes with them only.                      *)
LEMMA OrderStands ==
    ASSUME UNCHANGED <<setting, candidates>>
    PROVE  \A a, b : Better(a, b)' <=> Better(a, b)
  BY DEF Better, Balanced, Places, SumOfPlaces, Place

(* A cycle begins with nothing chosen.                                      *)
LEMMA InitIsSound == ASSUME DecisionAssumption PROVE DecisionInit => Sound
<1> SUFFICES ASSUME DecisionInit PROVE Sound
  OBVIOUS
<1>1. setting.slots \in Nat
  <2>1. PICK n \in Occupied : setting.slots = Max({SlotLimit - n, 0})
    BY DEF DecisionInit
  <2>2. SlotLimit - n \in Int /\ 0 \in Int
    BY DEF DecisionAssumption
  <2>3. \A a, b \in Int : Max({a, b}) \in {a, b} /\ Max({a, b}) >= b
    BY MaxOfTwo
  <2>4. Max({SlotLimit - n, 0}) \in {SlotLimit - n, 0} /\ Max({SlotLimit - n, 0}) >= 0
    BY <2>2, <2>3, Zenon
  <2> QED
    BY <2>1, <2>2, <2>4
<1>2. exposure \in Nat
  <2>1. setting.held \in Nat /\ Scale \in Nat
    BY DEF DecisionInit, DecisionAssumption
  <2> QED
    BY <2>1 DEF DecisionInit
<1>3. Shape
  BY <1>1, <1>2, FS_EmptySet DEF DecisionInit, Shape
<1> QED
  BY <1>1, <1>3 DEF DecisionInit, Sound, OneOfEach, AllBounded, InOrder, FittingIsKept, SlotsAreKept,
       BetterIsServedFirst, NoVerdictYet, OneVerdictEach

(* The watchlist has symbols, none of them twice.                           *)
LEMMA WatchlistIs ==
    ASSUME DecisionAssumption
    PROVE  /\ Len(Watchlist) \in Nat \ {0}
           /\ \A i, j \in 1 .. Len(Watchlist) : Watchlist[i] = Watchlist[j] => i = j
  BY DEF DecisionAssumption, IsInjective

(* A gate, or none, before the first symbol.                                *)
LEMMA GatesKeepSound ==
    ASSUME DecisionAssumption, Sound, NEW gates, NEW disabled \in BOOLEAN, NEW names,
           TakeGates(gates, disabled, names)
    PROVE  Sound'
<1> USE DEF Sound, TakeGates
<1>1. candidates = {} /\ ranked = <<>> /\ chosen = <<>> /\ next = 1 /\ setting.slots \in Nat
      /\ UNCHANGED <<setting, next, candidates, ranked, chosen, exposure>>
  BY DEF Shape
<1>2. Shape'
  BY <1>1, WatchlistIs DEF Shape
<1>3. OneOfEach' /\ AllBounded' /\ InOrder' /\ FittingIsKept' /\ SlotsAreKept' /\ BetterIsServedFirst'
  BY <1>1 DEF OneOfEach, AllBounded, InOrder, FittingIsKept, SlotsAreKept, BetterIsServedFirst
<1>4. NoVerdictYet'
  <2>1. at' \in {"done", "scan"} /\ (at' = "scan" => records' = {})
    OBVIOUS
  <2> QED
    BY <2>1 DEF NoVerdictYet
<1>5. OneVerdictEach'
  BY <1>1 DEF OneVerdictEach
<1> QED
  BY <1>2, <1>3, <1>4, <1>5

(* A symbol becomes a candidate or gets its record.                         *)
LEMMA ScanKeepsSound ==
    ASSUME DecisionAssumption, Sound, NEW v \in Views, Scan(v)
    PROVE  Sound'
<1> USE DEF Sound
<1>1. /\ at = "scan" /\ at' \in {"scan", "rank"} /\ next' = next + 1
      /\ ranked = <<>> /\ chosen = <<>> /\ next \in 1 .. Len(Watchlist)
      /\ at' = "scan" => next # Len(Watchlist)
      /\ UNCHANGED <<setting, ranked, chosen, exposure>>
  BY WatchlistIs DEF Shape, Scan
<1>2. \/ /\ Verdict(v) = "candidate"
         /\ candidates' = candidates \cup {CandidateOf(v)} /\ records' = records
      \/ /\ candidates' = candidates
         /\ records' \subseteq records \cup {<<Watchlist[next], Verdict(v)>>}
  <2>1. CASE Verdict(v) = "candidate"
    BY <2>1 DEF Scan, CandidateOf, Silent
  <2>2. CASE Verdict(v) # "candidate"
    BY <2>2 DEF Scan
  <2> QED
    BY <2>1, <2>2
<1>3. \A c \in candidates' : c \in candidates \/ (c \in Candidate /\ Bounded(c) /\ c.index = next)
  <2>1. ASSUME Verdict(v) = "candidate"
        PROVE CandidateOf(v) \in Candidate /\ Bounded(CandidateOf(v)) /\ CandidateOf(v).index = next
    BY <1>1, <2>1, CandidateIsBounded DEF CandidateOf
  <2> QED
    BY <1>2, <2>1
<1>4. \A c, d \in candidates' : c \notin candidates /\ d \notin candidates => c = d
  BY <1>2
<1>5. candidates \subseteq candidates'
  BY <1>2
<1>6. Shape'
  <2>1. candidates' \in SUBSET Candidate
    BY <1>3 DEF Shape
  <2>2. IsFiniteSet(candidates')
    BY <1>2, FS_AddElement DEF Shape
  <2>3. next' \in Nat \ {0} /\ (at' = "scan" => next' <= Len(Watchlist))
    BY <1>1, WatchlistIs
  <2> QED
    BY <1>1, <2>1, <2>2, <2>3 DEF Shape
<1>7. OneOfEach'
  <2>1. \A c \in candidates' : c.index \in 1 .. Len(Watchlist) /\ c.index < next'
    BY <1>1, <1>3, WatchlistIs DEF OneOfEach
  <2>2. ASSUME NEW c \in candidates', NEW d \in candidates', c.index = d.index PROVE c = d
    <3>1. CASE c \in candidates /\ d \in candidates
      BY <2>2, <3>1 DEF OneOfEach
    <3>2. CASE c \notin candidates /\ d \notin candidates
      BY <1>4, <3>2
    <3>3. CASE c \in candidates /\ d \notin candidates
      BY <1>1, <1>3, <2>2, <3>3 DEF OneOfEach
    <3>4. CASE c \notin candidates /\ d \in candidates
      BY <1>1, <1>3, <2>2, <3>4 DEF OneOfEach
    <3> QED
      BY <3>1, <3>2, <3>3, <3>4
  <2> QED
    BY <2>1, <2>2 DEF OneOfEach
<1>8. AllBounded'
  BY <1>3 DEF AllBounded, Bounded, Notional
<1>9. InOrder' /\ FittingIsKept' /\ SlotsAreKept' /\ BetterIsServedFirst' /\ OneVerdictEach'
  BY <1>1 DEF InOrder, FittingIsKept, SlotsAreKept, BetterIsServedFirst, OneVerdictEach
<1>10. NoVerdictYet'
  <2> SUFFICES ASSUME NEW r \in records'
               PROVE  \E i \in 1 .. Len(Watchlist) :
                        i < next' /\ r[1] = Watchlist[i] /\ \A c \in candidates' : c.index # i
    BY DEF NoVerdictYet
  <2>1. CASE r \in records
    <3>1. PICK i \in 1 .. Len(Watchlist) :
            i < next /\ r[1] = Watchlist[i] /\ \A c \in candidates : c.index # i
      BY <1>1, <2>1 DEF NoVerdictYet
    <3>2. i < next' /\ \A c \in candidates' : c.index # i
      BY <1>1, <1>3, <3>1, WatchlistIs
    <3> QED
      BY <3>1, <3>2
  <2>2. CASE r \notin records
    <3>1. candidates' = candidates /\ r[1] = Watchlist[next]
      BY <1>2, <2>2
    <3>2. next \in 1 .. Len(Watchlist) /\ next < next' /\ \A c \in candidates : c.index # next
      BY <1>1, WatchlistIs DEF OneOfEach
    <3> QED
      BY <3>1, <3>2
  <2> QED
    BY <2>1, <2>2
<1> QED
  BY <1>6, <1>7, <1>8, <1>9, <1>10

(* The ranking holds every candidate.                                       *)
LEMMA RankKeepsSound == ASSUME Sound, Rank PROVE Sound'
<1> USE DEF Sound
<1>1. /\ at = "rank" /\ at' = "pick" /\ chosen = <<>>
      /\ UNCHANGED <<setting, next, candidates, chosen, exposure, records>>
  BY DEF Rank, Shape
<1>2. /\ ranked' \in Seq(candidates) /\ ToSet(ranked') = candidates
      /\ \A i, j \in DOMAIN ranked' : Better(ranked'[i], ranked'[j]) => i < j
  BY RankingHoldsAll DEF Rank, Shape
<1>3. Shape'
  BY <1>1, <1>2 DEF Shape
<1>4. InOrder'
  BY <1>1, <1>2, OrderStands DEF InOrder
<1>5. FittingIsKept'
  BY <1>1, <1>2 DEF FittingIsKept
<1>6. OneOfEach' /\ AllBounded' /\ SlotsAreKept' /\ BetterIsServedFirst' /\ NoVerdictYet' /\ OneVerdictEach'
  BY <1>1 DEF OneOfEach, AllBounded, SlotsAreKept, BetterIsServedFirst, NoVerdictYet, OneVerdictEach
<1> QED
  BY <1>3, <1>4, <1>5, <1>6

(* The exposure of a candidate is a number.                                 *)
LEMMA ExposureIsNat ==
    ASSUME NEW c \in Candidate
    PROVE  CandidateExposure(c) \in Nat
  BY DEF Candidate, CandidateExposure

(* The best that is left is taken if it fits.                               *)
LEMMA PickKeepsSound == ASSUME DecisionAssumption, Sound, Pick PROVE Sound'
<1> USE DEF Sound
<1> DEFINE h == Head(ranked)
           cap == ExposureLimit * Scale
<1>1. /\ at = "pick" /\ at' = "pick" /\ ranked # <<>> /\ Len(chosen) < setting.slots
      /\ ranked' = Tail(ranked)
      /\ UNCHANGED <<setting, at, next, candidates, records>>
  BY DEF Pick
<1>2. \/ Fits(h) /\ chosen' = Append(chosen, h) /\ exposure' = exposure + CandidateExposure(h)
      \/ ~Fits(h) /\ chosen' = chosen /\ exposure' = exposure
  <2>1. IF exposure + CandidateExposure(h) > cap
        THEN chosen' = chosen /\ exposure' = exposure
        ELSE chosen' = Append(chosen, h) /\ exposure' = exposure + CandidateExposure(h)
    BY DEF Pick
  <2>2. h \in Candidate /\ exposure \in Nat /\ cap \in Nat
    BY <1>1, TailAndAppend DEF Shape, DecisionAssumption
  <2>3. exposure + CandidateExposure(h) \in Nat
    BY <2>2, ExposureIsNat
  <2> QED
    BY <2>1, <2>2, <2>3 DEF Fits
<1>3. /\ h \in candidates /\ h = ranked[1] /\ Tail(ranked) \in Seq(candidates)
      /\ ToSet(ranked) = ToSet(Tail(ranked)) \cup {h}
      /\ Append(chosen, h) \in Seq(candidates) /\ ToSet(Append(chosen, h)) = ToSet(chosen) \cup {h}
  BY <1>1, TailAndAppend DEF Shape
<1>4. /\ exposure \in Nat /\ cap \in Nat /\ candidates \in SUBSET Candidate
      /\ \A c \in candidates : CandidateExposure(c) \in Nat
      /\ ranked \in Seq(candidates) /\ chosen \in Seq(candidates) /\ setting.slots \in Nat
  <2>1. cap \in Nat
    BY DEF DecisionAssumption
  <2>2. \A c \in candidates : CandidateExposure(c) \in Nat
    BY ExposureIsNat DEF Shape
  <2> QED
    BY <2>1, <2>2 DEF Shape
<1> HIDE DEF h, cap
<1>5. Shape'
  <2>1. chosen' \in Seq(candidates)
    BY <1>2, <1>3, <1>4, Zenon
  <2>2. CandidateExposure(h) \in Nat
    BY <1>3, <1>4
  <2>3. exposure' \in Nat
    BY <1>2, <1>4, <2>2
  <2> QED
    BY <1>1, <1>3, <2>1, <2>3 DEF Shape
<1>6. InOrder'
  <2> SUFFICES ASSUME NEW i \in DOMAIN ranked', NEW j \in DOMAIN ranked', Better(ranked'[i], ranked'[j])
               PROVE  i < j
    BY <1>1, OrderStands DEF InOrder
  <2>1. i \in Nat /\ j \in Nat /\ i + 1 \in DOMAIN ranked /\ j + 1 \in DOMAIN ranked
        /\ ranked'[i] = ranked[i + 1] /\ ranked'[j] = ranked[j + 1]
    <3>1. /\ Len(ranked) \in Nat \ {0} /\ DOMAIN ranked = 1 .. Len(ranked)
          /\ DOMAIN Tail(ranked) = 1 .. Len(ranked) - 1
          /\ \A k \in 1 .. Len(ranked) - 1 : Tail(ranked)[k] = ranked[k + 1]
      BY <1>1, <1>4
    <3> QED
      BY <1>1, <3>1
  <2>2. i + 1 < j + 1
    BY <2>1 DEF InOrder
  <2> QED
    BY <2>1, <2>2
<1>7. FittingIsKept'
  <2> SUFFICES ASSUME NEW c \in candidates, c \notin ToSet(ranked') \cup ToSet(chosen')
               PROVE  ~Fits(c)'
    BY <1>1 DEF FittingIsKept
  <2>1. ToSet(chosen) \subseteq ToSet(chosen') /\ (Fits(h) => h \in ToSet(chosen'))
    BY <1>2, <1>3
  <2>2. c \in ToSet(ranked) => c = h
    BY <1>1, <1>3
  <2>3. ~Fits(c)
    BY <1>1, <2>1, <2>2 DEF FittingIsKept
  <2>4. exposure' \in Nat /\ exposure <= exposure' /\ CandidateExposure(c) \in Nat
    BY <1>2, <1>3, <1>4
  <2>5. exposure' + CandidateExposure(c) > cap
    BY <1>4, <2>3, <2>4 DEF Fits, cap
  <2>6. ~(exposure' + CandidateExposure(c) <= cap)
    BY <1>4, <2>4, <2>5
  <2> QED
    BY <2>6 DEF Fits, cap
<1>8. SlotsAreKept'
  BY <1>1, <1>2, <1>4 DEF SlotsAreKept
<1>9. BetterIsServedFirst'
  <2> SUFFICES ASSUME NEW i \in DOMAIN chosen', NEW c \in candidates, Better(c, chosen'[i]),
                      CandidateExposure(c) <= CandidateExposure(chosen'[i])
               PROVE  \E j \in 1 .. i - 1 : chosen'[j] = c
    BY <1>1, OrderStands DEF BetterIsServedFirst
  <2>1. CASE chosen' = chosen
    BY <2>1 DEF BetterIsServedFirst
  <2>2. CASE chosen' = Append(chosen, h) /\ i \in 1 .. Len(chosen)
    <3>1. chosen'[i] = chosen[i] /\ i \in DOMAIN chosen
      BY <1>3, <1>4, <2>2
    <3>2. PICK j \in 1 .. i - 1 : chosen[j] = c
      BY <3>1 DEF BetterIsServedFirst
    <3>3. chosen'[j] = chosen[j]
      BY <1>3, <1>4, <2>2
    <3> QED
      BY <3>2, <3>3
  <2>3. CASE chosen' = Append(chosen, h) /\ i \notin 1 .. Len(chosen) /\ Fits(h)
    <3>1. i = Len(chosen) + 1 /\ chosen'[i] = h /\ Len(chosen) \in Nat
          /\ \A j \in 1 .. Len(chosen) : chosen'[j] = chosen[j]
      BY <1>3, <1>4, <2>3
    <3>2. CandidateExposure(h) \in Nat /\ CandidateExposure(c) \in Nat
      BY <1>3, <1>4
    <3>3. Fits(c)
      BY <1>4, <2>3, <3>1, <3>2 DEF Fits, cap
    <3>4. c \notin ToSet(ranked)
      <4> SUFFICES ASSUME NEW k \in DOMAIN ranked, ranked[k] = c PROVE FALSE
        BY DEF ToSet
      <4>1. 1 \in DOMAIN ranked /\ k \in Nat \ {0}
        BY <1>1, <1>4
      <4>2. Better(ranked[k], ranked[1])
        BY <1>3, <3>1
      <4>3. k < 1
        BY <4>1, <4>2 DEF InOrder
      <4> QED
        BY <4>1, <4>3
    <3>5. c \in ToSet(chosen)
      BY <1>1, <3>3, <3>4 DEF FittingIsKept
    <3>6. PICK j \in 1 .. Len(chosen) : chosen[j] = c
      <4>1. DOMAIN chosen = 1 .. Len(chosen)
        BY <1>4
      <4>2. \E j \in DOMAIN chosen : chosen[j] = c
        BY <3>5 DEF ToSet
      <4> QED
        BY <4>1, <4>2
    <3> QED
      BY <3>1, <3>6
  <2> QED
    BY <1>2, <2>1, <2>2, <2>3
<1>10. OneOfEach' /\ AllBounded' /\ NoVerdictYet' /\ OneVerdictEach'
  BY <1>1 DEF OneOfEach, AllBounded, NoVerdictYet, OneVerdictEach
<1> QED
  BY <1>5, <1>6, <1>7, <1>8, <1>9, <1>10

(* With the list or the slots at an end each candidate gets its verdict.    *)
LEMMA RecordChoiceKeepsSound == ASSUME DecisionAssumption, Sound, RecordChoice PROVE Sound'
<1> USE DEF Sound
<1> DEFINE verdict(c) == IF c \in ToSet(chosen) THEN "accepted" ELSE "capacity_full"
<1>1. /\ at = "pick" /\ at' = "done" /\ ranked' = <<>>
      /\ ranked = <<>> \/ Len(chosen) = setting.slots
      /\ records' = records \cup {<<Watchlist[c.index], verdict(c)>> : c \in candidates}
      /\ UNCHANGED <<setting, next, candidates, chosen, exposure>>
  BY DEF RecordChoice
<1> HIDE DEF verdict
<1>2. Shape'
  BY <1>1 DEF Shape
<1>3. OneOfEach' /\ AllBounded' /\ SlotsAreKept' /\ NoVerdictYet'
  BY <1>1 DEF OneOfEach, AllBounded, SlotsAreKept, NoVerdictYet
<1>4. InOrder' /\ BetterIsServedFirst'
  BY <1>1, OrderStands DEF InOrder, BetterIsServedFirst
<1>5. FittingIsKept'
  <2> SUFFICES ASSUME NEW c \in candidates, c \notin ToSet(chosen), Len(chosen) # setting.slots
               PROVE  ~Fits(c)'
    BY <1>1 DEF FittingIsKept
  <2>1. c \notin ToSet(ranked)
    BY <1>1 DEF ToSet
  <2>2. ~Fits(c)
    BY <1>1, <2>1 DEF FittingIsKept
  <2> QED
    BY <1>1, <2>2 DEF Fits
<1>6. OneVerdictEach'
  <2> SUFFICES ASSUME NEW c \in candidates
               PROVE  Cardinality({r \in records' : r[1] = Watchlist[c.index]}) = 1
    BY <1>1 DEF OneVerdictEach
  <2>1. \A r \in records : r[1] # Watchlist[c.index]
    <3> SUFFICES ASSUME NEW r \in records, r[1] = Watchlist[c.index] PROVE FALSE
      OBVIOUS
    <3>1. PICK i \in 1 .. Len(Watchlist) : r[1] = Watchlist[i] /\ \A d \in candidates : d.index # i
      BY <1>1 DEF NoVerdictYet
    <3>2. c.index = i
      BY <3>1, WatchlistIs DEF OneOfEach
    <3> QED
      BY <3>1, <3>2
  <2>2. \A d \in candidates : Watchlist[d.index] = Watchlist[c.index] => d = c
    BY WatchlistIs DEF OneOfEach
  <2>3. {r \in records' : r[1] = Watchlist[c.index]} = {<<Watchlist[c.index], verdict(c)>>}
    BY <1>1, <2>1, <2>2
  <2> QED
    BY <2>3, FS_Singleton
<1> QED
  BY <1>2, <1>3, <1>4, <1>5, <1>6

(* Every step keeps the invariant.                                          *)
LEMMA NextKeepsSound == ASSUME DecisionAssumption PROVE Sound /\ [DecisionNext]_decisionVars => Sound'
<1> SUFFICES ASSUME Sound, [DecisionNext]_decisionVars PROVE Sound'
  OBVIOUS
<1>1. CASE UNCHANGED decisionVars
  <2>1. UNCHANGED <<setting, at, next, candidates, ranked, chosen, exposure, records>>
    BY <1>1 DEF decisionVars
  <2> QED
    BY <2>1, OrderStands DEF Sound, Shape, OneOfEach, AllBounded, InOrder, FittingIsKept, Fits,
         SlotsAreKept, BetterIsServedFirst, NoVerdictYet, OneVerdictEach
<1>2. ASSUME NEW gates, NEW disabled \in BOOLEAN, NEW names, TakeGates(gates, disabled, names)
      PROVE  Sound'
  BY <1>2, GatesKeepSound
<1>3. ASSUME NEW v \in Views, Scan(v) PROVE Sound'
  BY <1>3, ScanKeepsSound
<1>4. CASE Rank
  BY <1>4, RankKeepsSound
<1>5. CASE Pick
  BY <1>5, PickKeepsSound
<1>6. CASE RecordChoice
  BY <1>6, RecordChoiceKeepsSound
<1> QED
  BY <1>1, <1>2, <1>3, <1>4, <1>5, <1>6 DEF DecisionNext

-----------------------------------------------------------------------------
(* An entry risks no more than the budget, ties up no more than the         *)
(* position limit, and loses no more than MAX_STOP_PCT of its price,       *)
(* whatever the market shows and the settings are.                         *)
THEOREM EntriesStayBounded == ASSUME DecisionAssumption PROVE DecisionSpec => []EntriesAreBounded
<1>1. Sound => EntriesAreBounded
  <2> SUFFICES ASSUME Sound, NEW i \in DOMAIN chosen PROVE Bounded(chosen[i])
    BY DEF EntriesAreBounded, Bounded
  <2>1. chosen[i] \in candidates
    BY DEF Sound, Shape
  <2> QED
    BY <2>1 DEF Sound, AllBounded
<1> QED
  BY <1>1, InitIsSound, NextKeepsSound, PTL DEF DecisionSpec

(* The choice is sound: slots are kept and no fitting candidate is left     *)
(* behind, in every rank mode the better and no larger candidate is taken  *)
(* first, and every candidate has one verdict.                             *)
THEOREM ChoiceStaysSound == ASSUME DecisionAssumption PROVE DecisionSpec => []ChoiceIsSound
<1>1. Sound => NoRoomWasted
  <2> SUFFICES ASSUME Sound, at = "done", Len(chosen) < setting.slots,
                      NEW c \in candidates, c \notin ToSet(chosen)
               PROVE  exposure + CandidateExposure(c) > ExposureLimit * Scale
    BY DEF NoRoomWasted, Sound, SlotsAreKept
  <2>1. ranked = <<>> /\ exposure \in Nat /\ ExposureLimit * Scale \in Nat /\ setting.slots \in Nat
        /\ Len(chosen) \in Nat /\ CandidateExposure(c) \in Nat
    BY ExposureIsNat DEF Sound, Shape, DecisionAssumption
  <2>2. c \notin ToSet(ranked) /\ Len(chosen) # setting.slots
    BY <2>1 DEF ToSet
  <2>3. ~Fits(c)
    BY <2>2 DEF Sound, FittingIsKept
  <2> QED
    BY <2>1, <2>3 DEF Fits
<1>2. Sound => NoBetterLeftBehind
  <2> SUFFICES ASSUME Sound, NEW i \in DOMAIN chosen, NEW c \in candidates,
                      Dominates(c, chosen[i]), CandidateExposure(c) <= CandidateExposure(chosen[i])
               PROVE  \E j \in 1 .. i - 1 : chosen[j] = c
    BY DEF NoBetterLeftBehind, Dominates
  <2>1. chosen[i] \in candidates /\ candidates \in SUBSET Candidate /\ IsFiniteSet(candidates)
    BY DEF Sound, Shape
  <2>2. Better(c, chosen[i])
    BY <2>1, DominatingIsBetter
  <2> QED
    BY <2>2 DEF Sound, BetterIsServedFirst
<1>3. Sound => OneVerdictEach
  BY DEF Sound
<1>4. Sound => ChoiceIsSound
  BY <1>1, <1>2, <1>3 DEF ChoiceIsSound
<1> QED
  BY <1>4, InitIsSound, NextKeepsSound, PTL DEF DecisionSpec

-----------------------------------------------------------------------------
(***************************************************************************)
(* How strategies share symbols, slots and bars.                           *)
(***************************************************************************)
States == {"none", "open", "filled", "canceled"}
RowStates == Attempted \cup {"none", "missing"}
Pcs == {"idle", "positions", "closed", "recover", "dispatch", "entries", "evaluate", "exits",
        "submit", "save", "next"}

\* MaxBar bounds the bars, and the day has one bar at least.
Bars == 0 .. MaxBar + 1

Readings ==
    [orders : SUBSET Pairs, exits : SUBSET Symbols, held : SUBSET Symbols, filled : SUBSET Pairs,
     sold : SUBSET Pairs, positions : SUBSET Pairs, working : SUBSET Symbols, bar : Bars]

BrokerType ==
    /\ order \in [Pairs -> States] /\ shares \in SUBSET Pairs
    /\ exit \in [Pairs -> {"none", "open", "filled"}]
    /\ trades \in [Pairs -> Nat] /\ leaving \in SUBSET Pairs

LedgerType ==
    row \in [Pairs -> RowStates] /\ rowBar \in [Pairs -> Bars] /\ position \in SUBSET Pairs

CycleType ==
    /\ pc \in Pcs /\ turn \in 0 .. Len(Strategies) /\ sending \in SUBSET Pairs
    /\ seen \in Readings /\ taken \in [slots : Nat, symbols : SUBSET Symbols]
    /\ cadence \in [memory : Bars, log : Bars]
    /\ used \in [now : BOOLEAN, before : SUBSET Bars]

TypeOK ==
    /\ BrokerType /\ LedgerType /\ CycleType
    /\ bar \in Bars /\ left \in [cycles : Nat, crashes : Nat]

Open == {p \in Pairs : order[p] = "open"}
Unrecorded == {p \in Pairs : exit[p] = "filled"}
Sending == pc \in {"submit", "save"}

\* The cycle reads the broker, and has not acted on what it read.
Reading == pc \in {"positions", "closed", "recover"}

\* The ledger is recovered, and not read yet.
Recovering ==
    \/ pc \in {"dispatch", "submit", "save"} /\ turn = 0
    \/ pc = "entries"

\* The strategies take their turns.
InTurns ==
    \/ pc \in {"dispatch", "submit", "save"} /\ turn > 0
    \/ pc \in {"evaluate", "exits", "next"}

\* Whoever claims a symbol, in the ledger, at the broker, or by what was read.
Claiming == Claims \cup Unrecorded \cup sending \cup (IF Reading THEN seen.orders ELSE {})

-----------------------------------------------------------------------------
(* An entry is sent once. *)
Positioned == turn > 0 \/ pc \in Pcs \ {"evaluate", "exits"}
OneSent ==
    /\ ~Sending => sending = {}
    /\ \A p, q \in sending : p = q
    /\ \A p \in sending : row[p] \notin {"none", "pending_submit", "missing"}
    /\ pc = "submit" => \A p \in sending : order[p] \notin {"open", "filled"}

NotSent == \A p \in Pairs : row[p] \in {"none", "pending_submit", "missing"} =>
    order[p] \notin {"open", "filled"}

FilledOnce == \A p \in Pairs : trades[p] <= 1 /\ (trades[p] = 1 => order[p] = "filled")

SharesAreFilled == \A p \in Pairs :
    /\ (p \in shares \cup leaving \/ exit[p] # "none") => order[p] = "filled"
    /\ p \in shares => exit[p] # "filled"

SentOnce == OneSent /\ NotSent /\ FilledOnce /\ SharesAreFilled

-----------------------------------------------------------------------------
(* What was read covers what is. *)
ReadsAreSound ==
    /\ Reading => Open \subseteq seen.orders
    /\ pc \in {"closed", "recover"} => \A p \in shares : p \in seen.orders \/ p[2] \in seen.held
    /\ pc = "recover" => \A p \in Pairs :
         /\ order[p] = "filled" => p \in seen.orders \cup seen.filled
         /\ exit[p] = "filled" => p \in seen.orders \cup seen.sold \/ p[2] \in seen.held

OneEach == \A p, q \in Claiming : p[2] = q[2] => p = q

ClaimsAreVisible == Recovering => \A p \in Claiming :
    p \in seen.orders \cup RowsIn(Active) \cup sending \/ p[2] \in SymbolsOf(position)

ClaimsAreBlocked == InTurns => SymbolsOf(Claiming) \subseteq seen.working \cup taken.symbols

-----------------------------------------------------------------------------
(* Slots. *)
Held == (Claims \cup sending \cup (IF Reading THEN seen.orders ELSE {})) \ leaving

\* Positions that may still be exited in this cycle.
ToExit == {p \in seen.positions \cap shares :
    \E i \in 1 .. Len(Strategies) :
        p[1] = Strategies[i] /\ (i > turn \/ (i = turn /\ pc \in {"evaluate", "exits"}))}

SlotsAreCounted ==
    /\ Cardinality(SymbolsOf(Held)) <= MaxSlots
    /\ InTurns => Cardinality(SymbolsOf(Held \cup ToExit)) <= taken.slots

-----------------------------------------------------------------------------
(* Bars. *)
BarsAreRemembered ==
    /\ (~InTurns /\ cadence.memory > 0) => \A p \in Pairs : rowBar[p] <= cadence.memory
    /\ (Reading \/ Recovering) => used.now = FALSE /\ used.before = {rowBar[p] : p \in Pairs}
    /\ InTurns =>
         /\ \A b \in used.before : b <= cadence.memory
         /\ used.now => cadence.memory < seen.bar
         /\ \A p \in Pairs : rowBar[p] <= cadence.memory \/ (used.now /\ rowBar[p] = seen.bar)

IInv ==
    /\ TypeOK /\ Positioned /\ SentOnce
    /\ ReadsAreSound /\ OneEach /\ ClaimsAreVisible /\ ClaimsAreBlocked
    /\ SlotsAreCounted /\ BarsAreRemembered

-----------------------------------------------------------------------------
LEMMA Constants ==
    /\ MaxSlots \in Nat /\ MaxExposure \in Nat /\ MaxBar \in Nat
    /\ MaxCycles \in Nat /\ MaxCrashes \in Nat /\ Len(Strategies) \in Nat
BY EntrySlotsAssumption

LEMMA FirstBars == 0 \in Bars /\ 1 \in Bars
BY Constants DEF Bars

LEMMA PairParts == ASSUME NEW p \in Pairs PROVE p = <<p[1], p[2]>> /\ p[1] \in Names /\ p[2] \in Symbols
BY DEF Pairs

LEMMA SymbolsAreSymbols == ASSUME NEW S \in SUBSET Pairs PROVE SymbolsOf(S) \in SUBSET Symbols
BY PairParts DEF SymbolsOf

\* The latest of some bars, as CHOOSE finds it.
LEMMA LatestBar ==
    ASSUME NEW B \in SUBSET Bars, B # {}
    PROVE  \E b \in B : \A c \in B : b >= c
<1> DEFINE Later(b) == {c \in B : c > b}
           T == {L \in SUBSET B : \E b \in B : L = Later(b)}
           R == StrictSubsetOrdering(Bars)
<1>1. IsFiniteSet(Bars) /\ \A b \in B : b \in Int
    BY FS_Interval, Constants DEF Bars
<1>2. \A b \in B : Later(b) \in T
    OBVIOUS
<1>3. T \subseteq FiniteSubsetsOf(Bars) /\ T # {}
    BY <1>1, <1>2, FS_Subset DEF FiniteSubsetsOf
<1>4. PICK L \in T : \A M \in T : ~(<<M, L>> \in R)
    <2> HIDE DEF T, R
    <2>1. IsWellFoundedOn(R, FiniteSubsetsOf(Bars))
        BY FS_StrictSubsetOrderingWellFounded DEF R
    <2> QED BY <1>3, <2>1, WFMin
<1>5. PICK b \in B : L = Later(b)
    BY <1>4
<1>6. ASSUME NEW c \in B, c > b PROVE FALSE
    <2>1. c \in Later(b) /\ c \notin Later(c) /\ Later(c) \subseteq Later(b)
        BY <1>1, <1>6
    <2>2. Later(c) \in SUBSET Bars /\ Later(b) \in SUBSET Bars
        OBVIOUS
    <2>3. <<Later(c), Later(b)>> \in R
        BY <2>1, <2>2 DEF StrictSubsetOrdering
    <2> QED BY <1>2, <1>4, <1>5, <2>3
<1> QED BY <1>1, <1>6

LEMMA RememberedIsLatest ==
    ASSUME LedgerType, CycleType
    PROVE  /\ Remembered \in Bars
           /\ IF cadence.memory > 0 THEN Remembered = cadence.memory
              ELSE \A p \in Pairs : rowBar[p] <= Remembered
<1> DEFINE B == {cadence.log} \cup {rowBar[p] : p \in Pairs}
           Latest(b) == b >= cadence.log /\ \A p \in Pairs : b >= rowBar[p]
<1>1. cadence.memory \in Bars /\ cadence.log \in Bars /\ \A p \in Pairs : rowBar[p] \in Bars
    BY DEF LedgerType, CycleType
<1>2. CASE cadence.memory > 0
    BY <1>1, <1>2 DEF Remembered
<1>3. CASE ~(cadence.memory > 0)
    <2>1. B \in SUBSET Bars /\ B # {}
        BY <1>1
    <2>2. \E b \in B : Latest(b)
        BY <2>1, LatestBar
    <2>3. Remembered = CHOOSE b \in B : Latest(b)
        BY <1>3 DEF Remembered
    <2>4. Remembered \in B /\ Latest(Remembered)
        BY <2>2, <2>3
    <2>5. \A p \in Pairs : rowBar[p] <= Remembered
        BY <1>1, <2>1, <2>4 DEF Bars
    <2> QED BY <1>3, <2>1, <2>4, <2>5
<1> QED BY <1>2, <1>3

LEMMA TypeInit == Init => TypeOK
<1> SUFFICES ASSUME Init PROVE TypeOK
    OBVIOUS
<1>1. BrokerType
    BY DEF Init, BrokerType, States
<1>2. LedgerType
    BY Constants DEF Init, LedgerType, RowStates, Bars
<1>3. CycleType
    BY Constants DEF Init, CycleType, Pcs, Readings, NothingSeen, Bars
<1>4. bar \in Bars /\ left \in [cycles : Nat, crashes : Nat]
    BY Constants DEF Init, Bars
<1> QED BY <1>1, <1>2, <1>3, <1>4 DEF TypeOK

LEMMA CycleTypeKept == CycleType /\ UNCHANGED cycleVars => CycleType'
BY DEF CycleType, cycleVars

LEMMA BrokerTypeKept == BrokerType /\ UNCHANGED <<brokerVars, history>> => BrokerType'
BY DEF BrokerType, brokerVars, history

LEMMA LedgerTypeKept == LedgerType /\ UNCHANGED ledgerVars => LedgerType'
BY DEF LedgerType, ledgerVars

LEMMA TypeStream == TypeOK /\ Stream => TypeOK'
<1> SUFFICES ASSUME TypeOK, Stream PROVE TypeOK'
    OBVIOUS
<1>1. BrokerType'
    BY DEF TypeOK, BrokerType, Stream, history
<1>2. LedgerType'
    BY DEF TypeOK, BrokerType, LedgerType, Stream, States, RowStates, Attempted, Active
<1> QED BY <1>1, <1>2, CycleTypeKept DEF TypeOK, Stream

LEMMA TypeBroker == TypeOK /\ Broker => TypeOK'
<1> SUFFICES ASSUME TypeOK, NEW p \in Pairs, EntryFills(p) \/ EntryEnds(p) \/ SharesSold(p) \/ ExitEnds(p),
                    UNCHANGED <<ledgerVars, cycleVars, bar, left>>
             PROVE  TypeOK'
    BY DEF Broker
<1> USE DEF TypeOK, BrokerType, States, history
<1>1. CASE EntryFills(p)
    BY <1>1, CycleTypeKept, LedgerTypeKept DEF EntryFills
<1>2. CASE EntryEnds(p)
    BY <1>2, CycleTypeKept, LedgerTypeKept DEF EntryEnds
<1>3. CASE SharesSold(p)
    BY <1>3, CycleTypeKept, LedgerTypeKept DEF SharesSold
<1>4. CASE ExitEnds(p)
    BY <1>4, CycleTypeKept, LedgerTypeKept DEF ExitEnds
<1> QED BY <1>1, <1>2, <1>3, <1>4

LEMMA TypeAround == TypeOK /\ (NewBar \/ Crash) => TypeOK'
<1>1. TypeOK /\ NewBar => TypeOK'
    BY Constants, CycleTypeKept, BrokerTypeKept, LedgerTypeKept DEF TypeOK, NewBar, Bars
<1>2. ASSUME TypeOK, Crash PROVE TypeOK'
    <2>1. CycleType'
        BY <1>2, FirstBars DEF TypeOK, CycleType, Crash, Pcs, Readings, NothingSeen
    <2>2. left' \in [cycles : Nat, crashes : Nat]
        BY <1>2 DEF TypeOK, Crash
    <2> QED BY <1>2, <2>1, <2>2, BrokerTypeKept, LedgerTypeKept DEF TypeOK, Crash
<1> QED BY <1>1, <1>2

LEMMA TypeReads == TypeOK /\ (ReadOrders \/ ReadPositions \/ ReadClosedOrders \/ ReadLedgerPositions) => TypeOK'
<1> SUFFICES ASSUME TypeOK, ReadOrders \/ ReadPositions \/ ReadClosedOrders \/ ReadLedgerPositions
             PROVE  TypeOK'
    OBVIOUS
<1>1. CASE ReadOrders
    <2>1. {p[2] : p \in {q \in Pairs : exit[q] = "open"}} \in SUBSET Symbols
        BY PairParts
    <2>2. seen' \in Readings
        BY <1>1, <2>1, FirstBars DEF ReadOrders, Reads, NothingSeen, Readings
    <2>3. left' \in [cycles : Nat, crashes : Nat]
        BY <1>1 DEF ReadOrders, TypeOK
    <2>4. used' \in [now : BOOLEAN, before : SUBSET Bars]
        BY <1>1 DEF ReadOrders, TypeOK, LedgerType
    <2> QED BY <1>1, <2>2, <2>3, <2>4, BrokerTypeKept, LedgerTypeKept
            DEF ReadOrders, Reads, TypeOK, CycleType, Pcs
<1>2. CASE ReadPositions
    <2>1. SymbolsOf(shares) \in SUBSET Symbols
        BY SymbolsAreSymbols DEF TypeOK, BrokerType
    <2>2. seen' \in Readings
        BY <1>2, <2>1 DEF ReadPositions, Reads, Readings, TypeOK, CycleType
    <2> QED BY <1>2, <2>2, BrokerTypeKept, LedgerTypeKept DEF ReadPositions, Reads, TypeOK, CycleType, Pcs
<1>3. CASE ReadClosedOrders
    <2>1. seen' \in Readings
        BY <1>3 DEF ReadClosedOrders, Reads, Readings, TypeOK, CycleType
    <2> QED BY <1>3, <2>1, BrokerTypeKept, LedgerTypeKept DEF ReadClosedOrders, Reads, TypeOK, CycleType, Pcs
<1>4. CASE ReadLedgerPositions
    <2>1. seen' \in Readings
        BY <1>4 DEF ReadLedgerPositions, Reads, Readings, TypeOK, CycleType, LedgerType
    <2> QED BY <1>4, <2>1, BrokerTypeKept, LedgerTypeKept DEF ReadLedgerPositions, Reads, TypeOK, CycleType, Pcs
<1> QED BY <1>1, <1>2, <1>3, <1>4
LEMMA NamesAreFinite == IsFiniteSet(Names) /\ IsFiniteSet(Pairs)
<1> DEFINE D == 1 .. Len(Strategies)
           f == [i \in D |-> Strategies[i]]
<1>1. IsFiniteSet(D)
    BY FS_Interval, Constants
<1>2. f \in Surjection(D, Names)
    BY DEF Surjection, Names
<1>3. IsFiniteSet(Names)
    BY <1>1, <1>2, FS_Surjection
<1> QED BY <1>3, FS_Product, EntrySlotsAssumption DEF Pairs

LEMMA SizeOfPairs == ASSUME NEW S \in SUBSET Pairs PROVE IsFiniteSet(S) /\ Cardinality(S) \in Nat
BY NamesAreFinite, FS_Subset, FS_CardinalityType

LEMMA SizeOfSymbols == ASSUME NEW S \in SUBSET Symbols PROVE IsFiniteSet(S) /\ Cardinality(S) \in Nat
BY EntrySlotsAssumption, FS_Subset, FS_CardinalityType

LEMMA WorkingType == TypeOK => Working \in SUBSET Symbols
<1> SUFFICES ASSUME TypeOK PROVE Working \in SUBSET Symbols
    OBVIOUS
<1>1. seen.orders \in SUBSET Pairs /\ seen.exits \in SUBSET Symbols /\ position \in SUBSET Pairs
    BY DEF TypeOK, CycleType, LedgerType, Readings
<1>2. RowsIn(Active) \cup position \in SUBSET Pairs
    BY <1>1 DEF RowsIn
<1> QED BY <1>1, <1>2, SymbolsAreSymbols DEF Working

LEMMA TypeEntries == TypeOK /\ ReadLedgerEntries => TypeOK'
<1> SUFFICES ASSUME TypeOK, ReadLedgerEntries PROVE TypeOK'
    OBVIOUS
<1>1. Working \in SUBSET Symbols /\ seen.positions \in SUBSET Pairs
    BY WorkingType DEF TypeOK, CycleType, Readings
<1>2. SymbolsOf(seen.positions) \in SUBSET Symbols
    BY <1>1, SymbolsAreSymbols
<1>3. OccupiedSlots(Working) \in Nat
    BY <1>1, <1>2, SizeOfSymbols DEF OccupiedSlots
<1>4. taken' \in [slots : Nat, symbols : SUBSET Symbols]
    BY <1>2, <1>3 DEF ReadLedgerEntries
<1>5. seen' \in Readings
    BY <1>1 DEF ReadLedgerEntries, TypeOK, CycleType, Readings
<1>6. cadence' \in [memory : Bars, log : Bars]
    BY RememberedIsLatest DEF ReadLedgerEntries, TypeOK, CycleType
<1> QED BY <1>4, <1>5, <1>6, BrokerTypeKept, LedgerTypeKept
        DEF ReadLedgerEntries, TypeOK, CycleType, Pcs, history

LEMMA TypeRecover == TypeOK /\ Recover => TypeOK'
<1> SUFFICES ASSUME TypeOK, Recover PROVE TypeOK'
    OBVIOUS
<1>1. PICK lacking \in [seen.held \ SymbolsOf(position) -> Names] :
        LET new == {<<lacking[s], s>> : s \in DOMAIN lacking}
            recovered == {p \in new : Recoverable(p[2]) # {}} IN
        /\ position' = {p \in position : p[2] \in seen.held} \cup new
        /\ row' = [p \in Pairs |-> RecoveredRow(p, recovered)]
    BY Zenon DEF Recover
<1> DEFINE new == {<<lacking[s], s>> : s \in DOMAIN lacking}
           recovered == {p \in new : Recoverable(p[2]) # {}}
<1>2. new \in SUBSET Pairs
    BY DEF TypeOK, CycleType, Readings, Pairs
<1>3. position' \in SUBSET Pairs
    BY <1>1, <1>2 DEF TypeOK, LedgerType
<1>4. \A p \in Pairs : RecoveredRow(p, recovered) \in RowStates
    BY DEF RecoveredRow, TypeOK, LedgerType, RowStates, Attempted, Active
<1>5. row' \in [Pairs -> RowStates]
    BY <1>1, <1>4
<1>6. LedgerType'
    BY <1>3, <1>5 DEF Recover, TypeOK, LedgerType
<1>7. BrokerType'
    BY DEF Recover, TypeOK, BrokerType, history
<1>8. CycleType'
    BY Constants DEF Recover, TypeOK, CycleType, Pcs
<1> QED BY <1>6, <1>7, <1>8 DEF Recover, TypeOK

LEMMA SelectionsType ==
    ASSUME TypeOK, turn \in 1 .. Len(Strategies), NEW entries \in Selections(Strategy)
    PROVE  /\ entries \in SUBSET Pairs /\ IsFiniteSet(entries) /\ Cardinality(entries) \in Nat
           /\ SymbolsOf(entries) \in SUBSET Symbols
           /\ \A p \in entries : p[1] = Strategy /\ p[2] \notin Blocked(Strategy)
<1>1. Strategy \in Names
    BY DEF Strategy, Names
<1>2. entries \in SUBSET ({Strategy} \X (Symbols \ (Blocked(Strategy) \cup Traded(Strategy))))
    BY DEF Selections
<1>3. entries \in SUBSET Pairs /\ \A p \in entries : p[1] = Strategy /\ p[2] \notin Blocked(Strategy)
    BY <1>1, <1>2 DEF Pairs
<1> QED BY <1>3, SizeOfPairs, SymbolsAreSymbols

LEMMA TypeTurns ==
    TypeOK /\ Positioned /\ (Evaluate \/ EvaluateFails \/ Exit) => TypeOK'
<1> SUFFICES ASSUME TypeOK, Positioned, Evaluate \/ EvaluateFails \/ Exit PROVE TypeOK'
    OBVIOUS
<1>1. CASE Evaluate
    <2>1. turn \in 1 .. Len(Strategies)
        BY <1>1 DEF Evaluate, Positioned, TypeOK, CycleType
    <2>2. PICK enabled \in BOOLEAN, entries \in Selections(Strategy) :
            /\ row' = [p \in Pairs |-> IF p \in entries THEN "pending_submit" ELSE row[p]]
            /\ rowBar' = [p \in Pairs |-> IF p \in entries THEN seen.bar ELSE rowBar[p]]
            /\ taken' = [slots |-> taken.slots + Cardinality(entries),
                         symbols |-> taken.symbols \cup SymbolsOf(entries)]
            /\ used' = [used EXCEPT !.now = @ \/ (enabled /\ MayEnter)]
        BY <1>1, Zenon DEF Evaluate
    <2>3. Cardinality(entries) \in Nat /\ SymbolsOf(entries) \in SUBSET Symbols
        BY <2>1, SelectionsType
    <2>4. taken' \in [slots : Nat, symbols : SUBSET Symbols]
        BY <2>2, <2>3 DEF TypeOK, CycleType
    <2>5. seen.bar \in Bars
        BY DEF TypeOK, CycleType, Readings
    <2>6. LedgerType'
        BY <1>1, <2>2, <2>5 DEF Evaluate, TypeOK, LedgerType, RowStates, Attempted, Active
    <2>7. used' \in [now : BOOLEAN, before : SUBSET Bars]
        BY <2>2 DEF TypeOK, CycleType
    <2> QED BY <1>1, <2>4, <2>6, <2>7, BrokerTypeKept DEF Evaluate, TypeOK, CycleType, Pcs, history
<1>2. CASE EvaluateFails
    <2>1. used' \in [now : BOOLEAN, before : SUBSET Bars]
        BY <1>2 DEF EvaluateFails, TypeOK, CycleType
    <2> QED BY <1>2, <2>1, BrokerTypeKept, LedgerTypeKept DEF EvaluateFails, TypeOK, CycleType, Pcs, history
<1>3. CASE Exit
    <2>1. PICK exits \in SUBSET {p \in Of(Strategy, seen.positions) \cap shares : exit[p] = "none"} :
            /\ exit' = [p \in Pairs |-> IF p \in exits THEN "open" ELSE exit[p]]
            /\ leaving' = leaving \cup exits
            /\ taken' = [taken EXCEPT !.slots =
                            IF @ < Cardinality(exits) THEN 0 ELSE @ - Cardinality(exits)]
        BY <1>3 DEF Exit
    <2>2. exits \in SUBSET Pairs
        BY DEF TypeOK, BrokerType
    <2>3. Cardinality(exits) \in Nat
        BY <2>2, SizeOfPairs
    <2>4. taken' \in [slots : Nat, symbols : SUBSET Symbols]
        BY <2>1, <2>3 DEF TypeOK, CycleType
    <2>5. BrokerType'
        BY <1>3, <2>1, <2>2 DEF Exit, TypeOK, BrokerType
    <2> QED BY <1>3, <2>4, <2>5, LedgerTypeKept DEF Exit, TypeOK, CycleType, Pcs
<1> QED BY <1>1, <1>2, <1>3

LEMMA TypeDispatch ==
    TypeOK /\ (MarkSubmitting \/ Submit \/ SaveAnswer \/ Expire \/ EndDispatch) => TypeOK'
<1> SUFFICES ASSUME TypeOK, MarkSubmitting \/ Submit \/ SaveAnswer \/ Expire \/ EndDispatch PROVE TypeOK'
    OBVIOUS
<1>1. CASE MarkSubmitting
    BY <1>1, BrokerTypeKept
       DEF MarkSubmitting, TypeOK, LedgerType, CycleType, RowStates, Attempted, Active, RowsIn, Pcs, history
<1>2. CASE Submit
    BY <1>2, LedgerTypeKept DEF Submit, TypeOK, BrokerType, CycleType, States, Pcs, history
<1>3. CASE SaveAnswer
    BY <1>3, BrokerTypeKept
       DEF SaveAnswer, TypeOK, LedgerType, CycleType, RowStates, Attempted, Active, Pcs, history
<1>4. CASE Expire
    BY <1>4, BrokerTypeKept, CycleTypeKept
       DEF Expire, TypeOK, LedgerType, RowStates, Attempted, Active, RowsIn, history
<1>5. CASE EndDispatch
    BY <1>5, BrokerTypeKept, LedgerTypeKept DEF EndDispatch, TypeOK, CycleType, Pcs, history
<1> QED BY <1>1, <1>2, <1>3, <1>4, <1>5

LEMMA TypeEnds == TypeOK /\ (NextStrategy \/ EndCycle) => TypeOK'
<1> SUFFICES ASSUME TypeOK, NextStrategy \/ EndCycle PROVE TypeOK'
    OBVIOUS
<1>1. CASE NextStrategy
    BY <1>1, Constants, BrokerTypeKept, LedgerTypeKept DEF NextStrategy, TypeOK, CycleType, Pcs, history
<1>2. CASE EndCycle
    <2>1. cadence' \in [memory : Bars, log : Bars]
        BY <1>2 DEF EndCycle, TypeOK, CycleType, Readings
    <2>2. seen' \in Readings
        BY <1>2, FirstBars DEF EndCycle, NothingSeen, Readings
    <2>3. turn' \in 0 .. Len(Strategies)
        BY <1>2, Constants DEF EndCycle
    <2> QED BY <1>2, <2>1, <2>2, <2>3, BrokerTypeKept, LedgerTypeKept DEF EndCycle, TypeOK, CycleType, Pcs, history
<1> QED BY <1>1, <1>2

LEMMA TypeStutters == TypeOK /\ UNCHANGED vars => TypeOK'
BY CycleTypeKept, BrokerTypeKept, LedgerTypeKept DEF TypeOK, vars

LEMMA TypeNext == TypeOK /\ Positioned /\ Next => TypeOK'
BY TypeStream, TypeBroker, TypeAround, TypeReads, TypeEntries, TypeRecover, TypeTurns,
   TypeDispatch, TypeEnds DEF Next, Supervisor
-----------------------------------------------------------------------------
\* The steps of the cycle that leave orders, rows and holdings alone.
Quiet ==
    \/ ReadOrders \/ ReadPositions \/ ReadClosedOrders \/ ReadLedgerPositions
    \/ ReadLedgerEntries \/ EvaluateFails \/ EndDispatch \/ NextStrategy \/ EndCycle

LEMMA NextCases ==
    Next <=> \/ Quiet \/ Recover \/ Evaluate \/ Exit \/ MarkSubmitting \/ Submit \/ SaveAnswer
             \/ Expire \/ Stream \/ Broker \/ NewBar \/ Crash
BY DEF Next, Supervisor, Quiet

LEMMA QuietKeeps ==
    ASSUME Quiet
    PROVE  /\ UNCHANGED <<brokerVars, ledgerVars, history, sending, bar>>
           /\ ~Sending /\ ~Sending'
<1> USE DEF Sending, brokerVars, ledgerVars, history, Reads
<1>1. ReadOrders => UNCHANGED <<brokerVars, ledgerVars, history, sending, bar>> /\ ~Sending /\ ~Sending'
    BY DEF ReadOrders
<1>2. ReadPositions => UNCHANGED <<brokerVars, ledgerVars, history, sending, bar>> /\ ~Sending /\ ~Sending'
    BY DEF ReadPositions
<1>3. ReadClosedOrders => UNCHANGED <<brokerVars, ledgerVars, history, sending, bar>> /\ ~Sending /\ ~Sending'
    BY DEF ReadClosedOrders
<1>4. ReadLedgerPositions => UNCHANGED <<brokerVars, ledgerVars, history, sending, bar>> /\ ~Sending /\ ~Sending'
    BY DEF ReadLedgerPositions
<1>5. ReadLedgerEntries \/ EvaluateFails \/ EndDispatch =>
        UNCHANGED <<brokerVars, ledgerVars, history, sending, bar>> /\ ~Sending /\ ~Sending'
    BY DEF ReadLedgerEntries, EvaluateFails, EndDispatch
<1>6. NextStrategy \/ EndCycle =>
        UNCHANGED <<brokerVars, ledgerVars, history, sending, bar>> /\ ~Sending /\ ~Sending'
    BY DEF NextStrategy, EndCycle
<1> QED BY <1>1, <1>2, <1>3, <1>4, <1>5, <1>6 DEF Quiet

\* What recovery does to the rows, the positions and the sales.
LEMMA RecoverySteps ==
    ASSUME TypeOK, Recover
    PROVE  /\ \A p \in Pairs :
                /\ p \in seen.orders => row'[p] = "new"
                /\ p \notin seen.orders =>
                     \/ row'[p] = "filled"
                     \/ p \notin seen.filled /\ row[p] = "submitting" /\ row'[p] = "pending_submit"
                     \/ p \notin seen.filled /\ row[p] = "new" /\ row'[p] = "missing"
                     \/ row'[p] = row[p] /\ row[p] \notin {"submitting", "new"}
           /\ \A s \in seen.held : s \in SymbolsOf(position')
           /\ \A p \in Pairs :
                exit'[p] = IF exit[p] = "filled" /\ p \in seen.sold THEN "none" ELSE exit[p]
           /\ pc = "recover" /\ pc' = "dispatch" /\ turn' = 0
           /\ UNCHANGED <<order, shares, rowBar, sending, seen, taken, cadence, used, bar, left, history>>
<1>1. PICK lacking \in [seen.held \ SymbolsOf(position) -> Names] :
        LET new == {<<lacking[s], s>> : s \in DOMAIN lacking}
            recovered == {p \in new : Recoverable(p[2]) # {}} IN
        /\ position' = {p \in position : p[2] \in seen.held} \cup new
        /\ row' = [p \in Pairs |-> RecoveredRow(p, recovered)]
    BY Zenon DEF Recover
<1> DEFINE new == {<<lacking[s], s>> : s \in DOMAIN lacking}
           recovered == {p \in new : Recoverable(p[2]) # {}}
<1>2. \A p \in Pairs :
        /\ p \in seen.orders => row'[p] = "new"
        /\ p \notin seen.orders =>
             \/ row'[p] = "filled"
             \/ p \notin seen.filled /\ row[p] = "submitting" /\ row'[p] = "pending_submit"
             \/ p \notin seen.filled /\ row[p] = "new" /\ row'[p] = "missing"
             \/ row'[p] = row[p] /\ row[p] \notin {"submitting", "new"}
    <2> HIDE DEF recovered
    <2> QED BY <1>1 DEF RecoveredRow
<1>3. ASSUME NEW s \in seen.held PROVE s \in SymbolsOf(position')
    <2>1. CASE s \in SymbolsOf(position)
        BY <1>1, <2>1, <1>3 DEF SymbolsOf
    <2>2. CASE s \notin SymbolsOf(position)
        <3>1. <<lacking[s], s>> \in position'
            BY <1>1, <2>2
        <3> QED BY <3>1 DEF SymbolsOf
    <2> QED BY <2>1, <2>2
<1>4. \A p \in Pairs :
        exit'[p] = IF exit[p] = "filled" /\ p \in seen.sold THEN "none" ELSE exit[p]
    BY DEF Recover
<1> QED BY <1>2, <1>3, <1>4 DEF Recover

LEMMA PositionedNext == TypeOK /\ Positioned /\ Next => Positioned'
<1> SUFFICES ASSUME TypeOK, Positioned, Next PROVE Positioned'
    OBVIOUS
<1> USE DEF Positioned, Pcs, TypeOK, CycleType
<1>1. CASE Quiet
    BY <1>1, Constants DEF Quiet, ReadOrders, ReadPositions, ReadClosedOrders, ReadLedgerPositions, Reads,
       ReadLedgerEntries, EvaluateFails, EndDispatch, NextStrategy, EndCycle
<1>2. CASE Recover \/ Evaluate \/ Exit \/ MarkSubmitting \/ Submit \/ SaveAnswer
    BY <1>2 DEF Recover, Evaluate, Exit, MarkSubmitting, Submit, SaveAnswer
<1>3. CASE Expire \/ Stream \/ Broker \/ NewBar \/ Crash
    BY <1>3 DEF Expire, Stream, Broker, NewBar, Crash, cycleVars
<1> QED BY <1>1, <1>2, <1>3, NextCases

\* A broker's step, pair by pair.
LEMMA BrokerSteps ==
    ASSUME TypeOK, Broker
    PROVE  /\ UNCHANGED <<ledgerVars, cycleVars, bar, left>>
           /\ \E p \in Pairs :
                /\ \A q \in Pairs \ {p} :
                     /\ order'[q] = order[q] /\ exit'[q] = exit[q] /\ trades'[q] = trades[q]
                     /\ (q \in shares' <=> q \in shares) /\ (q \in leaving' <=> q \in leaving)
                /\ \/ /\ order[p] = "open" /\ order'[p] = "filled" /\ p \in shares' /\ exit'[p] = "none"
                      /\ trades'[p] = trades[p] + 1 /\ p \notin leaving'
                   \/ /\ order[p] = "open" /\ order'[p] = "canceled"
                      /\ exit'[p] = exit[p] /\ trades'[p] = trades[p]
                      /\ (p \in shares' <=> p \in shares) /\ (p \in leaving' <=> p \in leaving)
                   \/ /\ order'[p] = order[p] /\ trades'[p] = trades[p] /\ (p \in leaving' <=> p \in leaving)
                      /\ p \in shares /\ p \notin shares' /\ exit'[p] = "filled"
                   \/ /\ order'[p] = order[p] /\ trades'[p] = trades[p] /\ (p \in leaving' <=> p \in leaving)
                      /\ (p \in shares' <=> p \in shares) /\ exit[p] = "open" /\ exit'[p] = "none"
<1>1. PICK p \in Pairs :
        /\ EntryFills(p) \/ EntryEnds(p) \/ SharesSold(p) \/ ExitEnds(p)
        /\ UNCHANGED <<ledgerVars, cycleVars, bar, left>>
    BY DEF Broker
<1> QED BY <1>1 DEF EntryFills, EntryEnds, SharesSold, ExitEnds, TypeOK, BrokerType, history
\* A step of the stream, pair by pair.
LEMMA StreamSteps ==
    ASSUME TypeOK, Stream
    PROVE  /\ UNCHANGED <<order, shares, cycleVars, rowBar, bar, left, history>>
           /\ \E p \in Pairs :
                /\ \A q \in Pairs \ {p} :
                     /\ row'[q] = row[q] /\ exit'[q] = exit[q]
                     /\ (q \in position' <=> q \in position)
                /\ \/ /\ order[p] = "filled" /\ row[p] \in {"submitting", "new"} /\ row'[p] = "filled"
                      /\ p \in position' /\ exit'[p] = exit[p]
                   \/ /\ order[p] = "canceled" /\ row[p] \in {"submitting", "new"} /\ row'[p] = "canceled"
                      /\ (p \in position' <=> p \in position) /\ exit'[p] = exit[p]
                   \/ /\ exit[p] = "filled" /\ exit'[p] = "none" /\ p \notin position' /\ row'[p] = row[p]
<1>1. PICK p \in Pairs :
        \/ /\ order[p] \in {"filled", "canceled"} /\ row[p] \in {"submitting", "new"}
           /\ row' = [row EXCEPT ![p] = order[p]]
           /\ position' = IF order[p] = "filled" THEN position \cup {p} ELSE position
           /\ UNCHANGED exit
        \/ /\ exit[p] = "filled" /\ exit' = [exit EXCEPT ![p] = "none"]
           /\ position' = position \ {p} /\ UNCHANGED row
    BY DEF Stream
<1> QED BY <1>1 DEF Stream, TypeOK, BrokerType, LedgerType

-----------------------------------------------------------------------------
(***************************************************************************)
(* An entry is sent once.                                                  *)
(***************************************************************************)
LEMMA OneSentNext == TypeOK /\ OneSent /\ NotSent /\ Next => OneSent'
<1> SUFFICES ASSUME TypeOK, OneSent, NotSent, Next PROVE OneSent'
    OBVIOUS
<1> USE DEF OneSent, Sending
<1>1. CASE Quiet
    BY <1>1, QuietKeeps DEF Sending, brokerVars, ledgerVars
<1>2. CASE Recover
    BY <1>2, RecoverySteps
<1>3. CASE Evaluate \/ Exit
    BY <1>3 DEF Evaluate, Exit
<1>4. CASE MarkSubmitting
    BY <1>4 DEF MarkSubmitting, NotSent, RowsIn, TypeOK, LedgerType, brokerVars
<1>5. CASE Submit \/ SaveAnswer
    BY <1>5 DEF Submit, SaveAnswer, ledgerVars
<1>6. CASE Expire
    BY <1>6 DEF Expire, cycleVars
<1>7. CASE Stream
    BY <1>7, StreamSteps DEF cycleVars, TypeOK, CycleType
<1>8. CASE Broker
    BY <1>8, BrokerSteps DEF cycleVars, ledgerVars, TypeOK, CycleType
<1>9. CASE NewBar \/ Crash
    BY <1>9 DEF NewBar, Crash, cycleVars, ledgerVars, brokerVars
<1> QED BY <1>1, <1>2, <1>3, <1>4, <1>5, <1>6, <1>7, <1>8, <1>9, NextCases

LEMMA NotSentNext == TypeOK /\ OneSent /\ NotSent /\ ReadsAreSound /\ Positioned /\ Next => NotSent'
<1> SUFFICES ASSUME TypeOK, OneSent, NotSent, ReadsAreSound, Positioned, Next PROVE NotSent'
    OBVIOUS
<1> USE DEF NotSent
<1>1. CASE Quiet
    BY <1>1, QuietKeeps DEF brokerVars, ledgerVars
<1>2. CASE Recover
    BY <1>2, RecoverySteps DEF ReadsAreSound, Reading, Open
<1>3. CASE Evaluate
    <2>1. turn \in 1 .. Len(Strategies)
        BY <1>3 DEF Evaluate, Positioned, TypeOK, CycleType
    <2>2. PICK entries \in Selections(Strategy) :
            row' = [p \in Pairs |-> IF p \in entries THEN "pending_submit" ELSE row[p]]
        BY <1>3 DEF Evaluate
    <2>3. ASSUME NEW p \in entries PROVE row[p] \in {"none", "missing"}
        <3>1. /\ p \in Pairs /\ p[1] = Strategy
              /\ p \in {Strategy} \X (Symbols \ (Blocked(Strategy) \cup Traded(Strategy)))
            BY <2>1, <2>2, SelectionsType DEF Selections
        <3>2. p[2] \notin Traded(Strategy)
            BY <3>1
        <3>3. row[p] \notin Attempted
            BY <3>1, <3>2 DEF Traded, SymbolsOf, Of, RowsIn
        <3> QED BY <3>1, <3>3 DEF TypeOK, LedgerType, RowStates
    <2> QED BY <1>3, <2>2, <2>3 DEF Evaluate, brokerVars
<1>4. CASE Exit
    BY <1>4 DEF Exit, ledgerVars
<1>5. CASE MarkSubmitting \/ SaveAnswer \/ Expire
    BY <1>5 DEF MarkSubmitting, SaveAnswer, Expire, brokerVars, TypeOK, LedgerType, CycleType
<1>6. CASE Submit
    BY <1>6 DEF Submit, OneSent, ledgerVars, TypeOK, BrokerType, CycleType
<1>7. CASE Stream
    BY <1>7, StreamSteps
<1>8. CASE Broker
    BY <1>8, BrokerSteps DEF ledgerVars
<1>9. CASE NewBar \/ Crash
    BY <1>9 DEF NewBar, Crash, ledgerVars, brokerVars
<1> QED BY <1>1, <1>2, <1>3, <1>4, <1>5, <1>6, <1>7, <1>8, <1>9, NextCases

LEMMA FilledOnceNext == TypeOK /\ OneSent /\ FilledOnce /\ SharesAreFilled /\ Next => FilledOnce' /\ SharesAreFilled'
<1> SUFFICES ASSUME TypeOK, OneSent, FilledOnce, SharesAreFilled, Next PROVE FilledOnce' /\ SharesAreFilled'
    OBVIOUS
<1> USE DEF FilledOnce, SharesAreFilled
<1>1. CASE Quiet
    BY <1>1, QuietKeeps DEF brokerVars, history
<1>2. CASE Recover
    BY <1>2, RecoverySteps DEF history
<1>3. CASE Evaluate \/ MarkSubmitting \/ SaveAnswer \/ Expire \/ NewBar \/ Crash
    BY <1>3 DEF Evaluate, MarkSubmitting, SaveAnswer, Expire, NewBar, Crash, brokerVars, history
<1>4. CASE Exit
    <2>1. PICK exits \in SUBSET {p \in Of(Strategy, seen.positions) \cap shares : exit[p] = "none"} :
            /\ exit' = [p \in Pairs |-> IF p \in exits THEN "open" ELSE exit[p]]
            /\ leaving' = leaving \cup exits
        BY <1>4 DEF Exit
    <2> QED BY <1>4, <2>1 DEF Exit
<1>5. CASE Submit
    BY <1>5 DEF Submit, OneSent, TypeOK, BrokerType, CycleType, history
<1>6. CASE Stream
    BY <1>6, StreamSteps DEF history
<1>7. CASE Broker
    BY <1>7, BrokerSteps DEF TypeOK, BrokerType
<1> QED BY <1>1, <1>2, <1>3, <1>4, <1>5, <1>6, <1>7, NextCases

LEMMA SentOnceNext == TypeOK /\ SentOnce /\ ReadsAreSound /\ Positioned /\ Next => SentOnce'
BY OneSentNext, NotSentNext, FilledOnceNext DEF SentOnce
-----------------------------------------------------------------------------
(***************************************************************************)
(* What was read covers what is.                                           *)
(***************************************************************************)
LEMMA ReadsAreSoundNext == TypeOK /\ ReadsAreSound /\ Next => ReadsAreSound'
<1> SUFFICES ASSUME TypeOK, ReadsAreSound, Next PROVE ReadsAreSound'
    OBVIOUS
<1> USE DEF ReadsAreSound, Reading, Open
<1>1. CASE ReadOrders
    BY <1>1 DEF ReadOrders, Reads, brokerVars, NothingSeen
<1>2. CASE ReadPositions
    BY <1>2 DEF ReadPositions, Reads, brokerVars, SymbolsOf, TypeOK, CycleType, Readings
<1>3. CASE ReadClosedOrders
    BY <1>3 DEF ReadClosedOrders, Reads, brokerVars, TypeOK, CycleType, Readings
<1>4. CASE ReadLedgerPositions \/ ReadLedgerEntries \/ EvaluateFails \/ EndDispatch \/ NextStrategy \/ EndCycle
    BY <1>4 DEF ReadLedgerPositions, Reads, ReadLedgerEntries, EvaluateFails, EndDispatch, NextStrategy, EndCycle
<1>5. CASE Recover \/ Evaluate \/ Exit \/ MarkSubmitting \/ Submit \/ SaveAnswer \/ Crash
    BY <1>5 DEF Recover, Evaluate, Exit, MarkSubmitting, Submit, SaveAnswer, Crash
<1>6. CASE Expire \/ NewBar
    BY <1>6 DEF Expire, NewBar, cycleVars, brokerVars
<1>7. CASE Stream
    BY <1>7, StreamSteps DEF cycleVars
<1>8. CASE Broker
    <2>1. UNCHANGED <<seen, pc>>
        BY <1>8, BrokerSteps DEF cycleVars
    <2>2. \A p \in Pairs :
            /\ order'[p] = "open" => order[p] = "open"
            /\ p \in shares' => p \in shares \/ order[p] = "open"
            /\ order'[p] = "filled" => order[p] = "filled" \/ order[p] = "open"
            /\ exit'[p] = "filled" => exit[p] = "filled" \/ p \in shares
        BY <1>8, BrokerSteps
    <2>3. shares' \in SUBSET Pairs
        BY <1>8, TypeBroker DEF TypeOK, BrokerType
    <2> QED BY <2>1, <2>2, <2>3
<1> QED BY <1>1, <1>2, <1>3, <1>4, <1>5, <1>6, <1>7, <1>8, NextCases DEF Quiet

LEMMA EvaluateSteps ==
    ASSUME TypeOK, Positioned, Evaluate
    PROVE  \E entries \in Selections(Strategy) :
             /\ entries \in SUBSET Pairs /\ IsFiniteSet(entries) /\ Cardinality(entries) \in Nat
             /\ \A p \in entries : p[1] = Strategy /\ p[2] \notin Blocked(Strategy) /\ row[p] \notin Active
             /\ entries # {} => MayEnter /\ used'.now = TRUE
             /\ row' = [p \in Pairs |-> IF p \in entries THEN "pending_submit" ELSE row[p]]
             /\ rowBar' = [p \in Pairs |-> IF p \in entries THEN seen.bar ELSE rowBar[p]]
             /\ taken' = [slots |-> taken.slots + Cardinality(entries),
                          symbols |-> taken.symbols \cup SymbolsOf(entries)]
             /\ used'.before = used.before /\ used'.now \in {used.now, used.now \/ MayEnter}
<1>1. turn \in 1 .. Len(Strategies)
    BY DEF Evaluate, Positioned, TypeOK, CycleType
<1>2. PICK enabled \in BOOLEAN, entries \in Selections(Strategy) :
        /\ entries # {} => enabled /\ MayEnter
        /\ row' = [p \in Pairs |-> IF p \in entries THEN "pending_submit" ELSE row[p]]
        /\ rowBar' = [p \in Pairs |-> IF p \in entries THEN seen.bar ELSE rowBar[p]]
        /\ taken' = [slots |-> taken.slots + Cardinality(entries),
                     symbols |-> taken.symbols \cup SymbolsOf(entries)]
        /\ used' = [used EXCEPT !.now = @ \/ (enabled /\ MayEnter)]
    BY Zenon DEF Evaluate
<1>3. /\ entries \in SUBSET Pairs /\ IsFiniteSet(entries) /\ Cardinality(entries) \in Nat
      /\ \A p \in entries : p[1] = Strategy /\ p[2] \notin Blocked(Strategy)
    BY <1>1, SelectionsType
<1>4. ASSUME NEW p \in entries PROVE row[p] \notin Active
    <2>1. p \in Pairs /\ p[1] = Strategy /\ p[2] \notin Traded(Strategy)
        BY <1>3 DEF Selections
    <2> QED BY <2>1 DEF Traded, SymbolsOf, Of, RowsIn, Attempted
<1>5. /\ entries # {} => MayEnter /\ used'.now = TRUE
      /\ used'.before = used.before /\ used'.now \in {used.now, used.now \/ MayEnter}
    BY <1>2 DEF TypeOK, CycleType
<1> QED BY <1>2, <1>3, <1>4, <1>5

\* Nobody claims a symbol anew but a strategy that enters.
LEMMA ClaimingShrinks ==
    ASSUME TypeOK, OneSent, Next, ~Evaluate
    PROVE  Claiming' \subseteq Claiming
<1> USE DEF Claiming, Claims, Unrecorded, RowsIn, Reading
<1>1. CASE ReadOrders
    BY <1>1 DEF ReadOrders, Reads, brokerVars, ledgerVars, NothingSeen
<1>2. CASE ReadPositions \/ ReadClosedOrders
    BY <1>2 DEF ReadPositions, ReadClosedOrders, Reads, brokerVars, ledgerVars, TypeOK, CycleType, Readings
<1>3. CASE ReadLedgerPositions \/ ReadLedgerEntries \/ EvaluateFails \/ EndDispatch \/ NextStrategy \/ EndCycle
    BY <1>3 DEF ReadLedgerPositions, Reads, ReadLedgerEntries, EvaluateFails, EndDispatch, NextStrategy, EndCycle,
       brokerVars, ledgerVars
<1>4. CASE Recover
    BY <1>4, RecoverySteps DEF Active
<1>5. CASE Exit
    BY <1>5 DEF Exit, ledgerVars, TypeOK, BrokerType
<1>6. CASE MarkSubmitting
    BY <1>6 DEF MarkSubmitting, brokerVars, TypeOK, LedgerType, Active
<1>7. CASE Submit
    BY <1>7 DEF Submit, ledgerVars, TypeOK, BrokerType
<1>8. CASE SaveAnswer
    BY <1>8 DEF SaveAnswer, brokerVars, TypeOK, LedgerType
<1>9. CASE Expire
    BY <1>9 DEF Expire, brokerVars, cycleVars, TypeOK, LedgerType, Active
<1>10. CASE Stream
    BY <1>10, StreamSteps DEF cycleVars, Active
<1>11. CASE Broker
    <2>1. UNCHANGED <<row, sending, seen, pc>>
        BY <1>11, BrokerSteps DEF cycleVars, ledgerVars
    <2>2. /\ {p \in Pairs : order'[p] = "open"} \subseteq {p \in Pairs : order[p] = "open"}
          /\ shares' \subseteq shares \cup {p \in Pairs : order[p] = "open"}
          /\ {p \in Pairs : exit'[p] = "filled"} \subseteq shares \cup {p \in Pairs : exit[p] = "filled"}
        BY <1>11, BrokerSteps, TypeBroker DEF TypeOK, BrokerType
    <2> QED BY <2>1, <2>2
<1>12. CASE NewBar \/ Crash
    BY <1>12 DEF NewBar, Crash, brokerVars, ledgerVars, cycleVars
<1> QED BY <1>1, <1>2, <1>3, <1>4, <1>5, <1>6, <1>7, <1>8, <1>9, <1>10, <1>11, <1>12, NextCases DEF Quiet

LEMMA OneEachNext ==
    ASSUME TypeOK, Positioned, OneSent, OneEach, ClaimsAreBlocked, Next
    PROVE  OneEach'
<1>1. CASE ~Evaluate
    <2>1. Claiming' \subseteq Claiming
        BY <1>1, ClaimingShrinks
    <2> QED BY <2>1 DEF OneEach
<1>2. CASE Evaluate
    <2>1. PICK entries \in Selections(Strategy) :
            /\ entries \in SUBSET Pairs
            /\ \A p \in entries : p[1] = Strategy /\ p[2] \notin Blocked(Strategy)
            /\ row' = [p \in Pairs |-> IF p \in entries THEN "pending_submit" ELSE row[p]]
        BY <1>2, EvaluateSteps
    <2>2. Claiming' \subseteq Claiming \cup entries
        BY <1>2, <2>1 DEF Evaluate, Claiming, Claims, Unrecorded, RowsIn, Reading, brokerVars
    <2>3. \A p \in Claiming : p[2] \in Blocked(Strategy)
        BY <1>2 DEF ClaimsAreBlocked, InTurns, Evaluate, Blocked, SymbolsOf
    <2>4. \A p, q \in entries : p[2] = q[2] => p = q
        BY <2>1, PairParts
    <2> QED BY <2>1, <2>2, <2>3, <2>4 DEF OneEach
<1> QED BY <1>1, <1>2

\* What a strategy may not enter does not shrink while the strategies take their turns.
LEMMA TurnsKeepBlocked ==
    ASSUME TypeOK, Positioned, Next, InTurns', ~ReadLedgerEntries
    PROVE  /\ InTurns /\ seen' = seen
           /\ taken.symbols \subseteq taken'.symbols
<1> USE DEF InTurns
<1>1. CASE ReadOrders \/ ReadPositions \/ ReadClosedOrders \/ ReadLedgerPositions
    BY <1>1 DEF ReadOrders, ReadPositions, ReadClosedOrders, ReadLedgerPositions, Reads
<1>2. CASE EvaluateFails \/ EndDispatch \/ NextStrategy \/ EndCycle \/ Crash
    BY <1>2 DEF EvaluateFails, EndDispatch, NextStrategy, EndCycle, Crash
<1>3. CASE Recover
    BY <1>3, RecoverySteps
<1>4. CASE Evaluate
    BY <1>4, EvaluateSteps DEF Evaluate
<1>5. CASE Exit
    BY <1>5 DEF Exit, TypeOK, CycleType
<1>6. CASE MarkSubmitting \/ Submit \/ SaveAnswer
    BY <1>6 DEF MarkSubmitting, Submit, SaveAnswer
<1>7. CASE Expire \/ Stream \/ Broker \/ NewBar
    BY <1>7 DEF Expire, Stream, Broker, NewBar, cycleVars
<1> QED BY <1>1, <1>2, <1>3, <1>4, <1>5, <1>6, <1>7, NextCases DEF Quiet

LEMMA ClaimsAreBlockedNext ==
    ASSUME TypeOK, Positioned, OneSent, ClaimsAreVisible, ClaimsAreBlocked, Next
    PROVE  ClaimsAreBlocked'
<1> SUFFICES ASSUME InTurns' PROVE SymbolsOf(Claiming') \subseteq seen'.working \cup taken'.symbols
    BY DEF ClaimsAreBlocked, SymbolsOf
<1>1. CASE ReadLedgerEntries
    <2>1. Claiming' \subseteq Claiming
        BY <1>1, ClaimingShrinks DEF Evaluate, ReadLedgerEntries
    <2>2. Recovering /\ sending = {}
        BY <1>1 DEF Recovering, ReadLedgerEntries, OneSent, Sending
    <2>3. SymbolsOf(Claiming) \subseteq Working
        BY <2>2 DEF ClaimsAreVisible, SymbolsOf, Working
    <2>4. seen'.working = Working
        BY <1>1 DEF ReadLedgerEntries, TypeOK, CycleType, Readings
    <2> QED BY <2>1, <2>3, <2>4 DEF SymbolsOf
<1>2. CASE Evaluate
    <2>1. PICK entries \in Selections(Strategy) :
            /\ entries \in SUBSET Pairs
            /\ row' = [p \in Pairs |-> IF p \in entries THEN "pending_submit" ELSE row[p]]
            /\ taken' = [slots |-> taken.slots + Cardinality(entries),
                         symbols |-> taken.symbols \cup SymbolsOf(entries)]
        BY <1>2, EvaluateSteps
    <2>2. Claiming' \subseteq Claiming \cup entries
        BY <1>2, <2>1 DEF Evaluate, Claiming, Claims, Unrecorded, RowsIn, Reading, brokerVars
    <2>3. SymbolsOf(Claiming) \subseteq seen.working \cup taken.symbols /\ seen' = seen
        BY <1>2 DEF ClaimsAreBlocked, InTurns, Evaluate
    <2> QED BY <2>1, <2>2, <2>3 DEF SymbolsOf
<1>3. CASE ~Evaluate /\ ~ReadLedgerEntries
    <2>1. Claiming' \subseteq Claiming
        BY <1>3, ClaimingShrinks
    <2>2. InTurns /\ seen' = seen /\ taken.symbols \subseteq taken'.symbols
        BY <1>3, TurnsKeepBlocked
    <2> QED BY <2>1, <2>2 DEF ClaimsAreBlocked, SymbolsOf
<1> QED BY <1>1, <1>2, <1>3
Visible(p) == p \in seen.orders \cup RowsIn(Active) \cup sending \/ p[2] \in SymbolsOf(position)

\* Between recovery and the reading of the ledger, who is visible stays so.
LEMMA VisibleKept ==
    ASSUME TypeOK, SentOnce, OneEach, Next, ~Recover, Recovering',
           NEW p \in Claiming', Recovering, Visible(p), Claiming' \subseteq Claiming
    PROVE  Visible(p)'
<1> USE DEF Recovering, Visible, RowsIn
<1>1. p \in Pairs
    BY DEF Claiming, Claims, RowsIn, Unrecorded, TypeOK, BrokerType, CycleType, Readings
<1>2. CASE ReadLedgerPositions
    BY <1>2 DEF ReadLedgerPositions, Reads, ledgerVars, TypeOK, CycleType, Readings
<1>3. CASE Quiet /\ ~ReadLedgerPositions
    BY <1>3 DEF Quiet, ReadOrders, ReadPositions, ReadClosedOrders, Reads,
       ReadLedgerEntries, EvaluateFails, EndDispatch, NextStrategy, EndCycle
<1>4. CASE Evaluate \/ Exit \/ Crash
    BY <1>4 DEF Evaluate, Exit, Crash
<1>5. CASE MarkSubmitting
    BY <1>5 DEF MarkSubmitting, SentOnce, OneSent, Sending, TypeOK, LedgerType, Active
<1>6. CASE Submit
    BY <1>6 DEF Submit, ledgerVars
<1>7. CASE SaveAnswer
    BY <1>7, <1>1 DEF SaveAnswer, SentOnce, OneSent, ledgerVars, TypeOK, LedgerType, Active
<1>8. CASE Expire
    <2>1. PICK q \in RowsIn({"pending_submit"}) :
            pc = "dispatch" /\ row' = [row EXCEPT ![q] = "canceled"]
        BY <1>8 DEF Expire
    <2>2. UNCHANGED <<order, shares, exit, position, seen, sending, pc>>
        BY <1>8 DEF Expire, brokerVars, cycleVars
    <2>3. sending = {} /\ order[q] \notin {"open", "filled"} /\ q \notin shares /\ exit[q] = "none"
        BY <2>1 DEF SentOnce, OneSent, Sending, NotSent, SharesAreFilled
    <2>4. p # q
        BY <2>1, <2>2, <2>3 DEF Claiming, Claims, Unrecorded, Reading, TypeOK, LedgerType, Active
    <2> QED BY <1>1, <2>1, <2>2, <2>4 DEF TypeOK, LedgerType
<1>9. CASE Stream
    <2>1. UNCHANGED <<order, shares, seen, sending, pc>>
        BY <1>9, StreamSteps DEF cycleVars
    <2>2. PICK q \in Pairs :
            /\ \A r \in Pairs \ {q} :
                 row'[r] = row[r] /\ exit'[r] = exit[r] /\ (r \in position' <=> r \in position)
            /\ \/ /\ order[q] = "filled" /\ row[q] \in {"submitting", "new"} /\ row'[q] = "filled"
                  /\ q \in position' /\ exit'[q] = exit[q]
               \/ /\ order[q] = "canceled" /\ row[q] \in {"submitting", "new"} /\ row'[q] = "canceled"
                  /\ (q \in position' <=> q \in position) /\ exit'[q] = exit[q]
               \/ /\ exit[q] = "filled" /\ exit'[q] = "none" /\ q \notin position' /\ row'[q] = row[q]
        BY <1>9, StreamSteps
    <2>3. position \in SUBSET Pairs /\ position' \in SUBSET Pairs
        BY <1>9, TypeStream DEF TypeOK, LedgerType
    <2>4. CASE p = q
        <3>1. row[p] \in Active /\ row'[p] # "filled" /\ row'[p] # "canceled" => row'[p] \in Active
            BY <2>2, <2>4 DEF Active
        <3>2. CASE p \in position'
            BY <3>2 DEF SymbolsOf
        <3>3. CASE p \notin position'
            <4>1. order[p] # "open" /\ p \notin shares /\ exit'[p] # "filled"
                BY <2>2, <2>4, <3>3 DEF SentOnce, SharesAreFilled
            <4>2. row'[p] \in Active \/ p \in sending
                BY <1>1, <2>1, <4>1 DEF Claiming, Claims, Unrecorded, Reading
            <4> QED BY <1>1, <2>1, <4>2
        <3> QED BY <3>2, <3>3
    <2>5. CASE p # q
        <3>1. CASE p \in seen.orders \cup RowsIn(Active) \cup sending
            BY <1>1, <2>1, <2>2, <2>5, <3>1
        <3>2. CASE p[2] \in SymbolsOf(position)
            <4>1. PICK r \in position : p[2] = r[2]
                BY <3>2 DEF SymbolsOf
            <4>2. CASE r \in position'
                BY <4>1, <4>2 DEF SymbolsOf
            <4>3. CASE r \notin position'
                <5>1. r = q /\ exit[q] = "filled"
                    BY <2>2, <2>3, <4>1, <4>3
                <5>2. q \in Claiming
                    BY <5>1, <2>2 DEF Claiming, Unrecorded
                <5>3. p = q
                    BY <4>1, <5>1, <5>2 DEF OneEach
                <5> QED BY <2>5, <5>3
            <4> QED BY <4>2, <4>3
        <3> QED BY <3>1, <3>2
    <2> QED BY <2>4, <2>5
<1>10. CASE Broker
    BY <1>10, BrokerSteps DEF cycleVars, ledgerVars
<1>11. CASE NewBar
    BY <1>11 DEF NewBar, cycleVars, ledgerVars
<1> HIDE DEF Recovering, Visible, RowsIn
<1> QED BY <1>2, <1>3, <1>4, <1>5, <1>6, <1>7, <1>8, <1>9, <1>10, <1>11, NextCases

\* Only recovery comes to the state in which claims must be visible.
LEMMA RecoveringKept == ASSUME TypeOK, Positioned, Next, ~Recover, Recovering' PROVE Recovering /\ ~Evaluate
<1>1. Recovering
    <2> USE DEF Recovering
    <2>1. CASE Quiet
        BY <2>1 DEF Quiet, ReadOrders, ReadPositions, ReadClosedOrders, ReadLedgerPositions, Reads,
           ReadLedgerEntries, EvaluateFails, EndDispatch, NextStrategy, EndCycle
    <2>2. CASE Evaluate \/ Exit
        BY <2>2 DEF Evaluate, Exit, TypeOK, CycleType, Positioned, Pcs
    <2>3. CASE Crash \/ MarkSubmitting \/ Submit \/ SaveAnswer
        BY <2>3 DEF Crash, MarkSubmitting, Submit, SaveAnswer
    <2>4. CASE Expire \/ Stream \/ Broker \/ NewBar
        BY <2>4 DEF Expire, Stream, Broker, NewBar, cycleVars
    <2> QED BY <2>1, <2>2, <2>3, <2>4, NextCases
<1> QED BY <1>1 DEF Recovering, Evaluate

LEMMA ClaimsAreVisibleNext ==
    ASSUME TypeOK, Positioned, SentOnce, ReadsAreSound, OneEach, ClaimsAreVisible, Next
    PROVE  ClaimsAreVisible'
<1>1. CASE Recover
    <2> SUFFICES ASSUME NEW p \in Claiming' PROVE Visible(p)'
        BY DEF ClaimsAreVisible, Visible
    <2>1. /\ p \in Pairs /\ seen' = seen /\ sending' = sending /\ ~Reading'
          /\ row'[p] \in Active \/ order[p] = "open" \/ p \in shares \/ p \in sending
             \/ (exit[p] = "filled" /\ p \notin seen.sold)
        BY <1>1, RecoverySteps DEF Claiming, Claims, Unrecorded, RowsIn, Reading, TypeOK, BrokerType, CycleType
    <2>2. p \in seen.orders \/ row'[p] \in Active \/ p \in sending \/ p[2] \in seen.held
        BY <1>1, <2>1, RecoverySteps DEF ReadsAreSound, Reading, Open
    <2>3. p[2] \in seen.held => p[2] \in SymbolsOf(position')
        BY <1>1, RecoverySteps
    <2> QED BY <2>1, <2>2, <2>3 DEF Visible, RowsIn, SymbolsOf
<1>2. CASE ~Recover
    <2> SUFFICES ASSUME Recovering', NEW p \in Claiming' PROVE Visible(p)'
        BY DEF ClaimsAreVisible, Visible
    <2>1. Recovering /\ Claiming' \subseteq Claiming
        BY <1>2, RecoveringKept, ClaimingShrinks DEF SentOnce
    <2>2. Visible(p)
        BY <2>1 DEF ClaimsAreVisible, Visible
    <2> QED BY <1>2, <2>1, <2>2, VisibleKept
<1> QED BY <1>1, <1>2
-----------------------------------------------------------------------------
(***************************************************************************)
(* Slots.                                                                  *)
(***************************************************************************)
LEMMA FewerSymbols ==
    ASSUME NEW S \in SUBSET Pairs, NEW T \in SUBSET Pairs, S \subseteq T
    PROVE  Cardinality(SymbolsOf(S)) <= Cardinality(SymbolsOf(T))
<1>1. SymbolsOf(S) \subseteq SymbolsOf(T)
    BY DEF SymbolsOf
<1> QED BY <1>1, SymbolsAreSymbols, SizeOfSymbols, FS_Subset

\* A strategy has one pair per symbol.
LEMMA SymbolsOfOne ==
    ASSUME NEW S \in SUBSET Pairs, NEW st, \A p \in S : p[1] = st
    PROVE  Cardinality(SymbolsOf(S)) = Cardinality(S)
<1> DEFINE f == [p \in S |-> p[2]]
<1>1. f \in Surjection(S, SymbolsOf(S))
    BY DEF Surjection, SymbolsOf
<1>2. f \in Injection(S, SymbolsOf(S))
    <2>1. \A p, q \in S : p[2] = q[2] => p = q
        BY PairParts
    <2> QED BY <2>1 DEF Injection, IsInjective, SymbolsOf
<1>3. f \in Bijection(S, SymbolsOf(S))
    BY <1>1, <1>2 DEF Bijection
<1> QED BY <1>3, SizeOfPairs, FS_Bijection DEF ExistsBijection

LEMMA MoreSymbols ==
    ASSUME NEW S \in SUBSET Pairs, NEW T \in SUBSET Pairs, NEW X \in SUBSET Pairs,
           S \subseteq T \cup X, NEW st, \A p \in X : p[1] = st
    PROVE  Cardinality(SymbolsOf(S)) <= Cardinality(SymbolsOf(T)) + Cardinality(X)
<1>1. SymbolsOf(T \cup X) = SymbolsOf(T) \cup SymbolsOf(X)
    BY DEF SymbolsOf
<1>2. Cardinality(SymbolsOf(S)) <= Cardinality(SymbolsOf(T \cup X))
    BY FewerSymbols
<1>3. /\ SymbolsOf(T) \in SUBSET Symbols /\ SymbolsOf(X) \in SUBSET Symbols /\ SymbolsOf(S) \in SUBSET Symbols
      /\ SymbolsOf(T) \cap SymbolsOf(X) \in SUBSET Symbols /\ SymbolsOf(T \cup X) \in SUBSET Symbols
    BY SymbolsAreSymbols
<1>4. Cardinality(SymbolsOf(T) \cup SymbolsOf(X)) =
        Cardinality(SymbolsOf(T)) + Cardinality(SymbolsOf(X)) - Cardinality(SymbolsOf(T) \cap SymbolsOf(X))
    BY <1>3, SizeOfSymbols, FS_Union
<1>5. Cardinality(SymbolsOf(X)) = Cardinality(X)
    BY SymbolsOfOne
<1>6. /\ Cardinality(SymbolsOf(T)) \in Nat /\ Cardinality(SymbolsOf(X)) \in Nat
      /\ Cardinality(SymbolsOf(T) \cap SymbolsOf(X)) \in Nat /\ Cardinality(SymbolsOf(S)) \in Nat
    BY <1>3, SizeOfSymbols
<1> DEFINE s == Cardinality(SymbolsOf(S))
           t == Cardinality(SymbolsOf(T))
           x == Cardinality(SymbolsOf(X))
           both == Cardinality(SymbolsOf(T) \cap SymbolsOf(X))
<1>7. s <= t + x - both /\ x = Cardinality(X) /\ s \in Nat /\ t \in Nat /\ x \in Nat /\ both \in Nat
    BY <1>1, <1>2, <1>4, <1>5, <1>6
<1> HIDE DEF s, t, x, both
<1>8. s <= t + Cardinality(X)
    BY <1>7
<1> QED BY <1>8 DEF s, t

LEMMA HeldType == ASSUME TypeOK PROVE Held \in SUBSET Pairs /\ ToExit \in SUBSET Pairs /\ Held \subseteq Claiming
BY DEF Held, ToExit, Claiming, Claims, RowsIn, TypeOK, BrokerType, CycleType, Readings

LEMMA LeavingGrows == ASSUME TypeOK, SentOnce, Next PROVE leaving \subseteq leaving'
<1>1. CASE Quiet
    BY <1>1, QuietKeeps DEF history
<1>2. CASE Recover \/ Evaluate \/ MarkSubmitting \/ Submit \/ SaveAnswer \/ Expire \/ Stream \/ NewBar \/ Crash
    BY <1>2 DEF Recover, Evaluate, MarkSubmitting, Submit, SaveAnswer, Expire, Stream, NewBar, Crash, history
<1>3. CASE Exit
    BY <1>3 DEF Exit
<1>4. CASE Broker
    BY <1>4, BrokerSteps DEF SentOnce, SharesAreFilled, TypeOK, BrokerType
<1> QED BY <1>1, <1>2, <1>3, <1>4, NextCases

LEMMA HeldShrinks ==
    ASSUME TypeOK, SentOnce, Next, ~Evaluate
    PROVE  Held' \subseteq Held
<1> DEFINE Pure == Claims \cup sending \cup (IF Reading THEN seen.orders ELSE {})
<1>1. Pure' \subseteq Pure
    <2> USE DEF Claims, RowsIn, Reading
    <2>1. CASE ReadOrders
        BY <2>1 DEF ReadOrders, Reads, brokerVars, ledgerVars, NothingSeen
    <2>2. CASE ReadPositions \/ ReadClosedOrders
        BY <2>2 DEF ReadPositions, ReadClosedOrders, Reads, brokerVars, ledgerVars, TypeOK, CycleType, Readings
    <2>3. CASE ReadLedgerPositions \/ ReadLedgerEntries \/ EvaluateFails \/ EndDispatch \/ NextStrategy \/ EndCycle
        BY <2>3 DEF ReadLedgerPositions, Reads, ReadLedgerEntries, EvaluateFails, EndDispatch, NextStrategy, EndCycle,
           brokerVars, ledgerVars
    <2>4. CASE Recover
        BY <2>4, RecoverySteps DEF Active
    <2>5. CASE Exit
        BY <2>5 DEF Exit, ledgerVars, TypeOK, BrokerType
    <2>6. CASE MarkSubmitting
        BY <2>6 DEF MarkSubmitting, brokerVars, TypeOK, LedgerType, Active
    <2>7. CASE Submit
        BY <2>7 DEF Submit, ledgerVars, TypeOK, BrokerType
    <2>8. CASE SaveAnswer
        BY <2>8 DEF SaveAnswer, brokerVars, TypeOK, LedgerType
    <2>9. CASE Expire
        BY <2>9 DEF Expire, brokerVars, cycleVars, TypeOK, LedgerType, Active
    <2>10. CASE Stream
        BY <2>10, StreamSteps DEF cycleVars, Active
    <2>11. CASE Broker
        <3>1. UNCHANGED <<row, sending, seen, pc>>
            BY <2>11, BrokerSteps DEF cycleVars, ledgerVars
        <3>2. /\ {p \in Pairs : order'[p] = "open"} \subseteq {p \in Pairs : order[p] = "open"}
              /\ shares' \subseteq shares \cup {p \in Pairs : order[p] = "open"}
            BY <2>11, BrokerSteps, TypeBroker DEF TypeOK, BrokerType
        <3> QED BY <3>1, <3>2
    <2>12. CASE NewBar \/ Crash
        BY <2>12 DEF NewBar, Crash, brokerVars, ledgerVars, cycleVars
    <2> HIDE DEF Claims, RowsIn, Reading
    <2> HIDE DEF Pure
    <2> QED BY <2>1, <2>2, <2>3, <2>4, <2>5, <2>6, <2>7, <2>8, <2>9, <2>10, <2>11, <2>12, NextCases DEF Quiet
<1>2. leaving \subseteq leaving'
    BY LeavingGrows
<1>3. Held = Pure \ leaving /\ Held' = Pure' \ leaving'
    BY DEF Held
<1> HIDE DEF Pure
<1> QED BY <1>1, <1>2, <1>3

LEMMA ToExitShrinks ==
    ASSUME TypeOK, Positioned, SentOnce, Next, InTurns', ~ReadLedgerEntries
    PROVE  ToExit' \subseteq ToExit \cup Held
<1>1. InTurns /\ seen' = seen
    BY TurnsKeepBlocked
<1>2. turn \in 0 .. Len(Strategies) /\ Len(Strategies) \in Nat
    BY Constants DEF TypeOK, CycleType
<1>3. shares' \subseteq shares \cup Open
    <2>1. CASE Broker
        BY <2>1, BrokerSteps, TypeBroker DEF Open, TypeOK, BrokerType
    <2>2. CASE Quiet
        BY <2>2, QuietKeeps DEF brokerVars
    <2>3. CASE Recover \/ Evaluate \/ Exit \/ MarkSubmitting \/ Submit \/ SaveAnswer \/ Expire \/ Stream \/ NewBar \/ Crash
        BY <2>3 DEF Recover, Evaluate, Exit, MarkSubmitting, Submit, SaveAnswer, Expire, Stream, NewBar, Crash, brokerVars
    <2> QED BY <2>1, <2>2, <2>3, NextCases
<1>4. Open \subseteq Held
    BY DEF Open, Held, Claims, SentOnce, SharesAreFilled
<1>5. \A i \in 1 .. Len(Strategies) :
        (i > turn' \/ (i = turn' /\ pc' \in {"evaluate", "exits"}))
            => (i > turn \/ (i = turn /\ pc \in {"evaluate", "exits"}))
    <2>1. CASE ReadOrders \/ ReadPositions \/ ReadClosedOrders \/ ReadLedgerPositions \/ EndCycle \/ Crash \/ Recover
        BY <2>1, <1>1 DEF InTurns, ReadOrders, ReadPositions, ReadClosedOrders, ReadLedgerPositions, Reads, EndCycle,
           Crash, Recover
    <2>2. CASE EvaluateFails \/ EndDispatch \/ Evaluate \/ Exit \/ MarkSubmitting \/ Submit \/ SaveAnswer
        BY <2>2, <1>2 DEF EvaluateFails, EndDispatch, Evaluate, Exit, MarkSubmitting, Submit, SaveAnswer
    <2>3. CASE NextStrategy
        BY <2>3, <1>2 DEF NextStrategy
    <2>4. CASE Expire \/ Stream \/ Broker \/ NewBar
        BY <2>4 DEF Expire, Stream, Broker, NewBar, cycleVars
    <2> QED BY <2>1, <2>2, <2>3, <2>4, NextCases DEF Quiet
<1> QED BY <1>1, <1>3, <1>4, <1>5 DEF ToExit

\* An exit frees one slot for each symbol that nobody holds any longer.
LEMMA ExitFreesSlots ==
    ASSUME TypeOK, Positioned, SentOnce, OneEach, SlotsAreCounted, Next, Exit
    PROVE  Cardinality(SymbolsOf(Held' \cup ToExit')) <= taken'.slots
<1>1. PICK exits \in SUBSET {p \in Of(Strategy, seen.positions) \cap shares : exit[p] = "none"} :
        /\ leaving' = leaving \cup exits
        /\ taken' = [taken EXCEPT !.slots =
                        IF @ < Cardinality(exits) THEN 0 ELSE @ - Cardinality(exits)]
    BY DEF Exit
<1> DEFINE Earlier == SymbolsOf(Held \cup ToExit)
           After == SymbolsOf(Held' \cup ToExit')
<1>2. /\ turn \in 1 .. Len(Strategies) /\ InTurns /\ InTurns'
      /\ pc = "exits" /\ pc' = "dispatch" /\ UNCHANGED <<turn, shares, seen>>
    BY DEF Exit, InTurns, Positioned, TypeOK, CycleType, Pcs
<1>3. exits \in SUBSET Pairs /\ \A p \in exits : p[1] = Strategy /\ p \in shares /\ p \in seen.positions
    BY DEF Of, TypeOK, BrokerType
<1>4. Held' \subseteq Held /\ ToExit' \subseteq ToExit \cup Held
    BY <1>2, HeldShrinks, ToExitShrinks DEF Exit, Evaluate, ReadLedgerEntries
<1>5. exits \subseteq ToExit
    BY <1>2, <1>3 DEF ToExit, Strategy
<1>6. \A p \in exits, q \in Held' \cup ToExit' : p[2] # q[2]
    <2> SUFFICES ASSUME NEW p \in exits, NEW q \in Held' \cup ToExit', p[2] = q[2] PROVE FALSE
        OBVIOUS
    <2>1. p \in Claiming
        BY <1>3 DEF Claiming, Claims
    <2>2. CASE q \in Held'
        <3>1. q \in Claiming /\ q \notin leaving'
            BY <1>4, <2>2, HeldType DEF Held
        <3>2. p = q
            BY <2>1, <3>1 DEF OneEach
        <3> QED BY <1>1, <3>1, <3>2
    <2>3. CASE q \in ToExit'
        <3>1. q \in shares /\ \E i \in 1 .. Len(Strategies) : q[1] = Strategies[i] /\ i > turn
            BY <1>2, <2>3 DEF ToExit
        <3>2. p = q
            BY <2>1, <3>1 DEF OneEach, Claiming, Claims
        <3> QED BY <1>2, <1>3, <3>1, <3>2, EntrySlotsAssumption DEF Strategy
    <2> QED BY <2>2, <2>3
<1>7. Earlier \in SUBSET Symbols /\ After \in SUBSET Symbols /\ SymbolsOf(exits) \in SUBSET Symbols
    <2>1. Held \cup ToExit \in SUBSET Pairs
        BY HeldType
    <2>2. Held' \cup ToExit' \in SUBSET Pairs
        BY <1>4, <2>1
    <2> QED BY <1>3, <2>1, <2>2, SymbolsAreSymbols
<1>8. /\ SymbolsOf(exits) \subseteq Earlier /\ After \subseteq Earlier \ SymbolsOf(exits)
    BY <1>4, <1>5, <1>6 DEF SymbolsOf
<1>9. Cardinality(SymbolsOf(exits)) = Cardinality(exits)
    BY <1>3, SymbolsOfOne
<1> HIDE DEF Earlier, After
<1>10. Cardinality(After) <= Cardinality(Earlier) - Cardinality(exits)
    <2>1. Cardinality(Earlier \ SymbolsOf(exits)) = Cardinality(Earlier) - Cardinality(exits)
        <3>1. Earlier \cap SymbolsOf(exits) = SymbolsOf(exits)
            BY <1>8
        <3>2. IsFiniteSet(Earlier)
            BY <1>7, SizeOfSymbols
        <3>3. Cardinality(Earlier \ SymbolsOf(exits)) =
                Cardinality(Earlier) - Cardinality(Earlier \cap SymbolsOf(exits))
            BY <3>2, FS_Difference
        <3> QED BY <1>9, <3>1, <3>3
    <2>2. Cardinality(After) <= Cardinality(Earlier \ SymbolsOf(exits))
        BY <1>7, <1>8, SizeOfSymbols, FS_Subset
    <2> QED BY <2>1, <2>2
<1>11. Cardinality(Earlier) <= taken.slots
    BY <1>2 DEF SlotsAreCounted, Earlier
<1>12. /\ Cardinality(After) \in Nat /\ Cardinality(Earlier) \in Nat /\ Cardinality(exits) \in Nat
       /\ taken.slots \in Nat
    BY <1>3, <1>7, SizeOfSymbols, SizeOfPairs DEF TypeOK, CycleType
<1>13. taken'.slots = IF taken.slots < Cardinality(exits) THEN 0 ELSE taken.slots - Cardinality(exits)
    BY <1>1 DEF TypeOK, CycleType
<1>14. Cardinality(After) <= taken'.slots
    BY <1>10, <1>11, <1>12, <1>13
<1> QED BY <1>14 DEF After
LEMMA EvaluateTakesSlots ==
    ASSUME TypeOK, Positioned, SentOnce, SlotsAreCounted, Next, Evaluate
    PROVE  SlotsAreCounted'
<1>1. PICK entries \in Selections(Strategy) :
        /\ entries \in SUBSET Pairs /\ IsFiniteSet(entries) /\ Cardinality(entries) \in Nat
        /\ \A p \in entries : p[1] = Strategy /\ p[2] \notin Blocked(Strategy) /\ row[p] \notin Active
        /\ row' = [p \in Pairs |-> IF p \in entries THEN "pending_submit" ELSE row[p]]
        /\ taken' = [slots |-> taken.slots + Cardinality(entries),
                     symbols |-> taken.symbols \cup SymbolsOf(entries)]
    BY EvaluateSteps
<1>2. InTurns /\ InTurns' /\ taken.slots \in Nat
    BY DEF Evaluate, InTurns, TypeOK, CycleType
<1>3. Held' \subseteq Held \cup entries
    BY <1>1 DEF Evaluate, Held, Claims, RowsIn, Reading, brokerVars, history
<1>4. ToExit' \subseteq ToExit \cup Held
    BY <1>2, ToExitShrinks DEF Evaluate, ReadLedgerEntries
<1>5. Held \in SUBSET Pairs /\ ToExit \in SUBSET Pairs
    BY HeldType
<1>6. /\ Held' \in SUBSET Pairs /\ ToExit' \in SUBSET Pairs
      /\ Held \cup ToExit \in SUBSET Pairs /\ Held' \cup ToExit' \in SUBSET Pairs
      /\ Held' \cup ToExit' \subseteq (Held \cup ToExit) \cup entries
    BY <1>1, <1>3, <1>4, <1>5
<1>7. /\ Cardinality(SymbolsOf(Held)) \in Nat /\ Cardinality(SymbolsOf(Held')) \in Nat
      /\ Cardinality(SymbolsOf(Held \cup ToExit)) \in Nat
      /\ Cardinality(SymbolsOf(Held' \cup ToExit')) \in Nat
    BY <1>5, <1>6, SymbolsAreSymbols, SizeOfSymbols
<1>8. Cardinality(SymbolsOf(Held' \cup ToExit')) <= Cardinality(SymbolsOf(Held \cup ToExit)) + Cardinality(entries)
    BY <1>1, <1>6, MoreSymbols
<1>9. Cardinality(SymbolsOf(Held')) <= Cardinality(SymbolsOf(Held \cup ToExit)) + Cardinality(entries)
    <2>1. Held' \subseteq (Held \cup ToExit) \cup entries
        BY <1>3
    <2> QED BY <1>1, <1>6, <2>1, MoreSymbols
<1>10. Cardinality(SymbolsOf(Held \cup ToExit)) <= taken.slots /\ Cardinality(SymbolsOf(Held)) <= MaxSlots
    BY <1>2 DEF SlotsAreCounted
<1>11. taken'.slots = taken.slots + Cardinality(entries)
    BY <1>1
<1>12. entries # {} => Cardinality(entries) <= MaxSlots - taken.slots
    <2>1. Of(Strategy, seen.positions) \in SUBSET Pairs
        BY DEF Of, TypeOK, CycleType, Readings
    <2>2. Cardinality(Of(Strategy, seen.positions)) \in Nat
        BY <2>1, SizeOfPairs
    <2>3. entries # {} => Cardinality(entries) <= Room(Strategy)
        BY DEF Selections
    <2> QED BY <1>1, <1>2, <2>2, <2>3, Constants DEF Room
<1>13. Cardinality(SymbolsOf(Held')) <= MaxSlots
    <2>1. CASE entries = {}
        <3>1. Held' \subseteq Held
            BY <1>3, <2>1
        <3>2. Cardinality(SymbolsOf(Held')) <= Cardinality(SymbolsOf(Held))
            BY <1>5, <1>6, <3>1, FewerSymbols
        <3> QED BY <1>7, <1>10, <3>2, Constants
    <2>2. CASE entries # {}
        BY <1>1, <1>2, <1>7, <1>9, <1>10, <1>12, <2>2, Constants
    <2> QED BY <2>1, <2>2
<1>14. Cardinality(SymbolsOf(Held' \cup ToExit')) <= taken'.slots
    BY <1>1, <1>2, <1>7, <1>8, <1>10, <1>11
<1>15. SymbolsOf(Held)' = SymbolsOf(Held') /\ SymbolsOf(Held \cup ToExit)' = SymbolsOf(Held' \cup ToExit')
    BY DEF SymbolsOf
<1> QED BY <1>13, <1>14, <1>15 DEF SlotsAreCounted

LEMMA SlotsAreCountedNext ==
    ASSUME TypeOK, Positioned, SentOnce, OneEach, ClaimsAreVisible, SlotsAreCounted, Next
    PROVE  SlotsAreCounted'
<1>1. CASE Evaluate
    BY <1>1, EvaluateTakesSlots
<1>2. CASE ~Evaluate
    <2>1. Held' \subseteq Held /\ Held \in SUBSET Pairs /\ ToExit \in SUBSET Pairs
        BY <1>2, HeldShrinks, HeldType
    <2>2. Cardinality(SymbolsOf(Held')) <= Cardinality(SymbolsOf(Held))
        BY <2>1, FewerSymbols
    <2>3. /\ Cardinality(SymbolsOf(Held)) \in Nat /\ Cardinality(SymbolsOf(Held')) \in Nat
        BY <2>1, SymbolsAreSymbols, SizeOfSymbols
    <2>4. Cardinality(SymbolsOf(Held')) <= MaxSlots
        BY <2>2, <2>3, Constants DEF SlotsAreCounted
    <2>5. ASSUME InTurns' PROVE Cardinality(SymbolsOf(Held' \cup ToExit')) <= taken'.slots
        <3>1. CASE Exit
            BY <3>1, ExitFreesSlots
        <3>2. CASE ReadLedgerEntries
            <4>1. Recovering /\ sending = {}
                BY <3>2 DEF Recovering, ReadLedgerEntries, SentOnce, OneSent, Sending
            <4>2. SymbolsOf(Claiming) \subseteq Working
                BY <4>1 DEF ClaimsAreVisible, SymbolsOf, Working
            <4>3. Held' \subseteq Claiming
                BY <2>1, HeldType
            <4>4. ToExit' \subseteq seen.positions
                BY <3>2 DEF ToExit, ReadLedgerEntries, TypeOK, CycleType, Readings
            <4>5. seen.positions \in SUBSET Pairs /\ Working \in SUBSET Symbols
                BY WorkingType DEF TypeOK, CycleType, Readings
            <4>6. SymbolsOf(Held' \cup ToExit') \subseteq SymbolsOf(seen.positions) \cup Working
                BY <4>2, <4>3, <4>4 DEF SymbolsOf
            <4>7. SymbolsOf(seen.positions) \cup Working \in SUBSET Symbols
                BY <4>5, SymbolsAreSymbols
            <4>8. Cardinality(SymbolsOf(Held' \cup ToExit')) <= Cardinality(SymbolsOf(seen.positions) \cup Working)
                BY <4>6, <4>7, SizeOfSymbols, FS_Subset
            <4> QED BY <3>2, <4>8 DEF ReadLedgerEntries, OccupiedSlots
        <3>3. CASE ~Exit /\ ~ReadLedgerEntries
            <4>1. ToExit' \subseteq ToExit \cup Held
                BY <2>5, <3>3, ToExitShrinks
            <4>2. InTurns
                BY <2>5, <3>3, TurnsKeepBlocked
            <4>3. taken' = taken
                <5>1. CASE ReadOrders \/ ReadPositions \/ ReadClosedOrders \/ ReadLedgerPositions \/ EndCycle \/ Crash
                           \/ Recover
                    BY <2>5, <5>1 DEF InTurns, ReadOrders, ReadPositions, ReadClosedOrders, ReadLedgerPositions, Reads,
                       EndCycle, Crash, Recover
                <5>2. CASE EvaluateFails \/ EndDispatch \/ MarkSubmitting \/ Submit \/ SaveAnswer \/ NextStrategy
                    BY <5>2 DEF EvaluateFails, EndDispatch, MarkSubmitting, Submit, SaveAnswer, NextStrategy
                <5>3. CASE Expire \/ Stream \/ Broker \/ NewBar
                    BY <5>3 DEF Expire, Stream, Broker, NewBar, cycleVars
                <5> QED BY <1>2, <3>3, <5>1, <5>2, <5>3, NextCases DEF Quiet
            <4>4. Held' \cup ToExit' \subseteq Held \cup ToExit /\ Held \cup ToExit \in SUBSET Pairs
                BY <2>1, <4>1
            <4>5. Cardinality(SymbolsOf(Held' \cup ToExit')) <= Cardinality(SymbolsOf(Held \cup ToExit))
                BY <4>4, FewerSymbols
            <4>6. Cardinality(SymbolsOf(Held \cup ToExit)) <= taken.slots
                BY <4>2 DEF SlotsAreCounted
            <4>7. /\ Cardinality(SymbolsOf(Held' \cup ToExit')) \in Nat /\ taken.slots \in Nat
                  /\ Cardinality(SymbolsOf(Held \cup ToExit)) \in Nat
                BY <4>4, SymbolsAreSymbols, SizeOfSymbols DEF TypeOK, CycleType
            <4> QED BY <4>3, <4>5, <4>6, <4>7
        <3> QED BY <3>1, <3>2, <3>3
    <2>6. SymbolsOf(Held)' = SymbolsOf(Held') /\ SymbolsOf(Held \cup ToExit)' = SymbolsOf(Held' \cup ToExit')
        BY DEF SymbolsOf
    <2> QED BY <2>4, <2>5, <2>6 DEF SlotsAreCounted
<1> QED BY <1>1, <1>2

-----------------------------------------------------------------------------
(***************************************************************************)
(* Bars.                                                                   *)
(***************************************************************************)
LEMMA BarsAreRememberedNext ==
    ASSUME TypeOK, Positioned, BarsAreRemembered, Next
    PROVE  BarsAreRemembered'
<1>0. /\ \A p \in Pairs : rowBar[p] \in Int
      /\ cadence.memory \in Int /\ seen.bar \in Int /\ \A b \in used.before : b \in Int
    BY DEF TypeOK, LedgerType, CycleType, Readings, Bars
<1> USE DEF BarsAreRemembered, InTurns, Reading, Recovering
<1>1. CASE ReadOrders
    BY <1>1 DEF ReadOrders, Reads, ledgerVars
<1>2. CASE ReadPositions \/ ReadClosedOrders \/ ReadLedgerPositions
    BY <1>2 DEF ReadPositions, ReadClosedOrders, ReadLedgerPositions, Reads, ledgerVars
<1>3. CASE Recover
    BY <1>3, RecoverySteps
<1>4. CASE ReadLedgerEntries
    <2>1. \A p \in Pairs : rowBar[p] <= Remembered
        BY <1>4, RememberedIsLatest DEF ReadLedgerEntries, TypeOK
    <2>2. cadence'.memory = Remembered
        BY <1>4 DEF ReadLedgerEntries, TypeOK, CycleType
    <2> QED BY <1>4, <2>1, <2>2 DEF ReadLedgerEntries, ledgerVars
<1>5. CASE Evaluate
    <2>1. PICK entries \in Selections(Strategy) :
            /\ entries # {} => MayEnter /\ used'.now = TRUE
            /\ rowBar' = [p \in Pairs |-> IF p \in entries THEN seen.bar ELSE rowBar[p]]
            /\ used'.before = used.before /\ used'.now \in {used.now, used.now \/ MayEnter}
        BY <1>5, EvaluateSteps
    <2>3. used.now => used'.now
        BY <1>5 DEF Evaluate, TypeOK, CycleType
    <2>4. used'.now => cadence.memory < seen.bar
        BY <1>5 DEF Evaluate, MayEnter, TypeOK, CycleType
    <2> QED BY <1>5, <2>1, <2>3, <2>4 DEF Evaluate
<1>6. CASE EvaluateFails
    <2>1. /\ used.now => used'.now
          /\ used'.now => cadence.memory < seen.bar
          /\ used'.before = used.before
        BY <1>6 DEF EvaluateFails, MayEnter, TypeOK, CycleType
    <2> QED BY <1>6, <2>1 DEF EvaluateFails, ledgerVars
<1>7. CASE Exit
    BY <1>7 DEF Exit, ledgerVars, Positioned, TypeOK, CycleType
<1>8. CASE MarkSubmitting \/ Submit \/ SaveAnswer
    BY <1>8 DEF MarkSubmitting, Submit, SaveAnswer, ledgerVars
<1>9. CASE EndDispatch \/ NextStrategy
    BY <1>9 DEF EndDispatch, NextStrategy, ledgerVars
<1>10. CASE EndCycle
    <2>1. cadence'.memory = IF used.now THEN seen.bar ELSE cadence.memory
        BY <1>10 DEF EndCycle
    <2> QED BY <1>0, <1>10, <2>1 DEF EndCycle, ledgerVars
<1>11. CASE Crash
    <2>1. cadence'.memory = 0
        BY <1>11 DEF Crash, TypeOK, CycleType
    <2> QED BY <1>11, <2>1 DEF Crash
<1>12. CASE Expire \/ Stream \/ Broker \/ NewBar
    BY <1>12 DEF Expire, Stream, Broker, NewBar, cycleVars, ledgerVars
<1> HIDE DEF BarsAreRemembered, InTurns, Reading, Recovering
<1> QED BY <1>1, <1>2, <1>3, <1>4, <1>5, <1>6, <1>7, <1>8, <1>9, <1>10, <1>11, <1>12, NextCases DEF Quiet

\* Only a strategy that may enter on the bar makes a row pending anew.
LEMMA OneCyclePerBarNext ==
    ASSUME TypeOK, Positioned, BarsAreRemembered, Next,
           NEW p \in Pairs, row'[p] = "pending_submit", row[p] \notin Active
    PROVE  rowBar'[p] \notin used.before
<1>1. CASE Evaluate
    <2>1. PICK entries \in Selections(Strategy) :
            /\ entries # {} => MayEnter
            /\ row' = [q \in Pairs |-> IF q \in entries THEN "pending_submit" ELSE row[q]]
            /\ rowBar' = [q \in Pairs |-> IF q \in entries THEN seen.bar ELSE rowBar[q]]
        BY <1>1, EvaluateSteps
    <2>2. p \in entries /\ rowBar'[p] = seen.bar /\ cadence.memory < seen.bar
        BY <2>1 DEF MayEnter, Active
    <2>3. \A b \in used.before : b <= cadence.memory
        BY <1>1 DEF BarsAreRemembered, InTurns, Evaluate
    <2>4. cadence.memory \in Int /\ seen.bar \in Int /\ \A b \in used.before : b \in Int
        BY DEF TypeOK, CycleType, Readings, Bars
    <2> QED BY <2>2, <2>3, <2>4
<1>2. CASE Recover
    BY <1>2, RecoverySteps DEF Active
<1>3. CASE Stream
    BY <1>3, StreamSteps DEF Active
<1>4. CASE MarkSubmitting \/ SaveAnswer \/ Expire
    BY <1>4 DEF MarkSubmitting, SaveAnswer, Expire, Active, TypeOK, LedgerType
<1>5. CASE Quiet \/ Exit \/ Submit \/ Broker \/ NewBar \/ Crash
    <2>1. row' = row
        BY <1>5, QuietKeeps DEF Exit, Submit, Broker, NewBar, Crash, ledgerVars
    <2> QED BY <2>1 DEF Active
<1> QED BY <1>1, <1>2, <1>3, <1>4, <1>5, NextCases

-----------------------------------------------------------------------------
(***************************************************************************)
(* The invariant, and what follows from it.                                *)
(***************************************************************************)
LEMMA InvInit == Init => IInv
<1> SUFFICES ASSUME Init PROVE IInv
    OBVIOUS
<1>1. TypeOK
    BY TypeInit
<1>2. Positioned /\ SentOnce /\ ReadsAreSound
    BY DEF Init, Positioned, Pcs, SentOnce, OneSent, Sending, NotSent, FilledOnce, SharesAreFilled,
       ReadsAreSound, Reading
<1>3. ~Reading /\ ~Recovering /\ ~InTurns
    BY DEF Init, Reading, Recovering, InTurns
<1>4. Claiming = {} /\ Held = {}
    BY <1>3 DEF Init, Claiming, Claims, Unrecorded, RowsIn, Active, Held
<1>5. OneEach /\ ClaimsAreVisible /\ ClaimsAreBlocked
    BY <1>3, <1>4 DEF OneEach, ClaimsAreVisible, ClaimsAreBlocked
<1>6. Cardinality(SymbolsOf(Held)) = 0
    BY <1>4, FS_EmptySet DEF SymbolsOf
<1>7. SlotsAreCounted
    BY <1>3, <1>6, Constants DEF SlotsAreCounted
<1>8. BarsAreRemembered
    BY <1>3 DEF BarsAreRemembered, Init
<1> QED BY <1>1, <1>2, <1>5, <1>7, <1>8 DEF IInv

LEMMA InvNext == IInv /\ Next => IInv'
BY TypeNext, PositionedNext, SentOnceNext, ReadsAreSoundNext, OneEachNext, ClaimsAreVisibleNext,
   ClaimsAreBlockedNext, SlotsAreCountedNext, BarsAreRememberedNext DEF IInv, SentOnce

LEMMA InvStutters == IInv /\ UNCHANGED vars => IInv'
<1> SUFFICES ASSUME IInv, UNCHANGED vars PROVE IInv'
    OBVIOUS
<1>1. TypeOK'
    BY TypeStutters DEF IInv
<1> USE DEF vars, brokerVars, ledgerVars, cycleVars, history
<1>2. Positioned' /\ SentOnce'
    BY DEF IInv, Positioned, SentOnce, OneSent, Sending, NotSent, FilledOnce, SharesAreFilled
<1>3. /\ Claiming' = Claiming /\ Held' = Held /\ ToExit' = ToExit
      /\ Reading' = Reading /\ Recovering' = Recovering /\ InTurns' = InTurns
    BY DEF Claiming, Claims, Unrecorded, RowsIn, Held, ToExit, Reading, Recovering, InTurns
<1>4. ReadsAreSound' /\ OneEach' /\ BarsAreRemembered'
    BY <1>3 DEF IInv, ReadsAreSound, Open, OneEach, BarsAreRemembered
<1>5. ClaimsAreVisible' /\ ClaimsAreBlocked'
    BY <1>3 DEF IInv, ClaimsAreVisible, ClaimsAreBlocked, SymbolsOf, RowsIn
<1>6. SlotsAreCounted'
    BY <1>3 DEF IInv, SlotsAreCounted, SymbolsOf
<1> QED BY <1>1, <1>2, <1>4, <1>5, <1>6 DEF IInv

LEMMA SharesOfInv == IInv => SlotsAreShared
<1> SUFFICES ASSUME IInv PROVE SlotsAreShared
    OBVIOUS
<1>1. OneStrategyPerSymbol
    BY DEF IInv, OneStrategyPerSymbol, OneEach, Claiming
<1>2. SlotsRespected
    <2>1. Claims \ leaving \subseteq Held /\ Held \in SUBSET Pairs
        BY HeldType DEF IInv, Held
    <2>2. Cardinality(SymbolsOf(Claims \ leaving)) <= Cardinality(SymbolsOf(Held))
        BY <2>1, FewerSymbols
    <2>3. /\ Cardinality(SymbolsOf(Held)) \in Nat
          /\ Cardinality(SymbolsOf(Claims \ leaving)) \in Nat
        BY <2>1, SymbolsAreSymbols, SizeOfSymbols
    <2> QED BY <2>2, <2>3, Constants DEF IInv, SlotsAreCounted, SlotsRespected
<1>3. TradedOnceADay
    BY DEF IInv, SentOnce, FilledOnce, TradedOnceADay
<1> QED BY <1>1, <1>2, <1>3 DEF SlotsAreShared

\* The inductive invariant: what the cycle read bounds what is, and who claims a
\* symbol or a bar is seen by whoever would claim it next.
THEOREM ReadsBoundClaims == Spec => []IInv
<1>1. IInv /\ [Next]_vars => IInv'
    BY InvNext, InvStutters
<1> QED BY <1>1, InvInit, PTL DEF Spec

\* However many strategies, symbols and slots there are: two strategies never
\* enter or hold one symbol, no more symbols are entered and held than there are
\* slots (those apart that an exit was sent for), and a strategy trades a symbol
\* once a day, although run_cycle_once decides on reads that the stream thread and
\* the broker overtake, and whatever a crash repeats.
THEOREM StrategiesShareSlots == Spec => []SlotsAreShared
BY ReadsBoundClaims, SharesOfInv, PTL

\* A bar that one cycle entered on is entered on by no later one, even after a
\* restart that forgot it and a failed write of the audit log:
\* _load_persisted_entry_cadence_bar finds it in the orders.
THEOREM BarsAreEnteredOnce == Spec => OneCyclePerBar
<1>1. IInv /\ [Next]_vars =>
        [\A p \in Pairs : row'[p] = "pending_submit" /\ row[p] \notin Active =>
            rowBar'[p] \notin used.before]_vars
    BY OneCyclePerBarNext DEF IInv
<1> QED BY <1>1, ReadsBoundClaims, PTL DEF Spec, OneCyclePerBar

(***************************************************************************)
(* The weights of the strategies.                                          *)
(***************************************************************************)

Capital == SumFunctionOnSet(weight, Members)
Many == Cardinality(Members)
AtFloor == {n \in Members : weight[n] = MinWeight}

WeightsTypeOK ==
    /\ sharpe \in [Members -> Nat] /\ weight \in [Members -> Nat]
    /\ phase \in {"cap", "floor", "done"} /\ round \in 0 .. Rounds

\* A round of capping loses at most one unit per strategy, and a round of topping
\* up makes at most one.
RoundsKeepCapital ==
    /\ phase = "cap" => Capital \in (Whole - Many * (round + 1)) .. Whole
    /\ phase = "floor" => Capital \in (Whole - Slack) .. (Whole + Many * round)
    /\ phase = "done" => Capital \in (Whole - Slack) .. (Whole + Slack)

\* Every round of topping up brings at least one more strategy to its minimum.
RoundsFillFloor == phase = "floor" => round <= Cardinality(AtFloor)

WeightsInv == WeightsTypeOK /\ RoundsKeepCapital /\ RoundsFillFloor /\ AllAlive

(* The bounds that the assumption gives.                                    *)
LEMMA WeightBounds ==
    ASSUME StrategyWeightsAssumption
    PROVE  /\ Whole \in Nat /\ MinWeight \in Nat /\ MaxWeight \in Nat /\ Floor \in Nat
           /\ Rounds \in Nat /\ Sharpes \subseteq Nat /\ Floor <= Whole /\ MinWeight < MaxWeight
           /\ IsFiniteSet(Members) /\ Members # {} /\ Many \in Nat \ {0} /\ Many <= Rounds
           /\ Slack \in Nat /\ Many <= Slack /\ MinWeight * Many + Slack <= Whole
           /\ MinWeight * Many \in Nat
           /\ \A r \in 0 .. Rounds : /\ Many * r \in Nat /\ Many * (r + 1) = Many * r + Many
                                     /\ Many * (r + 1) <= Slack /\ Many * r <= Slack
<1>1. /\ Whole \in Nat /\ MinWeight \in Nat /\ MaxWeight \in Nat /\ Floor \in Nat
      /\ Rounds \in Nat /\ Sharpes \subseteq Nat /\ Floor <= Whole /\ MinWeight < MaxWeight
      /\ IsFiniteSet(Members) /\ Members # {} /\ Many <= Rounds
      /\ MinWeight * Many + Slack <= Whole
  BY DEF StrategyWeightsAssumption, Many
<1>2. Many \in Nat \ {0}
  BY <1>1, FS_CardinalityType, FS_EmptySet DEF Many
<1>3. Slack = Many * (Rounds + 1)
  BY DEF Slack, Many
<1>4. ASSUME NEW r \in 0 .. Rounds
      PROVE  /\ Many * r \in Nat /\ Many * (r + 1) = Many * r + Many /\ Many * (r + 1) <= Slack
  <2>1. Many * r \in Nat /\ Many * (r + 1) = Many * r + Many
    BY <1>1, <1>2
  <2>2. PICK d \in Nat : Rounds = r + d
    <3>1. Rounds - r \in Nat /\ Rounds = r + (Rounds - r)
      BY <1>1
    <3> QED
      BY <3>1
  <2>3. Many * (Rounds + 1) = Many * (r + 1) + Many * d /\ Many * d \in Nat
    BY <1>2, <2>2
  <2>4. Many * (r + 1) <= Many * (Rounds + 1)
    <3>1. \A x \in Int, y \in Nat : x <= x + y
      OBVIOUS
    <3>2. Many * (r + 1) \in Int
      BY <1>1, <1>2
    <3> QED
      BY <2>3, <3>1, <3>2, Zenon
  <2> QED
    BY <1>3, <2>1, <2>4
<1>5. Slack \in Nat /\ Many <= Slack
  <2>1. 0 \in 0 .. Rounds /\ Many * (0 + 1) = Many
    BY <1>1, <1>2
  <2>2. Slack \in Nat
    BY <1>1, <1>2, <1>3
  <2> QED
    BY <1>4, <2>1, <2>2
<1>6. MinWeight * Many \in Nat
  BY <1>1, <1>2
<1> QED
  BY <1>1, <1>2, <1>4, <1>5, <1>6

(* Equal parts of a whole lose less than one unit each.                     *)
LEMMA EqualPartsSum ==
    ASSUME NEW S, IsFiniteSet(S), S # {}, NEW e \in Nat, NEW v,
           \A x \in S : v[x] = e \div Cardinality(S)
    PROVE  /\ SumFunctionOnSet(v, S) \in Int
           /\ SumFunctionOnSet(v, S) <= e /\ SumFunctionOnSet(v, S) >= e - Cardinality(S)
<1>1. Cardinality(S) \in Nat \ {0}
  BY FS_CardinalityType, FS_EmptySet
<1>2. PICK m \in Nat \ {0} : m = Cardinality(S)
  BY <1>1
<1>3. e \div m \in Nat /\ m * (e \div m) <= e /\ e < m * (e \div m) + m
  BY QuotientBounds
<1>4. PICK q \in Nat : q = e \div m
  BY <1>3
<1>5. SumFunctionOnSet(v, S) = q * Cardinality(S)
  BY <1>2, <1>4, SumOfSame
<1>6. q * m = m * q /\ q * m \in Int
  OBVIOUS
<1> QED
  BY <1>2, <1>3, <1>4, <1>5, <1>6

LEMMA WeightsStart ==
    ASSUME StrategyWeightsAssumption, WeightsInit
    PROVE  WeightsInv
<1>1. /\ Whole \in Nat /\ MinWeight \in Nat /\ Rounds \in Nat /\ Sharpes \subseteq Nat
      /\ IsFiniteSet(Members) /\ Members # {} /\ Many \in Nat \ {0} /\ Many <= Slack
      /\ Slack \in Nat /\ MinWeight * Many + Slack <= Whole /\ MinWeight * Many \in Nat
  BY WeightBounds
<1>2. PICK t : t = SumFunctionOnSet(sharpe, Members)
  OBVIOUS
<1>3. /\ sharpe \in [Members -> Nat] /\ round = 0
      /\ weight = [n \in Members |-> IF t = 0 THEN Whole \div Many ELSE (Whole * sharpe[n]) \div t]
      /\ phase = IF t = 0 \/ Many = 1 THEN "done" ELSE "cap"
  BY <1>1, <1>2 DEF WeightsInit, Many
<1>4. t \in Nat
  <2>1. \A n \in Members : sharpe[n] \in Int /\ sharpe[n] >= 0
    BY <1>3
  <2>2. t \in Int
    BY <1>1, <1>2, <2>1, SumIsInt
  <2>3. SumFunctionOnSet(sharpe, {}) <= t
    BY <1>1, <1>2, <2>1, SumGrows
  <2>4. SumFunctionOnSet(sharpe, {}) = 0
    BY SumOfNothing
  <2> QED
    BY <2>2, <2>3, <2>4
<1>5. weight \in [Members -> Nat] /\ Capital \in (Whole - Many) .. Whole
  <2>1. CASE t = 0
    <3>1. Whole \div Many \in Nat
      BY <1>1, QuotientBounds
    <3>2. \A n \in Members : weight[n] = Whole \div Cardinality(Members)
      BY <1>3, <2>1 DEF Many
    <3>3. /\ SumFunctionOnSet(weight, Members) \in Int
          /\ SumFunctionOnSet(weight, Members) <= Whole
          /\ SumFunctionOnSet(weight, Members) >= Whole - Cardinality(Members)
      BY <1>1, <3>2, EqualPartsSum
    <3> QED
      BY <1>1, <1>3, <2>1, <3>1, <3>3 DEF Capital, Many
  <2>2. CASE t # 0
    <3>1. t \in Nat \ {0}
      BY <1>4, <2>2
    <3>2. \A n \in Members : sharpe[n] \in Nat /\ weight[n] = (Whole * sharpe[n]) \div t
      BY <1>3, <2>2
    <3>3. \A n \in Members : weight[n] \in Nat
      <4> SUFFICES ASSUME NEW n \in Members PROVE weight[n] \in Nat
        OBVIOUS
      <4>1. Whole * sharpe[n] \in Nat
        BY <1>1, <3>2
      <4> QED
        BY <3>1, <3>2, <4>1, QuotientBounds
    <3>4. /\ SumFunctionOnSet(weight, Members) \in Int
          /\ SumFunctionOnSet(weight, Members) <= Whole
          /\ SumFunctionOnSet(weight, Members) >= Whole - Cardinality(Members)
      BY <1>1, <1>2, <3>1, <3>2, SharesSum
    <3> QED
      BY <1>1, <1>3, <3>3, <3>4 DEF Capital, Many
  <2> QED
    BY <2>1, <2>2
<1>6. WeightsTypeOK
  BY <1>1, <1>3, <1>5 DEF WeightsTypeOK
<1>7. RoundsKeepCapital
  <2>1. Many * (0 + 1) = Many
    BY <1>1
  <2>2. phase \in {"cap", "done"}
    BY <1>3
  <2> QED
    BY <1>1, <1>3, <1>5, <2>1, <2>2 DEF RoundsKeepCapital
<1>8. AllAlive
  <2>1. CASE t = 0
    <3>1. Whole \div Many \in Nat /\ Whole < Many * (Whole \div Many) + Many
      BY <1>1, QuotientBounds
    <3>2. PICK q \in Nat : q = Whole \div Many
      BY <3>1
    <3>3. ASSUME q < MinWeight PROVE FALSE
      <4>1. PICK d \in Nat : MinWeight = q + 1 + d
        <5>1. MinWeight - (q + 1) \in Nat /\ MinWeight = q + 1 + (MinWeight - (q + 1))
          BY <1>1, <3>3
        <5> QED
          BY <5>1
      <4>2. MinWeight * Many = Many * q + Many + Many * d /\ Many * d \in Nat /\ Many * q \in Nat
        BY <1>1, <4>1
      <4> QED
        BY <1>1, <3>1, <3>2, <4>2
    <3> QED
      BY <1>1, <1>3, <2>1, <3>2, <3>3 DEF AllAlive
  <2>2. CASE Many = 1
    <3>1. PICK n : Members = {n}
      BY <1>1, <2>2, FS_Singleton DEF Many
    <3>2. weight[n] \in Nat
      BY <1>5, <3>1
    <3>3. Capital = weight[n]
      BY <3>1, <3>2, SumOfOne DEF Capital
    <3>4. MinWeight + 1 <= Whole
      BY <1>1, <2>2
    <3> QED
      BY <1>1, <1>5, <2>2, <3>1, <3>2, <3>3, <3>4 DEF AllAlive
  <2>3. CASE t # 0 /\ Many # 1
    BY <1>3, <2>3 DEF AllAlive
  <2> QED
    BY <2>1, <2>2, <2>3
<1>9. RoundsFillFloor
  BY <1>3 DEF RoundsFillFloor
<1> QED
  BY <1>6, <1>7, <1>8, <1>9 DEF WeightsInv

(* A round of capping: what is over the cap goes to the others, in the      *)
(* proportion of their Sharpe ratios or in equal parts.                     *)
LEMMA CapRoundKeeps ==
    ASSUME StrategyWeightsAssumption, WeightsInv, CapRound
    PROVE  WeightsInv'
<1>1. /\ Whole \in Nat /\ MinWeight \in Nat /\ MaxWeight \in Nat /\ Rounds \in Nat
      /\ IsFiniteSet(Members) /\ Many \in Nat \ {0}
      /\ \A r \in 0 .. Rounds : Many * r \in Nat /\ Many * (r + 1) = Many * r + Many
  BY WeightBounds
<1> DEFINE free == Members \ OverCap
           excess == SumFunctionOnSet(weight, OverCap) - MaxWeight * Cardinality(OverCap)
           part == [n \in free |-> IF SumFunctionOnSet(sharpe, free) > 0
                                   THEN (excess * sharpe[n]) \div SumFunctionOnSet(sharpe, free)
                                   ELSE excess \div Cardinality(free)]
<1>2. /\ phase = "cap" /\ round < Rounds /\ OverCap # {} /\ free # {}
      /\ weight' = [n \in Members |-> IF n \in OverCap THEN MaxWeight ELSE Topped(n, free, excess)]
      /\ round' = round + 1 /\ sharpe' = sharpe /\ phase' = phase
  BY DEF CapRound
<1>3. /\ sharpe \in [Members -> Nat] /\ weight \in [Members -> Nat] /\ round \in 0 .. Rounds
      /\ Capital \in (Whole - Many * (round + 1)) .. Whole
  BY <1>2 DEF WeightsInv, WeightsTypeOK, RoundsKeepCapital
<1>4. /\ IsFiniteSet(OverCap) /\ IsFiniteSet(free) /\ free \subseteq Members
      /\ OverCap \subseteq Members
      /\ Cardinality(OverCap) \in Nat /\ Cardinality(free) \in Nat \ {0}
      /\ Cardinality(free) <= Many
  <2>1. OverCap \in SUBSET Members
    BY DEF OverCap
  <2>2. /\ IsFiniteSet(OverCap) /\ Cardinality(OverCap) \in Nat
        /\ IsFiniteSet(free) /\ Cardinality(free) \in Nat
        /\ Cardinality(OverCap) + Cardinality(free) = Cardinality(Members)
    BY <1>1, <2>1, SplitCounts
  <2>3. Cardinality(free) # 0
    BY <1>2, <2>2, FS_EmptySet
  <2>4. free \subseteq Members /\ OverCap \subseteq Members
    BY <2>1
  <2>5. Many = Cardinality(Members)
    BY DEF Many
  <2> HIDE DEF free
  <2>6. Cardinality(free) \in Nat \ {0} /\ Cardinality(free) <= Many
    BY <1>1, <2>2, <2>3, <2>5
  <2> QED
    BY <2>2, <2>4, <2>6
<1>5. \A n \in OverCap : weight[n] \in Int /\ MaxWeight <= weight[n]
  BY <1>1, <1>3 DEF OverCap
<1>6. excess \in Nat /\ SumFunctionOnSet(weight, OverCap) \in Int
      /\ MaxWeight * Cardinality(OverCap) \in Int
  <2> DEFINE caps == [n \in OverCap |-> MaxWeight]
  <2>1. \A n \in OverCap : caps[n] = MaxWeight /\ caps[n] \in Int /\ caps[n] <= weight[n]
    BY <1>1, <1>5
  <2> HIDE DEF caps
  <2>2. SumFunctionOnSet(caps, OverCap) = MaxWeight * Cardinality(OverCap)
    <3> HIDE DEF free, excess, part
    <3>1. MaxWeight \in Int /\ IsFiniteSet(OverCap) /\ \A n \in OverCap : caps[n] = MaxWeight
      BY <1>1, <1>4, <2>1
    <3> QED
      BY <3>1, SumOfSame
  <2>3. SumFunctionOnSet(caps, OverCap) <= SumFunctionOnSet(weight, OverCap)
    BY <1>4, <1>5, <2>1, SumGrows
  <2>4. SumFunctionOnSet(weight, OverCap) \in Int
    BY <1>4, <1>5, SumIsInt
  <2>5. MaxWeight * Cardinality(OverCap) \in Int
    BY <1>1, <1>4
  <2> QED
    BY <2>2, <2>3, <2>4, <2>5
<1>7. PICK e \in Nat : e = excess
  BY <1>6
<1>8. PICK p : p = part
  OBVIOUS
<1>9. /\ \A n \in free : p[n] \in Nat
      /\ SumFunctionOnSet(p, free) \in Int /\ SumFunctionOnSet(p, free) <= e
      /\ SumFunctionOnSet(p, free) >= e - Cardinality(free)
  <2>1. CASE SumFunctionOnSet(sharpe, free) > 0
    <3>1. PICK t : t = SumFunctionOnSet(sharpe, free)
      OBVIOUS
    <3>2. \A n \in free : sharpe[n] \in Nat
      BY <1>3
    <3>3. t \in Nat \ {0}
      <4>1. t \in Int
        BY <1>4, <3>1, <3>2, SumIsInt
      <4> QED
        BY <2>1, <3>1, <4>1
    <3>4. \A n \in free : p[n] = (e * sharpe[n]) \div t
      BY <1>7, <1>8, <2>1, <3>1
    <3>5. \A n \in free : p[n] \in Nat
      <4> SUFFICES ASSUME NEW n \in free PROVE p[n] \in Nat
        OBVIOUS
      <4> HIDE DEF free
      <4>1. e * sharpe[n] \in Nat
        BY <3>2
      <4> QED
        BY <3>3, <3>4, <4>1, QuotientBounds
    <3> HIDE DEF free
    <3> QED
      BY <1>4, <3>1, <3>2, <3>3, <3>4, <3>5, SharesSum
  <2>2. CASE ~ (SumFunctionOnSet(sharpe, free) > 0)
    <3>1. \A n \in free : p[n] = e \div Cardinality(free)
      BY <1>7, <1>8, <2>2
    <3>2. e \div Cardinality(free) \in Nat
      BY <1>4, QuotientBounds
    <3> HIDE DEF free
    <3> QED
      BY <1>2, <1>4, <3>1, <3>2, EqualPartsSum
  <2> QED
    BY <2>1, <2>2
<1>10. /\ \A n \in OverCap : weight'[n] = MaxWeight
       /\ \A n \in free : weight'[n] = weight[n] + p[n]
  <2>1. \A n \in free : n \in Members /\ n \notin OverCap
    OBVIOUS
  <2> QED
    BY <1>2, <1>4, <1>8, <2>1 DEF Topped
<1>11. weight' \in [Members -> Nat]
  <2>1. \A n \in Members : weight'[n] \in Nat
    BY <1>1, <1>3, <1>9, <1>10
  <2>2. \E f : weight' = [n \in Members |-> f[n]]
    <3>1. weight' = [n \in Members |-> weight'[n]]
      BY <1>2, Zenon
    <3> QED
      BY <3>1
  <2> QED
    BY <2>1, <2>2
<1> HIDE DEF free, excess, part
<1>12. /\ Capital = SumFunctionOnSet(weight, OverCap) + SumFunctionOnSet(weight, free)
       /\ Capital' = SumFunctionOnSet(weight', OverCap) + SumFunctionOnSet(weight', free)
  <2>1. free = Members \ OverCap /\ OverCap \in SUBSET Members
    BY <1>4 DEF free
  <2>2. \A n \in Members : weight[n] \in Int /\ weight'[n] \in Int
    BY <1>3, <1>11
  <2> QED
    BY <1>1, <2>1, <2>2, SumSplits DEF Capital
<1>13. SumFunctionOnSet(weight', OverCap) = MaxWeight * Cardinality(OverCap)
  BY <1>1, <1>4, <1>10, SumOfSame
<1>14. /\ SumFunctionOnSet(weight', free)
            = SumFunctionOnSet(weight, free) + SumFunctionOnSet(p, free)
       /\ SumFunctionOnSet(weight, free) \in Int
  <2>1. \A n \in free : weight[n] \in Int /\ p[n] \in Int /\ weight'[n] = weight[n] + p[n]
    BY <1>3, <1>4, <1>9, <1>10
  <2> QED
    BY <1>4, <2>1, SumAdds, SumIsInt
<1>15. Capital' = Capital - e + SumFunctionOnSet(p, free)
  <2>1. e = SumFunctionOnSet(weight, OverCap) - MaxWeight * Cardinality(OverCap)
    BY <1>7 DEF excess
  <2> QED
    BY <1>6, <1>9, <1>12, <1>13, <1>14, <2>1
<1>16. Capital' \in (Whole - Many * (round' + 1)) .. Whole
  <2>1. Many * (round' + 1) = Many * (round + 1) + Many /\ Many * (round + 1) \in Nat
    <3>1. round + 1 \in 0 .. Rounds
      BY <1>1, <1>2, <1>3
    <3> QED
      BY <1>1, <1>2, <3>1
  <2> QED
    BY <1>1, <1>3, <1>4, <1>9, <1>15, <2>1
<1>17. WeightsTypeOK'
  BY <1>1, <1>2, <1>3, <1>11 DEF WeightsTypeOK
<1> QED
  BY <1>2, <1>16, <1>17 DEF WeightsInv, RoundsKeepCapital, RoundsFillFloor, AllAlive

(* A round of topping up: what is missing below the minimum comes from      *)
(* those above it, who have more than that.                                 *)
LEMMA FloorRoundKeeps ==
    ASSUME StrategyWeightsAssumption, WeightsInv, FloorRound
    PROVE  WeightsInv'
<1>1. /\ Whole \in Nat /\ MinWeight \in Nat /\ Rounds \in Nat /\ Slack \in Nat
      /\ IsFiniteSet(Members) /\ Many \in Nat \ {0} /\ MinWeight * Many \in Nat
      /\ MinWeight * Many + Slack <= Whole
      /\ \A r \in 0 .. Rounds : Many * r \in Nat /\ Many * (r + 1) = Many * r + Many
  BY WeightBounds
<1> DEFINE deficit == MinWeight * Cardinality(UnderFloor) - SumFunctionOnSet(weight, UnderFloor)
           rest == Members \ UnderFloor
           cut == [n \in AboveFloor |->
                     (deficit * weight[n]) \div SumFunctionOnSet(weight, AboveFloor)]
<1>2. /\ phase = "floor" /\ round < Rounds /\ UnderFloor # {} /\ AboveFloor # {}
      /\ weight' = [n \in Members |-> IF n \in UnderFloor THEN MinWeight
                                      ELSE IF n \in AboveFloor THEN Reduced(n, deficit)
                                      ELSE weight[n]]
      /\ round' = round + 1 /\ sharpe' = sharpe /\ phase' = phase
  BY DEF FloorRound
<1>3. /\ sharpe \in [Members -> Nat] /\ weight \in [Members -> Nat] /\ round \in 0 .. Rounds
      /\ Capital \in (Whole - Slack) .. (Whole + Many * round)
      /\ round <= Cardinality(AtFloor)
  BY <1>2 DEF WeightsInv, WeightsTypeOK, RoundsKeepCapital, RoundsFillFloor
<1>4. /\ UnderFloor \in SUBSET Members /\ AboveFloor \in SUBSET rest
      /\ AtFloor = rest \ AboveFloor /\ rest \in SUBSET Members
  BY <1>1, <1>3 DEF UnderFloor, AboveFloor, AtFloor
<1>5. /\ IsFiniteSet(UnderFloor) /\ IsFiniteSet(AboveFloor) /\ IsFiniteSet(AtFloor)
      /\ IsFiniteSet(rest)
      /\ Cardinality(UnderFloor) \in Nat /\ Cardinality(AboveFloor) \in Nat
      /\ Cardinality(AtFloor) \in Nat
      /\ Cardinality(UnderFloor) + Cardinality(AboveFloor) + Cardinality(AtFloor) = Many
  <2>1. /\ IsFiniteSet(UnderFloor) /\ Cardinality(UnderFloor) \in Nat
        /\ IsFiniteSet(rest) /\ Cardinality(rest) \in Nat
        /\ Cardinality(UnderFloor) + Cardinality(rest) = Cardinality(Members)
    BY <1>1, <1>4, SplitCounts
  <2> HIDE DEF rest
  <2>2. /\ IsFiniteSet(AboveFloor) /\ Cardinality(AboveFloor) \in Nat
        /\ IsFiniteSet(AtFloor) /\ Cardinality(AtFloor) \in Nat
        /\ Cardinality(AboveFloor) + Cardinality(AtFloor) = Cardinality(rest)
    BY <1>4, <2>1, SplitCounts
  <2> QED
    BY <2>1, <2>2 DEF Many
<1> HIDE DEF deficit, rest, cut
<1>6. \A n \in Members : weight[n] \in Int /\ weight[n] >= 0
  BY <1>3
<1>7. /\ SumFunctionOnSet(weight, UnderFloor) \in Int
      /\ SumFunctionOnSet(weight, AboveFloor) \in Int
      /\ MinWeight * Cardinality(UnderFloor) \in Int /\ MinWeight * Cardinality(AboveFloor) \in Nat
      /\ MinWeight * Cardinality(AtFloor) \in Int
      /\ MinWeight * Many = MinWeight * Cardinality(UnderFloor)
                            + MinWeight * Cardinality(AboveFloor) + MinWeight * Cardinality(AtFloor)
  <2>1. \A n \in UnderFloor : weight[n] \in Int
    BY <1>4, <1>6
  <2>2. \A n \in AboveFloor : weight[n] \in Int
    BY <1>4, <1>6
  <2>3. /\ SumFunctionOnSet(weight, UnderFloor) \in Int
        /\ SumFunctionOnSet(weight, AboveFloor) \in Int
    BY <1>5, <2>1, <2>2, SumIsInt
  <2>4. \A m, a, b, c \in Nat : /\ m * (a + b + c) = m * a + m * b + m * c
                                /\ m * a \in Nat /\ m * b \in Nat /\ m * c \in Nat
    OBVIOUS
  <2> QED
    BY <1>1, <1>5, <2>3, <2>4
<1>8. Capital = SumFunctionOnSet(weight, UnderFloor) + SumFunctionOnSet(weight, AboveFloor)
                + MinWeight * Cardinality(AtFloor)
  <2>1. SumFunctionOnSet(weight, Members)
          = SumFunctionOnSet(weight, UnderFloor) + SumFunctionOnSet(weight, rest)
    BY <1>1, <1>4, <1>6, SumSplits DEF rest
  <2>2. \A n \in rest : weight[n] \in Int
    BY <1>4, <1>6
  <2>3. SumFunctionOnSet(weight, rest)
          = SumFunctionOnSet(weight, AboveFloor) + SumFunctionOnSet(weight, AtFloor)
    BY <1>4, <1>5, <2>2, SumSplits
  <2>4. \A n \in AtFloor : weight[n] = MinWeight
    BY DEF AtFloor
  <2>5. SumFunctionOnSet(weight, AtFloor) = MinWeight * Cardinality(AtFloor)
    <3>1. MinWeight \in Int
      BY <1>1
    <3> QED
      BY <1>5, <2>4, <3>1, SumOfSame
  <2> QED
    BY <1>7, <2>1, <2>3, <2>5 DEF Capital
<1>9. deficit \in Nat
  <2> DEFINE least == [n \in UnderFloor |-> MinWeight]
  <2>1. \A n \in UnderFloor : /\ weight[n] \in Int /\ weight[n] <= MinWeight
                              /\ least[n] = MinWeight /\ least[n] \in Int
    BY <1>1, <1>3 DEF UnderFloor
  <2> HIDE DEF least
  <2>2. SumFunctionOnSet(least, UnderFloor) = MinWeight * Cardinality(UnderFloor)
    <3>1. MinWeight \in Int
      BY <1>1
    <3> QED
      BY <1>5, <2>1, <3>1, SumOfSame
  <2>3. SumFunctionOnSet(weight, UnderFloor) <= SumFunctionOnSet(least, UnderFloor)
    <3>1. UnderFloor \in SUBSET UnderFloor
      OBVIOUS
    <3> QED
      BY <1>5, <2>1, <3>1, SumGrows
  <2> QED
    BY <1>7, <2>2, <2>3 DEF deficit
<1>10. PICK d \in Nat : d = deficit
  BY <1>9
<1>11. PICK t : t = SumFunctionOnSet(weight, AboveFloor)
  OBVIOUS
<1>12. t \in Nat \ {0} /\ d <= t
  <2>1. t \in Int
    BY <1>7, <1>11
  <2>2. d <= t
    <3>1. MinWeight * Many <= Capital
      BY <1>1, <1>3
    <3> QED
      BY <1>1, <1>7, <1>8, <1>10, <1>11, <3>1 DEF deficit
  <2>3. t # 0
    <3>1. PICK x : x \in AboveFloor
      BY <1>2
    <3>2. weight[x] \in Int /\ weight[x] > 0 /\ {x} \in SUBSET AboveFloor
      BY <1>1, <1>3, <3>1 DEF AboveFloor
    <3>3. SumFunctionOnSet(weight, {x}) = weight[x]
      BY <3>2, SumOfOne
    <3>4. SumFunctionOnSet(weight, {x}) <= SumFunctionOnSet(weight, AboveFloor)
      <4>1. \A n \in AboveFloor : weight[n] \in Int /\ weight[n] >= 0
        BY <1>4, <1>6
      <4>2. \A n \in {x} : weight[n] \in Int /\ weight[n] <= weight[n]
        BY <3>2
      <4>3. \A n \in AboveFloor \ {x} : weight[n] >= 0
        BY <4>1
      <4> QED
        BY <1>5, <3>2, <4>1, <4>2, <4>3, SumGrows
    <3> QED
      BY <1>11, <2>1, <3>2, <3>3, <3>4
  <2> QED
    BY <2>1, <2>2, <2>3
<1>13. PICK c : c = cut
  OBVIOUS
<1>14. \A n \in AboveFloor : /\ weight[n] \in Nat /\ c[n] = (d * weight[n]) \div t
                             /\ c[n] \in Nat /\ c[n] <= weight[n]
  <2> SUFFICES ASSUME NEW n \in AboveFloor
               PROVE  /\ weight[n] \in Nat /\ c[n] = (d * weight[n]) \div t
                      /\ c[n] \in Nat /\ c[n] <= weight[n]
    OBVIOUS
  <2>1. weight[n] \in Nat
    BY <1>3, <1>4
  <2>2. c[n] = (d * weight[n]) \div t
    BY <1>10, <1>11, <1>13 DEF cut
  <2>3. PICK k \in Nat : k = weight[n]
    BY <2>1
  <2>4. PICK e \in Nat : t = d + e
    <3>1. t - d \in Nat /\ t = d + (t - d)
      BY <1>12
    <3> QED
      BY <3>1
  <2>5. d * k \in Nat /\ e * k \in Nat /\ t * k = d * k + e * k
    BY <2>4
  <2>6. PICK q : q = (d * k) \div t
    OBVIOUS
  <2>7. q \in Nat /\ t * q <= d * k
    BY <1>12, <2>5, <2>6, QuotientBounds
  <2>8. t * q <= t * k
    <3>1. t * q \in Int
      BY <1>12, <2>7
    <3>2. d * k <= d * k + e * k
      BY <2>5
    <3> QED
      BY <2>5, <2>7, <3>1, <3>2
  <2>9. q <= k
    BY <1>12, <2>7, <2>8, FactorCancels
  <2> QED
    BY <2>1, <2>2, <2>3, <2>6, <2>7, <2>9
<1>15. /\ SumFunctionOnSet(c, AboveFloor) \in Int /\ SumFunctionOnSet(c, AboveFloor) <= d
       /\ SumFunctionOnSet(c, AboveFloor) >= d - Cardinality(AboveFloor)
  BY <1>5, <1>11, <1>12, <1>14, SharesSum
<1>16. /\ \A n \in UnderFloor : weight'[n] = MinWeight
       /\ \A n \in AboveFloor : weight'[n] = weight[n] - c[n]
       /\ \A n \in AtFloor : weight'[n] = MinWeight
  <2>1. \A n \in UnderFloor : n \in Members
    BY <1>4
  <2>2. \A n \in AboveFloor : n \in Members /\ n \notin UnderFloor
    BY <1>4 DEF rest
  <2>3. \A n \in AtFloor : /\ n \in Members /\ n \notin UnderFloor /\ n \notin AboveFloor
                           /\ weight[n] = MinWeight
    BY <1>4 DEF rest, AtFloor
  <2>4. \A n \in AboveFloor : Reduced(n, deficit) = weight[n] - c[n]
    BY <1>10, <1>11, <1>14 DEF Reduced
  <2> QED
    BY <1>2, <2>1, <2>2, <2>3, <2>4
<1>17. weight' \in [Members -> Nat]
  <2>1. \A n \in AboveFloor : weight'[n] \in Nat
    BY <1>14, <1>16
  <2>2. \A n \in Members : n \in UnderFloor \/ n \in AboveFloor \/ n \in AtFloor
    BY <1>4 DEF rest
  <2>3. \A n \in Members : weight'[n] \in Nat
    BY <1>1, <1>16, <2>1, <2>2
  <2>4. weight' = [n \in Members |-> weight'[n]]
    BY <1>2, Zenon
  <2> QED
    BY <2>3, <2>4
<1>18. Capital' = MinWeight * Cardinality(UnderFloor) + SumFunctionOnSet(weight', AboveFloor)
                  + MinWeight * Cardinality(AtFloor)
  <2>1. \A n \in Members : weight'[n] \in Int
    BY <1>17
  <2>2. SumFunctionOnSet(weight', Members)
          = SumFunctionOnSet(weight', UnderFloor) + SumFunctionOnSet(weight', rest)
    BY <1>1, <1>4, <2>1, SumSplits DEF rest
  <2>3. \A n \in rest : weight'[n] \in Int
    BY <1>4, <2>1
  <2>4. SumFunctionOnSet(weight', rest)
          = SumFunctionOnSet(weight', AboveFloor) + SumFunctionOnSet(weight', AtFloor)
    BY <1>4, <1>5, <2>3, SumSplits
  <2>5. MinWeight \in Int
    BY <1>1
  <2>6. SumFunctionOnSet(weight', AtFloor) = MinWeight * Cardinality(AtFloor)
    BY <1>5, <1>16, <2>5, SumOfSame
  <2>7. SumFunctionOnSet(weight', UnderFloor) = MinWeight * Cardinality(UnderFloor)
    BY <1>5, <1>16, <2>5, SumOfSame
  <2>8. SumFunctionOnSet(weight', AboveFloor) \in Int
    <3>1. \A n \in AboveFloor : weight'[n] \in Int
      BY <1>4, <2>3
    <3> QED
      BY <1>5, <3>1, SumIsInt
  <2> QED
    BY <1>7, <2>2, <2>4, <2>6, <2>7, <2>8 DEF Capital
<1>19. t = SumFunctionOnSet(weight', AboveFloor) + SumFunctionOnSet(c, AboveFloor)
       /\ SumFunctionOnSet(weight', AboveFloor) \in Int
  <2>1. \A n \in AboveFloor : /\ weight'[n] \in Int /\ c[n] \in Int
                              /\ weight[n] = weight'[n] + c[n]
    BY <1>14, <1>16
  <2>2. SumFunctionOnSet(weight', AboveFloor) \in Int
    BY <1>5, <2>1, SumIsInt
  <2>3. SumFunctionOnSet(weight, AboveFloor)
          = SumFunctionOnSet(weight', AboveFloor) + SumFunctionOnSet(c, AboveFloor)
    <3>1. PICK v : v = weight'
      OBVIOUS
    <3>2. PICK u : u = weight
      OBVIOUS
    <3>3. PICK S : S = AboveFloor
      OBVIOUS
    <3>4. IsFiniteSet(S) /\ \A n \in S : v[n] \in Int /\ c[n] \in Int /\ u[n] = v[n] + c[n]
      BY <1>5, <2>1, <3>1, <3>2, <3>3
    <3>5. SumFunctionOnSet(u, S) = SumFunctionOnSet(v, S) + SumFunctionOnSet(c, S)
      BY <3>4, SumAdds
    <3> QED
      BY <3>1, <3>2, <3>3, <3>5
  <2> QED
    BY <1>11, <2>2, <2>3
<1>20. Capital' = Capital + d - SumFunctionOnSet(c, AboveFloor)
  <2>1. d = MinWeight * Cardinality(UnderFloor) - SumFunctionOnSet(weight, UnderFloor)
    BY <1>10 DEF deficit
  <2> QED
    BY <1>7, <1>8, <1>11, <1>12, <1>15, <1>18, <1>19, <2>1
<1>21. Capital' \in (Whole - Slack) .. (Whole + Many * round')
  <2>1. Many * round' = Many * round + Many /\ Many * round \in Nat
    BY <1>1, <1>2, <1>3
  <2> QED
    BY <1>1, <1>3, <1>5, <1>15, <1>20, <2>1
<1>22. round' <= Cardinality(AtFloor')
  <2>1. AtFloor' \in SUBSET Members /\ AtFloor \in SUBSET AtFloor'
    <3>1. AtFloor' = {n \in Members : weight'[n] = MinWeight}
      BY DEF AtFloor
    <3> QED
      BY <1>4, <1>16, <3>1
  <2>2. UnderFloor \subseteq AtFloor' \ AtFloor
    <3>1. AtFloor' = {n \in Members : weight'[n] = MinWeight}
      BY DEF AtFloor
    <3> QED
      BY <1>4, <1>16, <3>1 DEF rest
  <2>3. IsFiniteSet(AtFloor')
    BY <1>1, <2>1, FS_Subset
  <2>4. /\ IsFiniteSet(AtFloor' \ AtFloor) /\ Cardinality(AtFloor' \ AtFloor) \in Nat
        /\ Cardinality(AtFloor) + Cardinality(AtFloor' \ AtFloor) = Cardinality(AtFloor')
    BY <2>1, <2>3, SplitCounts
  <2>5. Cardinality(AtFloor' \ AtFloor) # 0
    BY <1>2, <2>2, <2>4, FS_EmptySet
  <2>6. round \in Nat /\ round' = round + 1
    BY <1>1, <1>2, <1>3
  <2> QED
    BY <1>3, <1>5, <2>4, <2>5, <2>6
<1>23. WeightsTypeOK'
  BY <1>1, <1>2, <1>3, <1>17 DEF WeightsTypeOK
<1> QED
  BY <1>2, <1>21, <1>22, <1>23 DEF WeightsInv, RoundsKeepCapital, RoundsFillFloor, AllAlive

LEMMA CapEndsKeeps ==
    ASSUME StrategyWeightsAssumption, WeightsInv, CapEnds
    PROVE  WeightsInv'
<1>1. /\ Whole \in Nat /\ Rounds \in Nat /\ Slack \in Nat
      /\ IsFiniteSet(Members) /\ Many \in Nat \ {0}
      /\ \A r \in 0 .. Rounds : /\ Many * r \in Nat /\ Many * (r + 1) = Many * r + Many
                                /\ Many * (r + 1) <= Slack
  BY WeightBounds
<1>2. /\ phase = "cap" /\ phase' = "floor" /\ round' = 0
      /\ sharpe' = sharpe /\ weight' = weight
  BY DEF CapEnds, To
<1>3. /\ WeightsTypeOK /\ round \in 0 .. Rounds
      /\ Capital \in (Whole - Many * (round + 1)) .. Whole
  BY <1>2 DEF WeightsInv, WeightsTypeOK, RoundsKeepCapital
<1>4. Capital' = Capital
  BY <1>2 DEF Capital
<1>5. Many * 0 = 0
  BY <1>1
<1>6. Capital' \in (Whole - Slack) .. (Whole + Many * round')
  BY <1>1, <1>2, <1>3, <1>4, <1>5
<1>7. round' <= Cardinality(AtFloor')
  <2>1. IsFiniteSet(AtFloor')
    <3>1. AtFloor' \in SUBSET Members
      BY <1>2 DEF AtFloor
    <3> QED
      BY <1>1, <3>1, FS_Subset
  <2> QED
    BY <1>2, <2>1, FS_CardinalityType
<1>8. WeightsTypeOK'
  BY <1>1, <1>2, <1>3 DEF WeightsTypeOK
<1> QED
  BY <1>2, <1>6, <1>7, <1>8 DEF WeightsInv, RoundsKeepCapital, RoundsFillFloor, AllAlive

(* Topping up ends with every strategy at its minimum: nobody below it;     *)
(* nobody above it, and then less than the capital would be there; or after *)
(* more rounds than there are strategies.                                   *)
LEMMA FloorEndsKeeps ==
    ASSUME StrategyWeightsAssumption, WeightsInv, FloorEnds
    PROVE  WeightsInv'
<1>1. /\ Whole \in Nat /\ MinWeight \in Nat /\ Rounds \in Nat /\ Slack \in Nat
      /\ IsFiniteSet(Members) /\ Many \in Nat \ {0} /\ Many <= Rounds
      /\ MinWeight * Many \in Nat /\ MinWeight * Many + Slack <= Whole
      /\ \A r \in 0 .. Rounds : Many * r \in Nat /\ Many * r <= Slack
  BY WeightBounds
<1>2. /\ phase = "floor" /\ phase' = "done" /\ round' = 0
      /\ sharpe' = sharpe /\ weight' = weight
      /\ round = Rounds \/ UnderFloor = {} \/ AboveFloor = {}
  BY DEF FloorEnds, To
<1>3. /\ WeightsTypeOK /\ round \in 0 .. Rounds /\ weight \in [Members -> Nat]
      /\ Capital \in (Whole - Slack) .. (Whole + Many * round)
      /\ round <= Cardinality(AtFloor)
  BY <1>2 DEF WeightsInv, WeightsTypeOK, RoundsKeepCapital, RoundsFillFloor
<1>4. Capital' = Capital
  BY <1>2 DEF Capital
<1>5. Capital' \in (Whole - Slack) .. (Whole + Slack)
  BY <1>1, <1>3, <1>4
<1>6. UnderFloor = {}
  <2>1. CASE round = Rounds
    <3>1. /\ IsFiniteSet(AtFloor) /\ Cardinality(AtFloor) \in Nat
          /\ IsFiniteSet(Members \ AtFloor) /\ Cardinality(Members \ AtFloor) \in Nat
          /\ Cardinality(AtFloor) + Cardinality(Members \ AtFloor) = Cardinality(Members)
      <4>1. AtFloor \in SUBSET Members
        BY DEF AtFloor
      <4> QED
        BY <1>1, <4>1, SplitCounts
    <3>2. Cardinality(Members \ AtFloor) = 0
      BY <1>1, <1>3, <2>1, <3>1 DEF Many
    <3>3. Members \ AtFloor = {}
      BY <3>1, <3>2, FS_EmptySet
    <3> QED
      BY <1>1, <3>3 DEF AtFloor, UnderFloor
  <2>2. ASSUME AboveFloor = {}, NEW x \in UnderFloor PROVE FALSE
    <3> DEFINE floors == [n \in Members |-> MinWeight]
    <3>1. /\ \A n \in Members : weight[n] \in Int /\ weight[n] <= MinWeight
          /\ x \in Members /\ weight[x] < MinWeight
      BY <1>1, <1>3, <2>2 DEF AboveFloor, UnderFloor
    <3>2. \A n \in Members : floors[n] = MinWeight /\ floors[n] \in Int
      BY <1>1
    <3> HIDE DEF floors
    <3>3. Capital = weight[x] + SumFunctionOnSet(weight, Members \ {x})
      BY <1>1, <3>1, SumTakes DEF Capital
    <3>4. SumFunctionOnSet(floors, Members) = floors[x] + SumFunctionOnSet(floors, Members \ {x})
      BY <1>1, <3>1, <3>2, SumTakes
    <3>5. SumFunctionOnSet(floors, Members) = MinWeight * Many
      <4>1. MinWeight \in Int
        BY <1>1
      <4> QED
        BY <1>1, <3>2, <4>1, SumOfSame DEF Many
    <3>6. IsFiniteSet(Members \ {x})
      BY <1>1, <3>1, SmallerSet
    <3>7. \A n \in Members \ {x} : /\ weight[n] \in Int /\ floors[n] \in Int
                                   /\ weight[n] <= floors[n]
      BY <3>1, <3>2
    <3>8. /\ SumFunctionOnSet(weight, Members \ {x}) \in Int
          /\ SumFunctionOnSet(floors, Members \ {x}) \in Int
      BY <3>6, <3>7, SumIsInt
    <3>9. SumFunctionOnSet(weight, Members \ {x}) <= SumFunctionOnSet(floors, Members \ {x})
      <4> DEFINE others == Members \ {x}
      <4>1. \A n \in others \ others : floors[n] >= 0
        OBVIOUS
      <4>2. others \in SUBSET others
        OBVIOUS
      <4> HIDE DEF others
      <4>3. IsFiniteSet(others) /\ \A n \in others : /\ weight[n] \in Int /\ floors[n] \in Int
                                                    /\ weight[n] <= floors[n]
        BY <3>6, <3>7 DEF others
      <4>4. SumFunctionOnSet(weight, others) <= SumFunctionOnSet(floors, others)
        BY <4>1, <4>2, <4>3, SumGrows
      <4> QED
        BY <4>4 DEF others
    <3>10. Capital < MinWeight * Many
      BY <1>1, <3>1, <3>2, <3>3, <3>4, <3>5, <3>8, <3>9
    <3> QED
      BY <1>1, <1>3, <3>10
  <2> QED
    BY <1>2, <2>1, <2>2
<1>7. AllAlive'
  BY <1>1, <1>2, <1>3, <1>6 DEF AllAlive, UnderFloor
<1>8. WeightsTypeOK'
  BY <1>1, <1>2, <1>3 DEF WeightsTypeOK
<1> QED
  BY <1>2, <1>5, <1>7, <1>8 DEF WeightsInv, RoundsKeepCapital, RoundsFillFloor

(* A smaller set of the strategies counts less.                             *)
LEMMA RanksAreOrdered ==
    ASSUME StrategyWeightsAssumption, sharpe \in [Members -> Nat]
    PROVE  /\ IsFiniteSet(Positive) /\ Ranks \in Nat
           /\ \A n \in Members : SharpeRank(n) \in Nat
           /\ \A n \in Positive : Ranks > 0 /\ SharpeRank(n) <= Ranks - 1
           /\ \A m, n \in Members : sharpe[m] <= sharpe[n] => SharpeRank(m) <= SharpeRank(n)
           /\ \A n \in Members :
                sharpe[n] > 0 /\ (\A m \in Members \ {n} : sharpe[m] < sharpe[n])
                  => SharpeRank(n) = Ranks - 1
<1> DEFINE Below(n) == {m \in Positive : sharpe[m] < sharpe[n]}
<1>1. IsFiniteSet(Positive) /\ \A n \in Members : IsFiniteSet(Below(n))
  <2>1. IsFiniteSet(Members)
    BY WeightBounds
  <2>2. Positive \in SUBSET Members
    BY DEF Positive
  <2>3. IsFiniteSet(Positive)
    BY <2>1, <2>2, FS_Subset
  <2> QED
    BY <2>3, FS_Subset
<1>2. Ranks \in Nat /\ \A n \in Members : SharpeRank(n) \in Nat /\ SharpeRank(n) = Cardinality(Below(n))
  BY <1>1, FS_CardinalityType DEF Ranks, SharpeRank
<1>3. ASSUME NEW n \in Positive
      PROVE  /\ n \in Members /\ Cardinality(Positive \ {n}) = Ranks - 1 /\ IsFiniteSet(Positive \ {n})
             /\ Ranks > 0
  <2>1. n \in Members
    BY DEF Positive
  <2>2. Cardinality(Positive \ {n}) = Cardinality(Positive) - 1 /\ IsFiniteSet(Positive \ {n})
    BY <1>1, FS_RemoveElement
  <2>3. Cardinality(Positive \ {n}) \in Nat
    BY <2>2, FS_CardinalityType
  <2> QED
    BY <1>2, <2>1, <2>2, <2>3 DEF Ranks
<1>4. ASSUME NEW n \in Positive PROVE SharpeRank(n) <= Ranks - 1
  <2>1. Below(n) \subseteq Positive \ {n}
    <3>1. sharpe[n] \in Nat
      BY <1>3
    <3> QED
      BY <3>1
  <2>2. Cardinality(Below(n)) <= Cardinality(Positive \ {n})
    BY <1>3, <2>1, FS_Subset
  <2> QED
    BY <1>2, <1>3, <2>2
<1>5. ASSUME NEW m \in Members, NEW n \in Members, sharpe[m] <= sharpe[n]
      PROVE  SharpeRank(m) <= SharpeRank(n)
  <2>1. \A k \in Positive : sharpe[k] < sharpe[m] => sharpe[k] < sharpe[n]
    <3>1. Positive \subseteq Members
      BY DEF Positive
    <3> QED
      BY <1>5, <3>1
  <2>2. Below(m) \subseteq Below(n)
    BY <2>1
  <2>3. Cardinality(Below(m)) <= Cardinality(Below(n))
    BY <1>1, <2>2, FS_Subset
  <2> QED
    BY <1>2, <2>3
<1>6. ASSUME NEW n \in Members, sharpe[n] > 0, \A m \in Members \ {n} : sharpe[m] < sharpe[n]
      PROVE  SharpeRank(n) = Ranks - 1
  <2>1. n \in Positive
    BY <1>6 DEF Positive
  <2>2. Below(n) = Positive \ {n}
    BY <1>6 DEF Positive
  <2> QED
    BY <1>2, <1>3, <2>1, <2>2
<1> QED
  BY <1>1, <1>2, <1>3, <1>4, <1>5, <1>6


(* The score of a strategy with several positive ones about it.             *)
LEMMA ScoresAreOrdered ==
    ASSUME NEW w \in Nat, NEW r \in Nat \ {0}, NEW a \in Nat, NEW b \in Nat, a <= b, b <= r
    PROVE  /\ (a * w) \div r \in Nat /\ (b * w) \div r \in Nat
           /\ (a * w) \div r <= (b * w) \div r /\ (b * w) \div r <= w
           /\ (r * w) \div r = w
<1>1. a * w \in Nat /\ b * w \in Nat /\ r * w \in Nat
  OBVIOUS
<1>2. a * w <= b * w /\ b * w <= r * w
  <2>1. PICK d \in Nat : b = a + d
    <3>1. b - a \in Nat /\ b = a + (b - a)
      OBVIOUS
    <3> QED
      BY <3>1
  <2>2. PICK e \in Nat : r = b + e
    <3>1. r - b \in Nat /\ r = b + (r - b)
      OBVIOUS
    <3> QED
      BY <3>1
  <2>3. b * w = a * w + d * w /\ r * w = b * w + e * w /\ d * w \in Nat /\ e * w \in Nat
    BY <2>1, <2>2
  <2> QED
    BY <1>1, <2>3
<1>3. ASSUME NEW m \in Nat, NEW n \in Nat, m <= n PROVE m \div r <= n \div r
  <2>1. PICK p \in Nat : p = m \div r /\ r * p <= m /\ m < r * p + r
    BY QuotientBounds
  <2>2. PICK q \in Nat : q = n \div r /\ r * q <= n /\ n < r * q + r
    BY QuotientBounds
  <2>3. r * p <= r * q + r /\ r * p < r * q + r
    BY <1>3, <2>1, <2>2
  <2>4. r * (q + 1) = r * q + r
    BY <2>2
  <2>5. ASSUME q < p PROVE FALSE
    <3>1. PICK d \in Nat : p = (q + 1) + d
      <4>1. p - (q + 1) \in Nat /\ p = (q + 1) + (p - (q + 1))
        BY <2>5
      <4> QED
        BY <4>1
    <3>2. r * p = r * (q + 1) + r * d /\ r * d \in Nat
      BY <3>1
    <3> QED
      BY <2>3, <2>4, <3>2
  <2> QED
    BY <2>1, <2>2, <2>5
<1>4. (r * w) \div r = w
  <2>1. PICK q \in Nat : q = (r * w) \div r /\ r * q <= r * w /\ r * w < r * q + r
    BY <1>1, QuotientBounds
  <2>2. q <= w
    BY <2>1, FactorCancels
  <2>3. r * w <= r * (q + 1) /\ r * (q + 1) = r * q + r
    BY <2>1
  <2>4. w <= q + 1
    BY <2>1, <2>3, FactorCancels
  <2>5. w # q + 1
    BY <2>1, <2>3
  <2> QED
    BY <2>1, <2>2, <2>4, <2>5
<1> QED
  BY <1>1, <1>2, <1>3, <1>4, QuotientBounds

LEMMA BestStaysTrusted ==
    ASSUME StrategyWeightsAssumption, sharpe \in [Members -> Nat]
    PROVE  BestIsTrusted
<1>1. Whole \in Nat /\ Floor \in Nat /\ Floor <= Whole
  BY WeightBounds
<1>2. PICK w \in Nat : w = Whole - Floor
  BY <1>1
<1>3. /\ Ranks \in Nat /\ \A n \in Members : SharpeRank(n) \in Nat
      /\ \A n \in Positive : Ranks > 0 /\ SharpeRank(n) <= Ranks - 1
      /\ \A m, n \in Members : sharpe[m] <= sharpe[n] => SharpeRank(m) <= SharpeRank(n)
      /\ \A n \in Members :
           sharpe[n] > 0 /\ (\A m \in Members \ {n} : sharpe[m] < sharpe[n])
             => SharpeRank(n) = Ranks - 1
  BY RanksAreOrdered
<1>4. \A n \in Members : sharpe[n] # 0 => n \in Positive
  BY DEF Positive
<1>5. ASSUME NEW n \in Members PROVE Score(n) \in Floor .. Whole
  <2>1. CASE sharpe[n] = 0 \/ (Ranks > 1 /\ AllEqual)
    BY <1>1, <2>1 DEF Score
  <2>2. CASE ~ (sharpe[n] = 0 \/ (Ranks > 1 /\ AllEqual)) /\ Ranks = 1
    BY <1>1, <2>2 DEF Score
  <2>3. CASE ~ (sharpe[n] = 0 \/ (Ranks > 1 /\ AllEqual)) /\ Ranks # 1
    <3>1. /\ SharpeRank(n) \in Nat /\ SharpeRank(n) <= Ranks - 1
          /\ Ranks - 1 \in Nat \ {0}
      BY <1>3, <1>4, <2>3
    <3>2. PICK q : q = (SharpeRank(n) * w) \div (Ranks - 1)
      OBVIOUS
    <3>3. q \in Nat /\ q <= w
      <4>1. PICK r \in Nat \ {0} : r = Ranks - 1
        BY <3>1
      <4>2. PICK k \in Nat : k = SharpeRank(n) /\ k <= r
        BY <3>1, <4>1
      <4>3. (k * w) \div r \in Nat /\ (k * w) \div r <= w
        <5>1. k <= k
          OBVIOUS
        <5> QED
          BY <4>2, <5>1, ScoresAreOrdered
      <4>4. q = (k * w) \div r
        BY <3>2, <4>1, <4>2
      <4> QED
        BY <4>3, <4>4
    <3>4. Score(n) = Floor + q
      BY <1>2, <2>3, <3>2 DEF Score
    <3> QED
      BY <1>1, <1>2, <3>3, <3>4
  <2> QED
    BY <2>1, <2>2, <2>3
<1>6. ASSUME NEW m \in Members, NEW n \in Members, sharpe[m] <= sharpe[n]
      PROVE  Score(m) <= Score(n)
  <2>1. Score(m) \in Floor .. Whole /\ Score(n) \in Floor .. Whole
    BY <1>5
  <2>2. CASE sharpe[m] = 0 \/ (Ranks > 1 /\ AllEqual)
    BY <1>1, <2>1, <2>2 DEF Score
  <2>3. CASE ~ (sharpe[m] = 0 \/ (Ranks > 1 /\ AllEqual))
    <3>1. sharpe[m] \in Nat /\ sharpe[n] \in Nat
      OBVIOUS
    <3>2. ~ (sharpe[n] = 0 \/ (Ranks > 1 /\ AllEqual))
      BY <1>6, <2>3, <3>1
    <3>3. CASE Ranks = 1
      BY <1>1, <2>3, <3>2, <3>3 DEF Score
    <3>4. CASE Ranks # 1
      <4>1. /\ SharpeRank(n) \in Nat /\ SharpeRank(n) <= Ranks - 1 /\ SharpeRank(m) \in Nat
            /\ SharpeRank(m) <= SharpeRank(n) /\ Ranks - 1 \in Nat \ {0}
        BY <1>3, <1>4, <1>6, <3>2, <3>4
      <4>2. PICK q : q = (SharpeRank(n) * w) \div (Ranks - 1)
        OBVIOUS
      <4>3. PICK p : p = (SharpeRank(m) * w) \div (Ranks - 1)
        OBVIOUS
      <4>4. q \in Nat /\ p \in Nat /\ p <= q
        BY <4>1, <4>2, <4>3, ScoresAreOrdered
      <4>5. Score(n) = Floor + q /\ Score(m) = Floor + p
        BY <1>2, <2>3, <3>2, <3>4, <4>2, <4>3 DEF Score
      <4> QED
        BY <1>1, <4>4, <4>5
    <3> QED
      BY <3>3, <3>4
  <2> QED
    BY <2>2, <2>3
<1>7. ASSUME NEW n \in Members, sharpe[n] > 0, \A m \in Members \ {n} : sharpe[m] < sharpe[n]
      PROVE  Score(n) = Whole
  <2>1. n \in Positive /\ sharpe[n] # 0
    BY <1>7 DEF Positive
  <2>2. SharpeRank(n) = Ranks - 1 /\ Ranks > 0
    BY <1>3, <1>7, <2>1
  <2>3. CASE Ranks = 1
    BY <2>1, <2>3 DEF Score
  <2>4. CASE Ranks # 1
    <3>1. Ranks - 1 \in Nat \ {0} /\ Ranks > 1
      BY <1>3, <2>2, <2>4
    <3>2. ~ AllEqual
      <4>1. SUFFICES ASSUME AllEqual PROVE FALSE
        OBVIOUS
      <4>2. Positive \subseteq {n}
        <5> SUFFICES ASSUME NEW m \in Positive, m # n PROVE FALSE
          OBVIOUS
        <5>1. m \in Members /\ sharpe[m] < sharpe[n] /\ sharpe[m] = sharpe[n]
          BY <1>7, <2>1, <4>1 DEF Positive, AllEqual
        <5>2. sharpe[n] \in Nat
          OBVIOUS
        <5> QED
          BY <5>1, <5>2
      <4>3. Positive = {n}
        BY <2>1, <4>2
      <4>4. Ranks = 1
        BY <4>3, FS_Singleton DEF Ranks
      <4> QED
        BY <2>4, <4>4
    <3>3. ((Ranks - 1) * w) \div (Ranks - 1) = w
      <4>1. PICK r \in Nat \ {0} : r = Ranks - 1
        BY <3>1
      <4>2. (r * w) \div r = w
        BY ScoresAreOrdered
      <4> QED
        BY <4>1, <4>2
    <3>4. Score(n) = Floor + ((Ranks - 1) * w) \div (Ranks - 1)
      BY <1>2, <2>1, <2>2, <2>4, <3>2 DEF Score
    <3> QED
      BY <1>1, <1>2, <3>3, <3>4
  <2> QED
    BY <2>3, <2>4
<1> QED
  BY <1>5, <1>6, <1>7 DEF BestIsTrusted

(* compute_strategy_weights keeps the capital through all its rounds, ends  *)
(* with every strategy at its minimum weight or above, and                  *)
(* compute_confidence_scores orders the strategies as their Sharpe ratios   *)
(* do: for every set of strategies, all ratios and every number of rounds   *)
(* that is at least the number of strategies.                               *)
THEOREM WeightsStaySound ==
    ASSUME StrategyWeightsAssumption
    PROVE  WeightsSpec => []WeightsAreSound
<1>1. WeightsInit => WeightsInv
  BY WeightsStart
<1>2. WeightsInv /\ [WeightsNext]_weightVars => WeightsInv'
  <2> SUFFICES ASSUME WeightsInv, [WeightsNext]_weightVars PROVE WeightsInv'
    OBVIOUS
  <2>1. CASE CapRound
    BY <2>1, CapRoundKeeps
  <2>2. CASE CapEnds
    BY <2>2, CapEndsKeeps
  <2>3. CASE FloorRound
    BY <2>3, FloorRoundKeeps
  <2>4. CASE FloorEnds
    BY <2>4, FloorEndsKeeps
  <2>5. CASE UNCHANGED weightVars
    BY <2>5 DEF weightVars, WeightsInv, WeightsTypeOK, RoundsKeepCapital, RoundsFillFloor,
                AllAlive, Capital, AtFloor
  <2> QED
    BY <2>1, <2>2, <2>3, <2>4, <2>5 DEF WeightsNext
<1>3. WeightsInv => WeightsAreSound
  <2> SUFFICES ASSUME WeightsInv PROVE WeightsAreSound
    OBVIOUS
  <2>1. /\ Whole \in Nat /\ Slack \in Nat /\ Many \in Nat
        /\ \A r \in 0 .. Rounds : Many * r \in Nat /\ Many * r <= Slack /\ Many * (r + 1) <= Slack
                                  /\ Many * (r + 1) = Many * r + Many
    BY WeightBounds
  <2>2. CapitalKept
    <3>1. /\ round \in 0 .. Rounds /\ phase \in {"cap", "floor", "done"} /\ RoundsKeepCapital
      BY DEF WeightsInv, WeightsTypeOK
    <3>2. Capital \in (Whole - Slack) .. (Whole + Slack)
      BY <2>1, <3>1 DEF RoundsKeepCapital
    <3> QED
      BY <3>2 DEF CapitalKept, Capital
  <2>3. BestIsTrusted
    BY BestStaysTrusted DEF WeightsInv, WeightsTypeOK
  <2> QED
    BY <2>2, <2>3 DEF WeightsAreSound, WeightsInv
<1> QED
  BY <1>1, <1>2, <1>3, PTL DEF WeightsSpec

(***************************************************************************)
(* What the strategies read in the bars up to one of them.                 *)
(***************************************************************************)

\* The bars s and t agree up to bar i.
SameBars(s, t, i) == \A k \in 1 .. i : s[k] = t[k]

\* The daily bars d and e agree but for the last one.
SameDays(d, e) == /\ Len(d) \in Nat /\ Len(e) = Len(d)
                  /\ \A k \in 1 .. Len(d) - 1 : d[k] = e[k]

(* Two series that agree from a to b read alike there.                      *)
LEMMA RangesAgree ==
    ASSUME NEW s, NEW t, NEW a, NEW b, \A k \in a .. b : s[k] = t[k]
    PROVE  /\ High(s, a, b) = High(t, a, b) /\ Low(s, a, b) = Low(t, a, b)
           /\ Closes(s, a, b) = Closes(t, a, b) /\ Volumes(s, a, b) = Volumes(t, a, b)
           /\ Vp(s, a, b) = Vp(t, a, b) /\ Vwap3(s, a, b) = Vwap3(t, a, b)
<1>1. {s[k].high : k \in a .. b} = {t[k].high : k \in a .. b}
  OBVIOUS
<1>2. {s[k].low : k \in a .. b} = {t[k].low : k \in a .. b}
  OBVIOUS
<1>3. [k \in a .. b |-> s[k].close] = [k \in a .. b |-> t[k].close]
  OBVIOUS
<1>4. [k \in a .. b |-> s[k].volume] = [k \in a .. b |-> t[k].volume]
  OBVIOUS
<1>5. [k \in a .. b |-> (s[k].high + s[k].low + s[k].close) * s[k].volume]
        = [k \in a .. b |-> (t[k].high + t[k].low + t[k].close) * t[k].volume]
  OBVIOUS
<1>6. High(s, a, b) = High(t, a, b)
  BY <1>1 DEF High
<1>7. Low(s, a, b) = Low(t, a, b)
  BY <1>2 DEF Low
<1>8. Closes(s, a, b) = Closes(t, a, b)
  BY <1>3 DEF Closes
<1>9. Volumes(s, a, b) = Volumes(t, a, b)
  BY <1>4 DEF Volumes
<1>10. Vp(s, a, b) = Vp(t, a, b)
  BY <1>5 DEF Vp
<1> QED
  BY <1>6, <1>7, <1>8, <1>9, <1>10 DEF Vwap3

(* A part of the bars up to bar i.                                          *)
LEMMA BarsAgree ==
    ASSUME NEW s, NEW t, NEW i \in Int, SameBars(s, t, i),
           NEW a \in Int, NEW b \in Int, 1 <= a, b <= i
    PROVE  /\ High(s, a, b) = High(t, a, b) /\ Low(s, a, b) = Low(t, a, b)
           /\ Closes(s, a, b) = Closes(t, a, b) /\ Volumes(s, a, b) = Volumes(t, a, b)
           /\ Vp(s, a, b) = Vp(t, a, b) /\ Vwap3(s, a, b) = Vwap3(t, a, b)
<1>1. \A k \in a .. b : s[k] = t[k]
  BY DEF SameBars
<1> QED
  BY <1>1, RangesAgree

LEMMA BusyAgrees ==
    ASSUME NEW s, NEW t, NEW i \in Nat \ {0}, SameBars(s, t, i),
           NEW a \in Int, NEW b \in Int, 1 <= a, b <= i, NEW times
    PROVE  Busy(s, i, a, b, times) = Busy(t, i, a, b, times)
<1>1. Volumes(s, a, b) = Volumes(t, a, b)
  BY BarsAgree
<1>2. s[i] = t[i]
  BY DEF SameBars
<1> QED
  BY <1>1, <1>2 DEF Busy

LEMMA SurgeAgrees ==
    ASSUME EntrySignalsAssumption, NEW s, NEW t, NEW i \in Nat \ {0}, SameBars(s, t, i), NEW times
    PROVE  Surge(s, i, times) = Surge(t, i, times)
<1>1. VolumeLookback \in Nat
  BY DEF EntrySignalsAssumption
<1>2. CASE i > VolumeLookback
  <2>1. i - VolumeLookback \in Int /\ 1 <= i - VolumeLookback /\ i - 1 \in Int /\ i - 1 <= i
    BY <1>1, <1>2
  <2>2. Busy(s, i, i - VolumeLookback, i - 1, times) = Busy(t, i, i - VolumeLookback, i - 1, times)
    BY <2>1, BusyAgrees
  <2> QED
    BY <1>2, <2>2 DEF Surge
<1>3. CASE ~ (i > VolumeLookback)
  BY <1>3 DEF Surge
<1> QED
  BY <1>2, <1>3

(* The first bar of the day of bar i.                                       *)
LEMMA FirstBar ==
    ASSUME NEW s, NEW i \in Nat \ {0}
    PROVE  First(s, i) \in 1 .. i
<1> DEFINE starts == {k \in 1 .. i : \A j \in k .. i : s[j].day = s[i].day}
<1>1. i \in starts
  OBVIOUS
<1>2. Min(starts) \in starts
  <2>1. starts \in SUBSET Nat /\ starts # {}
    BY <1>1
  <2> HIDE DEF starts
  <2> QED
    BY <2>1, MinIsLeast
<1> QED
  BY <1>2 DEF First

LEMMA FirstAgrees ==
    ASSUME NEW s, NEW t, NEW i \in Nat \ {0}, SameBars(s, t, i)
    PROVE  First(s, i) = First(t, i)
<1>1. {k \in 1 .. i : \A j \in k .. i : s[j].day = s[i].day}
        = {k \in 1 .. i : \A j \in k .. i : t[j].day = t[i].day}
  <2> SUFFICES ASSUME NEW k \in 1 .. i
               PROVE  (\A j \in k .. i : s[j].day = s[i].day)
                        <=> (\A j \in k .. i : t[j].day = t[i].day)
    OBVIOUS
  <2>1. \A j \in k .. i : s[j] = t[j]
    BY DEF SameBars
  <2>2. s[i] = t[i]
    BY DEF SameBars
  <2> QED
    BY <2>1, <2>2
<1> QED
  BY <1>1 DEF First

LEMMA SignalBounds ==
    ASSUME EntrySignalsAssumption
    PROVE  /\ SmaPeriod \in Nat \ {0} /\ Lookback \in Nat \ {0} /\ VolumeLookback \in Nat \ {0}
           /\ HighDays \in Nat \ {0} /\ OpeningBars \in Nat \ {0} /\ EmaPeriod \in Nat \ {0}
           /\ AtrPeriod \in Nat \ {0} /\ BandPeriod \in Nat \ {0} /\ SqueezeBars \in Nat \ {0}
           /\ Buffer \in Nat \ {0} /\ LimitPct \in Nat
  BY DEF EntrySignalsAssumption

(* The bands at a bar k up to bar i.                                        *)
LEMMA BandsAgree ==
    ASSUME EntrySignalsAssumption, NEW s, NEW t, NEW i \in Int, SameBars(s, t, i),
           NEW k \in Int, BandPeriod <= k, k <= i
    PROVE  /\ BandSum(s, k) = BandSum(t, k) /\ BandVar(s, k) = BandVar(t, k)
           /\ Squeezed(s, k) = Squeezed(t, k)
           /\ \A gap : Outside(gap, s, k) = Outside(gap, t, k)
<1>1. BandPeriod \in Nat \ {0}
  BY SignalBounds
<1>2. BandSum(s, k) = BandSum(t, k)
  <2>1. k - BandPeriod + 1 \in Int /\ 1 <= k - BandPeriod + 1
    BY <1>1
  <2> QED
    BY <2>1, BarsAgree DEF BandSum
<1>3. BandVar(s, k) = BandVar(t, k)
  <2>1. \A j \in (k - BandPeriod + 1) .. k : s[j] = t[j]
    BY <1>1 DEF SameBars
  <2>2. [j \in (k - BandPeriod + 1) .. k |-> s[j].close * s[j].close]
          = [j \in (k - BandPeriod + 1) .. k |-> t[j].close * t[j].close]
    BY <2>1
  <2> QED
    BY <1>2, <2>2 DEF BandVar
<1> QED
  BY <1>2, <1>3 DEF Squeezed, Outside

LEMMA EmasAgree ==
    ASSUME NEW s, NEW t, NEW i \in Int, SameBars(s, t, i), NEW k \in Int, k <= i
    PROVE  Ema(s, k) = Ema(t, k) /\ SeededEma(s, k) = SeededEma(t, k)
<1>1. \A j \in 1 .. k : s[j] = t[j]
  BY DEF SameBars
<1>2. [j \in 1 .. k |-> s[j].close] = [j \in 1 .. k |-> t[j].close]
  BY <1>1
<1> QED
  BY <1>2 DEF Ema, SeededEma

(***************************************************************************)
(* What each strategy says at bar i, in two series that agree up to it.    *)
(***************************************************************************)
Alike(s, t, d, e, i) ==
    /\ EntrySignalsAssumption /\ i \in Nat \ {0} /\ SameBars(s, t, i) /\ SameDays(d, e)
    /\ DaysBefore(d, s[i].day) = DaysBefore(e, s[i].day)

LEMMA BarAgrees ==
    ASSUME NEW s, NEW t, NEW d, NEW e, NEW i, Alike(s, t, d, e, i)
    PROVE  /\ i \in Nat \ {0} /\ SameBars(s, t, i) /\ s[i] = t[i]
           /\ \A k \in 1 .. i : s[k] = t[k]
           /\ Surge(s, i, RelativeVolume) = Surge(t, i, RelativeVolume)
<1>1. i \in Nat \ {0} /\ SameBars(s, t, i) /\ EntrySignalsAssumption
  BY DEF Alike
<1>2. Surge(s, i, RelativeVolume) = Surge(t, i, RelativeVolume)
  BY <1>1, SurgeAgrees
<1>3. \A k \in 1 .. i : s[k] = t[k]
  BY <1>1 DEF SameBars
<1>4. s[i] = t[i]
  BY <1>1, <1>3
<1>5. i \in Nat \ {0} /\ SameBars(s, t, i)
  BY <1>1
<1> QED
  BY <1>2, <1>3, <1>4, <1>5

LEMMA BreakoutAgrees ==
    ASSUME NEW s, NEW t, NEW d, NEW e, NEW i, Alike(s, t, d, e, i)
    PROVE  Breakout(s, d, i) = Breakout(t, e, i)
<1>1. /\ i \in Nat \ {0} /\ SameBars(s, t, i) /\ s[i] = t[i]
      /\ Surge(s, i, RelativeVolume) = Surge(t, i, RelativeVolume)
  BY BarAgrees
<1>2. Lookback \in Nat \ {0} /\ VolumeLookback \in Nat \ {0}
  BY SignalBounds DEF Alike
<1>3. CASE i > Max({Lookback, VolumeLookback})
  <2>1. 1 <= i - Lookback /\ i - Lookback \in Int /\ i - 1 \in Int /\ i - 1 <= i
    <3>1. /\ Max({Lookback, VolumeLookback}) \in {Lookback, VolumeLookback}
          /\ Max({Lookback, VolumeLookback}) >= Lookback
      BY <1>2, MaxOfTwo
    <3> QED
      BY <1>1, <1>2, <1>3, <3>1
  <2>2. High(s, i - Lookback, i - 1) = High(t, i - Lookback, i - 1)
    BY <1>1, <2>1, BarsAgree
  <2> QED
    BY <1>1, <2>2 DEF Breakout
<1>4. CASE ~ (i > Max({Lookback, VolumeLookback}))
  BY <1>4 DEF Breakout, Setup
<1> QED
  BY <1>3, <1>4

\* The last HighDays days, but for the last one.
LEMMA DaysAgree ==
    ASSUME NEW d, NEW e, SameDays(d, e), NEW a \in Int, NEW b \in Int, 1 <= a, b <= Len(d) - 1
    PROVE  High(d, a, b) = High(e, a, b) /\ Low(d, a, b) = Low(e, a, b)
           /\ Closes(d, a, b) = Closes(e, a, b)
<1>1. \A k \in a .. b : d[k] = e[k]
  BY DEF SameDays
<1> QED
  BY <1>1, RangesAgree

LEMMA OrbAgrees ==
    ASSUME NEW s, NEW t, NEW d, NEW e, NEW i, Alike(s, t, d, e, i)
    PROVE  Orb(s, d, i) = Orb(t, e, i)
<1>1. i \in Nat \ {0} /\ SameBars(s, t, i) /\ s[i] = t[i]
  BY BarAgrees
<1>2. OpeningBars \in Nat \ {0}
  BY SignalBounds DEF Alike
<1>3. First(s, i) = First(t, i)
  BY <1>1, FirstAgrees
<1>4. PICK from \in 1 .. i : from = First(s, i)
  BY <1>1, FirstBar
<1>5. PICK to \in Int : to = from + OpeningBars - 1
  BY <1>2
<1>6. CASE i > to
  <2>1. /\ High(s, from, to) = High(t, from, to) /\ Low(s, from, to) = Low(t, from, to)
    BY <1>1, <1>6, BarsAgree
  <2>2. Busy(s, i, from, to, RelativeVolume) = Busy(t, i, from, to, RelativeVolume)
    BY <1>1, <1>6, BusyAgrees
  <2> QED
    BY <1>1, <1>3, <1>4, <1>5, <2>1, <2>2 DEF Orb
<1>7. CASE ~ (i > to)
  BY <1>3, <1>4, <1>5, <1>7 DEF Orb, Setup
<1> QED
  BY <1>6, <1>7

LEMMA HighWatermarkAgrees ==
    ASSUME NEW s, NEW t, NEW d, NEW e, NEW i, Alike(s, t, d, e, i)
    PROVE  HighWatermark(s, d, i) = HighWatermark(t, e, i)
<1>1. s[i] = t[i] /\ Surge(s, i, RelativeVolume) = Surge(t, i, RelativeVolume)
  BY BarAgrees
<1>2. SameDays(d, e) /\ Len(d) \in Nat /\ Len(e) = Len(d) /\ HighDays \in Nat \ {0}
  BY SignalBounds DEF Alike, SameDays
<1>3. PICK n \in Int : n = Len(d) - 1
  BY <1>2
<1>4. CASE n >= HighDays
  <2>1. High(d, n - HighDays + 1, n) = High(e, n - HighDays + 1, n)
    <3>1. n - HighDays + 1 \in Int /\ 1 <= n - HighDays + 1 /\ n <= Len(d) - 1
      BY <1>2, <1>3, <1>4
    <3> QED
      BY <1>2, <3>1, DaysAgree
  <2> QED
    BY <1>1, <1>2, <1>3, <2>1 DEF HighWatermark
<1>5. CASE ~ (n >= HighDays)
  BY <1>2, <1>3, <1>5 DEF HighWatermark, Setup
<1> QED
  BY <1>4, <1>5

LEMMA EmaPullbackAgrees ==
    ASSUME NEW s, NEW t, NEW d, NEW e, NEW i, Alike(s, t, d, e, i)
    PROVE  EmaPullback(s, d, i) = EmaPullback(t, e, i)
<1>1. /\ i \in Nat \ {0} /\ SameBars(s, t, i) /\ s[i] = t[i]
      /\ \A k \in 1 .. i : s[k] = t[k]
      /\ Surge(s, i, RelativeVolume) = Surge(t, i, RelativeVolume)
  BY BarAgrees
<1>2. EmaPeriod \in Nat \ {0}
  BY SignalBounds DEF Alike
<1>3. CASE i > EmaPeriod
  <2>1. s[i - 1] = t[i - 1]
    BY <1>1, <1>2, <1>3
  <2>2. Ema(s, i) = Ema(t, i) /\ Ema(s, i - 1) = Ema(t, i - 1)
    BY <1>1, EmasAgree
  <2> QED
    BY <1>1, <2>1, <2>2 DEF EmaPullback
<1>4. CASE ~ (i > EmaPeriod)
  BY <1>4 DEF EmaPullback, Setup
<1> QED
  BY <1>3, <1>4

LEMMA VwapReversionAgrees ==
    ASSUME NEW s, NEW t, NEW d, NEW e, NEW i, Alike(s, t, d, e, i)
    PROVE  VwapReversion(s, d, i) = VwapReversion(t, e, i)
<1>1. /\ i \in Nat \ {0} /\ SameBars(s, t, i) /\ s[i] = t[i]
      /\ Surge(s, i, RelativeVolume) = Surge(t, i, RelativeVolume)
  BY BarAgrees
<1>2. First(s, i) = First(t, i) /\ First(s, i) \in 1 .. i
  BY <1>1, FirstAgrees, FirstBar
<1>3. /\ Vp(s, First(s, i), i) = Vp(t, First(s, i), i)
      /\ Vwap3(s, First(s, i), i) = Vwap3(t, First(s, i), i)
  BY <1>1, <1>2, BarsAgree
<1> QED
  BY <1>1, <1>2, <1>3 DEF VwapReversion

LEMMA GapAndGoAgrees ==
    ASSUME NEW s, NEW t, NEW d, NEW e, NEW i, Alike(s, t, d, e, i)
    PROVE  GapAndGo(s, d, i) = GapAndGo(t, e, i)
<1>1. /\ i \in Nat \ {0} /\ SameBars(s, t, i) /\ s[i] = t[i]
      /\ Surge(s, i, RelativeVolume) = Surge(t, i, RelativeVolume)
  BY BarAgrees
<1>2. First(s, i) = First(t, i)
  BY <1>1, FirstAgrees
<1>3. DaysBefore(d, s[i].day) = DaysBefore(e, t[i].day)
  BY <1>1 DEF Alike
<1> QED
  BY <1>1, <1>2, <1>3 DEF GapAndGo

LEMMA FailedBreakdownAgrees ==
    ASSUME NEW s, NEW t, NEW d, NEW e, NEW i, Alike(s, t, d, e, i)
    PROVE  FailedBreakdown(s, d, i) = FailedBreakdown(t, e, i)
<1>1. s[i] = t[i] /\ Surge(s, i, RelativeVolume) = Surge(t, i, RelativeVolume)
  BY BarAgrees
<1>2. DaysBefore(d, s[i].day) = DaysBefore(e, t[i].day)
  BY <1>1 DEF Alike
<1> QED
  BY <1>1, <1>2 DEF FailedBreakdown

LEMMA BullFlagAgrees ==
    ASSUME NEW s, NEW t, NEW d, NEW e, NEW i, Alike(s, t, d, e, i)
    PROVE  BullFlag(s, d, i) = BullFlag(t, e, i)
<1>1. /\ i \in Nat \ {0} /\ SameBars(s, t, i) /\ s[i] = t[i]
      /\ \A k \in 1 .. i : s[k] = t[k]
  BY BarAgrees
<1>2. VolumeLookback \in Nat \ {0}
  BY SignalBounds DEF Alike
<1>3. First(s, i) = First(t, i)
  BY <1>1, FirstAgrees
<1>4. PICK from \in 1 .. i : from = First(s, i)
  BY <1>1, FirstBar
<1>5. CASE i > from /\ from > VolumeLookback
  <2>1. 1 <= from /\ i - 1 <= i /\ i - 1 \in Int /\ from \in Int
    BY <1>1
  <2>2. /\ High(s, from, i - 1) = High(t, from, i - 1) /\ Low(s, from, i - 1) = Low(t, from, i - 1)
        /\ Volumes(s, from, i - 1) = Volumes(t, from, i - 1)
    BY <1>1, <2>1, BarsAgree
  <2>3. 1 <= from - VolumeLookback /\ from - VolumeLookback \in Int /\ from - 1 \in Int
        /\ from - 1 <= i
    BY <1>1, <1>2, <1>5
  <2>4. Volumes(s, from - VolumeLookback, from - 1) = Volumes(t, from - VolumeLookback, from - 1)
    BY <1>1, <2>3, BarsAgree
  <2> QED
    BY <1>1, <1>3, <1>4, <2>2, <2>4 DEF BullFlag
<1>6. CASE ~ (i > from /\ from > VolumeLookback)
  BY <1>3, <1>4, <1>6 DEF BullFlag, Setup
<1> QED
  BY <1>5, <1>6

LEMMA VwapCrossAgrees ==
    ASSUME NEW s, NEW t, NEW d, NEW e, NEW i, Alike(s, t, d, e, i)
    PROVE  VwapCross(s, d, i) = VwapCross(t, e, i)
<1>1. /\ i \in Nat \ {0} /\ SameBars(s, t, i) /\ s[i] = t[i]
      /\ \A k \in 1 .. i : s[k] = t[k]
      /\ Surge(s, i, RelativeVolume) = Surge(t, i, RelativeVolume)
  BY BarAgrees
<1>2. First(s, i) = First(t, i)
  BY <1>1, FirstAgrees
<1>3. PICK from \in 1 .. i : from = First(s, i)
  BY <1>1, FirstBar
<1>4. Vp(s, from, i) = Vp(t, from, i) /\ Vwap3(s, from, i) = Vwap3(t, from, i)
  BY <1>1, BarsAgree
<1>5. CASE i - from >= 2
  <2>1. i - 2 \in Int /\ i - 2 <= i /\ i - 1 \in 1 .. i
    BY <1>1, <1>5
  <2>2. /\ Vp(s, from, i - 2) = Vp(t, from, i - 2)
        /\ Vwap3(s, from, i - 2) = Vwap3(t, from, i - 2)
    BY <1>1, <2>1, BarsAgree
  <2>3. s[i - 1] = t[i - 1]
    BY <1>1, <2>1
  <2> QED
    BY <1>1, <1>2, <1>3, <1>4, <2>2, <2>3 DEF VwapCross
<1>6. CASE ~ (i - from >= 2)
  BY <1>2, <1>3, <1>6 DEF VwapCross, Setup
<1> QED
  BY <1>5, <1>6

LEMMA BbSqueezeAgrees ==
    ASSUME NEW s, NEW t, NEW d, NEW e, NEW i, Alike(s, t, d, e, i)
    PROVE  BbSqueeze(s, d, i) = BbSqueeze(t, e, i)
<1>1. /\ i \in Nat \ {0} /\ SameBars(s, t, i) /\ s[i] = t[i]
      /\ Surge(s, i, RelativeVolume) = Surge(t, i, RelativeVolume)
  BY BarAgrees
<1>2. EntrySignalsAssumption /\ BandPeriod \in Nat \ {0} /\ SqueezeBars \in Nat \ {0}
  BY SignalBounds DEF Alike
<1>3. CASE i >= BandPeriod + SqueezeBars
  <2>1. \A k \in (i - SqueezeBars) .. (i - 1) : k \in Int /\ BandPeriod <= k /\ k <= i
    BY <1>1, <1>2, <1>3
  <2>2. \A k \in (i - SqueezeBars) .. (i - 1) : Squeezed(s, k) = Squeezed(t, k)
    BY <1>1, <1>2, <2>1, BandsAgree
  <2>3. i - 1 \in Int /\ BandPeriod <= i - 1 /\ i - 1 <= i
    BY <1>1, <1>2, <1>3
  <2>4. /\ BandSum(s, i - 1) = BandSum(t, i - 1)
        /\ \A gap : Outside(gap, s, i - 1) = Outside(gap, t, i - 1)
    BY <1>1, <1>2, <2>3, BandsAgree
  <2>5. (\A k \in (i - SqueezeBars) .. (i - 1) : Squeezed(s, k))
          = (\A k \in (i - SqueezeBars) .. (i - 1) : Squeezed(t, k))
    BY <2>2
  <2>6. Outside(BandPeriod * s[i].close - BandSum(s, i - 1), s, i - 1)
          = Outside(BandPeriod * t[i].close - BandSum(t, i - 1), t, i - 1)
    BY <1>1, <2>4
  <2> QED
    BY <1>1, <2>5, <2>6 DEF BbSqueeze
<1>4. CASE ~ (i >= BandPeriod + SqueezeBars)
  BY <1>4 DEF BbSqueeze, Setup
<1> QED
  BY <1>3, <1>4

\* What momentum reads of the days is the same in both series.
LEMMA MomentumAgrees ==
    ASSUME NEW s, NEW t, NEW d, NEW e, NEW i, Alike(s, t, d, e, i)
    PROVE  \A days : Momentum(s, days, i) = Momentum(t, days, i)
<1>1. s[i] = t[i] /\ Surge(s, i, RelativeVolume) = Surge(t, i, RelativeVolume)
  BY BarAgrees
<1> QED
  BY <1>1 DEF Momentum

\* The trend is read without the last day.
LEMMA TrendAgrees ==
    ASSUME EntrySignalsAssumption, NEW d, NEW e, SameDays(d, e)
    PROVE  Uptrend(d) = Uptrend(e) /\ Downtrend(d) = Downtrend(e) /\ AtrKnown(d) = AtrKnown(e)
<1>1. Len(d) \in Nat /\ Len(e) = Len(d) /\ SmaPeriod \in Nat \ {0}
  BY SignalBounds DEF SameDays
<1>2. SmaKnown(d) = SmaKnown(e) /\ AtrKnown(d) = AtrKnown(e) /\ SmaEnd(d) = SmaEnd(e)
  BY <1>1 DEF SmaKnown, AtrKnown, SmaEnd
<1>3. CASE SmaKnown(d)
  <2>1. /\ SmaEnd(d) \in 1 .. Len(d) - 1 /\ SmaEnd(d) - SmaPeriod + 1 \in Int
        /\ 1 <= SmaEnd(d) - SmaPeriod + 1
    BY <1>1, <1>3 DEF SmaKnown, SmaEnd
  <2>2. d[SmaEnd(d)] = e[SmaEnd(d)]
    BY <2>1 DEF SameDays
  <2>3. Closes(d, SmaEnd(d) - SmaPeriod + 1, SmaEnd(d)) = Closes(e, SmaEnd(d) - SmaPeriod + 1, SmaEnd(d))
    BY <1>1, <2>1, DaysAgree
  <2> QED
    BY <1>2, <2>2, <2>3 DEF Uptrend, Downtrend, SmaSum
<1>4. CASE ~ SmaKnown(d)
  BY <1>2, <1>4 DEF Uptrend, Downtrend
<1> QED
  BY <1>2, <1>3, <1>4

LEMMA SetupsAgree ==
    ASSUME NEW s, NEW t, NEW d, NEW e, NEW i, Alike(s, t, d, e, i),
           NEW name \in Longs \ {"momentum"}
    PROVE  SetupOf(name, s, d, i) = SetupOf(name, t, e, i)
<1>1. /\ Breakout(s, d, i) = Breakout(t, e, i) /\ Orb(s, d, i) = Orb(t, e, i)
      /\ HighWatermark(s, d, i) = HighWatermark(t, e, i)
      /\ EmaPullback(s, d, i) = EmaPullback(t, e, i)
      /\ VwapReversion(s, d, i) = VwapReversion(t, e, i)
      /\ GapAndGo(s, d, i) = GapAndGo(t, e, i) /\ BullFlag(s, d, i) = BullFlag(t, e, i)
      /\ VwapCross(s, d, i) = VwapCross(t, e, i) /\ BbSqueeze(s, d, i) = BbSqueeze(t, e, i)
      /\ FailedBreakdown(s, d, i) = FailedBreakdown(t, e, i)
  BY BreakoutAgrees, OrbAgrees, HighWatermarkAgrees, EmaPullbackAgrees, VwapReversionAgrees,
     GapAndGoAgrees, BullFlagAgrees, VwapCrossAgrees, BbSqueezeAgrees, FailedBreakdownAgrees
<1> QED
  BY <1>1 DEF SetupOf, Longs

(* The orders of a long signal: its setup, and whether it is looked at.     *)
LEMMA LongAgrees ==
    ASSUME NEW s, NEW t, NEW d, NEW e, NEW i, Alike(s, t, d, e, i), NEW name \in Longs
    PROVE  Orders(Long(name, s, d, i)) = Orders(Long(name, t, e, i))
<1>1. PICK a : a = DailyFor(name, d, s[i].day)
  OBVIOUS
<1>2. PICK b : b = DailyFor(name, e, t[i].day)
  OBVIOUS
<1>3. s[i] = t[i] /\ EntrySignalsAssumption /\ SameDays(d, e)
  BY BarAgrees DEF Alike
<1>4. /\ SetupOf(name, s, a, i) = SetupOf(name, t, b, i)
      /\ (Uptrend(a) /\ AtrKnown(a)) = (Uptrend(b) /\ AtrKnown(b))
  <2>1. CASE name = "momentum"
    <3>1. a = b
      BY <1>1, <1>2, <1>3, <2>1 DEF DailyFor, Alike
    <3>2. Momentum(s, a, i) = Momentum(t, a, i)
      BY MomentumAgrees
    <3> QED
      BY <2>1, <3>1, <3>2 DEF SetupOf
  <2>2. CASE name # "momentum"
    <3>1. a = d /\ b = e
      BY <1>1, <1>2, <2>2 DEF DailyFor
    <3>2. SetupOf(name, s, d, i) = SetupOf(name, t, e, i)
      BY <2>2, SetupsAgree
    <3> QED
      BY <1>3, <3>1, <3>2, TrendAgrees
  <2> QED
    BY <2>1, <2>2
<1> DEFINE SignalOf(p, days) ==
      [level |-> p.level, stop |-> p.trigger + Buffer,
       limit |-> Rounded((p.trigger + Buffer) * (100 + LimitPct), 100),
       initial |-> InitialStop(p, days)]
           Order(p) == <<p.level, p.trigger + Buffer,
                         Rounded((p.trigger + Buffer) * (100 + LimitPct), 100)>>
<1>5. ASSUME NEW days, NEW ps
      PROVE  Orders({SignalOf(p, days) : p \in ps}) = {Order(p) : p \in ps}
  <2>1. \A p : <<SignalOf(p, days).level, SignalOf(p, days).stop, SignalOf(p, days).limit>> = Order(p)
    OBVIOUS
  <2> HIDE DEF SignalOf, Order
  <2> QED
    BY <2>1, Zenon DEF Orders
<1>6. CASE s[i].slot \in EntryWindow /\ Uptrend(a) /\ AtrKnown(a)
  <2>1. Long(name, s, d, i) = {SignalOf(p, a) : p \in SetupOf(name, s, a, i)}
    BY <1>1, <1>6 DEF Long
  <2>2. Long(name, t, e, i) = {SignalOf(p, b) : p \in SetupOf(name, t, b, i)}
    <3>1. t[i].slot \in EntryWindow /\ Uptrend(b) /\ AtrKnown(b)
      BY <1>3, <1>4, <1>6
    <3> QED
      BY <1>2, <3>1 DEF Long
  <2> HIDE DEF SignalOf, Order
  <2> QED
    BY <1>4, <1>5, <2>1, <2>2
<1>7. CASE ~ (s[i].slot \in EntryWindow /\ Uptrend(a) /\ AtrKnown(a))
  <2>1. Long(name, s, d, i) = {} /\ Long(name, t, e, i) = {}
    BY <1>1, <1>2, <1>3, <1>4, <1>7 DEF Long
  <2> QED
    BY <2>1
<1> QED
  BY <1>6, <1>7

(* Which contract is bought is left open: one is when one is eligible.      *)
LEMMA PutLevels ==
    ASSUME NEW level, NEW s, NEW t
    PROVE  Levels(PutOn(level, s)) = Levels(PutOn(level, t))
<1>1. ASSUME NEW r
      PROVE  Levels(PutOn(level, r)) = IF Eligible(chain, "put") = {} THEN {} ELSE {level}
  <2>1. PICK bought : bought = Selected(chain, "put", r[Len(r)].close, DeltaTarget)
    OBVIOUS
  <2>2. bought = {} <=> Eligible(chain, "put") = {}
    BY <2>1 DEF Selected
  <2>3. Levels(PutOn(level, r)) = {p.level : p \in {[level |-> level, contract |-> c] : c \in bought}}
    BY <2>1 DEF Levels, PutOn
  <2>4. \A c : [level |-> level, contract |-> c].level = level
    OBVIOUS
  <2>5. Levels(PutOn(level, r)) = {level : c \in bought}
    BY <2>3, <2>4
  <2> QED
    BY <2>2, <2>5
<1> QED
  BY <1>1

LEMMA BearBreakdownAgrees ==
    ASSUME NEW s, NEW t, NEW d, NEW e, NEW i, Alike(s, t, d, e, i)
    PROVE  Levels(BearBreakdown(s, d, i)) = Levels(BearBreakdown(t, e, i))
<1>1. /\ i \in Nat \ {0} /\ SameBars(s, t, i) /\ s[i] = t[i]
      /\ Surge(s, i, RelativeVolume) = Surge(t, i, RelativeVolume)
  BY BarAgrees
<1>2. Lookback \in Nat \ {0} /\ VolumeLookback \in Nat \ {0}
  BY SignalBounds DEF Alike
<1>3. CASE i > Max({Lookback, VolumeLookback})
  <2>1. 1 <= i - Lookback /\ i - Lookback \in Int /\ i - 1 \in Int /\ i - 1 <= i
    <3>1. /\ Max({Lookback, VolumeLookback}) \in {Lookback, VolumeLookback}
          /\ Max({Lookback, VolumeLookback}) >= Lookback
      BY <1>2, MaxOfTwo
    <3> QED
      BY <1>1, <1>2, <1>3, <3>1
  <2>2. Low(s, i - Lookback, i - 1) = Low(t, i - Lookback, i - 1)
    BY <1>1, <2>1, BarsAgree
  <2> QED
    BY <1>1, <2>2, PutLevels DEF BearBreakdown, Put
<1>4. CASE ~ (i > Max({Lookback, VolumeLookback}))
  BY <1>4 DEF BearBreakdown, Put
<1> QED
  BY <1>3, <1>4

LEMMA BearMomentumAgrees ==
    ASSUME NEW s, NEW t, NEW d, NEW e, NEW i, Alike(s, t, d, e, i)
    PROVE  Levels(BearMomentum(s, d, i)) = Levels(BearMomentum(t, e, i))
<1>1. i \in Nat \ {0} /\ s[i] = t[i] /\ \A k \in 1 .. i : s[k] = t[k]
  BY BarAgrees
<1>2. CASE i > 3
  <2>1. s[i - 1] = t[i - 1] /\ s[i - 2] = t[i - 2]
    BY <1>1, <1>2
  <2> QED
    BY <1>1, <2>1, PutLevels DEF BearMomentum, Put
<1>3. CASE ~ (i > 3)
  BY <1>3 DEF BearMomentum, Put
<1> QED
  BY <1>2, <1>3

LEMMA BearOrbAgrees ==
    ASSUME NEW s, NEW t, NEW d, NEW e, NEW i, Alike(s, t, d, e, i)
    PROVE  Levels(BearOrb(s, d, i)) = Levels(BearOrb(t, e, i))
<1>1. i \in Nat \ {0} /\ SameBars(s, t, i) /\ s[i] = t[i]
  BY BarAgrees
<1>2. OpeningBars \in Nat \ {0}
  BY SignalBounds DEF Alike
<1>3. CASE i > OpeningBars
  <2>1. Low(s, 1, OpeningBars) = Low(t, 1, OpeningBars)
    BY <1>1, <1>2, <1>3, BarsAgree
  <2>2. Busy(s, i, 1, OpeningBars, RelativeVolume) = Busy(t, i, 1, OpeningBars, RelativeVolume)
    BY <1>1, <1>2, <1>3, BusyAgrees
  <2> QED
    BY <1>1, <2>1, <2>2, PutLevels DEF BearOrb, Put
<1>4. CASE ~ (i > OpeningBars)
  BY <1>4 DEF BearOrb, Put
<1> QED
  BY <1>3, <1>4

LEMMA BearLowWatermarkAgrees ==
    ASSUME NEW s, NEW t, NEW d, NEW e, NEW i, Alike(s, t, d, e, i)
    PROVE  Levels(BearLowWatermark(s, d, i)) = Levels(BearLowWatermark(t, e, i))
<1>1. s[i] = t[i]
  BY BarAgrees
<1>2. SameDays(d, e) /\ Len(d) \in Nat /\ Len(e) = Len(d) /\ HighDays \in Nat \ {0}
  BY SignalBounds DEF Alike, SameDays
<1>3. PICK n \in Int : n = Len(d) - 1
  BY <1>2
<1>4. CASE n >= HighDays
  <2>1. Low(d, n - HighDays + 1, n) = Low(e, n - HighDays + 1, n)
    <3>1. n - HighDays + 1 \in Int /\ 1 <= n - HighDays + 1 /\ n <= Len(d) - 1
      BY <1>2, <1>3, <1>4
    <3> QED
      BY <1>2, <3>1, DaysAgree
  <2> QED
    BY <1>1, <1>2, <1>3, <2>1, PutLevels DEF BearLowWatermark, Put
<1>5. CASE ~ (n >= HighDays)
  BY <1>2, <1>3, <1>5 DEF BearLowWatermark, Put
<1> QED
  BY <1>4, <1>5

LEMMA BearEmaRejectionAgrees ==
    ASSUME NEW s, NEW t, NEW d, NEW e, NEW i, Alike(s, t, d, e, i)
    PROVE  Levels(BearEmaRejection(s, d, i)) = Levels(BearEmaRejection(t, e, i))
<1>1. /\ i \in Nat \ {0} /\ SameBars(s, t, i) /\ s[i] = t[i]
      /\ \A k \in 1 .. i : s[k] = t[k]
  BY BarAgrees
<1>2. EmaPeriod \in Nat \ {0}
  BY SignalBounds DEF Alike
<1>3. CASE i > EmaPeriod
  <2>1. s[i - 1] = t[i - 1]
    BY <1>1, <1>2, <1>3
  <2>2. SeededEma(s, i) = SeededEma(t, i) /\ SeededEma(s, i - 1) = SeededEma(t, i - 1)
    BY <1>1, EmasAgree
  <2> QED
    BY <1>1, <2>1, <2>2, PutLevels DEF BearEmaRejection, Put
<1>4. CASE ~ (i > EmaPeriod)
  BY <1>4 DEF BearEmaRejection, Put
<1> QED
  BY <1>3, <1>4

LEMMA BearVwapBreakdownAgrees ==
    ASSUME NEW s, NEW t, NEW d, NEW e, NEW i, Alike(s, t, d, e, i)
    PROVE  Levels(BearVwapBreakdown(s, d, i)) = Levels(BearVwapBreakdown(t, e, i))
<1>1. i \in Nat \ {0} /\ SameBars(s, t, i) /\ s[i] = t[i]
  BY BarAgrees
<1>2. Vp(s, 1, i) = Vp(t, 1, i) /\ Vwap3(s, 1, i) = Vwap3(t, 1, i)
  BY <1>1, BarsAgree
<1> QED
  BY <1>1, <1>2, PutLevels DEF BearVwapBreakdown, Put

LEMMA BearGapAndDropAgrees ==
    ASSUME NEW s, NEW t, NEW d, NEW e, NEW i, Alike(s, t, d, e, i)
    PROVE  Levels(BearGapAndDrop(s, d, i)) = Levels(BearGapAndDrop(t, e, i))
<1>1. s[i] = t[i] /\ Len(d) \in Nat /\ Len(e) = Len(d)
  BY BarAgrees DEF Alike, SameDays
<1>2. CASE Len(d) >= 2
  <2>1. d[Len(d) - 1] = e[Len(e) - 1]
    <3>1. Len(d) - 1 \in 1 .. Len(d) - 1
      BY <1>1, <1>2
    <3> QED
      BY <1>1, <3>1 DEF Alike, SameDays
  <2> QED
    BY <1>1, <2>1, PutLevels DEF BearGapAndDrop, Put
<1>3. CASE ~ (Len(d) >= 2)
  BY <1>1, <1>3 DEF BearGapAndDrop, Put
<1> QED
  BY <1>2, <1>3

LEMMA BearFlagAgrees ==
    ASSUME NEW s, NEW t, NEW d, NEW e, NEW i, Alike(s, t, d, e, i)
    PROVE  Levels(BearFlag(s, d, i)) = Levels(BearFlag(t, e, i))
<1>1. /\ i \in Nat \ {0} /\ SameBars(s, t, i) /\ s[i] = t[i]
      /\ \A k \in 1 .. i : s[k] = t[k]
  BY BarAgrees
<1> DEFINE Starts(r) ==
      {n \in 2 .. 4 : n < i - 1 /\ i - n - 2 >= 1
                      /\ 100 * (r[i - n - 2].open - Low(r, i - n - 2, i - 3)) >= RunPct * r[i - n - 2].open}
<1>2. ASSUME NEW n \in 2 .. 4, i - n - 2 >= 1
      PROVE  /\ s[i - n - 2] = t[i - n - 2]
             /\ Low(s, i - n - 2, i - 3) = Low(t, i - n - 2, i - 3)
             /\ Volumes(s, i - n - 2, i - 3) = Volumes(t, i - n - 2, i - 3)
  <2>1. i - n - 2 \in 1 .. i /\ i - n - 2 \in Int /\ i - 3 \in Int /\ i - 3 <= i
    BY <1>1, <1>2
  <2>2. s[i - n - 2] = t[i - n - 2]
    BY <1>1, <2>1
  <2> QED
    BY <1>1, <1>2, <2>1, <2>2, BarsAgree
<1>3. Starts(s) = Starts(t)
  BY <1>2
<1>4. CASE i > 4 /\ Starts(s) # {}
  <2>1. PICK n : n = Min(Starts(s))
    OBVIOUS
  <2>2. n \in Starts(s)
    <3>1. Starts(s) \in SUBSET Nat
      OBVIOUS
    <3> HIDE DEF Starts
    <3> QED
      BY <1>4, <2>1, <3>1, MinIsLeast
  <2>3. /\ Low(s, i - n - 2, i - 3) = Low(t, i - n - 2, i - 3)
        /\ Volumes(s, i - n - 2, i - 3) = Volumes(t, i - n - 2, i - 3)
    BY <1>2, <2>2
  <2>4. i - 2 \in Int /\ 1 <= i - 2 /\ i - 1 \in Int /\ i - 1 <= i /\ i - 3 \in 1 .. i
    BY <1>1, <1>4
  <2>5. /\ High(s, i - 2, i - 1) = High(t, i - 2, i - 1)
        /\ Low(s, i - 2, i - 1) = Low(t, i - 2, i - 1)
        /\ Volumes(s, i - 2, i - 1) = Volumes(t, i - 2, i - 1)
    BY <1>1, <2>4, BarsAgree
  <2>6. s[i - 3] = t[i - 3]
    BY <1>1, <2>4
  <2> DEFINE Breaks(r) ==
        /\ 100 * (High(r, i - 2, i - 1) - Low(r, i - 2, i - 1)) <= RangePct * r[i - 3].close
        /\ Volumes(r, i - 2, i - 1) * n <= Volumes(r, i - n - 2, i - 3) * 2
        /\ r[i].close < Low(r, i - 2, i - 1)
  <2>7. ASSUME NEW r, NEW days, Min(Starts(r)) = n, Starts(r) # {}
        PROVE  BearFlag(r, days, i) = IF chain # <<>> /\ Breaks(r)
                                      THEN PutOn(Low(r, i - n - 2, i - 3), r) ELSE {}
    BY <1>4, <2>7 DEF BearFlag, Put
  <2>8. Breaks(s) <=> Breaks(t)
    BY <1>1, <2>3, <2>5, <2>6
  <2> HIDE DEF Starts, Breaks
  <2>9. /\ Min(Starts(s)) = n /\ Starts(s) # {}
        /\ Min(Starts(t)) = n /\ Starts(t) # {}
    BY <1>3, <1>4, <2>1
  <2> QED
    BY <2>3, <2>7, <2>8, <2>9, PutLevels
<1>5. CASE ~ (i > 4 /\ Starts(s) # {})
  <2>1. BearFlag(s, d, i) = {} /\ BearFlag(t, e, i) = {}
    BY <1>3, <1>5 DEF BearFlag, Put
  <2> QED
    BY <2>1
<1> QED
  BY <1>4, <1>5

LEMMA BearVwapCrossDownAgrees ==
    ASSUME NEW s, NEW t, NEW d, NEW e, NEW i, Alike(s, t, d, e, i)
    PROVE  Levels(BearVwapCrossDown(s, d, i)) = Levels(BearVwapCrossDown(t, e, i))
<1>1. /\ i \in Nat \ {0} /\ SameBars(s, t, i) /\ s[i] = t[i]
      /\ \A k \in 1 .. i : s[k] = t[k]
  BY BarAgrees
<1>2. CASE i > 1
  <2>1. i - 1 \in 1 .. i /\ i - 1 \in Int /\ i - 1 <= i
    BY <1>1, <1>2
  <2>2. s[i - 1] = t[i - 1]
    BY <1>1, <2>1
  <2>3. Vp(s, 1, i - 1) = Vp(t, 1, i - 1) /\ Vwap3(s, 1, i - 1) = Vwap3(t, 1, i - 1)
    BY <1>1, <2>1, BarsAgree
  <2>4. Vp(s, 1, i) = Vp(t, 1, i) /\ Vwap3(s, 1, i) = Vwap3(t, 1, i)
    BY <1>1, BarsAgree
  <2> QED
    BY <1>1, <2>2, <2>3, <2>4, PutLevels DEF BearVwapCrossDown, Put
<1>3. CASE ~ (i > 1)
  BY <1>3 DEF BearVwapCrossDown, Put
<1> QED
  BY <1>2, <1>3

LEMMA BearBbSqueezeDownAgrees ==
    ASSUME NEW s, NEW t, NEW d, NEW e, NEW i, Alike(s, t, d, e, i)
    PROVE  Levels(BearBbSqueezeDown(s, d, i)) = Levels(BearBbSqueezeDown(t, e, i))
<1>1. i \in Nat \ {0} /\ SameBars(s, t, i) /\ s[i] = t[i]
  BY BarAgrees
<1>2. EntrySignalsAssumption /\ BandPeriod \in Nat \ {0} /\ SqueezeBars \in Nat \ {0}
  BY SignalBounds DEF Alike
<1>3. CASE i > BandPeriod + SqueezeBars
  <2>1. i - 1 \in Int /\ BandPeriod <= i - 1 /\ i - 1 <= i
    BY <1>1, <1>2, <1>3
  <2>2. /\ BandSum(s, i - 1) = BandSum(t, i - 1) /\ BandVar(s, i - 1) = BandVar(t, i - 1)
        /\ Squeezed(s, i - 1) = Squeezed(t, i - 1)
        /\ \A gap : Outside(gap, s, i - 1) = Outside(gap, t, i - 1)
    BY <1>1, <1>2, <2>1, BandsAgree
  <2>3. Outside(BandSum(s, i - 1) - BandPeriod * s[i].close, s, i - 1)
          = Outside(BandSum(t, i - 1) - BandPeriod * t[i].close, t, i - 1)
    BY <1>1, <2>2
  <2> QED
    BY <1>1, <2>2, <2>3, PutLevels DEF BearBbSqueezeDown, Put
<1>4. CASE ~ (i > BandPeriod + SqueezeBars)
  BY <1>4 DEF BearBbSqueezeDown, Put
<1> QED
  BY <1>3, <1>4

LEMMA BearFailedBreakoutAgrees ==
    ASSUME NEW s, NEW t, NEW d, NEW e, NEW i, Alike(s, t, d, e, i)
    PROVE  Levels(BearFailedBreakout(s, d, i)) = Levels(BearFailedBreakout(t, e, i))
<1>1. i \in Nat \ {0} /\ SameBars(s, t, i) /\ s[i] = t[i]
  BY BarAgrees
<1>2. Lookback \in Nat \ {0} /\ VolumeLookback \in Nat \ {0}
  BY SignalBounds DEF Alike
<1>3. CASE i > 1
  <2>1. PICK a : a = Max({1, i - Lookback})
    OBVIOUS
  <2>2. PICK b : b = Max({1, i - VolumeLookback})
    OBVIOUS
  <2>3. /\ a \in Int /\ 1 <= a /\ b \in Int /\ 1 <= b
        /\ i - 1 \in Int /\ i - 1 <= i
    <3>1. 1 \in Int /\ i - Lookback \in Int /\ i - VolumeLookback \in Int
      BY <1>1, <1>2
    <3>2. a \in {1, i - Lookback} /\ a >= 1
      BY <2>1, <3>1, MaxOfTwo
    <3>3. b \in {1, i - VolumeLookback} /\ b >= 1
      BY <2>2, <3>1, MaxOfTwo
    <3> QED
      BY <1>1, <3>1, <3>2, <3>3
  <2>4. High(s, a, i - 1) = High(t, a, i - 1)
    BY <1>1, <2>3, BarsAgree
  <2>5. /\ Volumes(s, b, i - 1) = Volumes(t, b, i - 1)
        /\ Busy(s, i, b, i - 1, RelativeVolume) = Busy(t, i, b, i - 1, RelativeVolume)
    BY <1>1, <2>3, BarsAgree, BusyAgrees
  <2> QED
    BY <1>1, <2>1, <2>2, <2>4, <2>5, PutLevels DEF BearFailedBreakout, Put
<1>4. CASE ~ (i > 1)
  BY <1>4 DEF BearFailedBreakout, Put
<1> QED
  BY <1>3, <1>4

LEMMA BearAgrees ==
    ASSUME NEW s, NEW t, NEW d, NEW e, NEW i, Alike(s, t, d, e, i), NEW name \in Bears
    PROVE  Levels(Bear(name, s, d, i)) = Levels(Bear(name, t, e, i))
<1>1. /\ Levels(BearBreakdown(s, d, i)) = Levels(BearBreakdown(t, e, i))
      /\ Levels(BearMomentum(s, d, i)) = Levels(BearMomentum(t, e, i))
      /\ Levels(BearOrb(s, d, i)) = Levels(BearOrb(t, e, i))
      /\ Levels(BearLowWatermark(s, d, i)) = Levels(BearLowWatermark(t, e, i))
      /\ Levels(BearEmaRejection(s, d, i)) = Levels(BearEmaRejection(t, e, i))
      /\ Levels(BearVwapBreakdown(s, d, i)) = Levels(BearVwapBreakdown(t, e, i))
      /\ Levels(BearGapAndDrop(s, d, i)) = Levels(BearGapAndDrop(t, e, i))
      /\ Levels(BearFlag(s, d, i)) = Levels(BearFlag(t, e, i))
      /\ Levels(BearVwapCrossDown(s, d, i)) = Levels(BearVwapCrossDown(t, e, i))
      /\ Levels(BearBbSqueezeDown(s, d, i)) = Levels(BearBbSqueezeDown(t, e, i))
      /\ Levels(BearFailedBreakout(s, d, i)) = Levels(BearFailedBreakout(t, e, i))
  BY BearBreakdownAgrees, BearMomentumAgrees, BearOrbAgrees, BearLowWatermarkAgrees,
     BearEmaRejectionAgrees, BearVwapBreakdownAgrees, BearGapAndDropAgrees, BearFlagAgrees,
     BearVwapCrossDownAgrees, BearBbSqueezeDownAgrees, BearFailedBreakoutAgrees
<1>2. Levels(BreakOf(name, s, d, i)) = Levels(BreakOf(name, t, e, i))
  BY <1>1 DEF BreakOf, Bears
<1>3. Downtrend(d) = Downtrend(e)
  BY TrendAgrees DEF Alike
<1> QED
  BY <1>2, <1>3 DEF Bear

(* A call follows the breakout strategy.                                    *)
LEMMA CallAgrees ==
    ASSUME NEW s, NEW t, NEW d, NEW e, NEW i, Alike(s, t, d, e, i)
    PROVE  Levels(Call(s, d, i)) = Levels(Call(t, e, i))
<1>1. ASSUME NEW r, NEW days
      PROVE  Levels(Call(r, days, i))
               = IF chain = <<>> \/ Eligible(chain, "call") = {} THEN {}
                 ELSE {o[1] : o \in Orders(Long("breakout", r, days, i))}
  <2>1. PICK bought : bought = Selected(chain, "call", r[Len(r)].close, DeltaTarget)
    OBVIOUS
  <2>2. PICK long : long = Long("breakout", r, days, i)
    OBVIOUS
  <2>3. bought = {} <=> Eligible(chain, "call") = {}
    BY <2>1 DEF Selected
  <2>4. Call(r, days, i) = {[level |-> p.level, contract |-> c] :
                              p \in (IF chain = <<>> THEN {} ELSE long), c \in bought}
    BY <2>1, <2>2 DEF Call
  <2>5. Levels(Call(r, days, i)) = {x.level : x \in Call(r, days, i)}
    BY DEF Levels
  <2>6. {o[1] : o \in Orders(long)} = {p.level : p \in long}
    <3>1. \A p : <<p.level, p.stop, p.limit>>[1] = p.level
      OBVIOUS
    <3> QED
      BY <3>1, Zenon DEF Orders
  <2>7. CASE chain = <<>> \/ bought = {}
    <3>1. Call(r, days, i) = {}
      BY <2>4, <2>7
    <3> QED
      BY <2>3, <2>5, <2>7, <3>1
  <2>8. CASE chain # <<>> /\ bought # {}
    <3>1. PICK c : c \in bought
      BY <2>8
    <3>2. Call(r, days, i) = {[level |-> p.level, contract |-> k] : p \in long, k \in bought}
      BY <2>4, <2>8
    <3>3. ASSUME NEW x \in Call(r, days, i) PROVE x.level \in {p.level : p \in long}
      BY <3>2
    <3>4. ASSUME NEW p \in long PROVE p.level \in {x.level : x \in Call(r, days, i)}
      <4>1. [level |-> p.level, contract |-> c] \in Call(r, days, i)
        BY <3>1, <3>2
      <4>2. [level |-> p.level, contract |-> c].level = p.level
        OBVIOUS
      <4> QED
        BY <4>1, <4>2
    <3>5. Levels(Call(r, days, i)) = {p.level : p \in long}
      BY <2>5, <3>3, <3>4
    <3> QED
      BY <2>2, <2>3, <2>6, <2>8, <3>5
  <2> QED
    BY <2>7, <2>8
<1>2. "breakout" \in Longs
  BY DEF Longs
<1>3. Orders(Long("breakout", s, d, i)) = Orders(Long("breakout", t, e, i))
  BY <1>2, LongAgrees
<1> QED
  BY <1>1, <1>3

(***************************************************************************)
(* Prices and volumes of bars.                                             *)
(***************************************************************************)

(* A finite set of numbers has a greatest one.                              *)
LEMMA MaxIsGreatest ==
    ASSUME NEW S \in SUBSET Int, IsFiniteSet(S), S # {}
    PROVE  Max(S) \in S /\ \A n \in S : n <= Max(S)
<1> DEFINE Bad == {T \in SUBSET S : T # {} /\ ~ \E x \in T : \A y \in T : y <= x}
<1>1. ASSUME Bad # {} PROVE FALSE
  <2>1. \A T \in Bad : IsFiniteSet(T)
    BY FS_Subset
  <2>2. PICK T \in Bad : \A u \in Bad : Cardinality(T) <= Cardinality(u)
    BY <1>1, <2>1, SmallestSet
  <2>3. PICK x \in T : x \in Int
    OBVIOUS
  <2>4. T \ {x} \notin Bad /\ T \ {x} \in SUBSET S
    <3>1. Cardinality(T \ {x}) < Cardinality(T) /\ IsFiniteSet(T \ {x}) /\ IsFiniteSet(T)
      BY <2>1, <2>3, SmallerSet
    <3>2. Cardinality(T \ {x}) \in Nat /\ Cardinality(T) \in Nat
      BY <3>1, FS_CardinalityType
    <3>3. T \ {x} \in SUBSET S
      OBVIOUS
    <3> HIDE DEF Bad
    <3> QED
      BY <2>2, <3>1, <3>2, <3>3
  <2>5. CASE T \ {x} = {}
    <3>1. \A y \in T : y <= x
      BY <2>3, <2>5
    <3> QED
      BY <2>2, <3>1
  <2>6. CASE T \ {x} # {}
    <3>1. PICK m \in T \ {x} : \A y \in T \ {x} : y <= m
      BY <2>4, <2>6
    <3>2. m \in Int /\ \A y \in T : y \in Int
      OBVIOUS
    <3>3. CASE x <= m
      <4>1. \A y \in T : y <= m
        BY <3>1, <3>3
      <4> QED
        BY <2>2, <3>1, <4>1
    <3>4. CASE ~ (x <= m)
      <4>1. \A y \in T : y <= x
        BY <2>3, <3>1, <3>2, <3>4
      <4> QED
        BY <2>2, <2>3, <4>1
    <3> QED
      BY <3>3, <3>4
  <2> QED
    BY <2>5, <2>6
<1>2. PICK x \in S : \A y \in S : y <= x
  BY <1>1
<1>3. \A y \in S : x >= y
  BY <1>2
<1> QED
  BY <1>2, <1>3 DEF Max

LEMMA HighIsHighest ==
    ASSUME NEW s, NEW a \in Int, NEW b \in Int, a <= b, \A k \in a .. b : s[k].high \in Nat
    PROVE  /\ \E k \in a .. b : High(s, a, b) = s[k].high
           /\ \A k \in a .. b : s[k].high <= High(s, a, b)
<1> DEFINE f == [k \in a .. b |-> s[k].high]
           K == {f[k] : k \in a .. b}
<1>1. K = {s[k].high : k \in a .. b} /\ K \in SUBSET Int /\ K # {}
  OBVIOUS
<1>2. IsFiniteSet(K)
  <2>1. IsFiniteSet(a .. b)
    BY FS_Interval
  <2> HIDE DEF f
  <2> QED
    BY <2>1, ImageIsFinite
<1>3. High(s, a, b) = Max(K)
  BY <1>1 DEF High
<1>4. Max(K) \in K /\ \A n \in K : n <= Max(K)
  <2> HIDE DEF K
  <2> QED
    BY <1>1, <1>2, MaxIsGreatest
<1> QED
  BY <1>1, <1>3, <1>4

LEMMA LowIsLowest ==
    ASSUME NEW s, NEW a \in Int, NEW b \in Int, a <= b, \A k \in a .. b : s[k].low \in Nat
    PROVE  /\ \E k \in a .. b : Low(s, a, b) = s[k].low
           /\ \A k \in a .. b : Low(s, a, b) <= s[k].low
<1> DEFINE K == {s[k].low : k \in a .. b}
<1>1. K \in SUBSET Nat /\ K # {}
  OBVIOUS
<1>2. Min(K) \in K /\ \A n \in K : Min(K) <= n
  <2> HIDE DEF K
  <2> QED
    BY <1>1, MinIsLeast
<1> QED
  BY <1>2 DEF Low

LEMMA ClosesAndVolumes ==
    ASSUME NEW s, NEW a \in Int, NEW b \in Int,
           \A k \in a .. b : s[k].close \in Nat /\ s[k].volume \in Nat
    PROVE  Closes(s, a, b) \in Int /\ Volumes(s, a, b) \in Nat
<1>1. IsFiniteSet(a .. b)
  BY FS_Interval
<1> DEFINE c == [k \in a .. b |-> s[k].close]
           v == [k \in a .. b |-> s[k].volume]
<1>2. /\ \A k \in a .. b : c[k] \in Int
      /\ \A k \in a .. b : v[k] \in Int /\ v[k] >= 0
  OBVIOUS
<1>3. Closes(s, a, b) = SumFunctionOnSet(c, a .. b) /\ Volumes(s, a, b) = SumFunctionOnSet(v, a .. b)
  BY DEF Closes, Volumes
<1> HIDE DEF c, v
<1>4. SumFunctionOnSet(c, a .. b) \in Int /\ SumFunctionOnSet(v, a .. b) \in Int
  BY <1>1, <1>2, SumIsInt
<1>5. SumFunctionOnSet(v, {}) <= SumFunctionOnSet(v, a .. b)
  BY <1>1, <1>2, SumGrows
<1>6. SumFunctionOnSet(v, {}) = 0
  BY SumOfNothing
<1> QED
  BY <1>3, <1>4, <1>5, <1>6

\* Sound bars: a part of a day, and whole days.
BarsOK(s) == s \in Seq(Bar) /\ \A k \in 1 .. Len(s) : SoundBar(s[k])
DaysOK(d) == d \in Seq(Daily) /\ \A k \in 1 .. Len(d) : SoundBar(d[k])

LEMMA BarTypes ==
    ASSUME NEW s, BarsOK(s)
    PROVE  /\ DOMAIN s = 1 .. Len(s) /\ Len(s) \in Nat
           /\ \A k \in 1 .. Len(s) :
                /\ s[k].day \in Int /\ s[k].slot \in Nat /\ s[k].open \in Nat /\ s[k].high \in Nat
                /\ s[k].low \in Nat /\ s[k].close \in Nat /\ s[k].volume \in Nat /\ SoundBar(s[k])
<1>1. s \in Seq(Bar) /\ DOMAIN s = 1 .. Len(s) /\ Len(s) \in Nat
  BY DEF BarsOK
<1>2. \A k \in 1 .. Len(s) : s[k] \in Bar /\ SoundBar(s[k])
  BY <1>1 DEF BarsOK
<1> QED
  BY <1>1, <1>2 DEF Bar

LEMMA DayTypes ==
    ASSUME NEW d, DaysOK(d)
    PROVE  /\ DOMAIN d = 1 .. Len(d) /\ Len(d) \in Nat
           /\ \A k \in 1 .. Len(d) :
                /\ d[k].day \in Int /\ d[k].open \in Nat /\ d[k].high \in Nat
                /\ d[k].low \in Nat /\ d[k].close \in Nat /\ d[k].volume \in Nat /\ SoundBar(d[k])
<1>1. d \in Seq(Daily) /\ DOMAIN d = 1 .. Len(d) /\ Len(d) \in Nat
  BY DEF DaysOK
<1>2. \A k \in 1 .. Len(d) : d[k] \in Daily /\ SoundBar(d[k])
  BY <1>1 DEF DaysOK
<1> QED
  BY <1>1, <1>2 DEF Daily

(* The bar of a day is sound when the bars of its parts are.                *)
LEMMA DayBarIsSound ==
    ASSUME NEW s, BarsOK(s), NEW d \in Int, \E k \in 1 .. Len(s) : s[k].day = d
    PROVE  DayBar(s, d) \in Daily /\ SoundBar(DayBar(s, d)) /\ DayBar(s, d).day = d
<1> DEFINE of == {k \in DOMAIN s : s[k].day = d}
<1>1. DOMAIN s = 1 .. Len(s) /\ Len(s) \in Nat
  BY DEF BarsOK
<1>2. of \in SUBSET Nat /\ of \in SUBSET Int /\ of # {} /\ of \in SUBSET (1 .. Len(s))
  BY <1>1
<1>3. IsFiniteSet(of)
  <2>1. IsFiniteSet(1 .. Len(s))
    BY <1>1, FS_Interval
  <2> HIDE DEF of
  <2> QED
    BY <1>2, <2>1, FS_Subset
<1>4. PICK a : a = Min(of)
  OBVIOUS
<1>5. PICK b : b = Max(of)
  OBVIOUS
<1>6. a \in 1 .. Len(s) /\ b \in 1 .. Len(s) /\ a <= b
  <2> HIDE DEF of
  <2>1. a \in of /\ \A n \in of : a <= n
    BY <1>2, <1>4, MinIsLeast
  <2>2. b \in of
    BY <1>2, <1>3, <1>5, MaxIsGreatest
  <2> QED
    BY <1>2, <2>1, <2>2
<1>7. DayBar(s, d) = [day |-> d, open |-> s[a].open, high |-> High(s, a, b), low |-> Low(s, a, b),
                      close |-> s[b].close, volume |-> Volumes(s, a, b)]
  BY <1>4, <1>5 DEF DayBar
<1>8. \A k \in a .. b : /\ s[k].open \in Nat /\ s[k].high \in Nat /\ s[k].low \in Nat
                        /\ s[k].close \in Nat /\ s[k].volume \in Nat /\ SoundBar(s[k])
  BY <1>1, <1>6, BarTypes
<1> HIDE DEF of
<1>9. a \in Int /\ b \in Int /\ a \in a .. b /\ b \in a .. b
  BY <1>1, <1>6
<1>10. High(s, a, b) \in Nat /\ \A k \in a .. b : s[k].high <= High(s, a, b)
  <2>1. PICK k \in a .. b : High(s, a, b) = s[k].high
    BY <1>6, <1>8, <1>9, HighIsHighest
  <2>2. \A j \in a .. b : s[j].high <= High(s, a, b)
    BY <1>6, <1>8, <1>9, HighIsHighest
  <2> QED
    BY <1>8, <2>1, <2>2
<1>11. /\ Low(s, a, b) \in Nat /\ 0 < Low(s, a, b) /\ \A k \in a .. b : Low(s, a, b) <= s[k].low
  <2>1. PICK k \in a .. b : Low(s, a, b) = s[k].low
    BY <1>6, <1>8, <1>9, LowIsLowest
  <2>2. \A j \in a .. b : Low(s, a, b) <= s[j].low
    BY <1>6, <1>8, <1>9, LowIsLowest
  <2> QED
    BY <1>8, <2>1, <2>2 DEF SoundBar
<1>12. Volumes(s, a, b) \in Nat
  BY <1>8, <1>9, ClosesAndVolumes
<1>13. DayBar(s, d) \in Daily
  BY <1>7, <1>8, <1>9, <1>10, <1>11, <1>12 DEF Daily
<1>14. 0 < s[a].open /\ s[b].close <= High(s, a, b) /\ Low(s, a, b) <= s[b].close
  <2>1. /\ 0 < s[a].open /\ s[b].low <= s[b].close /\ s[b].close <= s[b].high
    BY <1>8, <1>9 DEF SoundBar
  <2>2. s[b].high <= High(s, a, b) /\ Low(s, a, b) <= s[b].low
    BY <1>9, <1>10, <1>11
  <2> QED
    BY <1>8, <1>9, <1>10, <1>11, <2>1, <2>2
<1> QED
  BY <1>7, <1>11, <1>13, <1>14 DEF SoundBar

(***************************************************************************)
(* The bars come in the order of their days; a completed day lies before   *)
(* today.                                                                  *)
(***************************************************************************)
SignalsInv ==
    /\ day \in Nat /\ withToday \in BOOLEAN
    /\ BarsOK(bars) /\ \A k \in 1 .. Len(bars) : bars[k].day <= day
    /\ DaysOK(completed) /\ \A k \in 1 .. Len(completed) : completed[k].day < day

LEMMA SignalsInvHolds ==
    ASSUME EntrySignalsAssumption
    PROVE  SignalsSpec => []SignalsInv
<1>1. SignalsInit => SignalsInv
  <2> SUFFICES ASSUME SignalsInit PROVE SignalsInv
    OBVIOUS
  <2>1. /\ bars = <<>> /\ day = 1 /\ completed \in Histories /\ withToday \in BOOLEAN
    BY DEF SignalsInit
  <2>2. BarsOK(bars) /\ Len(bars) = 0
    BY <2>1 DEF BarsOK
  <2>3. completed \in Seq(Daily) /\ DOMAIN completed = 1 .. Len(completed)
    BY <2>1 DEF EntrySignalsAssumption
  <2>4. \A k \in 1 .. Len(completed) : SoundBar(completed[k]) /\ completed[k].day < 1
    BY <2>1, <2>3 DEF EntrySignalsAssumption
  <2> QED
    BY <2>1, <2>2, <2>3, <2>4 DEF SignalsInv, DaysOK
<1>2. SignalsInv /\ [SignalsNext]_signalVars => SignalsInv'
  <2> SUFFICES ASSUME SignalsInv, [SignalsNext]_signalVars PROVE SignalsInv'
    OBVIOUS
  <2>1. CASE NextBar
    <3>1. PICK slot \in Slots, shape \in Shapes :
             bars' = Append(bars, [day |-> day, slot |-> slot, open |-> shape.open, high |-> shape.high,
                                   low |-> shape.low, close |-> shape.close, volume |-> shape.volume])
      BY <2>1 DEF NextBar
    <3>2. PICK b : b = [day |-> day, slot |-> slot, open |-> shape.open, high |-> shape.high,
                        low |-> shape.low, close |-> shape.close, volume |-> shape.volume]
      OBVIOUS
    <3>3. b \in Bar /\ SoundBar(b) /\ b.day = day
      <4>1. slot \in Nat /\ day \in Int
        <5>1. Slots \subseteq Nat
          BY DEF EntrySignalsAssumption
        <5>2. day \in Nat
          BY DEF SignalsInv
        <5> QED
          BY <5>1, <5>2
      <4>2. /\ shape \in [open : Nat, high : Nat, low : Nat, close : Nat, volume : Nat]
            /\ SoundBar(shape)
        BY DEF EntrySignalsAssumption
      <4>3. b \in Bar
        BY <3>2, <4>1, <4>2 DEF Bar
      <4>4. b.day = day /\ b.open = shape.open /\ b.low = shape.low /\ b.high = shape.high
            /\ b.close = shape.close
        BY <3>2
      <4> QED
        BY <4>2, <4>3, <4>4 DEF SoundBar
    <3>4. /\ bars \in Seq(Bar) /\ bars' = Append(bars, b)
          /\ day' = day /\ completed' = completed /\ withToday' = withToday
      BY <2>1, <3>1, <3>2 DEF NextBar, SignalsInv, BarsOK
    <3>5. /\ bars' \in Seq(Bar) /\ Len(bars') = Len(bars) + 1 /\ Len(bars) \in Nat
          /\ bars'[Len(bars) + 1] = b /\ \A k \in 1 .. Len(bars) : bars'[k] = bars[k]
      BY <3>3, <3>4
    <3>6. \A k \in 1 .. Len(bars') : SoundBar(bars'[k]) /\ bars'[k].day <= day
      <4> SUFFICES ASSUME NEW k \in 1 .. Len(bars') PROVE SoundBar(bars'[k]) /\ bars'[k].day <= day
        OBVIOUS
      <4>1. CASE k \in 1 .. Len(bars)
        BY <3>5, <4>1 DEF SignalsInv, BarsOK
      <4>2. CASE k = Len(bars) + 1
        BY <3>3, <3>5, <4>2 DEF SignalsInv
      <4> QED
        BY <3>5, <4>1, <4>2
    <3> QED
      BY <3>4, <3>5, <3>6 DEF SignalsInv, BarsOK, DaysOK
  <2>2. CASE NextDay
    <3>1. /\ completed' = completed \o DayBars(bars, day) /\ day' = day + 1
          /\ bars' = bars /\ withToday' = withToday /\ day \in Nat
          /\ DOMAIN bars = 1 .. Len(bars)
      BY <2>2 DEF NextDay, SignalsInv, BarsOK
    <3>2. CASE \E k \in DOMAIN bars : bars[k].day = day
      <4>1. PICK b : b = DayBar(bars, day)
        OBVIOUS
      <4>2. b \in Daily /\ SoundBar(b) /\ b.day = day
        BY <3>1, <3>2, <4>1, DayBarIsSound DEF SignalsInv
      <4>3. completed' = completed \o <<b>> /\ completed \in Seq(Daily) /\ <<b>> \in Seq(Daily)
        BY <3>1, <3>2, <4>1, <4>2 DEF DayBars, SignalsInv, DaysOK
      <4>4. /\ completed' \in Seq(Daily) /\ Len(completed') = Len(completed) + 1
            /\ Len(completed) \in Nat /\ completed'[Len(completed) + 1] = b
            /\ \A k \in 1 .. Len(completed) : completed'[k] = completed[k]
        BY <4>2, <4>3
      <4>5. \A k \in 1 .. Len(completed') : SoundBar(completed'[k]) /\ completed'[k].day < day'
        <5> SUFFICES ASSUME NEW k \in 1 .. Len(completed')
                     PROVE  SoundBar(completed'[k]) /\ completed'[k].day < day'
          OBVIOUS
        <5>1. CASE k \in 1 .. Len(completed)
          <6>1. SoundBar(completed[k]) /\ completed[k].day < day /\ completed[k].day \in Int
            BY <5>1, DayTypes DEF SignalsInv
          <6> QED
            BY <3>1, <4>4, <5>1, <6>1
        <5>2. CASE k = Len(completed) + 1
          BY <3>1, <4>2, <4>4, <5>2
        <5> QED
          BY <4>4, <5>1, <5>2
      <4>6. \A k \in 1 .. Len(bars) : bars[k].day <= day'
        <5> SUFFICES ASSUME NEW k \in 1 .. Len(bars) PROVE bars[k].day <= day'
          OBVIOUS
        <5>1. bars[k].day \in Int /\ bars[k].day <= day
          BY BarTypes DEF SignalsInv
        <5> QED
          BY <3>1, <5>1
      <4>7. DaysOK(completed') /\ BarsOK(bars') /\ day' \in Nat /\ withToday' \in BOOLEAN
        BY <3>1, <4>4, <4>5 DEF SignalsInv, DaysOK
      <4> QED
        BY <3>1, <4>5, <4>6, <4>7 DEF SignalsInv
    <3>3. CASE ~ \E k \in DOMAIN bars : bars[k].day = day
      <4>1. completed' = completed
        BY <3>1, <3>3 DEF DayBars, SignalsInv, DaysOK
      <4>2. \A k \in 1 .. Len(bars) : bars[k].day <= day'
        <5> SUFFICES ASSUME NEW k \in 1 .. Len(bars) PROVE bars[k].day <= day'
          OBVIOUS
        <5>1. bars[k].day \in Int /\ bars[k].day <= day
          BY BarTypes DEF SignalsInv
        <5> QED
          BY <3>1, <5>1
      <4>3. \A k \in 1 .. Len(completed) : completed[k].day < day'
        <5> SUFFICES ASSUME NEW k \in 1 .. Len(completed) PROVE completed[k].day < day'
          OBVIOUS
        <5>1. completed[k].day \in Int /\ completed[k].day < day
          BY DayTypes DEF SignalsInv
        <5> QED
          BY <3>1, <5>1
      <4> QED
        BY <3>1, <4>1, <4>2, <4>3 DEF SignalsInv, BarsOK, DaysOK
    <3> QED
      BY <3>2, <3>3
  <2>3. CASE UNCHANGED signalVars
    BY <2>3 DEF signalVars, SignalsInv, BarsOK, DaysOK
  <2> QED
    BY <2>1, <2>2, <2>3 DEF SignalsNext
<1> QED
  BY <1>1, <1>2, PTL DEF SignalsSpec

(* The daily series: the completed days, and today's bar when the series    *)
(* has it and the symbol traded.  The days before today are the completed   *)
(* ones either way.                                                         *)
LEMMA TheDays ==
    ASSUME NEW done, DaysOK(done), NEW d \in Int, \A k \in 1 .. Len(done) : done[k].day < d,
           NEW s, BarsOK(s)
    PROVE  /\ DaysOK(DailyOf(s, done, d))
           /\ Len(DailyOf(s, done, d))
                = Len(done) + (IF withToday /\ (\E k \in 1 .. Len(s) : s[k].day = d) THEN 1 ELSE 0)
           /\ \A k \in 1 .. Len(done) : DailyOf(s, done, d)[k] = done[k]
           /\ DaysBefore(DailyOf(s, done, d), d) = done
<1>1. done \in Seq(Daily) /\ DOMAIN done = 1 .. Len(done) /\ Len(done) \in Nat
  BY DEF DaysOK
<1>2. \A k \in 1 .. Len(done) : done[k].day \in Int
  BY DayTypes
<1>3. DOMAIN s = 1 .. Len(s)
  BY BarTypes
<1>4. Cardinality(1 .. Len(done)) = Len(done)
  <2>1. PICK n \in Nat : n = Len(done)
    BY <1>1
  <2>2. Cardinality(1 .. n) = IF 1 > n THEN 0 ELSE n - 1 + 1
    BY FS_Interval
  <2> QED
    BY <2>1, <2>2
<1>5. CASE withToday /\ (\E k \in 1 .. Len(s) : s[k].day = d)
  <2>1. PICK b : b = DayBar(s, d)
    OBVIOUS
  <2>2. b \in Daily /\ SoundBar(b) /\ b.day = d
    BY <1>5, <2>1, DayBarIsSound
  <2>3. PICK e : e = DailyOf(s, done, d)
    OBVIOUS
  <2>4. e = done \o <<b>> /\ <<b>> \in Seq(Daily)
    BY <1>3, <1>5, <2>1, <2>2, <2>3 DEF DailyOf, DayBars
  <2>5. /\ e \in Seq(Daily) /\ Len(e) = Len(done) + 1 /\ e[Len(done) + 1] = b
        /\ \A k \in 1 .. Len(done) : e[k] = done[k]
        /\ DOMAIN e = 1 .. Len(done) + 1
    BY <1>1, <2>2, <2>4
  <2>6. DaysOK(e)
    <3> SUFFICES ASSUME NEW k \in 1 .. Len(e) PROVE SoundBar(e[k])
      BY <2>5 DEF DaysOK
    <3>1. CASE k \in 1 .. Len(done)
      BY <2>5, <3>1 DEF DaysOK
    <3>2. CASE k = Len(done) + 1
      BY <2>2, <2>5, <3>2
    <3> QED
      BY <1>1, <2>5, <3>1, <3>2
  <2>7. {k \in DOMAIN e : e[k].day < d} = 1 .. Len(done)
    <3>1. ~ (e[Len(done) + 1].day < d)
      BY <2>2, <2>5
    <3>2. \A k \in 1 .. Len(done) : k \in DOMAIN e /\ e[k].day < d
      BY <1>1, <2>5
    <3>3. \A k \in DOMAIN e : k \in 1 .. Len(done) \/ k = Len(done) + 1
      BY <1>1, <2>5
    <3> QED
      BY <3>1, <3>2, <3>3
  <2>8. SubSeq(e, 1, Len(done)) = done
    BY <1>1, <2>5
  <2>9. DaysBefore(e, d) = done
    BY <1>4, <2>7, <2>8 DEF DaysBefore
  <2> QED
    BY <1>5, <2>3, <2>5, <2>6, <2>9
<1>6. CASE ~ (withToday /\ (\E k \in 1 .. Len(s) : s[k].day = d))
  <2>1. DailyOf(s, done, d) = done
    <3>1. done \o <<>> = done
      BY <1>1
    <3>2. (IF withToday THEN DayBars(s, d) ELSE <<>>) = <<>>
      BY <1>3, <1>6 DEF DayBars
    <3> QED
      BY <3>1, <3>2 DEF DailyOf
  <2>2. {k \in DOMAIN done : done[k].day < d} = 1 .. Len(done)
    BY <1>1
  <2>3. SubSeq(done, 1, Len(done)) = done
    BY <1>1
  <2>4. DaysBefore(done, d) = done
    BY <1>4, <2>2, <2>3 DEF DaysBefore
  <2>5. Len(done) = Len(done) + (IF withToday /\ (\E k \in 1 .. Len(s) : s[k].day = d) THEN 1 ELSE 0)
    <3>1. PICK x : x = IF withToday /\ (\E k \in 1 .. Len(s) : s[k].day = d) THEN 1 ELSE 0
      OBVIOUS
    <3>2. x = 0
      BY <1>6, <3>1, Zenon
    <3>3. Len(done) = Len(done) + x
      BY <1>1, <3>2
    <3> QED
      BY <3>1, <3>3, Zenon
  <2>6. DaysOK(done) /\ \A k \in 1 .. Len(done) : done[k] = done[k]
    OBVIOUS
  <2> HIDE DEF DailyOf
  <2> QED
    BY <2>1, <2>4, <2>5, <2>6, Zenon
<1> QED
  BY <1>5, <1>6

(* A later bar of the day leaves alone what was said of bar i.              *)
LEMMA LaterBarsKeepSignals ==
    ASSUME EntrySignalsAssumption, SignalsInv, NextBar, BarsOK(bars')
    PROVE  StepKeepsSignals
<1> SUFFICES ASSUME NEW i \in DOMAIN bars, bars[i].day = day
             PROVE  /\ \A name \in Longs :
                         Orders(Long(name, bars', DailyOf(bars', completed', day'), i))
                           = Orders(LongAt(name, i))
                    /\ \A name \in Bears :
                         Levels(Bear(name, bars', DailyOf(bars', completed', day'), i))
                           = Levels(BearAt(name, i))
                    /\ Levels(Call(bars', DailyOf(bars', completed', day'), i))
                         = Levels(Call(bars, DailyOf(bars, completed, day), i))
  BY DEF StepKeepsSignals
<1>1. /\ completed' = completed /\ day' = day /\ bars \in Seq(Bar)
      /\ \E b : bars' = Append(bars, b)
  BY DEF NextBar, SignalsInv, BarsOK
<1>2. /\ Len(bars) \in Nat /\ i \in 1 .. Len(bars) /\ Len(bars') = Len(bars) + 1
      /\ \A k \in 1 .. Len(bars) : bars'[k] = bars[k]
  BY <1>1
<1>3. PICK t : t = bars'
  OBVIOUS
<1>4. PICK d : d = DailyOf(bars, completed, day)
  OBVIOUS
<1>5. PICK e : e = DailyOf(t, completed, day)
  OBVIOUS
<1>6. /\ DaysOK(completed) /\ day \in Int /\ BarsOK(bars) /\ BarsOK(t)
      /\ \A k \in 1 .. Len(completed) : completed[k].day < day
  BY <1>3 DEF SignalsInv
<1>7. i \in Nat \ {0} /\ SameBars(bars, t, i)
  BY <1>2, <1>3 DEF SameBars
<1>8. /\ \E k \in 1 .. Len(bars) : bars[k].day = day
      /\ \E k \in 1 .. Len(t) : t[k].day = day
  BY <1>2, <1>3
<1>9. /\ Len(d) = Len(completed) + (IF withToday THEN 1 ELSE 0) /\ Len(e) = Len(d)
      /\ \A k \in 1 .. Len(completed) : d[k] = completed[k] /\ e[k] = completed[k]
      /\ DaysBefore(d, day) = completed /\ DaysBefore(e, day) = completed
  <2>1. /\ Len(d) = Len(completed) + (IF withToday THEN 1 ELSE 0)
        /\ \A k \in 1 .. Len(completed) : d[k] = completed[k]
        /\ DaysBefore(d, day) = completed
    BY <1>4, <1>6, <1>8, TheDays
  <2>2. /\ Len(e) = Len(completed) + (IF withToday THEN 1 ELSE 0)
        /\ \A k \in 1 .. Len(completed) : e[k] = completed[k]
        /\ DaysBefore(e, day) = completed
    BY <1>5, <1>6, <1>8, TheDays
  <2> QED
    BY <2>1, <2>2
<1>10. SameDays(d, e)
  <2>1. Len(completed) \in Nat
    BY <1>6, DayTypes
  <2>2. Len(d) \in Nat /\ \A k \in 1 .. Len(d) - 1 : k \in 1 .. Len(completed)
    BY <1>9, <2>1
  <2> QED
    BY <1>9, <2>2 DEF SameDays
<1>11. Alike(bars, t, d, e, i)
  BY <1>7, <1>9, <1>10 DEF Alike
<1>12. /\ \A name \in Longs : Orders(Long(name, t, e, i)) = Orders(Long(name, bars, d, i))
       /\ \A name \in Bears : Levels(Bear(name, t, e, i)) = Levels(Bear(name, bars, d, i))
       /\ Levels(Call(t, e, i)) = Levels(Call(bars, d, i))
  BY <1>11, LongAgrees, BearAgrees, CallAgrees
<1> QED
  BY <1>1, <1>3, <1>4, <1>5, <1>12 DEF LongAt, BearAt

(* What a strategy says of a bar of the day, that it signals and at which   *)
(* prices, does not change when later bars of the day come in: no           *)
(* evaluator, of any of the 22 strategies or of the calls, reads beyond the *)
(* bar it judges, nor today's bar in progress.                              *)
THEOREM SignalsNeverChange ==
    ASSUME EntrySignalsAssumption
    PROVE  SignalsSpec => SignalsStand
<1>1. SignalsInv /\ SignalsInv' /\ [SignalsNext]_signalVars => [StepKeepsSignals]_signalVars
  <2> SUFFICES ASSUME SignalsInv, SignalsInv', SignalsNext
               PROVE  StepKeepsSignals
    OBVIOUS
  <2>1. CASE NextBar
    BY <2>1, LaterBarsKeepSignals DEF SignalsInv
  <2>2. CASE NextDay
    <3>1. day' = day + 1 /\ day \in Nat
      BY <2>2 DEF NextDay, SignalsInv
    <3> QED
      BY <3>1 DEF StepKeepsSignals
  <2> QED
    BY <2>1, <2>2 DEF SignalsNext
<1>2. SignalsSpec => []SignalsInv
  BY SignalsInvHolds
<1>3. SignalsSpec => [][SignalsNext]_signalVars
  BY PTL DEF SignalsSpec
<1> QED
  BY <1>1, <1>2, <1>3, PTL DEF SignalsStand


(***************************************************************************)
(* Recursions over a range of numbers.                                     *)
(***************************************************************************)
Follows(f, m, n, base, step) ==
    \A k \in m .. n : f[k] = IF k = m THEN base ELSE step[<<k, f[k - 1]>>]

LEMMA RecursionExists ==
    ASSUME NEW m \in Nat, NEW n \in Nat, m <= n, NEW base \in Int,
           NEW step, \A k \in (m + 1) .. n, v \in Int : step[<<k, v>>] \in Int
    PROVE  \E f \in [m .. n -> Int] : Follows(f, m, n, base, step)
<1> DEFINE Bad == {j \in m .. n : ~ \E f \in [m .. j -> Int] : Follows(f, m, j, base, step)}
<1>1. ASSUME Bad # {} PROVE FALSE
  <2>1. PICK j \in Bad : \A i \in Bad : j <= i
    <3>1. Bad \in SUBSET Nat
      OBVIOUS
    <3> HIDE DEF Bad
    <3> QED
      BY <1>1, <3>1, MinIsLeast
  <2>2. CASE j = m
    <3>1. [k \in m .. j |-> base] \in [m .. j -> Int]
      OBVIOUS
    <3>2. Follows([k \in m .. j |-> base], m, j, base, step)
      BY <2>2 DEF Follows
    <3> QED
      BY <2>1, <3>1, <3>2
  <2>3. CASE j # m
    <3>1. j - 1 \in m .. n /\ j - 1 \notin Bad /\ j \in (m + 1) .. n
      BY <2>1, <2>3
    <3>2. PICK f \in [m .. (j - 1) -> Int] : Follows(f, m, j - 1, base, step)
      BY <3>1
    <3>3. f[j - 1] \in Int /\ step[<<j, f[j - 1]>>] \in Int
      BY <3>1
    <3>4. PICK x \in Int : x = step[<<j, f[j - 1]>>]
      BY <3>3
    <3> DEFINE g == [k \in m .. j |-> IF k = j THEN x ELSE f[k]]
    <3>5. \A k \in m .. j : k = j \/ k \in m .. (j - 1)
      BY <3>1
    <3>6. g \in [m .. j -> Int]
      BY <3>5
    <3>7. Follows(g, m, j, base, step)
      <4> SUFFICES ASSUME NEW k \in m .. j
                   PROVE  g[k] = IF k = m THEN base ELSE step[<<k, g[k - 1]>>]
        BY DEF Follows
      <4>1. CASE k = j
        <5>1. g[j] = x /\ g[j - 1] = f[j - 1] /\ j # m
          BY <2>3, <3>1
        <5> HIDE DEF g
        <5> QED
          BY <3>4, <4>1, <5>1
      <4>2. CASE k # j
        <5>1. k \in m .. (j - 1) /\ g[k] = f[k]
          BY <3>5, <4>2
        <5>2. k # m => g[k - 1] = f[k - 1]
          BY <5>1
        <5> QED
          BY <3>2, <5>1, <5>2 DEF Follows
      <4> QED
        BY <4>1, <4>2
    <3> QED
      BY <2>1, <3>6, <3>7
  <2> QED
    BY <2>2, <2>3
<1> QED
  BY <1>1

LEMMA RecursionsAgree ==
    ASSUME NEW m \in Nat, NEW n \in Nat, NEW p \in Nat, m <= p, p <= n, NEW base, NEW step,
           NEW f, NEW g, Follows(f, m, n, base, step), Follows(g, m, p, base, step)
    PROVE  \A k \in m .. p : f[k] = g[k]
<1> DEFINE Bad == {k \in m .. p : f[k] # g[k]}
<1>1. ASSUME Bad # {} PROVE FALSE
  <2>1. PICK j \in Bad : \A i \in Bad : j <= i
    <3>1. Bad \in SUBSET Nat
      OBVIOUS
    <3> HIDE DEF Bad
    <3> QED
      BY <1>1, <3>1, MinIsLeast
  <2>2. CASE j = m
    <3>1. m \in m .. n /\ m \in m .. p
      OBVIOUS
    <3>2. f[m] = base /\ g[m] = base
      BY <3>1 DEF Follows
    <3> QED
      BY <2>1, <2>2, <3>2
  <2>3. CASE j # m
    <3>1. j - 1 \in m .. p /\ j - 1 \notin Bad
      BY <2>1, <2>3
    <3>2. f[j - 1] = g[j - 1]
      BY <3>1
    <3>3. f[j] = step[<<j, f[j - 1]>>] /\ g[j] = step[<<j, g[j - 1]>>]
      BY <2>1, <2>3 DEF Follows
    <3> QED
      BY <2>1, <3>2, <3>3
  <2> QED
    BY <2>2, <2>3
<1> QED
  BY <1>1

(* The powers of EmaPeriod + 1.                                             *)
LEMMA PowerGrows ==
    ASSUME EntrySignalsAssumption
    PROVE  /\ Power(0) = 1
           /\ \A n \in Nat : Power(n) \in Nat \ {0}
           /\ \A n \in Nat : Power(n + 1) = (EmaPeriod + 1) * Power(n)
<1>1. PICK c \in Nat \ {0} : c = EmaPeriod + 1
  BY SignalBounds
<1> DEFINE IsPower(f, n) == f = [k \in 0 .. n |-> IF k = 0 THEN 1 ELSE c * f[k - 1]]
           step == [kv \in Nat \X Int |-> c * kv[2]]
<1>2. \A k \in Nat, v \in Int : step[<<k, v>>] = c * v /\ step[<<k, v>>] \in Int
  OBVIOUS
<1> HIDE DEF step
<1>3. ASSUME NEW n \in Nat
      PROVE  \E f \in [0 .. n -> Int] : Follows(f, 0, n, 1, step) /\ f[n] = Power(n)
  <2>1. PICK f \in [0 .. n -> Int] : Follows(f, 0, n, 1, step)
    <3>1. \A k \in (0 + 1) .. n, v \in Int : step[<<k, v>>] \in Int
      <4>1. \A k \in (0 + 1) .. n : k \in Nat
        OBVIOUS
      <4> QED
        BY <1>2, <4>1
    <3>2. 0 \in Nat /\ 0 <= n /\ 1 \in Int
      OBVIOUS
    <3> QED
      BY <3>1, <3>2, RecursionExists
  <2>2. IsPower(f, n)
    <3>1. \A k \in 0 .. n : f[k] = IF k = 0 THEN 1 ELSE c * f[k - 1]
      <4> SUFFICES ASSUME NEW k \in 0 .. n PROVE f[k] = IF k = 0 THEN 1 ELSE c * f[k - 1]
        OBVIOUS
      <4>1. k # 0 => f[k - 1] \in Int /\ step[<<k, f[k - 1]>>] = c * f[k - 1]
        BY <1>2
      <4> QED
        BY <2>1, <4>1 DEF Follows
    <3> QED
      BY <3>1
  <2>3. PICK g : g = CHOOSE power : IsPower(power, n)
    OBVIOUS
  <2>4. Power(n) = g[n]
    BY <1>1, <2>3 DEF Power
  <2>5. IsPower(g, n)
    BY <2>2, <2>3, Zenon
  <2>6. \A k \in 0 .. n : g[k] = f[k]
    <3> DEFINE Bad == {k \in 0 .. n : g[k] # f[k]}
    <3>1. ASSUME Bad # {} PROVE FALSE
      <4>1. PICK j \in Bad : \A i \in Bad : j <= i
        <5>1. Bad \in SUBSET Nat
          OBVIOUS
        <5> HIDE DEF Bad
        <5> QED
          BY <3>1, <5>1, MinIsLeast
      <4>2. j # 0 => j - 1 \in 0 .. n /\ g[j - 1] = f[j - 1]
        BY <4>1
      <4> QED
        BY <2>2, <2>5, <4>1, <4>2
    <3> QED
      BY <3>1
  <2> QED
    BY <2>1, <2>4, <2>6
<1>4. Power(0) = 1
  <2>1. PICK f \in [0 .. 0 -> Int] : Follows(f, 0, 0, 1, step) /\ f[0] = Power(0)
    BY <1>3
  <2> QED
    BY <2>1 DEF Follows
<1>5. ASSUME NEW n \in Nat PROVE Power(n) \in Int /\ Power(n + 1) = c * Power(n)
  <2>1. PICK f \in [0 .. n -> Int] : Follows(f, 0, n, 1, step) /\ f[n] = Power(n)
    BY <1>3
  <2>2. PICK g \in [0 .. (n + 1) -> Int] : Follows(g, 0, n + 1, 1, step) /\ g[n + 1] = Power(n + 1)
    <3>1. n + 1 \in Nat
      OBVIOUS
    <3> QED
      BY <1>3, <3>1
  <2>3. g[n] = f[n]
    <3>1. \A k \in 0 .. n : g[k] = f[k]
      <4>1. PICK q \in Nat : q = n + 1 /\ n <= q
        OBVIOUS
      <4>2. PICK z \in Nat : z = 0 /\ z <= n
        OBVIOUS
      <4>3. PICK o : o = 1
        OBVIOUS
      <4>4. Follows(f, z, n, o, step) /\ Follows(g, z, q, o, step)
        BY <2>1, <2>2, <4>1, <4>2, <4>3
      <4>5. \A k \in z .. n : g[k] = f[k]
        BY <4>1, <4>2, <4>4, RecursionsAgree
      <4> QED
        BY <4>2, <4>5
    <3> QED
      BY <3>1
  <2>4. g[n + 1] = step[<<n + 1, g[n]>>]
    <3>1. n + 1 \in 0 .. (n + 1) /\ n + 1 # 0 /\ (n + 1) - 1 = n
      OBVIOUS
    <3> QED
      BY <2>2, <3>1 DEF Follows
  <2>5. step[<<n + 1, g[n]>>] = c * g[n] /\ f[n] \in Int
    BY <1>2, <2>2, <2>1
  <2> QED
    BY <2>1, <2>2, <2>3, <2>4, <2>5
<1>6. \A n \in Nat : Power(n) \in Nat \ {0}
  <2> DEFINE Bad == {n \in Nat : Power(n) \notin Nat \ {0}}
  <2>1. ASSUME Bad # {} PROVE FALSE
    <3>1. PICK j \in Bad : \A i \in Bad : j <= i
      <4>1. Bad \in SUBSET Nat
        OBVIOUS
      <4> HIDE DEF Bad
      <4> QED
        BY <2>1, <4>1, MinIsLeast
    <3>2. CASE j = 0
      BY <1>4, <3>1, <3>2
    <3>3. CASE j # 0
      <4>1. PICK i \in Nat : j = i + 1
        <5>1. j - 1 \in Nat /\ j = (j - 1) + 1
          BY <3>3
        <5> QED
          BY <5>1
      <4>2. Power(i) \in Nat \ {0}
        BY <3>1, <4>1
      <4>3. Power(j) = c * Power(i)
        BY <1>5, <4>1
      <4>4. PICK p \in Nat \ {0} : p = Power(i)
        BY <4>2
      <4>5. c * p \in Nat \ {0}
        BY <1>1
      <4> QED
        BY <3>1, <4>3, <4>4, <4>5
    <3> QED
      BY <3>2, <3>3
  <2> QED
    BY <2>1
<1> QED
  BY <1>1, <1>4, <1>5, <1>6


(* One bar of the moving average: the average at bar i from the one at the  *)
(* bar before.                                                              *)
LEMMA EmaStep ==
    ASSUME EntrySignalsAssumption, NEW s, NEW i \in Nat, i >= 2,
           \A k \in 1 .. i : s[k].close \in Nat
    PROVE  /\ Ema(s, i) \in Int /\ Ema(s, i - 1) \in Int
           /\ Ema(s, i) = 2 * s[i].close * Power(i - 2) + (EmaPeriod - 1) * Ema(s, i - 1)
<1>1. PICK c \in Nat : c = EmaPeriod - 1
  BY SignalBounds
<1>2. \A n \in Nat : Power(n) \in Nat
  BY PowerGrows
<1> DEFINE succ(k, v) == 2 * s[k].close * Power(k - 2) + c * v
           IsEma(f, n) == f = [k \in 1 .. n |-> IF k = 1 THEN s[1].close ELSE succ(k, f[k - 1])]
           step == [kv \in (2 .. i) \X Int |-> succ(kv[1], kv[2])]
<1>3. \A k \in 2 .. i, v \in Int : succ(k, v) \in Int /\ step[<<k, v>>] = succ(k, v)
  <2> SUFFICES ASSUME NEW k \in 2 .. i, NEW v \in Int PROVE succ(k, v) \in Int
    OBVIOUS
  <2>1. PICK a \in Nat : a = s[k].close
    OBVIOUS
  <2>2. PICK p \in Nat : p = Power(k - 2)
    <3>1. k - 2 \in Nat
      OBVIOUS
    <3> QED
      BY <1>2, <3>1
  <2>3. 2 * a * p + c * v \in Int
    OBVIOUS
  <2> QED
    BY <2>1, <2>2, <2>3
<1> HIDE DEF step
<1>4. ASSUME NEW n \in 1 .. i
      PROVE  \E f \in [1 .. n -> Int] : Follows(f, 1, n, s[1].close, step) /\ f[n] = Ema(s, n)
  <2>1. PICK f \in [1 .. n -> Int] : Follows(f, 1, n, s[1].close, step)
    <3>1. \A k \in (1 + 1) .. n, v \in Int : step[<<k, v>>] \in Int
      <4>1. \A k \in (1 + 1) .. n : k \in 2 .. i
        OBVIOUS
      <4> HIDE DEF succ
      <4> QED
        BY <1>3, <4>1
    <3>2. 1 \in Nat /\ n \in Nat /\ 1 <= n /\ s[1].close \in Int
      OBVIOUS
    <3> QED
      BY <3>1, <3>2, RecursionExists
  <2>2. IsEma(f, n)
    <3>1. \A k \in 1 .. n : f[k] = IF k = 1 THEN s[1].close ELSE succ(k, f[k - 1])
      <4> SUFFICES ASSUME NEW k \in 1 .. n
                   PROVE  f[k] = IF k = 1 THEN s[1].close ELSE succ(k, f[k - 1])
        OBVIOUS
      <4>1. k # 1 => f[k - 1] \in Int /\ k \in 2 .. i
        OBVIOUS
      <4>2. k # 1 => step[<<k, f[k - 1]>>] = succ(k, f[k - 1])
        BY <1>3, <4>1
      <4> HIDE DEF succ
      <4> QED
        BY <2>1, <4>2 DEF Follows
    <3> HIDE DEF succ
    <3> QED
      BY <3>1
  <2>3. PICK close : close = [k \in 1 .. n |-> s[k].close]
    OBVIOUS
  <2>4. PICK g : g = CHOOSE ema : ema = [k \in 1 .. n |->
                       IF k = 1 THEN close[1]
                       ELSE 2 * close[k] * Power(k - 2) + (EmaPeriod - 1) * ema[k - 1]]
    OBVIOUS
  <2>5. Ema(s, n) = g[n]
    BY <2>3, <2>4 DEF Ema, EmaOf
  <2>6. \A k \in 1 .. n : close[k] = s[k].close
    BY <2>3
  <2>7. 1 \in 1 .. n
    OBVIOUS
  <2>8. ASSUME NEW h
        PROVE  [k \in 1 .. n |-> IF k = 1 THEN close[1]
                                 ELSE 2 * close[k] * Power(k - 2) + (EmaPeriod - 1) * h[k - 1]]
                 = [k \in 1 .. n |-> IF k = 1 THEN s[1].close ELSE succ(k, h[k - 1])]
    BY <1>1, <2>6, <2>7, Zenon
  <2>9. f = [k \in 1 .. n |-> IF k = 1 THEN close[1]
                              ELSE 2 * close[k] * Power(k - 2) + (EmaPeriod - 1) * f[k - 1]]
    BY <2>2, <2>8, Zenon
  <2>10. IsEma(g, n)
    <3>1. g = [k \in 1 .. n |-> IF k = 1 THEN close[1]
                                ELSE 2 * close[k] * Power(k - 2) + (EmaPeriod - 1) * g[k - 1]]
      BY <2>4, <2>9, Zenon
    <3> QED
      BY <2>8, <3>1, Zenon
  <2>11. \A k \in 1 .. n : g[k] = f[k]
    <3> DEFINE Bad == {k \in 1 .. n : g[k] # f[k]}
    <3>1. ASSUME Bad # {} PROVE FALSE
      <4>1. PICK j \in Bad : \A m \in Bad : j <= m
        <5>1. Bad \in SUBSET Nat
          OBVIOUS
        <5> HIDE DEF Bad
        <5> QED
          BY <3>1, <5>1, MinIsLeast
      <4>2. j # 1 => g[j - 1] = f[j - 1]
        BY <4>1
      <4>3. /\ g[j] = IF j = 1 THEN s[1].close ELSE succ(j, g[j - 1])
            /\ f[j] = IF j = 1 THEN s[1].close ELSE succ(j, f[j - 1])
        BY <2>2, <2>10, <4>1
      <4> HIDE DEF succ
      <4> QED
        BY <4>1, <4>2, <4>3
    <3> QED
      BY <3>1
  <2> QED
    BY <2>1, <2>5, <2>11
<1>5. PICK f \in [1 .. i -> Int] : Follows(f, 1, i, s[1].close, step) /\ f[i] = Ema(s, i)
  <2>1. i \in 1 .. i
    OBVIOUS
  <2> QED
    BY <1>4, <2>1
<1>6. PICK m \in Nat : m = i - 1 /\ m \in 1 .. i /\ 1 <= m /\ m <= i
  OBVIOUS
<1>7. PICK g \in [1 .. m -> Int] : Follows(g, 1, m, s[1].close, step) /\ g[m] = Ema(s, m)
  BY <1>4, <1>6
<1>8. f[m] = g[m]
  <2>1. PICK o \in Nat : o = 1 /\ o <= m
    BY <1>6
  <2>2. PICK b : b = s[1].close
    OBVIOUS
  <2>3. Follows(f, o, i, b, step) /\ Follows(g, o, m, b, step)
    BY <1>5, <1>7, <2>1, <2>2
  <2>4. \A k \in o .. m : f[k] = g[k]
    BY <1>6, <2>1, <2>3, RecursionsAgree
  <2> QED
    BY <1>6, <2>1, <2>4
<1>9. f[i] = step[<<i, f[m]>>]
  BY <1>5, <1>6 DEF Follows
<1>10. f[m] \in Int /\ f[i] \in Int /\ i \in 2 .. i
  BY <1>5, <1>6
<1>11. step[<<i, f[m]>>] = succ(i, f[m])
  BY <1>3, <1>10
<1>12. Ema(s, i) = succ(i, Ema(s, m))
  BY <1>5, <1>7, <1>8, <1>9, <1>11, Zenon
<1>13. Ema(s, i - 1) = f[m]
  BY <1>6, <1>7, <1>8
<1> QED
  BY <1>1, <1>5, <1>6, <1>10, <1>12, <1>13

(* A close that crosses the average from below lies above the close before. *)
LEMMA CrossRises ==
    ASSUME EntrySignalsAssumption, NEW s, NEW i \in Nat, i >= 2,
           \A k \in 1 .. i : s[k].close \in Nat,
           s[i].close * Power(i - 1) > Ema(s, i),
           s[i - 1].close * Power(i - 2) <= Ema(s, i - 1)
    PROVE  s[i - 1].close < s[i].close
<1>1. PICK c \in Nat : c = EmaPeriod - 1
  BY SignalBounds
<1>2. i - 2 \in Nat /\ (i - 2) + 1 = i - 1 /\ i - 1 \in 1 .. i /\ i \in 1 .. i
  OBVIOUS
<1>3. PICK p \in Nat \ {0} : p = Power(i - 2)
  BY <1>2, PowerGrows
<1>4. Power(i - 1) = (c + 2) * p
  <2>1. c + 2 = EmaPeriod + 1
    BY <1>1, SignalBounds
  <2>2. Power((i - 2) + 1) = (EmaPeriod + 1) * Power(i - 2)
    BY <1>2, PowerGrows
  <2> QED
    BY <1>2, <1>3, <2>1, <2>2
<1>5. PICK x \in Nat : x = s[i].close
  BY <1>2
<1>6. PICK y \in Nat : y = s[i - 1].close
  BY <1>2
<1>7. PICK e \in Int : e = Ema(s, i - 1)
  BY EmaStep
<1>8. Ema(s, i) = 2 * x * p + c * e
  BY <1>1, <1>3, <1>5, <1>7, EmaStep
<1>9. x * ((c + 2) * p) > 2 * x * p + c * e /\ y * p <= e
  BY <1>3, <1>4, <1>5, <1>6, <1>7, <1>8
<1>10. c * (x * p) > c * e
  <2>1. x * ((c + 2) * p) = c * (x * p) + 2 * x * p
    OBVIOUS
  <2>2. PICK a \in Int : a = c * (x * p)
    OBVIOUS
  <2>3. PICK b \in Int : b = 2 * x * p
    OBVIOUS
  <2>4. PICK d \in Int : d = c * e
    OBVIOUS
  <2>5. a + b > b + d
    BY <1>9, <2>1, <2>2, <2>3, <2>4
  <2>6. a > d
    BY <2>5
  <2> QED
    BY <2>2, <2>4, <2>6
<1>11. ASSUME x <= y PROVE FALSE
  <2>1. PICK d \in Nat : y = x + d
    <3>1. y - x \in Nat /\ y = x + (y - x)
      BY <1>11
    <3> QED
      BY <3>1
  <2>2. y * p = x * p + d * p /\ d * p \in Nat
    BY <2>1
  <2>3. PICK a \in Int : a = x * p
    OBVIOUS
  <2>4. a <= e
    BY <1>9, <2>2, <2>3
  <2>5. PICK u \in Nat : e = a + u
    <3>1. e - a \in Nat /\ e = a + (e - a)
      BY <2>4
    <3> QED
      BY <3>1
  <2>6. c * e = c * a + c * u /\ c * u \in Nat
    BY <2>5
  <2>7. PICK v \in Int : v = c * a
    OBVIOUS
  <2> QED
    BY <1>10, <2>3, <2>6, <2>7
<1> QED
  BY <1>5, <1>6, <1>11

(***************************************************************************)
(* The range of the days, the trend, and the days before one.              *)
(***************************************************************************)
LEMMA TrueRangeIsInt ==
    ASSUME NEW d, DaysOK(d), NEW k \in 2 .. Len(d)
    PROVE  TrueRange(d, k) \in Int
<1>1. k \in 1 .. Len(d) /\ k - 1 \in 1 .. Len(d)
  BY DayTypes
<1>2. PICK h \in Nat, l \in Nat, c \in Nat : h = d[k].high /\ l = d[k].low /\ c = d[k - 1].close
  BY <1>1, DayTypes
<1>3. PICK x \in Int, y \in Int, z \in Int : x = h - l /\ y = h - c /\ z = c - l
  OBVIOUS
<1>4. \E m \in {x, y, z} : \A n \in {x, y, z} : m >= n
  OBVIOUS
<1>5. Max({x, y, z}) \in {x, y, z}
  BY <1>4 DEF Max
<1>6. TrueRange(d, k) = Max({x, y, z})
  BY <1>2, <1>3 DEF TrueRange
<1> QED
  BY <1>5, <1>6

LEMMA AtrIsInt ==
    ASSUME EntrySignalsAssumption, NEW d, DaysOK(d), AtrKnown(d)
    PROVE  Atr(d) \in Int
<1>1. PICK q \in Nat \ {0} : q = AtrPeriod
  BY SignalBounds
<1>2. PICK n \in Nat : n = Len(d)
  BY DayTypes
<1>3. PICK m \in Nat : m = q + 1 /\ m <= n /\ 2 <= m
  BY <1>1, <1>2 DEF AtrKnown
<1>4. \A k \in 2 .. n : TrueRange(d, k) \in Int
  BY <1>2, TrueRangeIsInt
<1>5. TrueRanges(d) \in Int
  <2> DEFINE w == [k \in 2 .. m |-> TrueRange(d, k)]
  <2>1. \A k \in 2 .. m : w[k] \in Int
    BY <1>3, <1>4
  <2>2. TrueRanges(d) = SumFunctionOnSet(w, 2 .. m)
    BY <1>1, <1>3 DEF TrueRanges
  <2>3. IsFiniteSet(2 .. m)
    BY FS_Interval
  <2> HIDE DEF w
  <2> QED
    BY <2>1, <2>2, <2>3, SumIsInt
<1>6. PICK base \in Int : base = TrueRanges(d) \div q
  <2>1. TrueRanges(d) \div q \in Int
    BY <1>5
  <2> QED
    BY <2>1
<1> DEFINE succ(k, v) == (v * (q - 1) + TrueRange(d, k)) \div q
           IsAtr(f) == f = [k \in m .. n |-> IF k = m THEN base ELSE succ(k, f[k - 1])]
           step == [kv \in (m .. n) \X Int |-> succ(kv[1], kv[2])]
<1>7. \A k \in m .. n, v \in Int : succ(k, v) \in Int /\ step[<<k, v>>] = succ(k, v)
  <2> SUFFICES ASSUME NEW k \in m .. n, NEW v \in Int PROVE succ(k, v) \in Int
    OBVIOUS
  <2>1. PICK r \in Int : r = TrueRange(d, k)
    BY <1>3, <1>4
  <2>2. PICK x \in Int : x = v * (q - 1) + r
    OBVIOUS
  <2>3. x \div q \in Int
    OBVIOUS
  <2> QED
    BY <2>1, <2>2, <2>3
<1> HIDE DEF step
<1>8. PICK f \in [m .. n -> Int] : Follows(f, m, n, base, step)
  <2>1. \A k \in (m + 1) .. n, v \in Int : step[<<k, v>>] \in Int
    <3>1. \A k \in (m + 1) .. n : k \in m .. n
      OBVIOUS
    <3> HIDE DEF succ
    <3> QED
      BY <1>7, <3>1
  <2> QED
    BY <1>3, <2>1, RecursionExists
<1>9. IsAtr(f)
  <2>1. \A k \in m .. n : f[k] = IF k = m THEN base ELSE succ(k, f[k - 1])
    <3> SUFFICES ASSUME NEW k \in m .. n
                 PROVE  f[k] = IF k = m THEN base ELSE succ(k, f[k - 1])
      OBVIOUS
    <3>1. k # m => f[k - 1] \in Int
      OBVIOUS
    <3>2. k # m => step[<<k, f[k - 1]>>] = succ(k, f[k - 1])
      BY <1>7, <3>1
    <3> HIDE DEF succ
    <3> QED
      BY <1>8, <3>2 DEF Follows
  <2> HIDE DEF succ
  <2> QED
    BY <2>1
<1>10. PICK g : g = CHOOSE atr : atr = [k \in (AtrPeriod + 1) .. Len(d) |->
                      IF k = AtrPeriod + 1 THEN TrueRanges(d) \div AtrPeriod
                      ELSE (atr[k - 1] * (AtrPeriod - 1) + TrueRange(d, k)) \div AtrPeriod]
  OBVIOUS
<1>11. Atr(d) = g[n]
  BY <1>2, <1>10 DEF Atr
<1>12. IsAtr(g)
  <2>1. m = AtrPeriod + 1 /\ n = Len(d) /\ q = AtrPeriod
    BY <1>1, <1>2, <1>3
  <2>2. ASSUME NEW h
        PROVE  [k \in (AtrPeriod + 1) .. Len(d) |->
                  IF k = AtrPeriod + 1 THEN TrueRanges(d) \div AtrPeriod
                  ELSE (h[k - 1] * (AtrPeriod - 1) + TrueRange(d, k)) \div AtrPeriod]
               = [k \in m .. n |-> IF k = m THEN base ELSE succ(k, h[k - 1])]
    BY <1>6, <2>1, Zenon
  <2>3. f = [k \in (AtrPeriod + 1) .. Len(d) |->
               IF k = AtrPeriod + 1 THEN TrueRanges(d) \div AtrPeriod
               ELSE (f[k - 1] * (AtrPeriod - 1) + TrueRange(d, k)) \div AtrPeriod]
    BY <1>9, <2>2, Zenon
  <2>4. g = [k \in (AtrPeriod + 1) .. Len(d) |->
               IF k = AtrPeriod + 1 THEN TrueRanges(d) \div AtrPeriod
               ELSE (g[k - 1] * (AtrPeriod - 1) + TrueRange(d, k)) \div AtrPeriod]
    BY <1>10, <2>3, Zenon
  <2> QED
    BY <2>2, <2>4, Zenon
<1>13. \A k \in m .. n : g[k] \in Int
  <2> DEFINE Bad == {k \in m .. n : g[k] \notin Int}
  <2>1. ASSUME Bad # {} PROVE FALSE
    <3>1. PICK j \in Bad : \A k \in Bad : j <= k
      <4>1. Bad \in SUBSET Nat
        OBVIOUS
      <4> HIDE DEF Bad
      <4> QED
        BY <2>1, <4>1, MinIsLeast
    <3>2. j # m => g[j - 1] \in Int
      BY <3>1
    <3>3. g[j] = IF j = m THEN base ELSE succ(j, g[j - 1])
      BY <1>12, <3>1
    <3>4. j \in m .. n /\ g[j] \notin Int
      BY <3>1
    <3> HIDE DEF succ
    <3> QED
      BY <1>7, <3>2, <3>3, <3>4
  <2> QED
    BY <2>1
<1>14. n \in m .. n
  BY <1>3
<1> QED
  BY <1>11, <1>13, <1>14

(* No series of days is in an uptrend and in a downtrend.                   *)
LEMMA TrendsExclude ==
    ASSUME EntrySignalsAssumption, NEW d, DaysOK(d)
    PROVE  ~ (Uptrend(d) /\ Downtrend(d))
<1> SUFFICES ASSUME Uptrend(d), Downtrend(d) PROVE FALSE
  OBVIOUS
<1>1. PICK q \in Nat \ {0} : q = SmaPeriod
  BY SignalBounds
<1>2. PICK n \in Nat : n = Len(d) - 1 /\ n >= q
  <2>1. PICK n \in Nat : n = Len(d)
    BY DayTypes
  <2>2. n >= q + 1
    BY <1>1, <2>1 DEF Uptrend, SmaKnown
  <2>3. n - 1 \in Nat /\ n - 1 >= q
    BY <2>2
  <2> QED
    BY <2>1, <2>3
<1>3. SmaEnd(d) = n /\ SmaSum(d) = Closes(d, n - q + 1, n)
  BY <1>1, <1>2 DEF SmaEnd, SmaSum
<1>4. PICK a \in Int : a = n - q + 1
  OBVIOUS
<1>5. \A k \in a .. n : k \in 1 .. Len(d)
  BY <1>2, <1>4, DayTypes
<1>6. Closes(d, a, n) \in Int
  <2>1. \A k \in a .. n : d[k].close \in Nat /\ d[k].volume \in Nat
    BY <1>5, DayTypes
  <2>2. PICK b \in Int : b = n
    OBVIOUS
  <2>3. Closes(d, a, b) \in Int
    BY <2>1, <2>2, ClosesAndVolumes
  <2> QED
    BY <2>2, <2>3
<1>7. PICK c \in Nat : c = d[n].close
  <2>1. n \in 1 .. Len(d)
    BY <1>1, <1>2, DayTypes
  <2> QED
    BY <2>1, DayTypes
<1>8. PICK x \in Int : x = c * q
  OBVIOUS
<1>9. PICK y \in Int : y = SmaSum(d)
  BY <1>3, <1>4, <1>6
<1>10. x > y
  BY <1>1, <1>3, <1>7, <1>8, <1>9 DEF Uptrend
<1>11. x < y
  BY <1>1, <1>3, <1>7, <1>8, <1>9 DEF Downtrend
<1> QED
  BY <1>10, <1>11

LEMMA DaysBeforeAreSound ==
    ASSUME NEW d, DaysOK(d), NEW day0
    PROVE  DaysOK(DaysBefore(d, day0))
<1> DEFINE before == {k \in DOMAIN d : d[k].day < day0}
<1>1. DOMAIN d = 1 .. Len(d) /\ Len(d) \in Nat /\ d \in Seq(Daily)
  BY DayTypes DEF DaysOK
<1>2. PICK n \in Nat : n = Cardinality(before) /\ n <= Len(d)
  <2>1. IsFiniteSet(1 .. Len(d)) /\ Cardinality(1 .. Len(d)) = Len(d)
    <3>1. PICK m \in Nat : m = Len(d)
      BY <1>1
    <3>2. IsFiniteSet(1 .. m) /\ Cardinality(1 .. m) = IF 1 > m THEN 0 ELSE m - 1 + 1
      BY FS_Interval
    <3> QED
      BY <3>1, <3>2
  <2>2. before \in SUBSET (1 .. Len(d))
    BY <1>1
  <2> HIDE DEF before
  <2>3. IsFiniteSet(before) /\ Cardinality(before) <= Cardinality(1 .. Len(d))
    BY <2>1, <2>2, FS_Subset
  <2>4. Cardinality(before) \in Nat
    BY <2>3, FS_CardinalityType
  <2> QED
    BY <2>1, <2>3, <2>4
<1>3. DaysBefore(d, day0) = SubSeq(d, 1, n)
  BY <1>2 DEF DaysBefore
<1>4. PICK e : e = SubSeq(d, 1, n)
  OBVIOUS
<1>5. e \in Seq(Daily) /\ Len(e) = n /\ \A k \in 1 .. n : e[k] = d[k]
  <2>1. e = [k \in 1 .. n |-> d[k]]
    BY <1>1, <1>2, <1>4
  <2>2. \A k \in 1 .. n : e[k] = d[k] /\ d[k] \in Daily
    BY <1>1, <1>2, <2>1
  <2>3. e \in [1 .. n -> Daily]
    BY <2>1, <2>2
  <2>4. e \in Seq(Daily) /\ Len(e) = n
    BY <2>1, <2>3
  <2> QED
    BY <2>2, <2>4
<1>6. \A k \in 1 .. Len(e) : SoundBar(e[k])
  <2>1. \A k \in 1 .. n : k \in 1 .. Len(d)
    BY <1>1, <1>2
  <2> QED
    BY <1>5, <2>1 DEF DaysOK
<1> QED
  BY <1>3, <1>4, <1>5, <1>6 DEF DaysOK

(***************************************************************************)
(* The trigger and the anchor of each long strategy but the bull flag.     *)
(***************************************************************************)
SoundSetup(p) == p.anchor \in Nat /\ p.trigger \in Nat \ {0} /\ p.anchor <= p.trigger

Judged(s, d, i) ==
    EntrySignalsAssumption /\ BarsOK(s) /\ DaysOK(d) /\ i \in 1 .. Len(s)

(* The numbers of the bar that is judged.                                   *)
LEMMA JudgedBar ==
    ASSUME NEW s, NEW d, NEW i, Judged(s, d, i)
    PROVE  /\ i \in Nat \ {0} /\ Len(s) \in Nat /\ i <= Len(s)
           /\ s[i].high \in Nat \ {0} /\ s[i].low \in Nat \ {0} /\ s[i].close \in Nat
           /\ s[i].low <= s[i].close /\ s[i].close <= s[i].high
<1>1. BarsOK(s) /\ i \in 1 .. Len(s)
  BY DEF Judged
<1>2. /\ Len(s) \in Nat /\ s[i].high \in Nat /\ s[i].low \in Nat /\ s[i].close \in Nat
      /\ SoundBar(s[i])
  BY <1>1, BarTypes
<1> QED
  BY <1>1, <1>2 DEF SoundBar

(* The highest high and the lowest low of a part of the bars, or of the     *)
(* days.                                                                    *)
LEMMA LevelsOf ==
    ASSUME NEW s, NEW n \in Nat, NEW a \in Int, NEW b \in Int, 1 <= a, a <= b, b <= n,
           \A k \in 1 .. n : s[k].high \in Nat /\ s[k].low \in Nat /\ s[k].close \in Nat
                             /\ SoundBar(s[k])
    PROVE  /\ High(s, a, b) \in Nat \ {0} /\ Low(s, a, b) \in Nat \ {0}
           /\ Low(s, a, b) <= High(s, a, b)
<1>1. \A k \in a .. b : /\ s[k].high \in Nat /\ s[k].low \in Nat /\ s[k].close \in Nat
                        /\ 0 < s[k].low /\ s[k].low <= s[k].high
  <2> SUFFICES ASSUME NEW k \in a .. b
               PROVE  /\ s[k].high \in Nat /\ s[k].low \in Nat /\ s[k].close \in Nat
                      /\ 0 < s[k].low /\ s[k].low <= s[k].high
    OBVIOUS
  <2>1. k \in 1 .. n
    OBVIOUS
  <2>2. /\ s[k].high \in Nat /\ s[k].low \in Nat /\ s[k].close \in Nat /\ 0 < s[k].low
        /\ s[k].low <= s[k].close /\ s[k].close <= s[k].high
    BY <2>1 DEF SoundBar
  <2> QED
    BY <2>2
<1>2. PICK j \in a .. b : High(s, a, b) = s[j].high
  BY <1>1, HighIsHighest
<1>3. PICK k \in a .. b : Low(s, a, b) = s[k].low
  BY <1>1, LowIsLowest
<1>4. Low(s, a, b) <= s[j].low
  BY <1>1, LowIsLowest
<1> QED
  BY <1>1, <1>2, <1>3, <1>4

LEMMA BarLevels ==
    ASSUME NEW s, NEW d, NEW i, Judged(s, d, i), NEW a \in Int, NEW b \in Int,
           1 <= a, a <= b, b <= i
    PROVE  /\ High(s, a, b) \in Nat \ {0} /\ Low(s, a, b) \in Nat \ {0}
           /\ Low(s, a, b) <= High(s, a, b)
<1>1. PICK n \in Nat : n = Len(s) /\ b <= n
  BY JudgedBar
<1>2. \A k \in 1 .. n : s[k].high \in Nat /\ s[k].low \in Nat /\ s[k].close \in Nat
                        /\ SoundBar(s[k])
  BY <1>1, BarTypes DEF Judged
<1> QED
  BY <1>1, <1>2, LevelsOf

LEMMA DayLevels ==
    ASSUME NEW d, DaysOK(d), NEW a \in Int, NEW b \in Int, 1 <= a, a <= b, b <= Len(d)
    PROVE  High(d, a, b) \in Nat \ {0} /\ Low(d, a, b) \in Nat \ {0}
<1>1. PICK n \in Nat : n = Len(d)
  BY DayTypes
<1>2. \A k \in 1 .. n : d[k].high \in Nat /\ d[k].low \in Nat /\ d[k].close \in Nat
                        /\ SoundBar(d[k])
  BY <1>1, DayTypes
<1> QED
  BY <1>1, <1>2, LevelsOf

LEMMA BreakoutIsSound ==
    ASSUME NEW s, NEW d, NEW i, Judged(s, d, i), NEW p \in Breakout(s, d, i)
    PROVE  SoundSetup(p)
<1>1. PICK x : x = High(s, i - Lookback, i - 1)
  OBVIOUS
<1>2. i > Max({Lookback, VolumeLookback}) /\ p.trigger = x /\ p.anchor = x
  BY <1>1 DEF Breakout, Setup
<1>3. Lookback \in Nat \ {0} /\ VolumeLookback \in Nat \ {0}
  BY SignalBounds DEF Judged
<1>4. Max({Lookback, VolumeLookback}) \in Int /\ Max({Lookback, VolumeLookback}) >= Lookback
  <2>1. PICK u \in Int, v \in Int : u = Lookback /\ v = VolumeLookback
    BY <1>3
  <2>2. Max({u, v}) \in {u, v} /\ Max({u, v}) >= u
    BY MaxOfTwo
  <2> QED
    BY <2>1, <2>2
<1>5. PICK a \in Int, b \in Int : a = i - Lookback /\ b = i - 1 /\ 1 <= a /\ a <= b /\ b <= i
  <2>1. i \in Nat \ {0}
    BY JudgedBar
  <2>2. PICK m \in Int : m = Max({Lookback, VolumeLookback}) /\ m >= Lookback /\ i > m
    BY <1>2, <1>4
  <2>3. i > Lookback
    BY <1>3, <2>1, <2>2
  <2> QED
    BY <1>3, <2>1, <2>3
<1>6. High(s, a, b) \in Nat \ {0}
  BY <1>5, BarLevels
<1> QED
  BY <1>1, <1>2, <1>5, <1>6 DEF SoundSetup

LEMMA MomentumIsSound ==
    ASSUME NEW s, NEW d, NEW i, Judged(s, d, i), NEW p \in Momentum(s, d, i)
    PROVE  SoundSetup(p)
<1>1. PICK n \in Nat : n = Len(d)
  <2>1. DaysOK(d)
    BY DEF Judged
  <2> QED
    BY <2>1, DayTypes
<1>2. PICK x : x = High(d, n - HighDays + 1, n)
  OBVIOUS
<1>3. n >= HighDays /\ s[i].high > x /\ p.trigger = s[i].high /\ p.anchor = x
  BY <1>1, <1>2 DEF Momentum, Setup
<1>4. PICK a \in Int : a = n - HighDays + 1 /\ 1 <= a /\ a <= n
  BY <1>3, SignalBounds DEF Judged
<1>5. High(d, a, n) \in Nat \ {0}
  BY <1>1, <1>4, DayLevels DEF Judged
<1>6. x \in Nat /\ s[i].high \in Nat \ {0}
  BY <1>2, <1>4, <1>5, JudgedBar
<1> QED
  BY <1>3, <1>6 DEF SoundSetup

LEMMA OrbIsSound ==
    ASSUME NEW s, NEW d, NEW i, Judged(s, d, i), NEW p \in Orb(s, d, i)
    PROVE  SoundSetup(p)
<1>1. i \in Nat \ {0}
  BY JudgedBar
<1>2. PICK a \in 1 .. i : a = First(s, i)
  BY <1>1, FirstBar
<1>3. PICK b \in Int : b = a + OpeningBars - 1 /\ a <= b
  BY SignalBounds DEF Judged
<1>4. PICK x : x = High(s, a, b)
  OBVIOUS
<1>5. PICK y : y = Low(s, a, b)
  OBVIOUS
<1>6. i > b /\ s[i].high > x /\ p.trigger = s[i].high /\ p.anchor = y
  BY <1>2, <1>3, <1>4, <1>5 DEF Orb, Setup
<1>7. a \in Int /\ 1 <= a /\ b <= i
  BY <1>1, <1>6
<1>8. x \in Nat /\ y \in Nat /\ y <= x
  BY <1>3, <1>4, <1>5, <1>7, BarLevels
<1>9. PICK h \in Nat \ {0} : h = s[i].high
  BY JudgedBar
<1>10. y <= h
  BY <1>6, <1>8, <1>9
<1>11. p.anchor \in Nat /\ p.trigger \in Nat \ {0} /\ p.anchor <= p.trigger
  BY <1>6, <1>8, <1>9, <1>10
<1> QED
  BY <1>11 DEF SoundSetup

LEMMA HighWatermarkIsSound ==
    ASSUME NEW s, NEW d, NEW i, Judged(s, d, i), NEW p \in HighWatermark(s, d, i)
    PROVE  SoundSetup(p)
<1>1. PICK n \in Int : n = Len(d) - 1
  <2>1. DaysOK(d)
    BY DEF Judged
  <2>2. Len(d) \in Nat
    BY <2>1, DayTypes
  <2> QED
    BY <2>2
<1>2. PICK x : x = High(d, n - HighDays + 1, n)
  OBVIOUS
<1>3. n >= HighDays /\ p.trigger = x /\ p.anchor = x
  BY <1>1, <1>2 DEF HighWatermark, Setup
<1>4. PICK a \in Int : a = n - HighDays + 1 /\ 1 <= a /\ a <= n
  BY <1>3, SignalBounds DEF Judged
<1>5. n <= Len(d)
  <2>1. DaysOK(d)
    BY DEF Judged
  <2>2. Len(d) \in Nat
    BY <2>1, DayTypes
  <2> QED
    BY <1>1, <2>2
<1>6. High(d, a, n) \in Nat \ {0}
  BY <1>4, <1>5, DayLevels DEF Judged
<1> QED
  BY <1>2, <1>3, <1>4, <1>6 DEF SoundSetup

LEMMA EmaPullbackIsSound ==
    ASSUME NEW s, NEW d, NEW i, Judged(s, d, i), NEW p \in EmaPullback(s, d, i)
    PROVE  SoundSetup(p)
<1>1. /\ i > EmaPeriod
      /\ s[i].close * Power(i - 1) > Ema(s, i)
      /\ s[i - 1].close * Power(i - 2) <= Ema(s, i - 1)
      /\ p.trigger = s[i].high /\ p.anchor = s[i - 1].low
  BY DEF EmaPullback, Setup
<1>2. i \in Nat /\ i >= 2
  BY <1>1, JudgedBar, SignalBounds DEF Judged
<1>3. i - 1 \in 1 .. Len(s) /\ \A k \in 1 .. i : k \in 1 .. Len(s)
  BY <1>2, JudgedBar
<1>4. \A k \in 1 .. i : s[k].close \in Nat
  BY <1>3, BarTypes DEF Judged
<1>5. s[i - 1].close < s[i].close
  BY <1>1, <1>2, <1>4, CrossRises DEF Judged
<1>6. /\ s[i - 1].low \in Nat /\ s[i - 1].close \in Nat /\ s[i - 1].low <= s[i - 1].close
  BY <1>3, BarTypes DEF Judged, SoundBar
<1>7. s[i].close \in Nat /\ s[i].high \in Nat \ {0} /\ s[i].close <= s[i].high
  BY JudgedBar
<1> QED
  BY <1>1, <1>5, <1>6, <1>7 DEF SoundSetup

LEMMA GapAndGoIsSound ==
    ASSUME NEW s, NEW d, NEW i, Judged(s, d, i), NEW p \in GapAndGo(s, d, i)
    PROVE  SoundSetup(p)
<1>1. PICK prior : prior = DaysBefore(d, s[i].day)
  OBVIOUS
<1>2. DaysOK(prior)
  BY <1>1, DaysBeforeAreSound DEF Judged
<1>3. PICK n \in Nat : n = Len(prior)
  BY <1>2, DayTypes
<1>4. /\ n > 0 /\ s[i].close > prior[n].high
      /\ p.trigger = s[i].high /\ p.anchor = prior[n].high
  BY <1>1, <1>3 DEF GapAndGo, Setup
<1>5. prior[n].high \in Nat
  <2>1. n \in 1 .. Len(prior)
    BY <1>3, <1>4
  <2> QED
    BY <1>2, <2>1, DayTypes
<1>6. s[i].close \in Nat /\ s[i].high \in Nat \ {0} /\ s[i].close <= s[i].high
  BY JudgedBar
<1> QED
  BY <1>4, <1>5, <1>6 DEF SoundSetup

(* The strategies whose stop hangs on the low of the bar itself.            *)
LEMMA BarsOwnLowIsSound ==
    ASSUME NEW s, NEW d, NEW i, Judged(s, d, i),
           NEW p \in VwapReversion(s, d, i) \cup VwapCross(s, d, i) \cup BbSqueeze(s, d, i)
                       \cup FailedBreakdown(s, d, i)
    PROVE  SoundSetup(p)
<1>1. p.trigger = s[i].high /\ p.anchor = s[i].low
  <2>1. CASE p \in VwapReversion(s, d, i)
    BY <2>1 DEF VwapReversion, Setup
  <2>2. CASE p \in VwapCross(s, d, i)
    BY <2>2 DEF VwapCross, Setup
  <2>3. CASE p \in BbSqueeze(s, d, i)
    BY <2>3 DEF BbSqueeze, Setup
  <2>4. CASE p \in FailedBreakdown(s, d, i)
    BY <2>4 DEF FailedBreakdown, Setup
  <2> QED
    BY <2>1, <2>2, <2>3, <2>4
<1> QED
  BY <1>1, JudgedBar DEF SoundSetup

LEMMA SetupsAreSound ==
    ASSUME NEW s, NEW d, NEW i, Judged(s, d, i), NEW name \in Longs \ {"bull_flag"},
           NEW p \in SetupOf(name, s, d, i)
    PROVE  SoundSetup(p)
<1>1. CASE name = "breakout"
  BY <1>1, BreakoutIsSound DEF SetupOf
<1>2. CASE name = "momentum"
  BY <1>2, MomentumIsSound DEF SetupOf
<1>3. CASE name = "orb"
  BY <1>3, OrbIsSound DEF SetupOf
<1>4. CASE name = "high_watermark"
  BY <1>4, HighWatermarkIsSound DEF SetupOf
<1>5. CASE name = "ema_pullback"
  BY <1>5, EmaPullbackIsSound DEF SetupOf
<1>6. CASE name = "vwap_reversion"
  BY <1>6, BarsOwnLowIsSound DEF SetupOf
<1>7. CASE name = "gap_and_go"
  BY <1>7, GapAndGoIsSound DEF SetupOf
<1>8. CASE name = "vwap_cross"
  BY <1>8, BarsOwnLowIsSound DEF SetupOf
<1>9. CASE name = "bb_squeeze"
  BY <1>9, BarsOwnLowIsSound DEF SetupOf
<1>10. CASE name = "failed_breakdown"
  BY <1>10, BarsOwnLowIsSound DEF SetupOf
<1> QED
  BY <1>1, <1>2, <1>3, <1>4, <1>5, <1>6, <1>7, <1>8, <1>9, <1>10 DEF Longs

(* The limit lies at or above the stop.                                     *)
LEMMA LimitAboveStop ==
    ASSUME NEW stop \in Nat, NEW pct \in Nat
    PROVE  stop <= Rounded(stop * (100 + pct), 100)
<1>1. PICK x \in Nat : x = stop * pct
  OBVIOUS
<1>2. PICK n \in Nat : n = 2 * (stop * (100 + pct)) + 100
  OBVIOUS
<1>3. n = 200 * stop + 2 * x + 100
  BY <1>1, <1>2
<1>4. PICK q \in Nat : q = n \div 200 /\ n < 200 * q + 200
  <2>1. 200 \in Nat \ {0}
    OBVIOUS
  <2> QED
    BY <2>1, QuotientBounds
<1>5. stop <= q
  BY <1>3, <1>4
<1>6. Rounded(stop * (100 + pct), 100) = n \div (2 * 100)
  BY <1>2 DEF Rounded
<1> QED
  BY <1>4, <1>5, <1>6

(* The stop of a long signal lies below its entry, and the entry at or      *)
(* below the limit.                                                         *)
LEMMA StopsAreSound ==
    ASSUME NEW s, NEW d, NEW i, Judged(s, d, i), NEW name \in Longs \ {"bull_flag"},
           NEW p \in Long(name, s, d, i)
    PROVE  p.initial < p.stop /\ p.stop <= p.limit
<1>1. PICK known : known = DailyFor(name, d, s[i].day)
  OBVIOUS
<1>2. DaysOK(known)
  BY <1>1, DaysBeforeAreSound DEF DailyFor, Judged
<1>3. /\ AtrKnown(known)
      /\ \E q \in SetupOf(name, s, known, i) :
           p = [level |-> q.level, stop |-> q.trigger + Buffer,
                limit |-> Rounded((q.trigger + Buffer) * (100 + LimitPct), 100),
                initial |-> InitialStop(q, known)]
  BY <1>1 DEF Long
<1>4. PICK q \in SetupOf(name, s, known, i) :
           p = [level |-> q.level, stop |-> q.trigger + Buffer,
                limit |-> Rounded((q.trigger + Buffer) * (100 + LimitPct), 100),
                initial |-> InitialStop(q, known)]
  BY <1>3
<1>5. /\ p.stop = q.trigger + Buffer /\ p.initial = InitialStop(q, known)
      /\ p.limit = Rounded((q.trigger + Buffer) * (100 + LimitPct), 100)
  BY <1>4
<1>6. SoundSetup(q)
  <2>1. Judged(s, known, i)
    BY <1>2 DEF Judged
  <2> QED
    BY <2>1, SetupsAreSound
<1>7. PICK stop \in Nat : stop = q.trigger + Buffer /\ stop >= 2 /\ q.anchor < stop
  <2>1. PICK b \in Nat \ {0} : b = Buffer
    BY SignalBounds DEF Judged
  <2>2. PICK x \in Nat \ {0}, y \in Nat : x = q.trigger /\ y = q.anchor /\ y <= x
    BY <1>6 DEF SoundSetup
  <2>3. x + b \in Nat /\ x + b >= 2 /\ y < x + b
    BY <2>2
  <2> QED
    BY <2>1, <2>2, <2>3
<1>8. PICK pct \in Nat : pct = LimitPct
  BY SignalBounds DEF Judged
<1>9. p.stop <= p.limit
  BY <1>5, <1>7, <1>8, LimitAboveStop
<1>10. PICK atr \in Int : atr = Atr(known)
  BY <1>2, <1>3, AtrIsInt DEF Judged
<1>11. PICK room \in Int : room = Max({1, atr}) /\ room >= 1
  <2>1. Max({1, atr}) \in {1, atr} /\ Max({1, atr}) >= 1
    <3>1. 1 \in Int
      OBVIOUS
    <3> QED
      BY <3>1, MaxOfTwo
  <2> QED
    BY <2>1
<1>12. PICK low \in Int : low = q.anchor - room /\ low < stop
  BY <1>6, <1>7, <1>11 DEF SoundSetup
<1>13. Max({1, low}) \in {1, low}
  <2>1. 1 \in Int
    OBVIOUS
  <2> QED
    BY <2>1, MaxOfTwo
<1>14. p.initial = Max({1, low})
  BY <1>5, <1>10, <1>11, <1>12 DEF InitialStop
<1>15. p.initial < p.stop
  BY <1>5, <1>7, <1>12, <1>13, <1>14
<1> QED
  BY <1>9, <1>15

(* No bar is bought and bet against: a long entry stands on an uptrend and  *)
(* a put on a downtrend of the same daily bars, in every state that can be  *)
(* reached; momentum is an exception when the daily bars include today's,   *)
(* since it alone drops that bar first. And the stop of a long signal lies  *)
(* below its trigger, which lies at or below the limit, whatever the bars   *)
(* are, for every strategy but the bull flag.                              *)
THEOREM SignalsAlwaysAgree ==
    ASSUME EntrySignalsAssumption
    PROVE  SignalsSpec => []SignalsAgree
<1>1. SignalsInv => SignalsAgree
  <2> SUFFICES ASSUME SignalsInv PROVE SignalsAgree
    OBVIOUS
  <2>1. PICK d : d = DailyOf(bars, completed, day)
    OBVIOUS
  <2>2. /\ DaysOK(completed) /\ day \in Int /\ BarsOK(bars) /\ withToday \in BOOLEAN
        /\ \A k \in 1 .. Len(completed) : completed[k].day < day
    BY DEF SignalsInv
  <2>3. DaysOK(d) /\ DaysBefore(d, day) = completed
    BY <2>1, <2>2, TheDays
  <2>4. DOMAIN bars = 1 .. Len(bars)
    BY <2>2, BarTypes
  <2>5. NoOpposite
    <3> SUFFICES ASSUME NEW i \in DOMAIN bars, bars[i].day = day,
                        NEW a \in Longs, withToday => a # "momentum", NEW b \in Bears,
                        LongAt(a, i) # {}, BearAt(b, i) # {}
                 PROVE  FALSE
      BY DEF NoOpposite
    <3>1. PICK known : known = DailyFor(a, d, bars[i].day)
      OBVIOUS
    <3>2. Uptrend(known)
      BY <2>1, <3>1 DEF LongAt, Long
    <3>3. Downtrend(d)
      BY <2>1 DEF BearAt, Bear
    <3>4. known = d
      <4>1. CASE a # "momentum"
        BY <3>1, <4>1 DEF DailyFor
      <4>2. CASE a = "momentum"
        <5>1. ~ withToday
          BY <4>2
        <5>2. completed \o <<>> = completed
          BY <2>2 DEF DaysOK
        <5>3. d = completed
          BY <2>1, <5>1, <5>2 DEF DailyOf
        <5>4. known = DaysBefore(d, day)
          BY <3>1, <4>2 DEF DailyFor
        <5> QED
          BY <2>3, <5>3, <5>4
      <4> QED
        BY <4>1, <4>2
    <3> QED
      BY <2>3, <3>2, <3>3, <3>4, TrendsExclude
  <2>6. StopBelowEntry
    <3> SUFFICES ASSUME NEW i \in DOMAIN bars, NEW name \in Longs \ {"bull_flag"},
                        NEW p \in LongAt(name, i)
                 PROVE  p.initial < p.stop /\ p.stop <= p.limit
      BY DEF StopBelowEntry
    <3>1. Judged(bars, d, i)
      BY <2>2, <2>3, <2>4 DEF Judged
    <3>2. p \in Long(name, bars, d, i)
      BY <2>1 DEF LongAt
    <3> QED
      BY <3>1, <3>2, StopsAreSound
  <2> QED
    BY <2>5, <2>6 DEF SignalsAgree
<1>2. SignalsSpec => []SignalsInv
  BY SignalsInvHolds
<1> QED
  BY <1>1, <1>2, PTL
=============================================================================
