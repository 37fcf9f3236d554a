------------------------- MODULE PositionRulesProofs -------------------------
(***************************************************************************)
(* The ratchet of the stop updates and the promise of StopContract, for    *)
(* every price, percentage, age and set of enabled rules.                  *)
(*                                                                         *)
(* A cycle's four passes are applications of Taken, and the levels they    *)
(* leave form a chain in which each is the one before or better and behind *)
(* the close (LevelsChain).  The executor stops anywhere in that chain     *)
(* (CarriedStop), so a step of the rules is a step of the contract.        *)
(***************************************************************************)
EXTENDS PositionRules, TLAPS

Trades == [side : {"long", "short"}, initial : Int, stop : Int, best : Int, open : BOOLEAN]
Days == [high : Prices, low : Prices]

\* The stop after a pass is the one before, or better and behind the close.
Follows(s, close, old, new) == new = old \/ (Improves(s, new, old) /\ Improves(s, close, new))

\* Rounding keeps prices integers.
LEMMA Rounding ==
    ASSUME NEW p \in Int, NEW pct \in Int
    PROVE  Times(p, pct) \in Int /\ (pct > 0 => Over(p, pct) \in Int)
BY DEF Times, Over

\* What a pass takes follows the stop it started from.
LEMMA TakenFollows ==
    ASSUME NEW s \in {"long", "short"}, NEW old \in Int, NEW new \in Int, NEW close \in Int
    PROVE  Taken(s, old, new, close) \in Int /\ Follows(s, close, old, Taken(s, old, new, close))
BY DEF Taken, Follows, Improves

\* So does a pass that takes a price or leaves the stop alone.
LEMMA PassFollows ==
    ASSUME NEW s \in {"long", "short"}, NEW old \in Int, NEW new \in Int, NEW close \in Int,
           NEW result, result = old \/ result = Taken(s, old, new, close)
    PROVE  result \in Int /\ Follows(s, close, old, result)
<1>1. CASE result = old
  BY <1>1 DEF Follows
<1>2. CASE result = Taken(s, old, new, close)
  BY <1>2, TakenFollows
<1>3. QED
  BY <1>1, <1>2

\* Each of the four passes, from any stop, leaves one that follows it.
LEMMA PassesFollow ==
    ASSUME NEW t \in Trades, NEW b \in Bars, NEW day \in Days, NEW input \in Inputs,
           NEW old \in Int
    PROVE  /\ Trailing(t, b, input) \in Int
           /\ Follows(t.side, b.close, t.stop, Trailing(t, b, input))
           /\ ProfitTrail(t, b, day, old) \in Int
           /\ Follows(t.side, b.close, old, ProfitTrail(t, b, day, old))
           /\ Breakeven(t, b, old) \in Int
           /\ Follows(t.side, b.close, old, Breakeven(t, b, old))
           /\ CapUp(t, b, old) \in Int
           /\ Follows(t.side, b.close, old, CapUp(t, b, old))
<1> USE PositionRulesAssumption
<1>0. /\ t.side \in {"long", "short"} /\ t.stop \in Int /\ t.best \in Int /\ t.initial \in Int
      /\ b.high \in Int /\ b.low \in Int /\ b.close \in Int
      /\ day.high \in Int /\ day.low \in Int
      /\ input.atr \in Int /\ Entry \in Int
  <2>1. Prices \subseteq Int /\ Atrs \subseteq Int /\ Entry \in Int
    BY DEF Prices
  <2>2. b \in [high : Prices, low : Prices, close : Prices]
    BY DEF Bars
  <2>3. b.high \in Int /\ b.low \in Int /\ b.close \in Int
    BY <2>1, <2>2
  <2>4. day.high \in Int /\ day.low \in Int
    BY <2>1 DEF Days
  <2>5. input.atr \in Int
    BY <2>1 DEF Inputs
  <2>6. QED
    BY <2>1, <2>3, <2>4, <2>5 DEF Trades
<1>1. Trailing(t, b, input) \in Int /\ Follows(t.side, b.close, t.stop, Trailing(t, b, input))
  <2> DEFINE candidate == IF input.atr > 0 THEN Toward(t.side, Favorable(t.side, b), -input.atr)
                          ELSE IF t.side = "long" THEN b.low ELSE b.high
  <2>1. BestOf(t.side, Entry, candidate) \in Int
    BY <1>0 DEF BestOf, Improves, Toward, Favorable
  <2>2. \/ Trailing(t, b, input) = t.stop
        \/ Trailing(t, b, input) = Taken(t.side, t.stop, BestOf(t.side, Entry, candidate), b.close)
    BY DEF Trailing
  <2> HIDE DEF candidate
  <2>3. QED
    BY <1>0, <2>1, <2>2, PassFollows
<1>2. ProfitTrail(t, b, day, old) \in Int /\ Follows(t.side, b.close, old, ProfitTrail(t, b, day, old))
  <2> DEFINE new == IF t.side = "long" THEN Times(day.high, TrailPct) ELSE Over(day.low, TrailPct)
  <2>1. TrailPct \in Int /\ TrailPct > 0
    OBVIOUS
  <2>2. new \in Int
    BY <1>0, <2>1, Rounding
  <2>3. ProfitTrail(t, b, day, old) = old \/ ProfitTrail(t, b, day, old) = Taken(t.side, old, new, b.close)
    BY DEF ProfitTrail
  <2> HIDE DEF new
  <2>4. QED
    BY <1>0, <2>2, <2>3, PassFollows
<1>3. Breakeven(t, b, old) \in Int /\ Follows(t.side, b.close, old, Breakeven(t, b, old))
  <2> DEFINE gap == IF t.side = "long" THEN 100 - BreakevenGapPct ELSE 100 + BreakevenGapPct
             new == BestOf(t.side, Entry, Times(BestPrice(t, b), gap))
  <2>1. BreakevenGapPct \in Int
    OBVIOUS
  <2>2. gap \in Int /\ BestPrice(t, b) \in Int
    BY <1>0, <2>1 DEF BestPrice, BestOf, Favorable
  <2>3. Times(BestPrice(t, b), gap) \in Int
    BY <2>2, Rounding
  <2>4. new \in Int
    BY <1>0, <2>3 DEF BestOf
  <2>5. Breakeven(t, b, old) = old \/ Breakeven(t, b, old) = Taken(t.side, old, new, b.close)
    BY DEF Breakeven
  <2> HIDE DEF new
  <2>6. QED
    BY <1>0, <2>4, <2>5, PassFollows
<1>4. CapUp(t, b, old) \in Int /\ Follows(t.side, b.close, old, CapUp(t, b, old))
  <2>1. StopCapPct \in Int /\ MaxShareLoss \in Int
    OBVIOUS
  <2>2. Times(Entry, IF t.side = "long" THEN 100 - StopCapPct ELSE 100 + StopCapPct) \in Int
    <3> DEFINE keep == IF t.side = "long" THEN 100 - StopCapPct ELSE 100 + StopCapPct
    <3>1. keep \in Int
      BY <2>1
    <3> HIDE DEF keep
    <3>2. Times(Entry, keep) \in Int
      BY <1>0, <3>1, Rounding
    <3>3. QED
      BY <3>2 DEF keep
  <2>3. StopCap(t) \in Int
    BY <1>0, <2>1, <2>2 DEF StopCap, BestOf, Toward
  <2>4. CapUp(t, b, old) = old \/ CapUp(t, b, old) = Taken(t.side, old, StopCap(t), b.close)
    BY DEF CapUp
  <2>5. QED
    BY <1>0, <2>3, <2>4, PassFollows
<1>5. QED
  BY <1>1, <1>2, <1>3, <1>4

\* The levels of a cycle are integers and a chain.
LEMMA LevelsChain ==
    ASSUME NEW t \in Trades, NEW b \in Bars, NEW day \in Days, NEW input \in Inputs,
           NEW ses, NEW fresh
    PROVE  /\ LevelsOf(t, b, day, input, ses, fresh) \in [1 .. 5 -> Int]
           /\ LevelsOf(t, b, day, input, ses, fresh)[1] = t.stop
           /\ \A i \in 1 .. 4 : Follows(t.side, b.close, LevelsOf(t, b, day, input, ses, fresh)[i],
                                        LevelsOf(t, b, day, input, ses, fresh)[i + 1])
<1> DEFINE s1 == IF ses = "regular" /\ fresh THEN Trailing(t, b, input) ELSE t.stop
           s2 == IF ses # "extended" THEN ProfitTrail(t, b, day, s1) ELSE s1
           s3 == Breakeven(t, b, s2)
           s4 == IF ses # "extended" THEN CapUp(t, b, s3) ELSE s3
<1>s. ASSUME NEW x \in Int PROVE Follows(t.side, b.close, x, x)
  BY DEF Follows
<1>0. t.stop \in Int
  BY DEF Trades
<1>1. s1 \in Int /\ Follows(t.side, b.close, t.stop, s1)
  BY <1>0, <1>s, PassesFollow
<1> HIDE DEF s1
<1>2. s2 \in Int /\ Follows(t.side, b.close, s1, s2)
  BY <1>1, <1>s, PassesFollow
<1> HIDE DEF s2
<1>3. s3 \in Int /\ Follows(t.side, b.close, s2, s3)
  BY <1>2, PassesFollow
<1> HIDE DEF s3
<1>4. s4 \in Int /\ Follows(t.side, b.close, s3, s4)
  BY <1>3, <1>s, PassesFollow
<1> HIDE DEF s4
<1>5. LevelsOf(t, b, day, input, ses, fresh) = <<t.stop, s1, s2, s3, s4>>
  BY DEF LevelsOf, s1, s2, s3, s4
<1>6. QED
  BY <1>0, <1>1, <1>2, <1>3, <1>4, <1>5

\* A better stop than a better stop is better, and stays behind the close.
LEMMA FollowsTransitive ==
    ASSUME NEW s \in {"long", "short"}, NEW close \in Int, NEW x \in Int, NEW y \in Int,
           NEW z \in Int, Follows(s, close, x, y), Follows(s, close, y, z)
    PROVE  Follows(s, close, x, z)
BY DEF Follows, Improves

\* A price that follows a positive stop behind a positive close is positive.
LEMMA FollowsPositive ==
    ASSUME NEW s \in {"long", "short"}, NEW close \in Int, NEW x \in Int, NEW y \in Int,
           close > 0, x > 0, Follows(s, close, x, y)
    PROVE  y > 0
BY DEF Follows, Improves

\* A stop has reached the cap on the loss, or the market is through the cap.
Capped(t, stop, close) ==
    AtLeast(t.side, stop, StopCap(t)) \/ AtLeast(t.side, StopCap(t), close)

\* The cap is a price, and depends on the side of a trade only.
LEMMA CapOfSide ==
    ASSUME NEW t \in Trades
    PROVE  /\ StopCap(t) \in Int
           /\ \A u \in Trades : u.side = t.side => StopCap(u) = StopCap(t)
<1> USE PositionRulesAssumption
<1>1. StopCapPct \in Int /\ MaxShareLoss \in Int /\ Entry \in Int /\ t.side \in {"long", "short"}
  BY DEF Trades
<1> DEFINE keep == IF t.side = "long" THEN 100 - StopCapPct ELSE 100 + StopCapPct
<1>2. keep \in Int
  BY <1>1
<1> HIDE DEF keep
<1>3. Times(Entry, keep) \in Int
  BY <1>1, <1>2, Rounding
<1>4. StopCap(t) \in Int
  BY <1>1, <1>3 DEF StopCap, BestOf, Toward, keep
<1>5. \A u \in Trades : u.side = t.side => StopCap(u) = StopCap(t)
  BY DEF StopCap
<1>6. QED
  BY <1>4, <1>5

\* The last pass of a regular session has applied the cap, whatever the three
\* before it have left.
LEMMA LevelsCapped ==
    ASSUME NEW t \in Trades, NEW b \in Bars, NEW day \in Days, NEW input \in Inputs,
           NEW fresh \in BOOLEAN, t.stop > 0
    PROVE  Capped(t, LevelsOf(t, b, day, input, "regular", fresh)[5], b.close)
<1> DEFINE ls == LevelsOf(t, b, day, input, "regular", fresh)
<1>1. ls \in [1 .. 5 -> Int]
  BY LevelsChain
<1>2. ls[5] = CapUp(t, b, ls[4])
  BY DEF LevelsOf
<1> HIDE DEF ls
<1>3. ls[4] \in Int /\ ls[5] = Taken(t.side, ls[4], StopCap(t), b.close)
  BY <1>1, <1>2 DEF CapUp
<1>4. b.close \in Int /\ StopCap(t) \in Int /\ t.side \in {"long", "short"}
  BY CapOfSide DEF Bars, Prices, Trades
<1>5. ASSUME NEW s \in {"long", "short"}, NEW old \in Int, NEW cap \in Int, NEW close \in Int
      PROVE  AtLeast(s, Taken(s, old, cap, close), cap) \/ AtLeast(s, cap, close)
  BY DEF Taken, AtLeast, Improves
<1>6. QED
  BY <1>3, <1>4, <1>5 DEF Capped, ls

-----------------------------------------------------------------------------
\* The cap is applied only to a stop that is set: a stop never gets to zero.
StopIsSet == trade.stop > 0

IInv == TypeOK /\ StopIsSet /\ LevelsRatchet /\ LossStaysCapped

\* What one decision does to the trade and to the levels.
LEMMA DecideStep ==
    ASSUME TypeOK, NEW b \in Bars, NEW day \in Days, NEW input \in Inputs, NEW ses \in CycleSessions,
           NEW fresh \in BOOLEAN, Decide(b, day, input, ses, fresh)
    PROVE  /\ trade' \in Trades /\ trade'.side = trade.side
           /\ levels' \in [1 .. 5 -> Int] /\ reason' \in Reasons
           /\ Follows(trade.side, b.close, trade.stop, trade'.stop)
           /\ trade.open => trade'.open \/ trade'.stop = trade.stop
           /\ \A i \in 1 .. 4 : Follows(trade.side, b.close, levels'[i], levels'[i + 1])
           /\ StopIsSet /\ ses = "regular" /\ reason' = "none"
                => Capped(trade, levels'[5], b.close)
<1> DEFINE t == [trade EXCEPT !.best = BestPrice(trade, b)]
<1>1. trade \in Trades
  BY DEF TypeOK, Trades
<1>2. BestPrice(trade, b) \in Int
  BY <1>1 DEF BestPrice, BestOf, Favorable, Trades, Bars, Prices
<1>3. t \in Trades /\ t.side = trade.side /\ t.stop = trade.stop /\ t.open = trade.open
  BY <1>1, <1>2 DEF Trades
<1> HIDE DEF t
<1>4. /\ reason' = ExitOf(t, b, age, input, ses, fresh)
      /\ levels' = IF reason' = "none" THEN LevelsOf(t, b, day, input, ses, fresh) ELSE Unmoved(t)
      /\ trade' \in Carried(t, b, levels', reason')
  BY DEF Decide, t
<1>5. reason' \in Reasons
  <2>1. ASSUME NEW fired \in SUBSET ExitRules PROVE FirstExit(fired) \in Reasons
    <3>1. CASE fired = {}
      BY <3>1 DEF FirstExit, Reasons
    <3>2. CASE fired # {}
      <4>1. Len(Order) = 6 /\ \A i \in 1 .. 6 : Order[i] \in ExitRules
        BY DEF Order, ExitRules
      <4>2. \A rule \in ExitRules : \E i \in 1 .. 6 : Order[i] = rule
        BY DEF Order, ExitRules
      <4>3. \E i \in 1 .. 6 : Order[i] \in fired /\ \A j \in 1 .. i - 1 : Order[j] \notin fired
        <5> DEFINE P(i) == Order[i] \in fired
        <5>1. \E i \in 1 .. 6 : P(i)
          BY <3>2, <4>2
        <5> HIDE DEF P
        <5>2. \E i \in 1 .. 6 : P(i) /\ \A j \in 1 .. i - 1 : ~P(j)
          BY <5>1, SMTT(30)
        <5>3. QED
          BY <5>2 DEF P
      <4>4. QED
        BY <3>2, <4>1, <4>3 DEF FirstExit, Reasons
    <3>3. QED
      BY <3>1, <3>2
  <2>2. Exits(t, b, age, input) \in SUBSET ExitRules
    BY DEF Exits
  <2>3. FirstExit(Exits(t, b, age, input)) \in Reasons
    BY <2>1, <2>2
  <2>4. QED
    BY <1>4, <2>3, ses \in CycleSessions DEF ExitOf, Reasons, CycleSessions
<1>6. /\ levels' \in [1 .. 5 -> Int] /\ levels'[1] = t.stop
      /\ \A i \in 1 .. 4 : Follows(t.side, b.close, levels'[i], levels'[i + 1])
  <2>1. CASE reason' = "none"
    BY <1>3, <1>4, <2>1, LevelsChain
  <2>2. CASE reason' # "none"
    BY <1>3, <1>4, <2>2 DEF Unmoved, Follows, Trades
  <2>3. QED
    BY <2>1, <2>2
<1>7. \A i \in 1 .. 5 : levels'[i] \in Int /\ Follows(t.side, b.close, t.stop, levels'[i])
  <2>0. t.side \in {"long", "short"} /\ b.close \in Int /\ t.stop \in Int
    BY <1>3 DEF Trades, Bars, Prices
  <2>1. \A i \in 1 .. 5 : levels'[i] \in Int
    BY <1>6
  <2>2. Follows(t.side, b.close, t.stop, levels'[1])
    BY <1>6 DEF Follows
  <2>3. ASSUME NEW i \in 1 .. 4, Follows(t.side, b.close, t.stop, levels'[i])
        PROVE  Follows(t.side, b.close, t.stop, levels'[i + 1])
    <3>1. levels'[i] \in Int /\ levels'[i + 1] \in Int
      BY <2>1
    <3>2. Follows(t.side, b.close, levels'[i], levels'[i + 1])
      BY <1>6
    <3>3. QED
      BY <2>0, <2>3, <3>1, <3>2, FollowsTransitive
  <2>4. Follows(t.side, b.close, t.stop, levels'[2])
    BY <2>2, <2>3
  <2>5. Follows(t.side, b.close, t.stop, levels'[3])
    BY <2>4, <2>3
  <2>6. Follows(t.side, b.close, t.stop, levels'[4])
    BY <2>5, <2>3
  <2>7. Follows(t.side, b.close, t.stop, levels'[5])
    BY <2>6, <2>3
  <2>8. QED
    BY <2>1, <2>2, <2>4, <2>5, <2>6, <2>7
<1>8. \/ trade' \in {[t EXCEPT !.open = FALSE], t}
      \/ \E i \in 1 .. 5 : trade' = [t EXCEPT !.stop = levels'[i]]
  BY <1>4 DEF Carried
<1> DEFINE TradeFollows == /\ trade' \in Trades /\ trade'.side = trade.side
                           /\ Follows(trade.side, b.close, trade.stop, trade'.stop)
                           /\ trade.open => trade'.open \/ trade'.stop = trade.stop
<1>9. ASSUME trade' \in {[t EXCEPT !.open = FALSE], t} PROVE TradeFollows
  BY <1>3, <1>9 DEF Trades, Follows
<1>10. ASSUME \E i \in 1 .. 5 : trade' = [t EXCEPT !.stop = levels'[i]] PROVE TradeFollows
  <2>1. PICK i \in 1 .. 5 : trade' = [t EXCEPT !.stop = levels'[i]]
    BY <1>10
  <2>2. /\ trade' \in Trades /\ trade'.side = t.side /\ trade'.stop = levels'[i]
        /\ trade'.open = t.open
    BY <1>3, <1>7, <2>1 DEF Trades
  <2>3. QED
    BY <1>3, <1>7, <2>2
<1>11. ASSUME StopIsSet, ses = "regular", reason' = "none"
       PROVE  Capped(trade, levels'[5], b.close)
  <2>1. levels' = LevelsOf(t, b, day, input, "regular", fresh) /\ t.stop > 0
    BY <1>3, <1>4, <1>11 DEF StopIsSet
  <2>2. Capped(t, levels'[5], b.close)
    BY <1>3, <2>1, LevelsCapped
  <2>3. StopCap(t) = StopCap(trade)
    BY <1>1, <1>3, CapOfSide
  <2>4. QED
    BY <1>3, <2>2, <2>3 DEF Capped
<1>12. TradeFollows
  BY <1>8, <1>9, <1>10
<1>13. \A i \in 1 .. 4 : Follows(trade.side, b.close, levels'[i], levels'[i + 1])
  BY <1>3, <1>6
<1>14. levels' \in [1 .. 5 -> Int]
  BY <1>6
<1> HIDE DEF TradeFollows
<1>15. StopIsSet /\ ses = "regular" /\ reason' = "none" => Capped(trade, levels'[5], b.close)
  BY <1>11
<1>16. QED
  BY <1>5, <1>12, <1>13, <1>14, <1>15 DEF TradeFollows

\* The extremes of the day stay prices.
LEMMA WiderDay ==
    ASSUME NEW day \in Days, NEW b \in Bars
    PROVE  Wider(day, b) \in Days
BY DEF Wider, Days, Bars

\* Every step with a decision, taken apart once.
LEMMA Decisions ==
    ASSUME TypeOK, Cycle \/ StaleCycle \/ NewSession
    PROVE  /\ trade.open /\ age' \in 0 .. MaxAge /\ session' \in CycleSessions
           /\ latest' \in Bars /\ today' \in Days
           /\ \E input \in Inputs, fresh \in BOOLEAN : Decide(latest', today', input, session', fresh)
<1> USE PositionRulesAssumption
<1>0. age \in 0 .. MaxAge /\ MaxAge \in Nat /\ latest \in Bars /\ today \in Days
  BY DEF TypeOK, Days
<1>1. CASE Cycle
  <2>1. /\ trade.open /\ age < MaxAge /\ age' = age + 1 /\ latest' \in Bars /\ session' \in CycleSessions
        /\ today' = Wider(today, latest')
        /\ \E input \in Inputs : Decide(latest', today', input, session', TRUE)
    BY <1>1 DEF Cycle
  <2>2. age' \in 0 .. MaxAge
    BY <1>0, <2>1
  <2>3. today' \in Days
    BY <1>0, <2>1, WiderDay
  <2>4. QED
    BY <2>1, <2>2, <2>3
<1>2. CASE StaleCycle
  <2>1. /\ trade.open /\ age < MaxAge /\ age' = age + 1 /\ session' = "regular"
        /\ latest' = latest /\ today' = today
        /\ \E input \in Inputs : Decide(latest, today, input, session', FALSE)
    BY <1>2 DEF StaleCycle
  <2>2. age' \in 0 .. MaxAge /\ session' \in CycleSessions
    BY <1>0, <2>1 DEF CycleSessions
  <2>3. \E input \in Inputs : Decide(latest', today', input, session', FALSE)
    BY <2>1 DEF Decide
  <2>4. QED
    BY <1>0, <2>1, <2>2, <2>3
<1>3. CASE NewSession
  <2>1. /\ trade.open /\ age < MaxAge /\ age' = age + 1 /\ latest' \in Bars /\ session' = "regular"
        /\ today' = [high |-> latest'.high, low |-> latest'.low]
        /\ \E input \in Inputs : Decide(latest', today', input, session', TRUE)
    BY <1>3 DEF NewSession
  <2>2. age' \in 0 .. MaxAge /\ session' \in CycleSessions
    BY <1>0, <2>1 DEF CycleSessions
  <2>3. today' \in Days
    BY <2>1 DEF Days, Bars
  <2>4. QED
    BY <2>1, <2>2, <2>3
<1>4. QED
  BY <1>1, <1>2, <1>3

LEMMA InitInv == RulesInit => IInv
<1> USE PositionRulesAssumption
<1> SUFFICES ASSUME RulesInit PROVE IInv
  OBVIOUS
<1>1. PICK s \in Sides, r \in Risks :
        trade = [side |-> s, initial |-> Toward(s, Entry, -r), stop |-> Toward(s, Entry, -r),
                 best |-> Entry, open |-> TRUE]
  BY DEF RulesInit
<1>2. Entry \in 1 .. MaxPrice /\ Entry \in Int /\ r \in Int /\ s \in {"long", "short"}
  OBVIOUS
<1>3. Toward(s, Entry, -r) \in Int
  BY <1>2 DEF Toward
<1>4. trade.stop \in Int /\ trade \in Trades
  BY <1>1, <1>2, <1>3 DEF Trades
<1>5. levels \in [1 .. 5 -> Int] /\ \A i \in 1 .. 4 : levels[i + 1] = levels[i]
  BY <1>4 DEF RulesInit, Unmoved
<1>6. StopIsSet
  <2>1. Risks \subseteq 1 .. Entry - 1
    OBVIOUS
  <2>2. r > 0 /\ r < Entry
    BY <1>2, <2>1
  <2>3. QED
    BY <1>1, <1>2, <2>2 DEF StopIsSet, Toward
<1>7. LossStaysCapped
  BY DEF RulesInit, LossStaysCapped
<1>8. TypeOK /\ LevelsRatchet
  BY <1>2, <1>4, <1>5 DEF RulesInit, TypeOK, LevelsRatchet, Trades, Bars, Prices, CycleSessions, Reasons
<1>9. QED
  BY <1>6, <1>7, <1>8 DEF IInv

LEMMA StepInv == IInv /\ [RulesNext]_rulesVars => IInv'
<1> USE PositionRulesAssumption
<1> SUFFICES ASSUME IInv, [RulesNext]_rulesVars PROVE IInv'
  OBVIOUS
<1>1. CASE Cycle \/ StaleCycle \/ NewSession
  <2>1. PICK input \in Inputs, fresh \in BOOLEAN : Decide(latest', today', input, session', fresh)
    BY <1>1, Decisions DEF IInv
  <2>2. /\ age' \in 0 .. MaxAge /\ session' \in CycleSessions /\ latest' \in Bars /\ today' \in Days
    BY <1>1, Decisions DEF IInv
  <2>3. /\ trade' \in Trades /\ trade'.side = trade.side
        /\ levels' \in [1 .. 5 -> Int] /\ reason' \in Reasons
        /\ Follows(trade.side, latest'.close, trade.stop, trade'.stop)
        /\ \A i \in 1 .. 4 : Follows(trade.side, latest'.close, levels'[i], levels'[i + 1])
        /\ session' = "regular" /\ reason' = "none" => Capped(trade, levels'[5], latest'.close)
    BY <2>1, <2>2, DecideStep DEF IInv
  <2>4. TypeOK'
    BY <2>2, <2>3 DEF TypeOK, Trades, Days
  <2>5. LevelsRatchet'
    BY <2>3 DEF LevelsRatchet, Follows
  <2>6. trade \in Trades /\ latest'.close \in Int /\ latest'.close > 0
    BY <2>2 DEF IInv, TypeOK, Trades, Bars, Prices
  <2>7. StopIsSet'
    <3>1. trade.side \in {"long", "short"} /\ trade.stop \in Int /\ trade'.stop \in Int
      BY <2>3, <2>6 DEF Trades
    <3>2. QED
      BY <2>3, <2>6, <3>1, FollowsPositive DEF IInv, StopIsSet
  <2>8. LossStaysCapped'
    <3>1. StopCap(trade') = StopCap(trade)
      BY <2>3, <2>6, CapOfSide
    <3>2. QED
      BY <2>3, <3>1 DEF LossStaysCapped, Capped, StopCap
  <2>9. QED
    BY <2>4, <2>5, <2>7, <2>8 DEF IInv
<1>2. CASE StopFills
  <2>1. trade \in Trades
    BY DEF IInv, TypeOK, Trades
  <2>2. /\ trade' = [trade EXCEPT !.open = FALSE] /\ latest' \in Bars
        /\ reason' = "none" /\ levels' = Unmoved(trade) /\ UNCHANGED <<today, age, session>>
    BY <1>2 DEF StopFills
  <2>3. trade' \in Trades /\ trade.stop \in Int
    BY <2>1, <2>2 DEF Trades
  <2>4. levels' \in [1 .. 5 -> Int] /\ \A i \in 1 .. 4 : levels'[i + 1] = levels'[i]
    BY <2>2, <2>3 DEF Unmoved
  <2>5. TypeOK'
    BY <2>2, <2>3, <2>4 DEF IInv, TypeOK, Trades, Reasons
  <2>6. LevelsRatchet'
    BY <2>4 DEF LevelsRatchet
  <2>7. StopIsSet' /\ ~trade'.open
    BY <2>1, <2>2 DEF IInv, StopIsSet, Trades
  <2>8. QED
    BY <2>5, <2>6, <2>7 DEF IInv, LossStaysCapped
<1>3. CASE UNCHANGED rulesVars
  BY <1>3 DEF rulesVars, IInv, TypeOK, StopIsSet, LevelsRatchet, LossStaysCapped, StopCap
<1>4. QED
  BY <1>1, <1>2, <1>3 DEF RulesNext

\* Whatever the prices, the percentages and the rules enabled, the updates of a
\* cycle of evaluate_cycle improve on each other and stay behind the market.
THEOREM StopUpdatesRatchet == RulesSpec => []LevelsRatchet
<1>1. IInv => LevelsRatchet
  BY DEF IInv
<1>2. QED
  BY InitInv, StepInv, <1>1, PTL DEF RulesSpec

\* However the four passes and the sides combine, a regular cycle that keeps an
\* open trade ends with the stop at the cap on the loss or better, unless the
\* market is through the cap already: none of evaluate_cycle's passes undoes it.
THEOREM LossIsCapped == RulesSpec => []LossStaysCapped
<1>1. IInv => LossStaysCapped
  BY DEF IInv
<1>2. QED
  BY InitInv, StepInv, <1>1, PTL DEF RulesSpec

LEMMA ContractInit == RulesInit => Contract!Init
<1> SUFFICES ASSUME RulesInit PROVE Contract!Init
  OBVIOUS
<1>1. IInv
  BY InitInv
<1>2. QED
  BY <1>1 DEF RulesInit, IInv, TypeOK, Contract!Init, Bars, Prices

\* A step of the rules is a step of the contract, or none that it sees.
LEMMA ContractStep == IInv /\ [RulesNext]_rulesVars => [Contract!Next]_(Contract!vars)
<1> USE PositionRulesAssumption
<1> SUFFICES ASSUME IInv, [RulesNext]_rulesVars PROVE [Contract!Next]_(Contract!vars)
  OBVIOUS
<1>0. IInv'
  BY StepInv
<1>1. CASE Cycle \/ StaleCycle \/ NewSession
  <2>1. PICK input \in Inputs, fresh \in BOOLEAN : Decide(latest', today', input, session', fresh)
    BY <1>1, Decisions DEF IInv
  <2>2. trade.open /\ session' \in CycleSessions /\ latest' \in Bars /\ today' \in Days
    BY <1>1, Decisions DEF IInv
  <2>3. /\ trade' \in Trades /\ trade'.side = trade.side
        /\ Follows(trade.side, latest'.close, trade.stop, trade'.stop)
        /\ trade'.open \/ trade'.stop = trade.stop
    BY <2>1, <2>2, DecideStep DEF IInv
  <2>4. latest'.close \in Int /\ trade'.stop \in Int /\ trade.open = TRUE
    BY <2>2, <2>3 DEF Bars, Prices, Trades, IInv, TypeOK
  <2>5. CASE trade'.open
    <3>1. trade'.open = TRUE
      BY <2>3, <2>5 DEF Trades
    <3>2. Contract!Move
      BY <2>3, <2>4, <3>1 DEF Contract!Move, Contract!Better, Follows, Improves
    <3>3. QED
      BY <3>2 DEF Contract!Next
  <2>6. CASE ~trade'.open
    <3>1. trade'.open = FALSE /\ trade'.stop = trade.stop
      BY <2>3, <2>6 DEF Trades
    <3>2. Contract!Close
      BY <2>3, <2>4, <3>1 DEF Contract!Close
    <3>3. QED
      BY <3>2 DEF Contract!Next
  <2>7. QED
    BY <2>5, <2>6
<1>2. CASE StopFills
  <2>1. trade.open /\ trade' = [trade EXCEPT !.open = FALSE] /\ latest' \in Bars
    BY <1>2 DEF StopFills
  <2>2. trade \in Trades
    BY DEF IInv, TypeOK, Trades
  <2>3. Contract!Close
    BY <2>1, <2>2 DEF Contract!Close, Trades, Bars, Prices
  <2>4. QED
    BY <2>3 DEF Contract!Next
<1>3. CASE UNCHANGED rulesVars
  BY <1>3 DEF rulesVars, Contract!vars
<1>4. QED
  BY <1>1, <1>2, <1>3 DEF RulesNext

\* The decisions of evaluate_cycle and their execution implement the promise of
\* the strategy's documentation: the stop only ever moves towards the profit,
\* behind the market, and a closed trade stays closed.
THEOREM RulesKeepContract == RulesSpec => KeepsContract
<1>1. RulesInit => Contract!Init
  BY ContractInit
<1>2. QED
  BY InitInv, StepInv, ContractInit, ContractStep, PTL DEF RulesSpec, KeepsContract, Contract!Spec
=============================================================================
