-------------------------- MODULE TradeAccounting ---------------------------
(***************************************************************************)
(* What the orders table says was earned. No trade is stored: every report *)
(* matches an exit row to the entry row of the same owner (symbol and      *)
(* strategy) that was saved last before it, and rows are saved again       *)
(* whenever the broker reports on their order. The reports gate the loss   *)
(* limits, the consecutive-loss gate, the strategy weights and the pages   *)
(* an operator reads.                                                      *)
(*                                                                         *)
(* Quantities are counted in parts of a share, money in as many parts of a *)
(* dollar.  Prices are even, so that the average of two fills is a number. *)
(***************************************************************************)
EXTENDS Integers, FiniteSets, FiniteSetsExt

CONSTANTS Owners,        \* pairs <<symbol, strategy>> that trade
          OptionNames,   \* strategies whose rows count contracts
          Multiplier,    \* shares of a contract
          Parts,         \* parts of a share or contract that orders can name
          Prices,        \* fill prices, all even
          Ordered,       \* parts an entry order asks for, 1 or 2
          Trades,        \* bound: trades of an owner
          LastDay        \* bound: session days

ASSUME AccountingAssumption ==
    /\ IsFiniteSet(Owners)
    /\ \A p \in Prices : p \in Nat /\ p % 2 = 0
    /\ Ordered \in 1 .. 2
    /\ {Multiplier, Trades} \subseteq Nat /\ {Parts, LastDay} \subseteq Nat \ {0}

VARIABLES entries,    \* the entry rows
          exits,      \* the stop and exit rows
          current,    \* the running trade of each owner
          now, day,   \* the clock of updated_at and the session date
          cost,       \* history: what the shares still held have cost
          earned,     \* history: what each owner's sales earned on each day
          moved       \* history: owners one of whose rows was saved out of turn

accountingVars == <<entries, exits, current, now, day, cost, earned, moved>>

Symbol(o) == o[1]
Strategy(o) == o[2]
ContractSize(s) == IF s \in OptionNames THEN Multiplier ELSE 1

EntryIds == Owners \X (1 .. Trades)
ExitIds == Owners \X (1 .. Trades) \X (1 .. 2)

Unsaved == [filled |-> 0, price |-> 0, at |-> 0, day |-> 0, open |-> FALSE]

(* OrderStore.save: the fill, its price and updated_at are overwritten.     *)
Saved(filled, price, open) ==
    [filled |-> filled, price |-> price, at |-> now, day |-> day, open |-> open]

-----------------------------------------------------------------------------
(* The correlated subqueries, over the rows of the table.                  *)

\* Mutation: the first entry, not the latest.

EntriesBefore(x) ==
    {e \in DOMAIN entries : /\ e[1] = x[1]
                            /\ entries[e].filled > 0
                            /\ entries[e].at <= exits[x].at}

Earliest(found) == CHOOSE e \in found : \A f \in found : entries[e].at <= entries[f].at

Latest(found) == CHOOSE e \in found : \A f \in found : entries[f].at <= entries[e].at

SameDay(x) == {e \in EntriesBefore(x) : entries[e].day = exits[x].day}

Exited == {x \in DOMAIN exits : exits[x].filled > 0}
ExitsOf(days) == {x \in Exited : exits[x].day \in days}

Gain(x, e) == (exits[x].price - entries[e].price) * exits[x].filled

Shares(x) == ContractSize(Strategy(x[1]))

(* An exit without an entry counts as a loss of all it brought in.          *)
Realized(x) ==
    Shares(x) * (IF EntriesBefore(x) = {} THEN -(exits[x].price * exits[x].filled)
                 ELSE Gain(x, Latest(EntriesBefore(x))))

RealizedOver(found) == SumFunctionOnSet([x \in DOMAIN exits |-> Realized(x)], found)

daily_realized_pnl(d) == RealizedOver(ExitsOf({d}))

daily_realized_pnl_by_symbol(d) ==
    [sym \in {Symbol(x[1]) : x \in ExitsOf({d})} |->
        RealizedOver({x \in ExitsOf({d}) : Symbol(x[1]) = sym})]

(* The trades of one day, entered and left on it; no two were left at once. *)
list_closed_trades(d) == {x \in ExitsOf({d}) : SameDay(x) # {}}

SameDayGain(x) == Gain(x, Latest(SameDay(x)))

(* _trade_pnl of the digest and the summary counts whole shares only.       *)
Whole(filled) == Parts * (filled \div Parts)
trade_pnl(x) == (exits[x].price - entries[Latest(SameDay(x))].price) * Whole(exits[x].filled)
PnlOver(found) == SumFunctionOnSet([x \in DOMAIN exits |-> trade_pnl(x)], found)

(* A record of the web page knows the contracts.                            *)
TradeRecordsOver(found) ==
    SumFunctionOnSet([x \in DOMAIN exits |-> Shares(x) * SameDayGain(x)], found)

list_closed_trade_records(days) ==
    {[exit |-> x, pnl |-> SameDayGain(x)] : x \in {y \in ExitsOf(days) : SameDay(y) # {}}}

list_trade_pnl_by_strategy(days) ==
    {[exit |-> x, strategy_name |-> Strategy(x[1]), exit_date |-> exits[x].day,
      pnl |-> Shares(x) * SameDayGain(x)] : x \in {y \in ExitsOf(days) : SameDay(y) # {}}}

list_trade_exits_in_range(days) ==
    {[exit |-> x, exit_time |-> exits[x].at, pnl |-> Gain(x, Latest(EntriesBefore(x)))] :
        x \in {y \in ExitsOf(days) : EntriesBefore(y) # {}}}

Matched(s) == {x \in Exited : Strategy(x[1]) = s /\ EntriesBefore(x) # {}}

win_loss_counts_by_strategy(s) ==
    LET wins == {x \in Matched(s) : Gain(x, Latest(EntriesBefore(x))) > 0}
    IN <<Cardinality(wins), Cardinality(Matched(s) \ wins)>>

lifetime_pnl_by_strategy(s) == RealizedOver(Matched(s))

-----------------------------------------------------------------------------
(* What is made of the reports.                                            *)

Pnl(records) == SumFunctionOnSet([r \in records |-> r.pnl], records)
Won(x) == SameDayGain(x) > 0

(* The mail at the end of the session and the digest within it.            *)
build_daily_summary(d) ==
    LET trades == list_closed_trades(d)
        wins == {x \in trades : Won(x)}
    IN [total |-> daily_realized_pnl(d),
        trades |-> Cardinality(trades),
        wins |-> Cardinality(wins),
        losses |-> Cardinality(trades \ wins),
        breakdown |-> [s \in {Strategy(x[1]) : x \in trades} |->
            PnlOver({x \in trades : Strategy(x[1]) = s})]]

build_intraday_digest(d) == PnlOver(list_closed_trades(d))

(* The trades since the last one that was won.                             *)
trailing_consecutive_losses(d) ==
    LET trades == list_closed_trades(d)
    IN Cardinality({x \in trades : \A y \in trades : exits[y].at >= exits[x].at => ~Won(y)})

(* The web pages: the metrics of a day and the equity line of many.         *)
load_metrics_snapshot(d) == TradeRecordsOver(list_closed_trades(d))

load_equity_chart_data(d) == Pnl(list_trade_exits_in_range({d}))

-----------------------------------------------------------------------------
(* Fills. An owner enters once it is flat and its last entry is decided.    *)

Bought(o, k) == entries[<<o, k>>].filled
Sold(o, k) == exits[<<o, k, 1>>].filled + exits[<<o, k, 2>>].filled
HeldBy(o) == IF current[o] = 0 THEN 0 ELSE Bought(o, current[o]) - Sold(o, current[o])

Tick == now' = now + 1

(* The row of an entry is saved; out of turn once its trade has an exit.    *)
SaveEntry(o, k, filled, price, open) ==
    /\ entries' = [entries EXCEPT ![<<o, k>>] = Saved(filled, price, open)]
    /\ moved' = moved \cup {x[1] : x \in {y \in Exited : <<y[1], y[2]>> = <<o, k>>}}
    /\ Tick
    /\ UNCHANGED <<exits, day, earned>>

(* At most one entry a day: the symbol has been traded otherwise.           *)
Enter(o, p) ==
    /\ HeldBy(o) = 0
    /\ current[o] < Trades
    /\ current[o] > 0 => /\ ~entries[<<o, current[o]>>].open
                         /\ entries[<<o, current[o]>>].day < day
    /\ current' = [current EXCEPT ![o] = @ + 1]
    /\ cost' = [cost EXCEPT ![o] = p]
    /\ SaveEntry(o, current[o] + 1, 1, p, Ordered > 1)

Open(o) == current[o] > 0 /\ entries[<<o, current[o]>>].open

(* A further fill: quantity and average price of the row are the order's.   *)
FillEntry(o, p) ==
    /\ Open(o)
    /\ LET row == entries[<<o, current[o]>>]
       IN SaveEntry(o, current[o], row.filled + 1, (row.filled * row.price + p) \div (row.filled + 1), FALSE)
    /\ cost' = [cost EXCEPT ![o] = @ + p]
    /\ UNCHANGED current

(* The rest of the entry is canceled or expires: its row is saved again.    *)
EndEntry(o) ==
    /\ Open(o)
    /\ LET row == entries[<<o, current[o]>>] IN SaveEntry(o, current[o], row.filled, row.price, FALSE)
    /\ UNCHANGED <<current, cost>>

(* What is sold takes its part of the cost along.                           *)
Sell(o, n, p) ==
    LET sold == (cost[o] * n) \div HeldBy(o)
    IN /\ cost' = [cost EXCEPT ![o] = @ - sold]
       /\ earned' = [earned EXCEPT ![o][day] = @ + ContractSize(Strategy(o)) * (n * p - sold)]

(* The row of a stop or exit is saved; out of turn once its owner has       *)
(* entered again, or on a later day than that of its fills.                *)
InTurn(x) == exits[x].filled > 0 => x[2] = current[x[1]] /\ exits[x].day = day

SaveExit(x, filled, price, open) ==
    /\ exits' = [exits EXCEPT ![x] = Saved(filled, price, open)]
    /\ moved' = IF InTurn(x) THEN moved ELSE moved \cup {x[1]}
    /\ Tick
    /\ UNCHANGED <<entries, current, day>>

(* A stop or an exit sells some or all of what is held.                     *)
Exit(o, p) ==
    /\ HeldBy(o) > 0
    /\ \E n \in 1 .. HeldBy(o), j \in 1 .. 2, open \in BOOLEAN :
         /\ exits[<<o, current[o], j>>].filled = 0
         /\ j = 2 => exits[<<o, current[o], 1>>].filled > 0
         /\ open => n < HeldBy(o)
         /\ Sell(o, n, p)
         /\ SaveExit(<<o, current[o], j>>, n, p, open)

(* It sells more: quantity and average price of the row are the order's.    *)
FillExit(o, p) ==
    /\ HeldBy(o) > 0
    /\ \E j \in 1 .. 2 :
         LET x == <<o, current[o], j>>
             row == exits[x]
         IN /\ row.open
            /\ Sell(o, 1, p)
            /\ SaveExit(x, row.filled + 1, (row.filled * row.price + p) \div (row.filled + 1), FALSE)

(* Its row is saved again with what it has: by every recovery that finds it *)
(* open (here once a day), or once the rest is canceled or has expired.     *)
ExitAgain(x) ==
    /\ exits[x].open
    /\ \E open \in BOOLEAN :
         /\ open => exits[x].day < day
         /\ SaveExit(x, exits[x].filled, exits[x].price, open)
    /\ UNCHANGED <<cost, earned>>

NextDay ==
    /\ day < LastDay
    /\ day' = day + 1
    /\ UNCHANGED <<entries, exits, current, now, cost, earned, moved>>

AccountingInit ==
    /\ entries = [e \in EntryIds |-> Unsaved]
    /\ exits = [x \in ExitIds |-> Unsaved]
    /\ current = [o \in Owners |-> 0]
    /\ now = 1
    /\ day = 1
    /\ cost = [o \in Owners |-> 0]
    /\ earned = [o \in Owners |-> [d \in 1 .. LastDay |-> 0]]
    /\ moved = {}

AccountingNext ==
    \/ \E o \in Owners, p \in Prices :
         Enter(o, p) \/ FillEntry(o, p) \/ Exit(o, p) \/ FillExit(o, p)
    \/ \E o \in Owners : EndEntry(o)
    \/ \E x \in ExitIds : ExitAgain(x)
    \/ NextDay

AccountingSpec == AccountingInit /\ [][AccountingNext]_accountingVars

-----------------------------------------------------------------------------
(* Properties.                                                             *)

Earned(owners, days) ==
    SumFunctionOnSet([od \in owners \X days |-> earned[od[1]][od[2]]], owners \X days)

Of(s) == {o \in DOMAIN current : Strategy(o) = s}

(* No entry row was saved after an exit of its trade, and no exit row on a  *)
(* later day than its fills or after the next entry.                       *)
InOrder(o) == o \notin moved

(* The number behind the daily loss limit is what the day's fills earned,   *)
(* over partial fills of entries and exits, several exits and carried      *)
(* positions, as long as no row is saved out of turn.                      *)
DailyIsEarned ==
    (\A o \in DOMAIN current : InOrder(o)) =>
        \A d \in 1 .. day : daily_realized_pnl(d) = Earned(DOMAIN current, {d})

(* So is the lifetime result of a strategy, and its wins and losses are all *)
(* of its exits.                                                           *)
LifetimeIsEarned ==
    \A s \in {Strategy(o) : o \in DOMAIN current} :
        (\A o \in Of(s) : InOrder(o)) =>
            /\ lifetime_pnl_by_strategy(s) = Earned(Of(s), 1 .. day)
            /\ LET counts == win_loss_counts_by_strategy(s)
               IN counts[1] + counts[2] = Cardinality({x \in Exited : Strategy(x[1]) = s})

(* The reports of one day agree with each other, in whatever order rows     *)
(* were saved: the symbols add up to the day, the mail lists no win the    *)
(* day's losing streak denies; and when every exit has an entry of its     *)
(* day, the trades of the weights and of the metrics page add up to the    *)
(* day, for stocks the equity line and the replay records too, and the     *)
(* mail's trades and the digest once no exit sold a fraction of a share.   *)
ReportsAgree ==
    \A d \in 1 .. day :
        LET mail == build_daily_summary(d)
            symbols == daily_realized_pnl_by_symbol(d)
            stocks == \A x \in ExitsOf({d}) : Strategy(x[1]) \notin OptionNames
            whole == \A x \in ExitsOf({d}) : exits[x].filled % Parts = 0
        IN /\ SumFunctionOnSet(symbols, DOMAIN symbols) = mail.total
           /\ trailing_consecutive_losses(d) <= mail.losses
           /\ mail.wins = 0 => trailing_consecutive_losses(d) = mail.trades
           /\ (\A x \in ExitsOf({d}) : SameDay(x) # {}) =>
                /\ Pnl(list_trade_pnl_by_strategy({d})) = mail.total
                /\ load_metrics_snapshot(d) = mail.total
                /\ stocks => /\ load_equity_chart_data(d) = mail.total
                             /\ Pnl(list_closed_trade_records({d})) = mail.total
                /\ stocks /\ whole => build_intraday_digest(d) = mail.total

(* What gates, weights and pages read of the table is what was earned while *)
(* rows are saved in turn; the reports of a day agree in any case.         *)
ReportsAreTrue == DailyIsEarned /\ LifetimeIsEarned /\ ReportsAgree

(* "Treating as full loss to fail safe on loss-limit check": the number     *)
(* behind the loss limit is never better than what was earned, here on days *)
(* whose entries had one fill, so that no price is an average.             *)
FailSafe ==
    \A d \in 1 .. day :
        (\A x \in ExitsOf({d}) : entries[<<x[1], x[2]>>].filled = 1)
            => daily_realized_pnl(d) <= Earned(DOMAIN current, {d})

(* "Return sum of closed-trade PnL for a session date": a day on which no   *)
(* sale lost anything is not reported as a loss.                           *)
SumOfTrades ==
    \A d \in 1 .. day :
        (\A o \in DOMAIN current : earned[o][d] >= 0) => daily_realized_pnl(d) >= 0
=============================================================================
