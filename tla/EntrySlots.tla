----------------------------- MODULE EntrySlots -----------------------------
(***************************************************************************)
(* How the strategies of a cycle share the symbols, the slots and the bars *)
(* of a trading day: what run_cycle_once reads, in which order, before it  *)
(* lets one strategy after the other enter, beside a stream thread that    *)
(* records fills and a broker that makes them.                             *)
(*                                                                         *)
(* Signals are arbitrary: a strategy may want any symbol it may enter.     *)
(* Positions all cost the same; an entry fills whole or not at all.        *)
(***************************************************************************)
EXTENDS Integers, Sequences, FiniteSets

CONSTANTS
    Strategies,    \* the active strategies, highest confidence first
    Symbols,       \* the symbols of the watchlist
    MaxSlots,      \* settings.max_open_positions
    MaxExposure,   \* positions of one strategy that the exposure cap admits
    MaxBar,        \* bars of a day
    MaxCycles,     \* cycles of a behaviour
    MaxCrashes     \* crashes of the process

\* The active strategies are the keys of a registry, and may all be disabled.
ASSUME EntrySlotsAssumption ==
    /\ {MaxSlots, MaxExposure, MaxBar, MaxCycles, MaxCrashes} \subseteq Nat
    /\ Len(Strategies) \in Nat
    /\ \A i, j \in 1 .. Len(Strategies) : Strategies[i] = Strategies[j] => i = j
    /\ IsFiniteSet(Symbols)

VARIABLES
    order,    \* the broker's entry order of a strategy for a symbol
    shares,   \* the strategies and symbols whose entries hold shares
    exit,     \* its sell order: open, or filled and not yet so in the ledger
    row,      \* the ledger's row of the entry order
    rowBar,   \* signal_timestamp of the row
    position, \* the position rows
    pc, turn, \* where the cycle is, and whose turn it is
    sending,  \* the entry being submitted
    seen,     \* what the cycle has read: broker orders, broker positions, ledger
    taken,    \* global_occupied_slots, and global_position_symbols
    bar,      \* the latest completed bar
    cadence,  \* the last bar entered on: in memory, and as the audit log has it
    used,     \* entry_cadence_used, and the bars entered on in earlier cycles
    left,     \* cycles and crashes left
    trades,   \* how often a strategy has traded a symbol this day
    leaving   \* holdings an exit order was sent for

brokerVars == <<order, shares, exit>>
ledgerVars == <<row, rowBar, position>>
cycleVars == <<pc, turn, sending, seen, taken, cadence, used>>
history == <<trades, leaving>>
vars == <<brokerVars, ledgerVars, cycleVars, bar, left, history>>

Names == {Strategies[i] : i \in 1 .. Len(Strategies)}
Pairs == Names \X Symbols
SymbolsOf(pairs) == {p[2] : p \in pairs}
Of(st, pairs) == {p \in pairs : p[1] = st}

\* ACTIVE_ENTRY_STATUSES, and ENTRY_ATTEMPT_STATUSES, which lacks "missing".
Active == {"pending_submit", "submitting", "new"}
Attempted == Active \cup {"filled", "canceled"}
RowsIn(states) == {p \in Pairs : row[p] \in states}

NothingSeen == [orders |-> {}, exits |-> {}, held |-> {}, filled |-> {}, sold |-> {},
                positions |-> {}, working |-> {}, bar |-> 0]

Init ==
    /\ order = [p \in Pairs |-> "none"] /\ shares = {} /\ exit = [p \in Pairs |-> "none"]
    /\ row = [p \in Pairs |-> "none"] /\ rowBar = [p \in Pairs |-> 0] /\ position = {}
    /\ pc = "idle" /\ turn = 0 /\ sending = {} /\ seen = NothingSeen
    /\ taken = [slots |-> 0, symbols |-> {}]
    /\ bar = 1 /\ cadence = [memory |-> 0, log |-> 0]
    /\ used = [now |-> FALSE, before |-> {}]
    /\ left = [cycles |-> MaxCycles, crashes |-> MaxCrashes]
    /\ trades = [p \in Pairs |-> 0] /\ leaving = {}

-----------------------------------------------------------------------------
(***************************************************************************)
(* The broker and the market.                                              *)
(***************************************************************************)
EntryFills(p) ==
    /\ order[p] = "open"
    /\ order' = [order EXCEPT ![p] = "filled"]
    /\ shares' = shares \cup {p}
    /\ exit' = [exit EXCEPT ![p] = "none"]
    /\ trades' = [trades EXCEPT ![p] = @ + 1]
    /\ leaving' = leaving \ {p}

EntryEnds(p) ==
    /\ order[p] = "open"
    /\ order' = [order EXCEPT ![p] = "canceled"]
    /\ UNCHANGED <<shares, exit, history>>

\* A stop or an exit sells the shares, or the exit order ends without doing so.
SharesSold(p) ==
    /\ p \in shares
    /\ shares' = shares \ {p}
    /\ exit' = [exit EXCEPT ![p] = "filled"]
    /\ UNCHANGED <<order, history>>

ExitEnds(p) ==
    /\ exit[p] = "open"
    /\ exit' = [exit EXCEPT ![p] = "none"]
    /\ UNCHANGED <<order, shares, history>>

Broker == \E p \in Pairs :
    /\ EntryFills(p) \/ EntryEnds(p) \/ SharesSold(p) \/ ExitEnds(p)
    /\ UNCHANGED <<ledgerVars, cycleVars, bar, left>>

NewBar ==
    /\ bar < MaxBar /\ bar' = bar + 1
    /\ UNCHANGED <<brokerVars, ledgerVars, cycleVars, left, history>>

\* The stream thread records what happened to an entry or to a position, some
\* time later or, when it is down, never.  A sale is recorded once: a sell order
\* that is filled in the ledger already removes no position.
Stream == \E p \in Pairs :
    /\ \/ /\ order[p] \in {"filled", "canceled"} /\ row[p] \in {"submitting", "new"}
          /\ row' = [row EXCEPT ![p] = order[p]]
          /\ position' = IF order[p] = "filled" THEN position \cup {p} ELSE position
          /\ UNCHANGED exit
       \/ /\ exit[p] = "filled" /\ exit' = [exit EXCEPT ![p] = "none"]
          /\ position' = position \ {p} /\ UNCHANGED row
    /\ UNCHANGED <<order, shares, cycleVars, rowBar, bar, left, history>>

-----------------------------------------------------------------------------
(***************************************************************************)
(* The cycle reads the broker's orders, its positions, its closed orders;  *)
(* recovers the ledger; reads the ledger's positions, then its orders.     *)
(***************************************************************************)
Reads(from, to, what) ==
    /\ pc = from /\ pc' = to /\ seen' = what
    /\ UNCHANGED <<brokerVars, ledgerVars, turn, sending, taken, cadence, bar, history>>

ReadOrders ==
    /\ left.cycles > 0 /\ left' = [left EXCEPT !.cycles = @ - 1]
    /\ used' = [now |-> FALSE, before |-> {rowBar[p] : p \in Pairs}]
    /\ Reads("idle", "positions",
             [NothingSeen EXCEPT !.orders = {p \in Pairs : order[p] = "open"},
                                 !.exits = {p[2] : p \in {q \in Pairs : exit[q] = "open"}}])

ReadPositions ==
    /\ Reads("positions", "closed", [seen EXCEPT !.held = SymbolsOf(shares)])
    /\ UNCHANGED <<left, used>>

ReadClosedOrders ==
    /\ Reads("closed", "recover",
             [seen EXCEPT !.filled = {p \in Pairs : order[p] = "filled"},
                          !.sold = {p \in Pairs : exit[p] = "filled"}])
    /\ UNCHANGED <<left, used>>

\* _latest_recoverable_entry_order: whose entry brought a holding the ledger lacks.
Recoverable(s) ==
    {p \in Pairs : p[2] = s /\ (row[p] \in {"submitting", "new"} \/ p \in seen.orders \cup seen.filled)}

\* What was read of the open orders is written last, over what the stream knows.
RecoveredRow(p, recovered) ==
    LET filled == p \in recovered \cup seen.filled IN
    CASE p \in seen.orders                                          -> "new"
      [] p \notin seen.orders /\ filled                             -> "filled"
      [] p \notin seen.orders /\ ~filled /\ row[p] = "submitting"   -> "pending_submit"
      [] p \notin seen.orders /\ ~filled /\ row[p] = "new"          -> "missing"
      [] OTHER                                                       -> row[p]

\* A holding without a position row becomes one, under the strategy of its entry
\* or of the default; a position row without a holding goes; a sale that was read
\* is in the ledger from here on.
Recover ==
    /\ pc = "recover" /\ pc' = "dispatch" /\ turn' = 0
    /\ \E lacking \in [seen.held \ SymbolsOf(position) -> Names] :
         /\ \A s \in DOMAIN lacking :
              IF Recoverable(s) = {} THEN lacking[s] = Strategies[1]
              ELSE <<lacking[s], s>> \in Recoverable(s)
         /\ LET new == {<<lacking[s], s>> : s \in DOMAIN lacking}
                recovered == {p \in new : Recoverable(p[2]) # {}} IN
              /\ position' = {p \in position : p[2] \in seen.held} \cup new
              /\ row' = [p \in Pairs |-> RecoveredRow(p, recovered)]
    /\ exit' = [p \in Pairs |-> IF exit[p] = "filled" /\ p \in seen.sold THEN "none" ELSE exit[p]]
    /\ UNCHANGED <<order, shares, rowBar, sending, seen, taken, cadence, used, bar, left, history>>

ReadLedgerPositions ==
    /\ Reads("dispatch", "entries", [seen EXCEPT !.positions = position]) /\ turn = 0
    /\ UNCHANGED <<left, used>>

\* Mutation: the active stops are not looked at.
WorkingEntries == SymbolsOf(seen.orders) \cup seen.exits \cup SymbolsOf(RowsIn(Active))

\* Every recorded position has an active stop row: a fill recorded since the
\* positions were read is missing from them and from the entries, and shows here.
Working == SymbolsOf(seen.orders) \cup seen.exits \cup SymbolsOf(RowsIn(Active) \cup position)

\* Mutation: after a restart only the audit log is asked.
RememberedInLog == IF cadence.memory = 0 THEN cadence.log ELSE cadence.memory

\* _load_persisted_entry_cadence_bar: the later of the audit log and the orders.
Remembered ==
    IF cadence.memory > 0 THEN cadence.memory
    ELSE CHOOSE b \in {cadence.log} \cup {rowBar[p] : p \in Pairs} :
           b >= cadence.log /\ \A p \in Pairs : b >= rowBar[p]

OccupiedSlots(working) == Cardinality(SymbolsOf(seen.positions) \cup working)

ReadLedgerEntries ==
    /\ pc = "entries" /\ pc' = "next"
    /\ seen' = [seen EXCEPT !.working = Working, !.bar = bar]
    /\ taken' = [slots |-> OccupiedSlots(Working), symbols |-> SymbolsOf(seen.positions)]
    /\ cadence' = [cadence EXCEPT !.memory = Remembered]
    /\ UNCHANGED <<brokerVars, ledgerVars, turn, sending, used, bar, left, history>>

-----------------------------------------------------------------------------
(***************************************************************************)
(* One strategy's turn: decide and save the entries, exit, dispatch.       *)
(***************************************************************************)
Strategy == Strategies[turn]

\* Symbols the strategy may not enter: working, or held by whichever strategy,
\* or entered by another one earlier in this cycle.
Blocked(st) == seen.working \cup taken.symbols \cup SymbolsOf(Of(st, seen.positions))

\* _load_traded_symbols
Traded(st) == SymbolsOf(Of(st, RowsIn(Attempted)))

Room(st) ==
    LET slots == MaxSlots - taken.slots
        exposure == MaxExposure - Cardinality(Of(st, seen.positions)) IN
    IF slots < exposure THEN slots ELSE exposure

\* The entries a strategy may select, all in one transaction.
MayEnter == cadence.memory < seen.bar

Selections(st) ==
    {e \in SUBSET ({st} \X (Symbols \ (Blocked(st) \cup Traded(st)))) :
        e = {} \/ Cardinality(e) <= Room(st)}

Evaluate ==
    /\ pc = "evaluate" /\ pc' = "exits"
    /\ \E enabled \in BOOLEAN, entries \in Selections(Strategy) :
         /\ entries # {} => enabled /\ MayEnter
         /\ row' = [p \in Pairs |-> IF p \in entries THEN "pending_submit" ELSE row[p]]
         /\ rowBar' = [p \in Pairs |-> IF p \in entries THEN seen.bar ELSE rowBar[p]]
         /\ taken' = [slots |-> taken.slots + Cardinality(entries),
                      symbols |-> taken.symbols \cup SymbolsOf(entries)]
         /\ used' = [used EXCEPT !.now = @ \/ (enabled /\ MayEnter)]
    /\ UNCHANGED <<brokerVars, position, turn, sending, seen, cadence, bar, left, history>>

\* run_cycle raises: its transaction is rolled back and the next strategy follows.
EvaluateFails ==
    /\ pc = "evaluate" /\ pc' = "next"
    /\ \E enabled \in BOOLEAN : used' = [used EXCEPT !.now = @ \/ (enabled /\ MayEnter)]
    /\ UNCHANGED <<brokerVars, ledgerVars, turn, sending, seen, taken, cadence, bar, left, history>>

\* Exits of the strategy's positions; those the broker takes free their slots.
Exit ==
    /\ pc = "exits" /\ pc' = "dispatch"
    /\ \E exits \in SUBSET {p \in Of(Strategy, seen.positions) \cap shares : exit[p] = "none"} :
         /\ exit' = [p \in Pairs |-> IF p \in exits THEN "open" ELSE exit[p]]
         /\ leaving' = leaving \cup exits
         /\ taken' = [taken EXCEPT !.slots =
                        IF @ < Cardinality(exits) THEN 0 ELSE @ - Cardinality(exits)]
    /\ UNCHANGED <<order, shares, ledgerVars, turn, sending, seen, cadence, used, bar, left, trades>>

\* Dispatch of any strategy's entries: mark, submit, save the answer.
MarkSubmitting == \E p \in RowsIn({"pending_submit"}) :
    /\ pc = "dispatch" /\ pc' = "submit" /\ sending' = {p}
    /\ row' = [row EXCEPT ![p] = "submitting"]
    /\ UNCHANGED <<brokerVars, rowBar, position, turn, seen, taken, cadence, used, bar, left, history>>

Submit == \E p \in sending :
    /\ pc = "submit" /\ pc' = "save"
    /\ order' = [order EXCEPT ![p] = "open"]
    /\ UNCHANGED <<shares, exit, ledgerVars, turn, sending, seen, taken, cadence, used, bar, left, history>>

SaveAnswer == \E p \in sending :
    /\ pc = "save" /\ pc' = "dispatch" /\ sending' = {}
    /\ row' = [row EXCEPT ![p] = "new"]
    /\ UNCHANGED <<brokerVars, rowBar, position, turn, seen, taken, cadence, used, bar, left, history>>

\* An entry whose window is over is given up, one of a blocked strategy waits.
Expire == \E p \in RowsIn({"pending_submit"}) :
    /\ pc = "dispatch"
    /\ row' = [row EXCEPT ![p] = "canceled"]
    /\ UNCHANGED <<brokerVars, rowBar, position, cycleVars, bar, left, history>>

EndDispatch ==
    /\ pc = "dispatch" /\ turn > 0 /\ pc' = "next"
    /\ UNCHANGED <<brokerVars, ledgerVars, turn, sending, seen, taken, cadence, used, bar, left, history>>

NextStrategy ==
    /\ pc = "next" /\ turn < Len(Strategies)
    /\ pc' = "evaluate" /\ turn' = turn + 1
    /\ UNCHANGED <<brokerVars, ledgerVars, sending, seen, taken, cadence, used, bar, left, history>>

\* The cycle ends: the bar is remembered, and logged unless the log fails.
EndCycle ==
    /\ pc = "next" /\ turn = Len(Strategies)
    /\ pc' = "idle" /\ turn' = 0 /\ seen' = NothingSeen
    /\ taken' = [slots |-> 0, symbols |-> {}]
    /\ \E logged \in BOOLEAN :
         cadence' = IF used.now
                    THEN [memory |-> seen.bar, log |-> IF logged THEN seen.bar ELSE cadence.log]
                    ELSE cadence
    /\ UNCHANGED <<brokerVars, ledgerVars, sending, used, bar, left, history>>

Crash ==
    /\ left.crashes > 0 /\ left' = [left EXCEPT !.crashes = @ - 1]
    /\ pc' = "idle" /\ turn' = 0 /\ sending' = {} /\ seen' = NothingSeen
    /\ taken' = [slots |-> 0, symbols |-> {}]
    /\ cadence' = [cadence EXCEPT !.memory = 0]
    /\ UNCHANGED <<brokerVars, ledgerVars, used, bar, history>>

Supervisor ==
    \/ ReadOrders \/ ReadPositions \/ ReadClosedOrders \/ Recover
    \/ ReadLedgerPositions \/ ReadLedgerEntries
    \/ Evaluate \/ EvaluateFails \/ Exit
    \/ MarkSubmitting \/ Submit \/ SaveAnswer \/ Expire \/ EndDispatch
    \/ NextStrategy \/ EndCycle

Next == Supervisor \/ Stream \/ Broker \/ NewBar \/ Crash

Spec == Init /\ [][Next]_vars

-----------------------------------------------------------------------------
\* A strategy's claim on a symbol: an entry under way, or shares.
Claims == RowsIn(Active) \cup {p \in Pairs : order[p] = "open"} \cup shares

\* Two strategies never enter or hold one symbol at a time, although each of the
\* reads the cycle blocks symbols by is old when the entry is decided.
OneStrategyPerSymbol == \A p, q \in Claims : p[2] = q[2] => p = q

\* No more symbols are entered and held than there are slots, those apart that an
\* exit order was sent for: it frees its slot before it fills.
SlotsRespected == Cardinality(SymbolsOf(Claims \ leaving)) <= MaxSlots

\* A strategy trades a symbol at most once a day, whatever is lost or repeated.
TradedOnceADay == \A p \in Pairs : trades[p] <= 1

\* Several strategies share the symbols and the slots: the three of them.
SlotsAreShared == OneStrategyPerSymbol /\ SlotsRespected /\ TradedOnceADay

\* A bar that was entered on in one cycle is not entered on in another, not even
\* after a restart that forgot it.
OneCyclePerBar ==
    [][\A p \in Pairs : row'[p] = "pending_submit" /\ row[p] \notin Active =>
           rowBar'[p] \notin used.before]_vars

\* What the documentation says of the caps.
SlotCap == Cardinality(SymbolsOf(shares)) <= MaxSlots
ExposureCap == Cardinality(shares) <= MaxExposure
=============================================================================
