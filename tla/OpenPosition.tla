---------------------------- MODULE OpenPosition ----------------------------
(***************************************************************************)
(* One open position and everything but the cycle's intents that acts on   *)
(* it: the broker with its orders and the market price, the ledger's rows  *)
(* with their stop prices, the stream thread, the recovery at the head of  *)
(* a cycle and the dispatch at its end.  TradingCore has the last three    *)
(* step by step; here each is one step, and the orders have prices.        *)
(*                                                                         *)
(* Prices are ticks.  An order's id is the client order id under which the *)
(* broker accepted it: [k |-> kind, n |-> the bar whose timestamp is in    *)
(* the id, or the number of the replacement].                              *)
(***************************************************************************)
EXTENDS Integers, SequencesExt

CONSTANTS
    Shares,       \* shares the entry bought
    MaxPrice,     \* prices are 1 .. MaxPrice
    MaxBar,       \* bars of the session; the id of an intent's order has one
    MaxReplaced,  \* replacements the broker makes, over a behaviour
    MaxFaults,    \* broker calls that fail in transit, over a behaviour
    MaxStaleExits \* exit orders left over from the session before

ASSUME OpenPositionAssumption ==
    /\ Shares \in Nat \ {0} /\ MaxPrice \in Nat \ {0} /\ MaxBar \in Nat \ {0}
    /\ MaxReplaced \in Nat /\ MaxFaults \in Nat /\ MaxStaleExits \in {0, 1}

VARIABLES
    bo,        \* the broker's orders
    held,      \* shares in the account
    market,    \* the market price
    replaced,  \* replacements made so far (bounded by MaxReplaced)
    updates,   \* trade updates not yet handled, oldest first
    rows,      \* the table `orders'
    pos,       \* the row of the table `positions'; no shares: no row
    resize,    \* the protective stop the stream thread is resizing
    faults     \* faults so far (bounded by MaxFaults)

Id(k, n) == [k |-> k, n |-> n]
Entry == Id("entry", 0)
Stop == Id("stop", 0)
FailedExitStop == Id("exit_failed_recovery", 0)
RecoveryStop == Id("startup_recovery", 0)
RecoveryExit == Id("startup_recovery_exit", 0)
RejectionExit == Id("rejection_exit", 0)
CycleStop(bar) == Id("stop", bar)
CycleExit(bar) == Id("exit", bar)
StaleExit == CycleExit(0)
Replacement(n) == Id("replacement", n)
NoId == Id("none", 0)

StopIds == {Stop, FailedExitStop, RecoveryStop} \cup {CycleStop(b) : b \in 1 .. MaxBar}
           \cup {Replacement(n) : n \in 1 .. MaxReplaced}
ExitIds == {RecoveryExit, RejectionExit} \cup {CycleExit(b) : b \in 0 .. MaxBar}
SellIds == StopIds \cup ExitIds
OrderIds == {Entry} \cup SellIds
Prices == 1 .. MaxPrice
InitialStop == 1

BrokerOrder == [st : {"none", "open", "filled", "canceled", "replaced", "expired"},
                qty : 0 .. Shares, px : 0 .. MaxPrice, filled : 0 .. Shares]
NoOrder == [st |-> "none", qty |-> 0, px |-> 0, filled |-> 0]

RowStatus == {"none", "pending_submit", "submitting", "accepted", "partially_filled", "filled",
              "canceled", "replaced", "expired", "error", "reconciled_missing"}
OrderRow == [st : RowStatus, qty : 0 .. Shares, px : 0 .. MaxPrice, filled : 0 .. Shares,
             bid : OrderIds \cup {NoId}]
NoRow == [st |-> "none", qty |-> 0, px |-> 0, filled |-> 0, bid |-> NoId]

Position == [qty : 0 .. Shares, px : 0 .. MaxPrice]
NoPosition == [qty |-> 0, px |-> 0]

ActiveStatus == {"pending_submit", "submitting", "accepted", "partially_filled"}
IsActive(r) == r.st \in ActiveStatus
IsOpen(c) == bo[c].st = "open"
OpenSells == {c \in SellIds : IsOpen(c)}
ActiveRows(ids) == {c \in ids : IsActive(rows[c])}

broker == <<bo, held, market, replaced, updates>>
ledger == <<rows, pos>>
deskVars == <<broker, ledger, resize, faults>>

Row(st, qty, px, bid) == [st |-> st, qty |-> qty, px |-> px, filled |-> 0, bid |-> bid]

\* OrderStore.save keeps the stored fill when the record has none.
Saved(r, new) == [new EXCEPT !.filled = r.filled]

-----------------------------------------------------------------------------
(***************************************************************************)
(* The broker.                                                             *)
(***************************************************************************)
Update(c, st, filled) == [id |-> c, st |-> st, filled |-> filled]
TradeUpdate == [id : OrderIds, st : {"open", "filled", "canceled", "replaced", "expired"},
                filled : 0 .. Shares]

Free(except) == held - MapThenSumSet(LAMBDA c : bo[c].qty - bo[c].filled, OpenSells \ except)

FillStatus(c, n) == IF bo[c].filled + n = bo[c].qty THEN "filled" ELSE "open"

Fills(c, n) ==
    /\ bo' = [bo EXCEPT ![c].st = FillStatus(c, n), ![c].filled = @ + n]
    /\ updates' = Append(updates, Update(c, FillStatus(c, n), bo[c].filled + n))

EntryFills ==
    /\ IsOpen(Entry)
    /\ \E n \in 1 .. (bo[Entry].qty - bo[Entry].filled) : Fills(Entry, n) /\ held' = held + n
    /\ UNCHANGED <<market, replaced, ledger, resize, faults>>

SellFills(c) ==
    /\ IsOpen(c)
    /\ c \in StopIds => market <= bo[c].px
    /\ \E n \in 1 .. (bo[c].qty - bo[c].filled) :
         n <= held /\ Fills(c, n) /\ held' = held - n
    /\ UNCHANGED <<market, replaced, ledger, resize, faults>>

MarketMoves ==
    /\ market' \in Prices \ {market}
    /\ UNCHANGED <<bo, held, replaced, updates, ledger, resize, faults>>

IsAboveMarket(c, px) == c \in StopIds /\ px >= market

Accepts(c, qty, px) ==
    bo[c].st = "none" /\ ~IsOpen(Entry) /\ qty <= Free({}) /\ ~IsAboveMarket(c, px)

Places(c, qty, px) ==
    /\ Accepts(c, qty, px)
    /\ bo' = [bo EXCEPT ![c] = [NoOrder EXCEPT !.st = "open", !.qty = qty, !.px = px]]
    /\ UNCHANGED <<held, market, replaced, updates>>

Cancels(cs) ==
    /\ bo' = [c \in OrderIds |-> IF c \in cs THEN [bo[c] EXCEPT !.st = "canceled"] ELSE bo[c]]
    /\ UNCHANGED <<held, market, replaced>>

Cancel(c) ==
    /\ IsOpen(c)
    /\ Cancels({c})
    /\ updates' = Append(updates, Update(c, "canceled", bo[c].filled))

\* The orders a refusal for want of free shares names are canceled, one by one;
\* those whose cancel fails stay.
CancelsBlocking(cs) ==
    /\ Cancels(cs)
    /\ updates' = updates \o SetToSeq({Update(c, "canceled", bo[c].filled) : c \in cs})

\* replace_order makes an order under an id of its own.
CanReplace(c, qty, px) ==
    /\ IsOpen(c) /\ bo[c].filled = 0 /\ replaced < MaxReplaced
    /\ qty <= Free({c}) /\ px < market

Replaces(c, qty, px) ==
    /\ CanReplace(c, qty, px)
    /\ replaced' = replaced + 1
    /\ bo' = [bo EXCEPT ![c].st = "replaced",
                        ![Replacement(replaced')] = [NoOrder EXCEPT !.st = "open", !.qty = qty,
                                                                    !.px = px]]
    /\ updates' = Append(updates, Update(c, "replaced", 0))
    /\ UNCHANGED <<held, market>>

Fault == faults < MaxFaults /\ faults' = faults + 1

-----------------------------------------------------------------------------
(***************************************************************************)
(* The stream thread.                                                      *)
(***************************************************************************)
EndedStop == {"expired", "canceled", "error", "none"}

RowFor(e) ==
    LET byBrokerId == {c \in OrderIds : rows[c].st # "none" /\ rows[c].bid = e.id} IN
    IF rows[e.id].st # "none" \/ byBrokerId = {} THEN e.id
    ELSE CHOOSE c \in byBrokerId : TRUE

RowStatusOf(e) == IF e.st = "open" THEN "partially_filled" ELSE e.st

\* A fill or an end of the entry saves the position anew, with the stop price
\* of the entry, and queues or resizes the protective stop.
SaveEntryPosition(q, rs) ==
    LET s == rows[Stop] IN
    /\ pos' = [qty |-> q, px |-> InitialStop]
    /\ rows' = CASE s.st \in EndedStop ->
                      [rs EXCEPT ![Stop] = Saved(s, Row("pending_submit", q, InitialStop, NoId))]
                 [] s.st = "pending_submit" -> [rs EXCEPT ![Stop].qty = q]
                 [] OTHER -> rs
    /\ resize' = IF s.st \notin EndedStop \cup {"pending_submit"} /\ s.bid # NoId /\ s.qty # q
                 THEN [stage |-> "call", qty |-> q, row |-> s, ans |-> NoId]
                 ELSE resize

NoResize == [stage |-> "idle", qty |-> 0, row |-> NoRow, ans |-> NoId]
Resize == [stage : {"idle", "call", "save"}, qty : 0 .. Shares, row : OrderRow,
           ans : StopIds \cup {NoId}]

AfterSell(e, r) ==
    LET left == pos.qty - (e.filled - rows[r].filled) IN
    IF e.st = "filled" \/ left <= 0 THEN NoPosition ELSE [pos EXCEPT !.qty = left]

\* Updates that only repeat a status the answer of a call carries are left out.
ApplyUpdate ==
    /\ resize.stage = "idle" /\ updates # <<>>
    /\ updates' = Tail(updates)
    /\ LET e == Head(updates)
           r == RowFor(e)
           rs == [rows EXCEPT ![r].st = RowStatusOf(e), ![r].bid = e.id,
                              ![r].filled = IF e.filled > @ THEN e.filled ELSE @]
           IsFill == e.st \in {"filled", "open"} IN
       \/ /\ rows[r].st = "none" \/ (rows[r].st = "filled" /\ e.filled <= rows[r].filled)
          /\ UNCHANGED <<ledger, resize>>
       \/ /\ rows[r].st \notin {"none", "filled"} /\ r = Entry
          /\ SaveEntryPosition(e.filled, rs)
       \/ /\ rows[r].st \notin {"none", "filled"} /\ r # Entry
          /\ rows' = rs
          /\ pos' = IF IsFill /\ e.filled > rows[r].filled
                    THEN AfterSell(e, r) ELSE pos
          /\ UNCHANGED resize
    /\ UNCHANGED <<bo, held, market, replaced, faults>>

\* The replacement for a new quantity keeps the price the order has at the
\* broker; its answer is saved over the row as it was before the call.
ResizeStop ==
    /\ resize.stage = "call"
    /\ LET c == resize.row.bid IN
       \/ /\ Replaces(c, resize.qty, bo[c].px)
          /\ resize' = [resize EXCEPT !.stage = "save", !.ans = Replacement(replaced')]
       \/ ~CanReplace(c, resize.qty, bo[c].px) /\ resize' = NoResize /\ UNCHANGED broker
    /\ UNCHANGED <<ledger, faults>>

SaveResized ==
    /\ resize.stage = "save"
    /\ rows' = [rows EXCEPT
         ![Stop] = Saved(@, Row("accepted", resize.qty, resize.row.px, resize.ans))]
    /\ resize' = NoResize
    /\ UNCHANGED <<broker, pos, faults>>

Stream == ApplyUpdate \/ ResizeStop \/ SaveResized
Market == EntryFills \/ (\E c \in SellIds : SellFills(c)) \/ MarketMoves

-----------------------------------------------------------------------------
(***************************************************************************)
(* The recovery at the head of a cycle, taken as one step.                 *)
(***************************************************************************)

\* Mutation: an order the crash left being submitted stays so.
ReconciledLeavesSubmitting(r) ==
    IF rows[r].st = "submitting" THEN rows[r]
    ELSE IF IsOpen(r) THEN Saved(rows[r], Row("accepted", bo[r].qty, bo[r].px, r))
    ELSE IF IsActive(rows[r]) /\ rows[r].bid # NoId
         THEN [rows[r] EXCEPT !.st = "reconciled_missing"] ELSE rows[r]

\* Mutation: a row whose order has ended without a fill stays as it is.
ReconciledKeepsMissing(r) ==
    LET o == IF rows[r].bid = NoId THEN r ELSE rows[r].bid IN
    CASE IsOpen(r) -> Saved(rows[r], Row("accepted", bo[r].qty, bo[r].px, r))
      [] ~IsOpen(r) /\ rows[r].st # "none" /\ bo[o].filled > 0 ->
            [rows[r] EXCEPT !.st = bo[o].st, !.filled = bo[o].filled, !.bid = o]
      [] OTHER -> rows[r]

\* A row after the recovery has compared it with the broker's orders.  An order
\* the broker has lost is given up (the count of three misses is TradingCore's).
Reconciled(r) ==
    LET o == IF rows[r].bid = NoId THEN r ELSE rows[r].bid
        row == rows[r] IN
    CASE IsOpen(r) \/ (bo[o].st = "open" /\ IsActive(row)) ->
            LET c == IF IsOpen(r) THEN r ELSE o IN
            Saved(row, Row(IF bo[c].filled > 0 THEN "partially_filled" ELSE "accepted",
                           bo[c].qty, bo[c].px, c))
      [] ~IsOpen(r) /\ bo[o].st # "open" /\ row.st # "none" /\ bo[o].filled > 0 ->
            [row EXCEPT !.st = bo[o].st, !.filled = bo[o].filled, !.bid = o]
      [] ~IsOpen(r) /\ bo[o].st # "open" /\ bo[o].filled = 0 /\ row.st = "submitting"
           /\ row.bid = NoId ->
            [row EXCEPT !.st = "pending_submit"]
      [] ~IsOpen(r) /\ bo[o].st # "open" /\ bo[o].filled = 0 /\ IsActive(row)
           /\ row.bid # NoId ->
            [row EXCEPT !.st = "reconciled_missing"]
      [] OTHER -> row

StopPrice == IF pos.qty > 0 THEN pos.px ELSE InitialStop

\* A stop that ended is queued again only for another price.
Renewable(r) == r.st = "none" \/ (r.st \in {"expired", "canceled", "error"} /\ r.px # StopPrice)

\* Mutation: only a position that is new to the ledger gets a stop.
WithCoverForNew(rs) ==
    IF held > 0 /\ pos.qty = 0 /\ OpenSells = {} /\ ActiveRows(StopIds) = {}
    THEN [rs EXCEPT ![RecoveryStop] =
            Saved(@, Row("pending_submit", held, StopPrice, NoId))]
    ELSE rs

\* A position that is new to the ledger gets a stop unless one is there; then any
\* position that nothing sells gets one, or an exit if the market is below its stop.
WithCover(rs) ==
    LET bare == held > 0 /\ OpenSells = {} /\ ActiveRows(StopIds) = {}
        alone == bare /\ ActiveRows(ExitIds) = {} IN
    [rs EXCEPT
       ![RecoveryExit] = IF alone /\ market <= StopPrice
                         THEN Saved(@, Row("pending_submit", held, 0, NoId)) ELSE @,
       ![RecoveryStop] = IF \/ bare /\ pos.qty = 0
                            \/ alone /\ market > StopPrice /\ Renewable(rows[RecoveryStop])
                         THEN Saved(@, Row("pending_submit", held, StopPrice, NoId)) ELSE @]

Reconcile ==
    /\ pos' = IF held = 0 THEN NoPosition ELSE [qty |-> held, px |-> StopPrice]
    /\ rows' = WithCover([r \in OrderIds |-> Reconciled(r)])
    /\ UNCHANGED <<broker, resize, faults>>

-----------------------------------------------------------------------------
(***************************************************************************)
(* The dispatch of a row at the end of a cycle, taken as one step.         *)
(***************************************************************************)
RefusedStatus(c) ==
    IF IsAboveMarket(c, rows[c].px) /\ bo[c].st = "none" /\ ~IsOpen(Entry) /\ rows[c].qty <= Free({})
    THEN "canceled" ELSE "error"

Dispatch(c) ==
    /\ rows[c].st = "pending_submit"
    /\ \/ /\ Places(c, rows[c].qty, rows[c].px)
          /\ rows' = [rows EXCEPT ![c].st = "accepted", ![c].bid = c]
       \/ /\ ~Accepts(c, rows[c].qty, rows[c].px)
          /\ UNCHANGED broker
          /\ LET rs == [rows EXCEPT ![c].st = RefusedStatus(c)] IN
             rows' = IF RefusedStatus(c) = "canceled" /\ ActiveRows(ExitIds) = {}
                     THEN [rs EXCEPT ![RejectionExit] =
                             Saved(@, Row("pending_submit", rows[c].qty, 0, NoId))]
                     ELSE rs
    /\ UNCHANGED <<pos, resize, faults>>

\* Before a stop is submitted the partially filled entry is canceled, and the
\* stop takes its quantity from the entry's row.
CancelEntryForStop ==
    /\ rows[Stop].st = "pending_submit" /\ rows[Entry].st = "partially_filled"
    /\ Cancel(Entry)
    /\ rows' = [rows EXCEPT ![Entry].st = "canceled", ![Stop].qty = rows[Entry].filled]
    /\ UNCHANGED <<pos, resize, faults>>

-----------------------------------------------------------------------------
OpenOrder(qty, filled, px) == [st |-> "open", qty |-> qty, px |-> px, filled |-> filled]
RestingRow(qty, px, c) == Row("accepted", qty, px, c)

\* The entry is filled and its stop rests at the broker.
Protected ==
    /\ bo = [c \in OrderIds |->
               CASE c = Entry -> [OpenOrder(Shares, Shares, 0) EXCEPT !.st = "filled"]
                 [] c = Stop -> OpenOrder(Shares, 0, InitialStop)
                 [] OTHER -> NoOrder]
    /\ rows = [c \in OrderIds |->
                 CASE c = Entry -> [RestingRow(Shares, 0, Entry) EXCEPT !.st = "filled",
                                                                       !.filled = Shares]
                   [] c = Stop -> RestingRow(Shares, InitialStop, Stop)
                   [] OTHER -> NoRow]
    /\ held = Shares /\ pos = [qty |-> Shares, px |-> InitialStop]
    /\ updates = <<>>

\* The entry was canceled before its stop was submitted, and a last fill of it
\* is still on its way.
LateEntryFill ==
    /\ bo = [c \in OrderIds |->
               CASE c = Entry -> [OpenOrder(Shares, Shares, 0) EXCEPT !.st = "canceled"]
                 [] c = Stop -> OpenOrder(1, 0, InitialStop)
                 [] OTHER -> NoOrder]
    /\ rows = [c \in OrderIds |->
                 CASE c = Entry -> [RestingRow(Shares, 0, Entry) EXCEPT !.st = "canceled",
                                                                       !.filled = 1]
                   [] c = Stop -> RestingRow(1, InitialStop, Stop)
                   [] OTHER -> NoRow]
    /\ held = Shares /\ pos = [qty |-> 1, px |-> InitialStop]
    /\ updates = <<Update(Entry, "canceled", Shares)>>

\* The entry is partially filled and still open; its stop waits for a dispatch.
PartialEntry ==
    /\ bo = [c \in OrderIds |-> IF c = Entry THEN OpenOrder(Shares, 1, 0) ELSE NoOrder]
    /\ rows = [c \in OrderIds |->
                 CASE c = Entry -> [RestingRow(Shares, 0, Entry) EXCEPT
                                      !.st = "partially_filled", !.filled = 1]
                   [] c = Stop -> Row("pending_submit", 1, InitialStop, NoId)
                   [] OTHER -> NoRow]
    /\ held = 1 /\ pos = [qty |-> 1, px |-> InitialStop]
    /\ updates = <<>>

\* An exit of the session before is active in the ledger and, for the broker,
\* still open or gone.
StaleExitLeft ==
    /\ MaxStaleExits = 1
    /\ \E st \in {"open", "expired"} :
         bo = [c \in OrderIds |->
                 CASE c = Entry -> [OpenOrder(Shares, Shares, 0) EXCEPT !.st = "filled"]
                   [] c = StaleExit -> [OpenOrder(Shares, 0, 0) EXCEPT !.st = st]
                   [] OTHER -> NoOrder]
    /\ rows = [c \in OrderIds |->
                 CASE c = Entry -> [RestingRow(Shares, 0, Entry) EXCEPT !.st = "filled",
                                                                       !.filled = Shares]
                   [] c = StaleExit -> RestingRow(Shares, 0, StaleExit)
                   [] OTHER -> NoRow]
    /\ held = Shares /\ pos = [qty |-> Shares, px |-> InitialStop]
    /\ updates = <<>>

DeskTypeOK ==
    /\ bo \in [OrderIds -> BrokerOrder] /\ rows \in [OrderIds -> OrderRow]
    /\ pos \in Position /\ held \in 0 .. Shares /\ market \in Prices
    /\ replaced \in 0 .. MaxReplaced /\ resize \in Resize /\ faults \in 0 .. MaxFaults
    /\ updates \in Seq(TradeUpdate)
=============================================================================
