-------------------------- MODULE StartupRecovery --------------------------
(***************************************************************************)
(* recover_startup_state: the reconciliation of the ledger with the        *)
(* broker, at startup and at the head of every supervisor cycle.  The      *)
(* broker is read first, open orders, then positions, then closed orders;  *)
(* the ledger is read and written afterwards, in one transaction.  Each    *)
(* pass of that transaction is an operator from rows to rows; a condition  *)
(* on `rows' is one on the rows as the transaction found them.             *)
(*                                                                         *)
(* The protective stop price of the session is fixed, so a recovery stop   *)
(* always has the price of the position it protects.                       *)
(***************************************************************************)
EXTENDS Ledger

VARIABLE snap    \* what the supervisor has read from the broker

NoOrders == [c \in OrderIds |-> NoBrokerOrder]
NoSnapshot == [open |-> NoOrders, held |-> 0, low |-> FALSE, closed |-> NoOrders]

Orders(ids) == [c \in OrderIds |-> IF c \in ids THEN bo[c] ELSE NoBrokerOrder]
OpenIds == {c \in OrderIds : IsOpen(bo[c])}
ClosedIds == {c \in OrderIds \ OpenIds : bo[c].st # "none"}

\* Mutation: the gateway lists an order only until it is partially filled.
ReadUnfilledOrders == snap' = [NoSnapshot EXCEPT !.open = Orders({c \in OrderIds : bo[c].st = "accepted"})]

ReadOpenOrders == snap' = [NoSnapshot EXCEPT !.open = Orders(OpenIds)]
ReadPositions == snap' = [snap EXCEPT !.held = held, !.low = low]
ReadClosedOrders == snap' = [snap EXCEPT !.closed = Orders(ClosedIds)]

OpenInSnapshot == {c \in OrderIds : snap.open[c].st # "none"}
ClosedInSnapshot == {c \in OrderIds : snap.closed[c].st # "none"}

MissThreshold == 3    \* RECONCILIATION_MISS_THRESHOLD

LocalActive == {c \in OrderIds : IsActive(rows[c])}

\* Mutation: an order is found by the broker id in a row only; without one it is
\* taken for an order the ledger has no row of.
ResolveByBrokerIdOnly(c) ==
    LET byBrokerId == {r \in LocalActive : rows[r].bid = c} IN
    IF byBrokerId = {} THEN Replacement ELSE CHOOSE r \in byBrokerId : TRUE

\* resolve_local_order: an active row with the order's broker id, else the row
\* of its client id.  Only a replaced stop shares its broker id with another
\* row, and of the two the bot's own client id sorts last and is taken.
Resolve(c) ==
    LET byBrokerId == {r \in LocalActive : rows[r].bid = c} IN
    CASE byBrokerId = {}       -> c
      [] Stop \in byBrokerId   -> Stop
      [] OTHER                 -> CHOOSE r \in byBrokerId : TRUE

ClosedFills(r) ==
    {c \in ClosedInSnapshot : snap.closed[c].filled > 0 /\ Resolve(c) = r /\ Exists(r)}

\* Mutation: only the rows of closed orders count as matched.
MatchedRowsClosedOnly == {r \in OrderIds : ClosedFills(r) # {}}

MatchedRows ==
    {Resolve(c) : c \in OpenInSnapshot} \cup {r \in OrderIds : ClosedFills(r) # {}}

\* A position the broker reports and the ledger does not have.
IsNewPosition == pos = 0 /\ snap.held > 0

\* _latest_recoverable_entry_order
IsEntryRecovered ==
    /\ IsNewPosition
    /\ rows[Entry].st \notin {"none", "pending_submit"}
    /\ IsActive(rows[Entry]) \/ Entry \in OpenInSnapshot \cup ClosedInSnapshot

WithRecoveredEntry(rs) ==
    IF IsEntryRecovered
    THEN [rs EXCEPT ![Entry].st = "filled", ![Entry].qty = snap.held, ![Entry].filled = snap.held]
    ELSE rs

\* Fills of closed orders replace rows that say otherwise.
FillOf(row, c) ==
    [st |-> snap.closed[c].st, qty |-> snap.closed[c].qty, bid |-> c,
     filled |-> snap.closed[c].filled, miss |-> row.miss]

\* Mutation: the fills of closed orders are left to the stream.
WithClosedFillsSkipped(rs) == rs

ClosedFill(r) == FillOf(rows[r], CHOOSE c \in ClosedFills(r) : TRUE)
IsFillNew(r) == ClosedFills(r) # {} /\ rows[r] # ClosedFill(r)

WithClosedFills(rs) == [r \in OrderIds |-> IF IsFillNew(r) THEN ClosedFill(r) ELSE rs[r]]

HasActiveStop == LocalActive \cap StopIds # {}
HasActiveExit == LocalActive \cap ExitIds # {}
HasPendingEntry == rows[Entry].st = "pending_submit"
\* Mutation: the sell orders open at the broker are not looked at.
HasBrokerSellIgnored == FALSE

HasBrokerSell == OpenInSnapshot \cap SellIds # {}

MayQueueRecovery == ~HasActiveStop /\ ~HasPendingEntry /\ ~HasBrokerSell

Queued(rs, c) == [rs EXCEPT ![c] = Saved(@, "pending_submit", snap.held, NoId)]

\* First pass: a new position gets a stop, whatever its recovery row was.
WithStopForNewPosition(rs) ==
    IF IsNewPosition /\ MayQueueRecovery THEN Queued(rs, RecoveryStop) ELSE rs

NeedsCover == snap.held > 0 /\ MayQueueRecovery /\ ~HasActiveExit

\* Mutation: a stop is queued whatever the market price is.
WithCoverIgnoringPrice(rs) ==
    IF NeedsCover /\ rs[RecoveryStop].st = "none"
    THEN Queued(rs, RecoveryStop) ELSE rs

\* Second pass: a position without any cover gets a market exit once the market
\* is through its stop, else a stop unless one was queued before.
WithCoverForPosition(rs) ==
    CASE NeedsCover /\ snap.low                                     -> Queued(rs, RecoveryExit)
      [] NeedsCover /\ ~snap.low /\ rs[RecoveryStop].st = "none"    -> Queued(rs, RecoveryStop)
      [] OTHER                                                      -> rs

\* Every open broker order is written over the row of its own client id.
WithOpenOrders(rs) ==
    [c \in OrderIds |->
        IF c \in OpenInSnapshot
        THEN Saved(rs[c], snap.open[c].st, snap.open[c].qty, c)
        ELSE rs[c]]

\* Mutation: a row that was being submitted is left alone.
UnmatchedLeavesSubmitting(row, c) ==
    IF IsNeverSubmitted(rows[c]) THEN row
    ELSE [Saved(row, "reconciled_missing", rows[c].qty, rows[c].bid)
            EXCEPT !.miss = rows[c].miss + 1]

\* Active rows the broker knows nothing of, written back as they were read.
Unmatched(row, c) ==
    LET again == Saved(row, rows[c].st, rows[c].qty, rows[c].bid)
        misses == IF c \in StopIds THEN rows[c].miss + 1 ELSE 0
        mayAppear == misses \in 1 .. (MissThreshold - 1) IN
    CASE IsNeverSubmitted(rows[c]) /\ rows[c].st = "pending_submit" -> row
      [] IsNeverSubmitted(rows[c]) /\ rows[c].st = "submitting"     ->
            Saved(row, "pending_submit", rows[c].qty, NoId)
      [] ~IsNeverSubmitted(rows[c]) /\ mayAppear                    ->
            [again EXCEPT !.miss = misses]
      [] ~IsNeverSubmitted(rows[c]) /\ ~mayAppear                   ->
            [again EXCEPT !.st = "reconciled_missing", !.miss = misses]

WithUnmatched(rs) ==
    [c \in OrderIds |->
        IF c \in LocalActive \ MatchedRows /\ ~(c = Entry /\ IsEntryRecovered)
        THEN Unmatched(rs[c], c)
        ELSE rs[c]]

Recovered ==
    WithUnmatched(WithOpenOrders(WithCoverForPosition(WithStopForNewPosition(
        WithClosedFills(WithRecoveredEntry(rows))))))

IsMiscopied(c) ==
    rows[Resolve(c)].st # snap.open[c].st \/ rows[Resolve(c)].qty # snap.open[c].qty

IsGivenUp(c) ==
    /\ c \in LocalActive \ MatchedRows /\ ~IsNeverSubmitted(rows[c])
    /\ c \in StopIds => rows[c].miss + 1 >= MissThreshold

\* The recovery's report names a mismatch.
FindsMismatch ==
    \/ pos # snap.held
    \/ \E c \in OpenInSnapshot : IsMiscopied(c)
    \/ \E r \in OrderIds : IsFillNew(r)
    \/ \E c \in OrderIds : IsGivenUp(c)

\* Mutation: only a position the ledger lacks is taken from the broker.
RecoverNewPositionOnly ==
    /\ pos' = IF pos = 0 THEN snap.held ELSE pos
    /\ rows' = Recovered

\* The whole transaction.
Recover ==
    /\ pos' = snap.held
    /\ rows' = Recovered
=============================================================================
