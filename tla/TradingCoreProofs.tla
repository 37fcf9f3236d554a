-------------------------- MODULE TradingCoreProofs --------------------------
(***************************************************************************)
(* The trading core for every value of the constants: its types, what a    *)
(* recovery may queue and may give up, and that no order is submitted      *)
(* twice.  Each is an invariant that is inductive relative to the types:   *)
(* SnapshotStaysSafe; SnapshotCovers with OwnIds; NoOrderTwice.            *)
(***************************************************************************)
EXTENDS TradingCore, TLAPS

-----------------------------------------------------------------------------
(***************************************************************************)
(* Types: rows, the account, the stream thread.                            *)
(***************************************************************************)
\* OrderStore.save keeps a row well typed.
LEMMA SavedType ==
    ASSUME NEW r \in OrderRow, NEW st \in RowStatus, NEW qty \in Nat,
           NEW bid \in OrderIds \cup {NoId}
    PROVE  Saved(r, st, qty, bid) \in OrderRow
BY DEF Saved, OrderRow

\* The same for a record that carries a filled quantity.
LEMMA SavedFillType ==
    ASSUME NEW r \in OrderRow, NEW st \in RowStatus, NEW qty \in Nat,
           NEW bid \in OrderIds \cup {NoId}, NEW filled \in Nat
    PROVE  SavedFill(r, st, qty, bid, filled) \in OrderRow
BY DEF SavedFill, Saved, OrderRow

\* The websocket stays a sequence of trade updates when one is published.
LEMMA PublishedType ==
    ASSUME BrokerTypeOK, NEW u \in TradeUpdate
    PROVE  Published(<<u>>) \in Seq(TradeUpdate)
<1>1. <<u>> \in Seq(TradeUpdate) OBVIOUS
<1> QED BY <1>1 DEF Published, BrokerTypeOK

\* The same for the two updates of a replacement.
LEMMA PublishedPairType ==
    ASSUME BrokerTypeOK, NEW u \in TradeUpdate, NEW v \in TradeUpdate
    PROVE  Published(<<u, v>>) \in Seq(TradeUpdate)
<1>1. <<u, v>> \in Seq(TradeUpdate) OBVIOUS
<1> QED BY <1>1 DEF Published, BrokerTypeOK

\* A fill of n shares leaves the order, and the update it publishes, well typed.
LEMMA FillType ==
    ASSUME BrokerTypeOK, NEW c \in OrderIds, NEW n \in 1 .. (bo[c].qty - bo[c].filled)
    PROVE  /\ n \in Nat \ {0}
           /\ AfterFill(c, n) \in [OrderIds -> BrokerOrder]
           /\ Published(<<Update(c, FillStatus(bo[c], n), bo[c].filled + n)>>) \in Seq(TradeUpdate)
<1>1. bo \in [OrderIds -> BrokerOrder] /\ bo[c] \in BrokerOrder BY DEF BrokerTypeOK
<1>2. n \in Nat \ {0} /\ bo[c].filled + n \in Nat BY <1>1 DEF BrokerOrder
<1>3. FillStatus(bo[c], n) \in BrokerStatus \ {"none"} BY DEF FillStatus, BrokerStatus
<1>4. [bo[c] EXCEPT !.st = FillStatus(bo[c], n), !.filled = @ + n] \in BrokerOrder
  BY <1>1, <1>2, <1>3 DEF BrokerOrder
<1>5. AfterFill(c, n) \in [OrderIds -> BrokerOrder]
  BY <1>1, <1>4 DEF AfterFill
<1>6. Update(c, FillStatus(bo[c], n), bo[c].filled + n) \in TradeUpdate
  BY <1>2, <1>3 DEF Update, TradeUpdate
<1>7. Published(<<Update(c, FillStatus(bo[c], n), bo[c].filled + n)>>) \in Seq(TradeUpdate)
  BY <1>6, PublishedType
<1> QED BY <1>2, <1>5, <1>7
\* What the broker does by itself keeps the account well typed.
LEMMA BrokerStepType == BrokerTypeOK /\ BrokerStep => BrokerTypeOK'
<1> SUFFICES ASSUME BrokerTypeOK, BrokerStep PROVE BrokerTypeOK'
  OBVIOUS
<1>1. Entry \in OrderIds /\ SellIds \subseteq OrderIds /\ StopIds \subseteq OrderIds
  BY DEF OrderIds, SellIds
<1>2. CASE EntryFills
  BY <1>1, <1>2, FillType DEF EntryFills, BrokerTypeOK
<1>3. ASSUME NEW c \in SellIds, SellFills(c) PROVE BrokerTypeOK'
  <2>1. PICK n \in 1 .. (bo[c].qty - bo[c].filled) :
          /\ n <= held /\ held' = held - n
          /\ bo' = AfterFill(c, n)
          /\ updates' = Published(<<Update(c, FillStatus(bo[c], n), bo[c].filled + n)>>)
    BY <1>3 DEF SellFills
  <2>2. n \in Nat /\ held' \in Nat
    BY <1>1, <2>1, FillType DEF BrokerTypeOK
  <2> QED BY <1>1, <1>3, <2>1, <2>2, FillType DEF SellFills, BrokerTypeOK
<1>4. ASSUME NEW c \in OrderIds, OrderLapses(c) PROVE BrokerTypeOK'
  <2>1. bo' \in [OrderIds -> BrokerOrder]
    BY <1>4 DEF OrderLapses, BrokerTypeOK, BrokerOrder, BrokerStatus
  <2>2. Update(c, "expired", bo[c].filled) \in TradeUpdate
    BY DEF Update, TradeUpdate, BrokerStatus, BrokerTypeOK, BrokerOrder
  <2>3. updates' \in Seq(TradeUpdate)
    BY <1>4, <2>2, PublishedType DEF OrderLapses
  <2>4. lapses' \in 0 .. MaxLapses
    BY <1>4, BrokerBoundsAssumption DEF OrderLapses, BrokerTypeOK
  <2> QED BY <1>4, <2>1, <2>3, <2>4 DEF OrderLapses, BrokerTypeOK
<1>5. CASE PriceMoves
  BY <1>5 DEF PriceMoves, BrokerTypeOK, channel
<1> QED BY <1>1, <1>2, <1>3, <1>4, <1>5 DEF BrokerStep

\* A call leaves the account well typed; what it does to the count of faults is
\* the caller's.
LEMMA PlaceOrderType ==
    ASSUME BrokerTypeOK, NEW c \in OrderIds, NEW q \in Nat, PlaceOrder(c, q),
           faults' \in 0 .. MaxFaults
    PROVE  BrokerTypeOK'
<1>1. bo' \in [OrderIds -> BrokerOrder]
  <2>1. [st |-> "accepted", qty |-> q, filled |-> 0] \in BrokerOrder
    BY DEF BrokerOrder, BrokerStatus
  <2> QED BY <2>1 DEF PlaceOrder, BrokerTypeOK
<1>2. Update(c, "accepted", 0) \in TradeUpdate
  BY DEF Update, TradeUpdate, BrokerStatus
<1>3. updates' \in Seq(TradeUpdate)
  BY <1>2, PublishedType DEF PlaceOrder
<1> QED BY <1>1, <1>3 DEF PlaceOrder, BrokerTypeOK

\* The same for a cancel.
LEMMA CancelOrderType ==
    ASSUME BrokerTypeOK, NEW c \in OrderIds, CancelOrder(c), faults' \in 0 .. MaxFaults
    PROVE  BrokerTypeOK'
<1>1. bo' \in [OrderIds -> BrokerOrder]
  BY DEF CancelOrder, BrokerTypeOK, BrokerOrder, BrokerStatus
<1>2. Update(c, "canceled", bo[c].filled) \in TradeUpdate
  BY DEF Update, TradeUpdate, BrokerStatus, BrokerTypeOK, BrokerOrder
<1>3. updates' \in Seq(TradeUpdate)
  BY <1>2, PublishedType DEF CancelOrder
<1> QED BY <1>1, <1>3 DEF CancelOrder, BrokerTypeOK

\* The same for a replacement.
LEMMA ReplaceOrderType ==
    ASSUME BrokerTypeOK, NEW c, NEW q \in Nat, ReplaceOrder(c, q), faults' \in 0 .. MaxFaults
    PROVE  BrokerTypeOK'
<1>1. Stop \in OrderIds /\ Replacement \in OrderIds
  BY DEF OrderIds, SellIds, StopIds
<1>2. bo' \in [OrderIds -> BrokerOrder]
  <2>1. [st |-> "accepted", qty |-> q, filled |-> 0] \in BrokerOrder
    BY DEF BrokerOrder, BrokerStatus
  <2>2. [bo[Stop] EXCEPT !.st = "replaced"] \in BrokerOrder
    BY <1>1 DEF BrokerTypeOK, BrokerOrder, BrokerStatus
  <2> QED BY <1>1, <2>1, <2>2 DEF ReplaceOrder, BrokerTypeOK
<1>3. /\ Update(Stop, "replaced", 0) \in TradeUpdate
      /\ Update(Replacement, "accepted", 0) \in TradeUpdate
  BY <1>1 DEF Update, TradeUpdate, BrokerStatus
<1>4. updates' \in Seq(TradeUpdate)
  BY <1>3, PublishedPairType DEF ReplaceOrder
<1> QED BY <1>2, <1>4 DEF ReplaceOrder, BrokerTypeOK

\* A lost call is counted within its bound.
LEMMA FaultType == BrokerTypeOK /\ Fault => faults' \in 0 .. MaxFaults
BY BrokerBoundsAssumption DEF Fault, BrokerTypeOK

\* A call that is lost before the broker sees it changes the count of faults only.
LEMMA BrokerUnchangedType ==
    ASSUME BrokerTypeOK, UNCHANGED <<account, channel, lapses>>, faults' \in 0 .. MaxFaults
    PROVE  BrokerTypeOK'
BY DEF BrokerTypeOK, account, channel
StreamTypeOK == BrokerTypeOK /\ LedgerTypeOK /\ TradeUpdatesTypeOK

\* _find_order returns a client order id.
LEMMA RowForType ==
    ASSUME NEW e \in TradeUpdate PROVE RowFor(e) \in OrderIds
BY DEF RowFor, TradeUpdate

\* The row of an order as a trade update leaves it.
LEMMA UpdatedType ==
    ASSUME LedgerTypeOK, NEW c \in OrderIds, NEW e \in TradeUpdate
    PROVE  Updated(c, e) \in OrderRow
<1>1. rows[c] \in OrderRow BY DEF LedgerTypeOK
<1>2. e.st \in RowStatus /\ e.id \in OrderIds \cup {NoId} /\ e.filled \in Nat
  BY DEF TradeUpdate, RowStatus
<1>3. CumulativeFill(rows[c], e) \in Nat
  BY <1>1, <1>2 DEF CumulativeFill, OrderRow
<1>4. rows[c].qty \in Nat
  BY <1>1 DEF OrderRow
<1> QED BY <1>1, <1>2, <1>3, <1>4, SavedType, SavedFillType DEF Updated

\* The protective stop as a fill of the entry leaves it.
LEMMA ProtectiveStopType ==
    ASSUME LedgerTypeOK, NEW q \in Nat PROVE ProtectiveStop(q) \in OrderRow
<1>1. Stop \in OrderIds BY DEF OrderIds, SellIds, StopIds
<1>2. rows[Stop] \in OrderRow BY <1>1 DEF LedgerTypeOK
<1>3. rows[Stop].st \in RowStatus /\ rows[Stop].bid \in OrderIds \cup {NoId}
  BY <1>2 DEF OrderRow
<1>4. "pending_submit" \in RowStatus BY DEF RowStatus
<1> QED BY <1>2, <1>3, <1>4, SavedType DEF ProtectiveStop

\* _save_entry_position_and_stop keeps the ledger and the pending replacement well typed.
LEMMA PositionAndStopType ==
    ASSUME StreamTypeOK, NEW e \in TradeUpdate, NEW q \in Nat, SavePositionAndStop(e, q)
    PROVE  LedgerTypeOK' /\ TradeUpdatesTypeOK'
<1>1. Stop \in OrderIds /\ Entry \in OrderIds BY DEF OrderIds, SellIds, StopIds
<1>2. rows' \in [OrderIds -> OrderRow]
  BY <1>1, UpdatedType, ProtectiveStopType DEF SavePositionAndStop, StreamTypeOK, LedgerTypeOK
<1>3. pos' \in Nat BY DEF SavePositionAndStop
<1>4. rows[Stop] \in OrderRow BY <1>1 DEF StreamTypeOK, LedgerTypeOK
<1>5. sreq' \in Request
  BY <1>4 DEF SavePositionAndStop, StreamTypeOK, TradeUpdatesTypeOK, Request
<1> QED BY <1>2, <1>3, <1>5 DEF LedgerTypeOK, TradeUpdatesTypeOK

\* A sell never takes the position below zero.
LEMMA PositionAfterSellType ==
    ASSUME NEW r \in OrderRow, NEW e \in TradeUpdate, pos \in Nat
    PROVE  PositionAfterSell(r, e) \in Nat
BY DEF PositionAfterSell, OrderRow, TradeUpdate

\* One trade update, on every branch.
LEMMA ApplyUpdateType == StreamTypeOK /\ ApplyUpdate => StreamTypeOK'
<1> SUFFICES ASSUME StreamTypeOK, ApplyUpdate PROVE StreamTypeOK'
  OBVIOUS
<1> DEFINE e == Head(updates)
<1>1. e \in TradeUpdate /\ updates' \in Seq(TradeUpdate)
  BY DEF ApplyUpdate, StreamTypeOK, BrokerTypeOK
<1>2. BrokerTypeOK'
  BY <1>1 DEF ApplyUpdate, StreamTypeOK, BrokerTypeOK, account
<1>3. RowFor(e) \in OrderIds /\ rows[RowFor(e)] \in OrderRow
  BY <1>1, RowForType DEF StreamTypeOK, LedgerTypeOK
<1>4. Entry \in OrderIds /\ rows[Entry] \in OrderRow
  BY DEF OrderIds, StreamTypeOK, LedgerTypeOK
<1> HIDE DEF e
<1>5. CASE IgnoreUpdate(e)
  BY <1>2, <1>5 DEF IgnoreUpdate, ledger, StreamTypeOK, LedgerTypeOK, TradeUpdatesTypeOK
<1>6. CASE ApplyEntryFill(e)
  <2>1. e.filled \in Nat BY <1>1 DEF TradeUpdate
  <2> QED BY <1>1, <1>2, <1>6, <2>1, PositionAndStopType DEF ApplyEntryFill, StreamTypeOK
<1>7. CASE ApplyEntryEnd(e)
  <2>1. CumulativeFill(rows[Entry], e) \in Nat
    BY <1>1, <1>4 DEF CumulativeFill, TradeUpdate, OrderRow
  <2>2. CASE CumulativeFill(rows[Entry], e) > 0
    BY <1>1, <1>2, <1>7, <2>1, <2>2, PositionAndStopType DEF ApplyEntryEnd, StreamTypeOK
  <2>3. CASE ~(CumulativeFill(rows[Entry], e) > 0)
    <3>1. Stop \in OrderIds BY DEF OrderIds, SellIds, StopIds
    <3>2. rows[Stop] \in OrderRow BY <3>1 DEF StreamTypeOK, LedgerTypeOK
    <3>3. Saved(rows[Stop], "canceled", rows[Stop].qty, rows[Stop].bid) \in OrderRow
      BY <3>2 DEF Saved, OrderRow, RowStatus, BrokerStatus
    <3>4. Updated(Entry, e) \in OrderRow
      BY <1>1, <1>4, UpdatedType DEF StreamTypeOK
    <3>5. rows' \in [OrderIds -> OrderRow] /\ pos' \in Nat /\ sreq' = sreq
      BY <1>4, <1>7, <2>3, <3>1, <3>2, <3>3, <3>4 DEF ApplyEntryEnd, StreamTypeOK, LedgerTypeOK
    <3> QED BY <1>2, <3>5 DEF StreamTypeOK, LedgerTypeOK, TradeUpdatesTypeOK
  <2> QED BY <2>2, <2>3
<1>8. CASE ApplySellFill(e)
  <2>1. pos' \in Nat
    BY <1>1, <1>3, <1>8, PositionAfterSellType DEF ApplySellFill, StreamTypeOK, LedgerTypeOK
  <2>2. rows' \in [OrderIds -> OrderRow]
    BY <1>1, <1>3, <1>8, UpdatedType DEF ApplySellFill, StreamTypeOK, LedgerTypeOK
  <2> QED BY <1>2, <1>8, <2>1, <2>2
          DEF ApplySellFill, StreamTypeOK, LedgerTypeOK, TradeUpdatesTypeOK
<1>9. CASE ApplyStatus(e)
  <2>1. rows' \in [OrderIds -> OrderRow]
    BY <1>1, <1>3, <1>9, UpdatedType DEF ApplyStatus, StreamTypeOK, LedgerTypeOK
  <2> QED BY <1>2, <1>9, <2>1 DEF ApplyStatus, StreamTypeOK, LedgerTypeOK, TradeUpdatesTypeOK
<1> QED BY <1>5, <1>6, <1>7, <1>8, <1>9 DEF ApplyUpdate, e

\* The stream thread: updates, and the replacement of a live stop.
LEMMA StreamStepType == StreamTypeOK /\ StreamStep => StreamTypeOK'
<1> SUFFICES ASSUME StreamTypeOK, StreamStep PROVE StreamTypeOK'
  OBVIOUS
<1>1. sreq \in Request /\ NoRequest \in Request
  BY DEF StreamTypeOK, TradeUpdatesTypeOK, Request, NoRequest, NoRow, OrderRow, RowStatus,
         BrokerStatus
<1>2. sreq.qty \in Nat BY <1>1 DEF Request
<1>3. CASE ApplyUpdate
  BY <1>3, ApplyUpdateType
<1>4. CASE ReplaceAccepted
  <2>1. BrokerTypeOK'
    BY <1>2, <1>4, ReplaceOrderType DEF ReplaceAccepted, StreamTypeOK, BrokerTypeOK
  <2>2. sreq' \in Request BY <1>1, <1>4 DEF ReplaceAccepted, Request
  <2> QED BY <1>4, <2>1, <2>2 DEF ReplaceAccepted, StreamTypeOK, LedgerTypeOK, ledger,
                                  TradeUpdatesTypeOK
<1>5. CASE ReplaceRefused
  BY <1>1, <1>5, BrokerUnchangedType
  DEF ReplaceRefused, StreamTypeOK, LedgerTypeOK, ledger, TradeUpdatesTypeOK, brokerVars,
      BrokerTypeOK, account, channel
<1>6. CASE ReplaceFails
  <2>1. faults' \in 0 .. MaxFaults
    BY <1>6, FaultType DEF ReplaceFails, StreamTypeOK
  <2>2. BrokerTypeOK'
    BY <1>2, <1>6, <2>1, ReplaceOrderType, BrokerUnchangedType DEF ReplaceFails, StreamTypeOK
  <2> QED BY <1>1, <1>6, <2>2 DEF ReplaceFails, StreamTypeOK, LedgerTypeOK, ledger,
                                  TradeUpdatesTypeOK
<1>7. CASE SaveReplacement
  <2>1. Stop \in OrderIds /\ Replacement \in OrderIds BY DEF OrderIds, SellIds, StopIds
  <2>2. "accepted" \in RowStatus BY DEF RowStatus, BrokerStatus
  <2>3. rows[Stop] \in OrderRow BY <2>1 DEF StreamTypeOK, LedgerTypeOK
  <2>4. Saved(rows[Stop], "accepted", sreq.qty, Replacement) \in OrderRow
    BY <1>2, <2>1, <2>2, <2>3, SavedType
  <2>5. rows' \in [OrderIds -> OrderRow] /\ pos' \in Nat
    BY <1>7, <2>1, <2>4 DEF SaveReplacement, StreamTypeOK, LedgerTypeOK
  <2>6. BrokerTypeOK'
    BY <1>7 DEF SaveReplacement, StreamTypeOK, BrokerTypeOK, brokerVars, account, channel
  <2> QED BY <1>1, <1>7, <2>5, <2>6 DEF SaveReplacement, StreamTypeOK, LedgerTypeOK,
                                        TradeUpdatesTypeOK
<1> QED BY <1>3, <1>4, <1>5, <1>6, <1>7 DEF StreamStep
-----------------------------------------------------------------------------
SnapshotTypeOK == snap \in Snapshot

\* The empty snapshot.
LEMMA NoOrdersType ==
    NoOrders \in [OrderIds -> BrokerOrder] /\ NoSnapshot \in Snapshot
BY DEF NoOrders, NoSnapshot, Snapshot, NoBrokerOrder, BrokerOrder, BrokerStatus

\* Each read of the broker leaves a well-typed snapshot.
LEMMA ReadType ==
    ASSUME BrokerTypeOK, SnapshotTypeOK
    PROVE  /\ ReadOpenOrders => SnapshotTypeOK'
           /\ ReadPositions => SnapshotTypeOK'
           /\ ReadClosedOrders => SnapshotTypeOK'
<1>1. NoBrokerOrder \in BrokerOrder
  BY DEF NoBrokerOrder, BrokerOrder, BrokerStatus
<1>2. Orders(OpenIds) \in [OrderIds -> BrokerOrder]
  BY <1>1 DEF Orders, BrokerTypeOK
<1>3. Orders(ClosedIds) \in [OrderIds -> BrokerOrder]
  BY <1>1 DEF Orders, BrokerTypeOK
<1> QED BY <1>2, <1>3, NoOrdersType DEF ReadOpenOrders, ReadPositions, ReadClosedOrders,
           SnapshotTypeOK, Snapshot, BrokerTypeOK

\* Every pass of the recovery takes well-typed rows to well-typed rows.
RowsType == [OrderIds -> OrderRow]

\* A row queued by the recovery.
LEMMA QueuedType ==
    ASSUME SnapshotTypeOK, NEW rs \in RowsType, NEW c \in OrderIds
    PROVE  Queued(rs, c) \in RowsType
<1>1. snap.held \in Nat /\ "pending_submit" \in RowStatus
  BY DEF SnapshotTypeOK, Snapshot, RowStatus
<1>2. Saved(rs[c], "pending_submit", snap.held, NoId) \in OrderRow
  BY <1>1, SavedType DEF RowsType
<1> QED BY <1>2 DEF Queued, RowsType

\* The pass that recovers the entry of a new position.
LEMMA RecoveredEntryType ==
    ASSUME SnapshotTypeOK, NEW rs \in RowsType
    PROVE  WithRecoveredEntry(rs) \in RowsType
<1>1. snap.held \in Nat BY DEF SnapshotTypeOK, Snapshot
<1>2. Entry \in OrderIds /\ rs[Entry] \in OrderRow BY DEF OrderIds, RowsType
<1>3. [rs[Entry] EXCEPT !.st = "filled", !.qty = snap.held, !.filled = snap.held] \in OrderRow
  BY <1>1, <1>2 DEF OrderRow, RowStatus, BrokerStatus
<1>4. [rs EXCEPT ![Entry].st = "filled", ![Entry].qty = snap.held, ![Entry].filled = snap.held]
        = [rs EXCEPT ![Entry] = [rs[Entry] EXCEPT !.st = "filled", !.qty = snap.held,
                                                  !.filled = snap.held]]
  BY <1>2 DEF RowsType, OrderRow
<1> QED BY <1>3, <1>4 DEF WithRecoveredEntry, RowsType

\* A row as the closed order found for it says.
LEMMA ClosedFillType ==
    ASSUME SnapshotTypeOK, LedgerTypeOK, NEW r \in OrderIds, IsFillNew(r)
    PROVE  ClosedFill(r) \in OrderRow
<1>1. PICK c \in OrderIds : ClosedFill(r) = FillOf(rows[r], c)
  BY DEF IsFillNew, ClosedFill, ClosedFills, ClosedInSnapshot
<1>2. snap.closed[c] \in BrokerOrder BY DEF SnapshotTypeOK, Snapshot
<1>3. rows[r] \in OrderRow BY DEF LedgerTypeOK
<1> QED BY <1>1, <1>2, <1>3 DEF FillOf, OrderRow, BrokerOrder, RowStatus

\* The pass over closed orders.
LEMMA ClosedFillsType ==
    ASSUME SnapshotTypeOK, LedgerTypeOK, NEW rs \in RowsType
    PROVE  WithClosedFills(rs) \in RowsType
BY ClosedFillType DEF WithClosedFills, RowsType

\* The first pass over positions.
LEMMA StopForNewPositionType ==
    ASSUME SnapshotTypeOK, NEW rs \in RowsType
    PROVE  WithStopForNewPosition(rs) \in RowsType
BY QueuedType DEF WithStopForNewPosition, OrderIds, SellIds, StopIds

\* The second pass over positions.
LEMMA CoverForPositionType ==
    ASSUME SnapshotTypeOK, NEW rs \in RowsType
    PROVE  WithCoverForPosition(rs) \in RowsType
<1>1. RecoveryStop \in OrderIds /\ RecoveryExit \in OrderIds
  BY DEF OrderIds, SellIds, StopIds, ExitIds
<1> QED BY <1>1, QueuedType DEF WithCoverForPosition, NeedsCover

\* The pass over open orders.
LEMMA OpenOrdersType ==
    ASSUME SnapshotTypeOK, NEW rs \in RowsType
    PROVE  WithOpenOrders(rs) \in RowsType
<1>1. ASSUME NEW c \in OrderIds
      PROVE  Saved(rs[c], snap.open[c].st, snap.open[c].qty, c) \in OrderRow
  <2>1. snap.open[c].st \in RowStatus /\ snap.open[c].qty \in Nat
    BY DEF SnapshotTypeOK, Snapshot, BrokerOrder, RowStatus
  <2> QED BY <2>1, SavedType DEF RowsType
<1> QED BY <1>1 DEF WithOpenOrders, RowsType

\* A row the broker knows nothing of.
LEMMA UnmatchedType ==
    ASSUME LedgerTypeOK, NEW row \in OrderRow, NEW c \in OrderIds
    PROVE  Unmatched(row, c) \in OrderRow
<1>1. rows[c].st \in RowStatus /\ rows[c].qty \in Nat /\ rows[c].bid \in OrderIds \cup {NoId}
      /\ rows[c].miss \in Nat
  BY DEF LedgerTypeOK, OrderRow
<1> DEFINE again == Saved(row, rows[c].st, rows[c].qty, rows[c].bid)
           misses == IF c \in StopIds THEN rows[c].miss + 1 ELSE 0
<1>2. again \in OrderRow BY <1>1, SavedType
<1>3. misses \in Nat BY <1>1
<1>4. Saved(row, "pending_submit", rows[c].qty, NoId) \in OrderRow
  BY <1>1, SavedType DEF RowStatus
<1> HIDE DEF again, misses
<1>5. [again EXCEPT !.miss = misses] \in OrderRow
  BY <1>2, <1>3 DEF OrderRow
<1>6. [again EXCEPT !.st = "reconciled_missing", !.miss = misses] \in OrderRow
  BY <1>2, <1>3 DEF OrderRow, RowStatus
<1>7. IsNeverSubmitted(rows[c]) => rows[c].st \in {"pending_submit", "submitting"}
  BY DEF IsNeverSubmitted
<1> QED BY <1>4, <1>5, <1>6, <1>7 DEF Unmatched, again, misses

\* All the passes of the transaction, one after the other.
LEMMA RecoveredType ==
    ASSUME SnapshotTypeOK, LedgerTypeOK PROVE Recovered \in RowsType
<1>1. rows \in RowsType BY DEF LedgerTypeOK, RowsType
<1>2. ASSUME NEW rs \in RowsType PROVE WithUnmatched(rs) \in RowsType
  BY UnmatchedType DEF WithUnmatched, RowsType
<1> QED BY <1>1, <1>2, RecoveredEntryType, ClosedFillsType, StopForNewPositionType,
           CoverForPositionType, OpenOrdersType DEF Recovered
-----------------------------------------------------------------------------
RoundTypeOK == BrokerTypeOK /\ LedgerTypeOK /\ DispatchTypeOK

\* The dispatcher before it takes an order.
LEMMA NoJobType == NoJob \in Job /\ NoRow \in OrderRow
BY DEF NoJob, Job, NoRow, OrderRow, RowStatus, BrokerStatus, Stages, Answers

\* Taking an order: the job has its id, and the order leaves the round.
LEMMA StartType ==
    ASSUME DispatchTypeOK, NEW c \in OrderIds, NEW stage \in Stages, NEW entry \in OrderRow
    PROVE  Start(c, stage, entry) \in Job /\ Start(c, stage, entry).id # NoId
<1>1. Start(c, stage, entry) \in Job /\ Start(c, stage, entry).id = c
  BY NoJobType DEF Start, Job, DispatchTypeOK, NoJob
<1> QED BY <1>1 DEF OrderIds, SellIds, StopIds, ExitIds, Entry, Stop, Replacement, RecoveryStop,
                    RecoveryExit, RejectionExit, NoId

\* The round without an order.
LEMMA WithoutType ==
    ASSUME DispatchTypeOK, NEW c \in OrderIds
    PROVE  Without(c) \in [OrderIds -> OrderRow]
BY NoJobType DEF Without, DispatchTypeOK

\* An order left for a later round.
LEMMA LeaveType ==
    ASSUME RoundTypeOK, NEW c \in OrderIds, Leave(c)
    PROVE  LedgerTypeOK' /\ DispatchTypeOK'
BY WithoutType DEF Leave, RoundTypeOK, LedgerTypeOK, DispatchTypeOK, ledger

\* The choice of the next order of a round.
LEMMA TakeType ==
    ASSUME RoundTypeOK, NEW disabled, NEW old, NEW extended, Take(disabled, old, extended)
    PROVE  RoundTypeOK'
<1>1. BrokerTypeOK'
  BY DEF Take, RoundTypeOK, BrokerTypeOK, brokerVars, account, channel
<1>2. Entry \in OrderIds /\ ExitIds \subseteq OrderIds /\ StopIds \subseteq OrderIds
  BY DEF OrderIds, SellIds
<1>3. {"mark", "cancel"} \subseteq Stages BY DEF Stages
<1>4. rows[Entry] \in OrderRow /\ pending[Entry] \in OrderRow
  BY <1>2 DEF RoundTypeOK, LedgerTypeOK, DispatchTypeOK
<1>5. ASSUME TakeEntry(disabled, old) PROVE LedgerTypeOK' /\ DispatchTypeOK'
  <2>1. CASE Leave(Entry) BY <1>2, <2>1, LeaveType
  <2>2. CASE /\ rows' = [rows EXCEPT
                   ![Entry] = Saved(@, "expired", pending[Entry].qty, pending[Entry].bid)]
             /\ pending' = Without(Entry)
             /\ UNCHANGED <<pos, job>>
    <3>1. Saved(rows[Entry], "expired", pending[Entry].qty, pending[Entry].bid) \in OrderRow
      BY <1>4 DEF Saved, OrderRow, RowStatus, BrokerStatus
    <3> QED BY <1>2, <2>2, <3>1, WithoutType DEF RoundTypeOK, LedgerTypeOK, DispatchTypeOK
  <2>3. CASE /\ job' = Start(Entry, "mark", NoRow)
             /\ pending' = Without(Entry)
             /\ UNCHANGED ledger
    BY <1>2, <1>3, <2>3, StartType, WithoutType, NoJobType
    DEF RoundTypeOK, LedgerTypeOK, DispatchTypeOK, ledger
  <2> QED BY <1>5, <2>1, <2>2, <2>3 DEF TakeEntry
<1>6. ASSUME NEW c \in ExitIds, TakeExit(c) PROVE LedgerTypeOK' /\ DispatchTypeOK'
  BY <1>2, <1>3, <1>6, StartType, WithoutType, NoJobType
  DEF TakeExit, RoundTypeOK, LedgerTypeOK, DispatchTypeOK, ledger
<1>7. ASSUME NEW c \in StopIds, TakeStop(c, extended) PROVE LedgerTypeOK' /\ DispatchTypeOK'
  <2>1. CASE Leave(c) BY <1>2, <2>1, LeaveType
  <2>2. ASSUME job' = Start(c, "cancel", rows[Entry]) \/ job' = Start(c, "mark", NoRow),
               pending' = Without(c), UNCHANGED ledger
        PROVE  LedgerTypeOK' /\ DispatchTypeOK'
    BY <1>2, <1>3, <1>4, <2>2, StartType, WithoutType, NoJobType
    DEF RoundTypeOK, LedgerTypeOK, DispatchTypeOK, ledger
  <2> QED BY <1>7, <2>1, <2>2 DEF TakeStop
<1> QED BY <1>1, <1>5, <1>6, <1>7 DEF Take, RoundTypeOK

\* A job that has begun names an order.
LEMMA JobType ==
    ASSUME RoundTypeOK
    PROVE  /\ job.row \in OrderRow /\ job.entry \in OrderRow
           /\ job.row.qty \in Nat /\ job.row.bid \in OrderIds \cup {NoId}
           /\ job.stage # "idle" => job.id \in OrderIds
BY DEF RoundTypeOK, DispatchTypeOK, Job, OrderRow

\* The cancel of a partially filled entry, accepted or not.
LEMMA CancelPartialEntryType ==
    ASSUME RoundTypeOK, CancelPartialEntry \/ CancelPartialEntryFails
    PROVE  RoundTypeOK'
<1>1. Entry \in OrderIds BY DEF OrderIds
<1>2. BrokerTypeOK'
  <2>1. CASE CancelPartialEntry
    <3>1. CASE CancelOrder(Entry) /\ UNCHANGED faults
      BY <1>1, <3>1, CancelOrderType DEF RoundTypeOK, BrokerTypeOK
    <3>2. CASE UNCHANGED brokerVars
      BY <3>2 DEF brokerVars, account, channel, RoundTypeOK, BrokerTypeOK
    <3> QED BY <2>1, <3>1, <3>2 DEF CancelPartialEntry
  <2>2. CASE CancelPartialEntryFails
    <3>1. CASE UNCHANGED brokerVars
      BY <3>1 DEF brokerVars, account, channel, RoundTypeOK, BrokerTypeOK
    <3>2. CASE Fault /\ UNCHANGED <<account, channel, lapses>>
      BY <3>2, FaultType, BrokerUnchangedType DEF RoundTypeOK
    <3>3. CASE Fault /\ CancelOrder(Entry)
      BY <1>1, <3>3, FaultType, CancelOrderType DEF RoundTypeOK
    <3> QED BY <2>2, <3>1, <3>2, <3>3 DEF CancelPartialEntryFails
  <2> QED BY <2>1, <2>2
<1>3. job' \in Job /\ (job'.stage # "idle" => job'.id # NoId)
  <2>1. CASE job' = [job EXCEPT !.stage = "canceled"] /\ job.stage = "cancel"
    BY <2>1 DEF RoundTypeOK, DispatchTypeOK, Job, Stages
  <2>2. CASE job' = NoJob
    BY <2>2, NoJobType DEF NoJob
  <2> QED BY <2>1, <2>2 DEF CancelPartialEntry, CancelPartialEntryFails
<1> QED BY <1>2, <1>3 DEF CancelPartialEntry, CancelPartialEntryFails, RoundTypeOK, LedgerTypeOK,
                         DispatchTypeOK, ledger
\* The save of the canceled entry, and the mark `submitting'.
LEMMA MarkType ==
    ASSUME RoundTypeOK, NEW extended, SaveCanceledEntry(extended) \/ MarkSubmitting
    PROVE  RoundTypeOK'
<1>1. Entry \in OrderIds BY DEF OrderIds
<1>2. BrokerTypeOK'
  BY DEF SaveCanceledEntry, MarkSubmitting, RoundTypeOK, BrokerTypeOK, brokerVars, account, channel
<1>3. CASE SaveCanceledEntry(extended)
  <2>1. SavedFill(rows[Entry], "canceled", job.entry.qty, job.entry.bid, job.entry.filled)
          \in OrderRow
    BY <1>1 DEF SavedFill, Saved, OrderRow, RowStatus, BrokerStatus, RoundTypeOK, LedgerTypeOK,
                DispatchTypeOK, Job
  <2>2. LedgerTypeOK'
    BY <1>1, <1>3, <2>1 DEF SaveCanceledEntry, RoundTypeOK, LedgerTypeOK
  <2>3. [job EXCEPT !.stage = "mark", !.row.qty = job.entry.filled] \in Job
    <3>1. [job.row EXCEPT !.qty = job.entry.filled] \in OrderRow
      BY JobType DEF OrderRow
    <3> QED BY <3>1 DEF RoundTypeOK, DispatchTypeOK, Job, Stages
  <2>4. job.id # NoId
    BY <1>3 DEF SaveCanceledEntry, RoundTypeOK, DispatchTypeOK
  <2>5. [job EXCEPT !.stage = "mark", !.row.qty = job.entry.filled].id = job.id
    BY DEF RoundTypeOK, DispatchTypeOK, Job
  <2> QED BY <1>2, <1>3, <2>2, <2>3, <2>4, <2>5, NoJobType
          DEF SaveCanceledEntry, RoundTypeOK, DispatchTypeOK, NoJob
<1>4. CASE MarkSubmitting
  <2>1. job.id \in OrderIds BY <1>4, JobType DEF MarkSubmitting
  <2>2. Saved(rows[job.id], "submitting", job.row.qty, NoId) \in OrderRow
    BY <2>1, JobType, SavedType DEF RoundTypeOK, LedgerTypeOK, RowStatus
  <2>3. LedgerTypeOK'
    BY <1>4, <2>2 DEF MarkSubmitting, RoundTypeOK, LedgerTypeOK
  <2>4. DispatchTypeOK'
    BY <1>4 DEF MarkSubmitting, RoundTypeOK, DispatchTypeOK, Job, Stages
  <2> QED BY <1>2, <2>3, <2>4 DEF RoundTypeOK
<1> QED BY <1>3, <1>4

\* The submission: accepted, refused or lost.
LEMMA SubmitType ==
    ASSUME RoundTypeOK, SubmitAccepted \/ SubmitRefused \/ SubmitFails
    PROVE  RoundTypeOK'
<1>1. job.id \in OrderIds /\ job.row.qty \in Nat
  BY JobType DEF SubmitAccepted, SubmitRefused, SubmitFails
<1>2. BrokerTypeOK'
  <2>1. CASE SubmitAccepted
    BY <1>1, <2>1, PlaceOrderType DEF SubmitAccepted, RoundTypeOK, BrokerTypeOK
  <2>2. CASE SubmitRefused
    BY <2>2 DEF SubmitRefused, RoundTypeOK, BrokerTypeOK, brokerVars, account, channel
  <2>3. CASE SubmitFails
    BY <1>1, <2>3, FaultType, PlaceOrderType, BrokerUnchangedType DEF SubmitFails, RoundTypeOK
  <2> QED BY <2>1, <2>2, <2>3
<1>3. PICK answer \in Answers : Answered(answer)
  <2>1. Refusal(job.id, job.row.qty) \in Answers BY DEF Refusal, Answers
  <2> QED BY <2>1 DEF SubmitAccepted, SubmitRefused, SubmitFails, Answers
<1>4. DispatchTypeOK'
  <2>1. pending' = pending /\ job.stage = "submit"
    BY DEF SubmitAccepted, SubmitRefused, SubmitFails
  <2> QED BY <1>3, <2>1 DEF Answered, RoundTypeOK, DispatchTypeOK, Job, Stages
<1> QED BY <1>2, <1>4 DEF SubmitAccepted, SubmitRefused, SubmitFails, RoundTypeOK, LedgerTypeOK,
                         ledger

\* The exit that replaces a refused stop.
LEMMA RejectionExitType ==
    ASSUME LedgerTypeOK, DispatchTypeOK PROVE WithRejectionExit(rows) \in RowsType
<1>1. RejectionExit \in OrderIds /\ job.row.qty \in Nat
  BY DEF DispatchTypeOK, Job, OrderRow, OrderIds, SellIds, ExitIds
<1>2. Saved(rows[RejectionExit], "pending_submit", job.row.qty, NoId) \in OrderRow
  BY <1>1, SavedType DEF LedgerTypeOK, RowStatus
<1> QED BY <1>2 DEF WithRejectionExit, RowsType, LedgerTypeOK

\* The save of its answer, and of that exit.
LEMMA SaveAnswerType ==
    ASSUME RoundTypeOK, SaveAnswer PROVE RoundTypeOK'
<1>1. job.id \in OrderIds /\ job.row.qty \in Nat
  BY JobType DEF SaveAnswer
<1>2. WithRejectionExit(rows) \in RowsType
  BY RejectionExitType DEF RoundTypeOK
<1>3. FinalStatus \in RowStatus BY DEF FinalStatus, RowStatus, BrokerStatus
<1> DEFINE bid == IF job.answer = "accepted" THEN job.id ELSE job.row.bid
<1>4. bid \in OrderIds \cup {NoId} BY <1>1, JobType
<1> HIDE DEF bid
<1>5. Saved(WithRejectionExit(rows)[job.id], FinalStatus, job.row.qty, bid) \in OrderRow
  BY <1>1, <1>2, <1>3, <1>4, SavedType DEF RowsType
<1>6. LedgerTypeOK'
  BY <1>2, <1>5 DEF SaveAnswer, RowsType, RoundTypeOK, LedgerTypeOK, bid
<1>7. BrokerTypeOK'
  BY DEF SaveAnswer, RoundTypeOK, BrokerTypeOK, brokerVars, account, channel
<1> QED BY <1>6, <1>7, NoJobType DEF SaveAnswer, RoundTypeOK, DispatchTypeOK, NoJob

\* Every step of a dispatch round.
LEMMA DispatchStepType ==
    ASSUME RoundTypeOK, NEW disabled, NEW old, NEW extended, DispatchStep(disabled, old, extended)
    PROVE  RoundTypeOK'
BY TakeType, CancelPartialEntryType, MarkType, SubmitType, SaveAnswerType DEF DispatchStep
-----------------------------------------------------------------------------
ControlTypeOK ==
    /\ pc \in Locations /\ mode \in Modes /\ rounds \in 0 .. DispatchRounds
    /\ aged \in BOOLEAN /\ booting \in BOOLEAN /\ noEntries \in BOOLEAN
    /\ crashes \in 0 .. MaxCrashes /\ drops \in 0 .. MaxDrops

\* The type invariant by component, before and after a step.
LEMMA TypeParts ==
    /\ TypeOK <=> /\ BrokerTypeOK /\ LedgerTypeOK /\ TradeUpdatesTypeOK /\ DispatchTypeOK
                  /\ SnapshotTypeOK /\ ControlTypeOK
    /\ TypeOK' <=> /\ BrokerTypeOK' /\ LedgerTypeOK' /\ TradeUpdatesTypeOK' /\ DispatchTypeOK'
                   /\ SnapshotTypeOK' /\ ControlTypeOK'
BY DEF TypeOK, SnapshotTypeOK, ControlTypeOK

\* The values the counters and the websocket start from.
LEMMA BoundsType ==
    /\ 0 \in 0 .. DispatchRounds /\ DispatchRounds \in 0 .. DispatchRounds
    /\ 0 \in 0 .. MaxCrashes /\ 0 \in 0 .. MaxDrops
    /\ 0 \in 0 .. MaxFaults /\ 0 \in 0 .. MaxLapses
    /\ <<>> \in Seq(TradeUpdate)
<1>1. <<>> \in Seq(TradeUpdate) OBVIOUS
<1> QED BY <1>1, BoundsAssumption, BrokerBoundsAssumption

\* The initial states.
LEMMA InitType == Init => TypeOK
<1> SUFFICES ASSUME Init PROVE TypeOK
  OBVIOUS
<1>1. BrokerTypeOK
  BY BoundsType
  DEF Init, BrokerInit, BrokerTypeOK, NoBrokerOrder, BrokerOrder, BrokerStatus
<1>2. LedgerTypeOK
  <2>1. [NoRow EXCEPT !.st = "pending_submit", !.qty = EntryQty] \in OrderRow
    BY EntryQtyAssumption, NoJobType DEF OrderRow, RowStatus
  <2> QED BY <2>1, NoJobType DEF Init, LedgerInit, LedgerTypeOK
<1>3. TradeUpdatesTypeOK
  BY NoJobType DEF Init, TradeUpdatesInit, TradeUpdatesTypeOK, NoRequest, Request
<1>4. DispatchTypeOK
  BY NoJobType DEF Init, DispatchInit, DispatchTypeOK, NothingPending, NoJob
<1>5. SnapshotTypeOK
  BY NoOrdersType DEF Init, SnapshotTypeOK
<1>6. ControlTypeOK
  BY BoundsType DEF Init, ControlTypeOK, Locations
<1> QED BY <1>1, <1>2, <1>3, <1>4, <1>5, <1>6, TypeParts

\* What a step of one component leaves alone keeps its type.
LEMMA UnchangedType ==
    ASSUME TypeOK
    PROVE  /\ UNCHANGED brokerVars => BrokerTypeOK'
           /\ UNCHANGED ledger => LedgerTypeOK'
           /\ UNCHANGED sreq => TradeUpdatesTypeOK'
           /\ UNCHANGED dispatch => DispatchTypeOK'
           /\ UNCHANGED snap => SnapshotTypeOK'
           /\ UNCHANGED <<control, environment>> => ControlTypeOK'
<1>1. UNCHANGED brokerVars => BrokerTypeOK'
  BY TypeParts DEF brokerVars, account, channel, BrokerTypeOK
<1>2. UNCHANGED ledger => LedgerTypeOK'
  BY TypeParts DEF ledger, LedgerTypeOK
<1>3. UNCHANGED sreq => TradeUpdatesTypeOK'
  BY TypeParts DEF TradeUpdatesTypeOK
<1>4. UNCHANGED dispatch => DispatchTypeOK'
  BY TypeParts DEF dispatch, DispatchTypeOK
<1>5. UNCHANGED snap => SnapshotTypeOK'
  BY TypeParts DEF SnapshotTypeOK
<1>6. UNCHANGED <<control, environment>> => ControlTypeOK'
  BY TypeParts DEF control, environment, ControlTypeOK
<1> QED BY <1>1, <1>2, <1>3, <1>4, <1>5, <1>6

\* Every step of the supervisor thread.
LEMMA SupervisorType == TypeOK /\ Supervisor => TypeOK'
<1> SUFFICES ASSUME TypeOK, Supervisor PROVE TypeOK'
  OBVIOUS
<1>1. BrokerTypeOK /\ LedgerTypeOK /\ TradeUpdatesTypeOK /\ DispatchTypeOK /\ SnapshotTypeOK
      /\ ControlTypeOK
  BY TypeParts
<1>2. pc' \in Locations => (UNCHANGED <<mode, rounds, booting, noEntries, environment>>
                              => ControlTypeOK')
  BY <1>1 DEF ControlTypeOK, environment
<1>3. NoSnapshot \in Snapshot BY NoOrdersType
<1>4. CASE FetchOpenOrders
  BY <1>1, <1>2, <1>4, UnchangedType, ReadType, TypeParts DEF FetchOpenOrders, Goto, Locations
<1>5. CASE FetchPositions
  BY <1>1, <1>2, <1>5, UnchangedType, ReadType, TypeParts DEF FetchPositions, Goto, Locations
<1>6. CASE FetchClosedOrders
  <2>1. ControlTypeOK' BY <1>2, <1>6 DEF FetchClosedOrders, Goto, Locations
  <2>2. SnapshotTypeOK' BY <1>1, <1>6, UnchangedType, ReadType DEF FetchClosedOrders
  <2>3. faults' \in 0 .. MaxFaults
    BY <1>1, <1>6, FaultType DEF FetchClosedOrders, BrokerTypeOK
  <2>4. BrokerTypeOK' BY <1>1, <1>6, <2>3, BrokerUnchangedType DEF FetchClosedOrders
  <2> QED BY <1>6, <2>1, <2>2, <2>4, UnchangedType, TypeParts DEF FetchClosedOrders
<1>7. CASE RunRecovery
  <2>1. LedgerTypeOK'
    BY <1>1, <1>7, RecoveredType
    DEF RunRecovery, Recover, LedgerTypeOK, RowsType, SnapshotTypeOK, Snapshot
  <2>2. BrokerTypeOK'
    BY <1>1, <1>7 DEF RunRecovery, BrokerTypeOK, account
  <2>3. SnapshotTypeOK' BY <1>1, <1>3, <1>7 DEF RunRecovery, SnapshotTypeOK
  <2>4. FindsMismatch \in BOOLEAN BY DEF FindsMismatch
  <2>5. ControlTypeOK'
    BY <1>1, <1>7, <2>4 DEF RunRecovery, ControlTypeOK, Locations, environment
  <2> QED BY <1>7, <2>1, <2>2, <2>3, <2>5, UnchangedType, TypeParts DEF RunRecovery
<1>8. CASE CycleFails
  <2>1. BrokerTypeOK' BY <1>1, <1>8, FaultType, BrokerUnchangedType DEF CycleFails
  <2>2. ControlTypeOK' BY <1>1, <1>8 DEF CycleFails, ControlTypeOK, Locations, environment
  <2>3. SnapshotTypeOK' BY <1>3, <1>8 DEF CycleFails, SnapshotTypeOK
  <2> QED BY <1>8, <2>1, <2>2, <2>3, UnchangedType, TypeParts DEF CycleFails
<1>9. CASE NoEntryToExpire
  BY <1>2, <1>3, <1>9, UnchangedType, TypeParts
  DEF NoEntryToExpire, Goto, Locations, SnapshotTypeOK
<1>10. CASE CancelOldEntry
  <2>1. BrokerTypeOK'
    BY <1>1, <1>10, CancelOrderType DEF CancelOldEntry, BrokerTypeOK, OrderIds
  <2>2. ControlTypeOK' BY <1>2, <1>10 DEF CancelOldEntry, Goto, Locations
  <2> QED BY <1>10, <2>1, <2>2, UnchangedType, TypeParts DEF CancelOldEntry
<1>11. CASE CancelOldEntryFails
  <2>1. BrokerTypeOK'
    <3>1. CASE UNCHANGED brokerVars BY <3>1, UnchangedType
    <3>2. CASE Fault /\ UNCHANGED <<account, channel, lapses>>
      BY <1>1, <3>2, FaultType, BrokerUnchangedType
    <3>3. CASE Fault /\ CancelOrder(Entry)
      BY <1>1, <3>3, FaultType, CancelOrderType DEF OrderIds
    <3> QED BY <1>11, <3>1, <3>2, <3>3 DEF CancelOldEntryFails
  <2>2. ControlTypeOK' BY <1>2, <1>11 DEF CancelOldEntryFails, Goto, Locations
  <2>3. SnapshotTypeOK' BY <1>3, <1>11 DEF CancelOldEntryFails, SnapshotTypeOK
  <2> QED BY <1>11, <2>1, <2>2, <2>3, UnchangedType, TypeParts DEF CancelOldEntryFails
<1>12. CASE SaveExpiredEntry
  <2> DEFINE filled == snap.open[Entry].filled
             st == IF filled > 0 THEN "canceled" ELSE "expired"
  <2>1. Entry \in OrderIds BY DEF OrderIds
  <2>2. filled \in Nat /\ st \in RowStatus
    BY <1>1, <2>1 DEF SnapshotTypeOK, Snapshot, BrokerOrder, RowStatus, BrokerStatus
  <2>3. rows[Entry] \in OrderRow /\ rows[Entry].qty \in Nat
    BY <1>1, <2>1 DEF LedgerTypeOK, OrderRow
  <2> HIDE DEF filled, st
  <2>4. SavedFill(rows[Entry], st, rows[Entry].qty, Entry, filled) \in OrderRow
    BY <2>1, <2>2, <2>3, SavedFillType
  <2>5. LedgerTypeOK'
    BY <1>1, <1>12, <2>1, <2>4 DEF SaveExpiredEntry, LedgerTypeOK, filled, st
  <2>6. ControlTypeOK' BY <1>2, <1>12 DEF SaveExpiredEntry, Goto, Locations
  <2>7. SnapshotTypeOK' BY <1>3, <1>12 DEF SaveExpiredEntry, SnapshotTypeOK
  <2> QED BY <1>12, <2>5, <2>6, <2>7, UnchangedType, TypeParts DEF SaveExpiredEntry
<1>13. CASE OpenGate
  <2>1. ControlTypeOK'
    BY <1>1, <1>13, BoundsType DEF OpenGate, ControlTypeOK, Locations, environment
  <2> QED BY <1>13, <2>1, UnchangedType, TypeParts DEF OpenGate
<1>14. CASE StartRound
  <2>1. ControlTypeOK'
    BY <1>1, <1>14, BoundsAssumption DEF StartRound, ControlTypeOK, environment
  <2>2. DispatchTypeOK'
    BY <1>1, <1>14, NoJobType DEF StartRound, ListPending, DispatchTypeOK, LedgerTypeOK
  <2> QED BY <1>14, <2>1, <2>2, UnchangedType, TypeParts DEF StartRound
<1>15. CASE Dispatch
  <2>1. RoundTypeOK'
    BY <1>1, <1>15, DispatchStepType DEF Dispatch, RoundTypeOK
  <2> QED BY <1>15, <2>1, UnchangedType, TypeParts DEF Dispatch, RoundTypeOK
<1>16. CASE EndDispatch
  <2>1. ControlTypeOK'
    BY <1>1, <1>16 DEF EndDispatch, ControlTypeOK, Goto, Locations, environment
  <2> QED BY <1>16, <2>1, UnchangedType, TypeParts DEF EndDispatch
<1>17. CASE WatchStream
  <2>1. BrokerTypeOK' BY <1>1, <1>17 DEF WatchStream, BrokerTypeOK, account
  <2>2. ControlTypeOK' BY <1>2, <1>17 DEF WatchStream, Goto, Locations
  <2> QED BY <1>17, <2>1, <2>2, UnchangedType, TypeParts DEF WatchStream
<1> QED BY <1>4, <1>5, <1>6, <1>7, <1>8, <1>9, <1>10, <1>11, <1>12, <1>13, <1>14, <1>15, <1>16,
           <1>17 DEF Supervisor

\* Every step of the trading core.
LEMMA NextType == TypeOK /\ [Next]_vars => TypeOK'
<1> SUFFICES ASSUME TypeOK, [Next]_vars PROVE TypeOK'
  OBVIOUS
<1>1. BrokerTypeOK /\ LedgerTypeOK /\ TradeUpdatesTypeOK /\ DispatchTypeOK /\ SnapshotTypeOK
      /\ ControlTypeOK
  BY TypeParts
<1>2. CASE Supervisor BY <1>2, SupervisorType
<1>3. CASE Stream
  <2>1. StreamTypeOK' BY <1>1, <1>3, StreamStepType DEF Stream, StreamTypeOK
  <2> QED BY <1>3, <2>1, UnchangedType, TypeParts DEF Stream, StreamTypeOK
<1>4. CASE Broker
  <2>1. BrokerTypeOK' BY <1>1, <1>4, BrokerStepType DEF Broker
  <2> QED BY <1>4, <2>1, UnchangedType, TypeParts DEF Broker
<1>5. CASE EntryAges
  <2>1. ControlTypeOK' BY <1>1, <1>5 DEF EntryAges, ControlTypeOK, control
  <2> QED BY <1>5, <2>1, UnchangedType, TypeParts DEF EntryAges
<1>6. CASE StreamDies
  <2>1. BrokerTypeOK' BY <1>1, <1>6, BoundsType DEF StreamDies, BrokerTypeOK, account
  <2>2. ControlTypeOK'
    BY <1>1, <1>6, BoundsAssumption DEF StreamDies, ControlTypeOK, control
  <2> QED BY <1>6, <2>1, <2>2, UnchangedType, TypeParts DEF StreamDies
<1>7. CASE Crash
  <2>1. BrokerTypeOK' BY <1>1, <1>7, BoundsType DEF Crash, BrokerTypeOK, account
  <2>2. ControlTypeOK'
    <3>1. crashes' \in 0 .. MaxCrashes
      BY <1>1, <1>7, BoundsAssumption DEF Crash, ControlTypeOK
    <3> QED BY <1>1, <1>7, <3>1, BoundsType DEF Crash, ControlTypeOK, Locations
  <2>3. SnapshotTypeOK' BY <1>7, NoOrdersType DEF Crash, SnapshotTypeOK
  <2>4. DispatchTypeOK'
    BY <1>7, NoJobType DEF Crash, DispatchTypeOK, NothingPending, NoJob
  <2>5. TradeUpdatesTypeOK'
    BY <1>7, NoJobType DEF Crash, TradeUpdatesTypeOK, NoRequest, Request
  <2> QED BY <1>7, <2>1, <2>2, <2>3, <2>4, <2>5, UnchangedType, TypeParts DEF Crash
<1>8. CASE UNCHANGED vars
  BY <1>8, UnchangedType, TypeParts DEF vars
<1> QED BY <1>2, <1>3, <1>4, <1>5, <1>6, <1>7, <1>8 DEF Next

\* Type correctness of the trading core: no interleaving of the supervisor, the
\* stream thread, the broker, crashes and failing calls takes a column, a
\* snapshot or a local variable out of its range, for any number of shares,
\* faults, crashes and rounds.
THEOREM TypeCorrectness == Spec => []TypeOK
<1>1. Init => TypeOK BY InitType
<1>2. TypeOK /\ [Next]_vars => TypeOK' BY NextType
<1> QED BY <1>1, <1>2, PTL DEF Spec
-----------------------------------------------------------------------------
(***************************************************************************)
(* What the recovery reads stays safe to act on.                           *)
(***************************************************************************)

\* Without an open sell order neither the broker nor the stream thread opens one
\* or lowers the holding: a stop is replaced only while it is open.
LEMMA NothingSold ==
    ASSUME TypeOK, OpenSells = {}, Stream \/ Broker
    PROVE  OpenSells' = {} /\ held <= held'
<1>1. \A c \in SellIds : ~IsOpen(bo[c])
  BY DEF OpenSells
<1>2. bo \in [OrderIds -> BrokerOrder] /\ held \in Nat
  BY DEF TypeOK, BrokerTypeOK
<1>3. SellIds \subseteq OrderIds /\ StopIds \subseteq SellIds /\ Entry \in OrderIds \ SellIds
      /\ Stop \in SellIds
  BY DEF OrderIds, SellIds, StopIds, ExitIds, Entry, Stop, Replacement, RecoveryStop,
         RecoveryExit, RejectionExit
<1>4. ASSUME UNCHANGED <<bo, held>> PROVE OpenSells' = {} /\ held <= held'
  BY <1>1, <1>2, <1>4 DEF OpenSells, IsOpen
<1>5. CASE Stream
  <2>1. \A c, q : ~ReplaceOrder(c, q)
    BY <1>1, <1>3 DEF ReplaceOrder, CanReplace, IsOpen
  <2>2. UNCHANGED <<bo, held>>
    BY <1>5, <2>1 DEF Stream, StreamStep, ApplyUpdate, ReplaceAccepted, ReplaceRefused,
                      ReplaceFails, SaveReplacement, account, brokerVars
  <2> QED BY <1>4, <2>2
<1>6. CASE Broker
  <2>1. CASE EntryFills
    <3>1. PICK n \in 1 .. (bo[Entry].qty - bo[Entry].filled) :
            bo' = AfterFill(Entry, n) /\ held' = held + n
      BY <2>1 DEF EntryFills
    <3>2. n \in Nat
      BY <1>3, FillType DEF TypeOK
    <3>3. \A c \in SellIds : bo'[c] = bo[c]
      BY <1>2, <1>3, <3>1 DEF AfterFill
    <3>4. held <= held' BY <1>2, <3>1, <3>2
    <3> QED BY <1>1, <3>3, <3>4 DEF OpenSells, IsOpen
  <2>2. ASSUME NEW c \in SellIds, SellFills(c) PROVE FALSE
    BY <1>1, <2>2 DEF SellFills
  <2>3. ASSUME NEW c \in OrderIds, OrderLapses(c) PROVE OpenSells' = {} /\ held <= held'
    <3>1. bo' = [bo EXCEPT ![c].st = "expired"] /\ held' = held
      BY <2>3 DEF OrderLapses
    <3>2. \A d \in SellIds : ~IsOpen(bo'[d])
      BY <1>1, <1>2, <1>3, <3>1 DEF IsOpen, BrokerOrder
    <3> QED BY <1>2, <3>1, <3>2 DEF OpenSells, IsOpen
  <2>4. CASE PriceMoves BY <1>4, <2>4 DEF PriceMoves
  <2>5. {Entry} \cup StopIds \subseteq OrderIds BY <1>3
  <2> QED BY <1>6, <2>1, <2>2, <2>3, <2>4, <2>5 DEF Broker, BrokerStep
<1> QED BY <1>5, <1>6

\* The snapshot invariant: initially the supervisor has read nothing.
LEMMA SnapshotInit == Init => SnapshotStaysSafe
BY DEF Init, SnapshotStaysSafe

\* Only a read of the open orders can make the invariant's premise true; afterwards
\* the supervisor opens no order before it has acted.
LEMMA SnapshotNext == TypeOK /\ SnapshotStaysSafe /\ [Next]_vars => SnapshotStaysSafe'
<1> SUFFICES ASSUME TypeOK, SnapshotStaysSafe, [Next]_vars,
                    ~HasBrokerSell', pc' \in {"positions", "closed", "recover"}
             PROVE  OpenSells' = {} /\ (pc' \in {"closed", "recover"} => snap'.held <= held')
  BY DEF SnapshotStaysSafe
<1>1. snap \in Snapshot /\ held \in Nat
  BY DEF TypeOK, BrokerTypeOK
<1>2. SellIds \subseteq OrderIds BY DEF OrderIds
<1>3. ASSUME UNCHANGED <<bo, held, snap, pc>>
      PROVE  OpenSells' = {} /\ (pc' \in {"closed", "recover"} => snap'.held <= held')
  <2>1. HasBrokerSell' = HasBrokerSell /\ OpenSells' = OpenSells
    BY <1>3 DEF HasBrokerSell, OpenInSnapshot, OpenSells, IsOpen
  <2> QED BY <1>3, <2>1 DEF SnapshotStaysSafe
<1>4. CASE FetchOpenOrders
  <2>1. snap'.open = Orders(OpenIds) /\ bo' = bo /\ pc' = "positions"
    BY <1>4 DEF FetchOpenOrders, ReadOpenOrders, NoSnapshot, Goto, brokerVars, account
  <2>2. \A c \in SellIds : ~IsOpen(bo[c])
    BY <1>2, <2>1 DEF HasBrokerSell, OpenInSnapshot, Orders, OpenIds, IsOpen
  <2> QED BY <2>1, <2>2 DEF OpenSells, IsOpen
<1>5. CASE FetchPositions
  <2>1. snap'.open = snap.open /\ snap'.held = held /\ UNCHANGED <<bo, held>>
        /\ pc = "positions"
    BY <1>1, <1>5 DEF FetchPositions, ReadPositions, Snapshot, Goto, brokerVars, account
  <2>2. ~HasBrokerSell /\ OpenSells' = OpenSells
    BY <2>1 DEF HasBrokerSell, OpenInSnapshot, OpenSells, IsOpen
  <2> QED BY <1>1, <2>1, <2>2 DEF SnapshotStaysSafe
<1>6. CASE FetchClosedOrders
  <2>1. snap'.open = snap.open /\ snap'.held = snap.held /\ UNCHANGED <<bo, held>>
        /\ pc = "closed"
    BY <1>1, <1>6 DEF FetchClosedOrders, ReadClosedOrders, Snapshot, Goto, account
  <2>2. ~HasBrokerSell /\ OpenSells' = OpenSells
    BY <2>1 DEF HasBrokerSell, OpenInSnapshot, OpenSells, IsOpen
  <2> QED BY <2>1, <2>2 DEF SnapshotStaysSafe
<1>7. CASE Stream \/ Broker
  <2>1. UNCHANGED <<snap, pc>>
    BY <1>7 DEF Stream, Broker, control
  <2>2. ~HasBrokerSell
    BY <2>1 DEF HasBrokerSell, OpenInSnapshot
  <2>3. OpenSells = {} /\ (pc \in {"closed", "recover"} => snap.held <= held)
    BY <2>1, <2>2 DEF SnapshotStaysSafe
  <2>4. OpenSells' = {} /\ held <= held'
    BY <1>7, <2>3, NothingSold
  <2>5. held' \in Nat /\ snap.held \in Nat
    BY <1>1, NextType DEF TypeOK, BrokerTypeOK, Snapshot
  <2> QED BY <1>1, <2>1, <2>3, <2>4, <2>5
<1>8. CASE Supervisor /\ ~FetchOpenOrders /\ ~FetchPositions /\ ~FetchClosedOrders
  BY <1>8 DEF Supervisor, RunRecovery, CycleFails, NoEntryToExpire, CancelOldEntry,
     CancelOldEntryFails, SaveExpiredEntry, OpenGate, StartRound, Dispatch, EndDispatch,
     WatchStream, Goto, control
<1>9. CASE EntryAges \/ StreamDies
  BY <1>3, <1>9 DEF EntryAges, StreamDies, brokerVars, account, control
<1>10. CASE Crash BY <1>10 DEF Crash
<1>11. CASE UNCHANGED vars
  BY <1>3, <1>11 DEF vars, brokerVars, account, control
<1> QED BY <1>4, <1>5, <1>6, <1>7, <1>8, <1>9, <1>10, <1>11 DEF Next

\* When the recovery saw no sell order, none is opened until it acts, and the
\* account keeps at least the shares it read, whatever the stream thread and the
\* broker do between its reads.
THEOREM SnapshotSafety == Spec => []SnapshotStaysSafe
<1>1. Init => SnapshotStaysSafe BY SnapshotInit
<1>2. TypeOK /\ SnapshotStaysSafe /\ [Next]_vars => SnapshotStaysSafe' BY SnapshotNext
<1> QED BY <1>1, <1>2, TypeCorrectness, PTL DEF Spec

\* A row that is waiting was queued by a recovery that saw no open sell order, for
\* the shares it saw.
QueuedForSnapshot(row) ==
    row.st = "pending_submit" => ~HasBrokerSell /\ row.qty = snap.held

\* Queueing one order keeps that of the other.
LEMMA QueuedRow ==
    ASSUME NEW rs \in RowsType, NEW c \in OrderIds, NEW d \in OrderIds,
           QueuedForSnapshot(rs[c]), MayQueueRecovery
    PROVE  QueuedForSnapshot(Queued(rs, d)[c])
<1>1. rs[d] \in OrderRow BY DEF RowsType
<1>2. Saved(rs[d], "pending_submit", snap.held, NoId).qty = snap.held
  BY <1>1 DEF Saved, OrderRow
<1> QED BY <1>2 DEF Queued, RowsType, QueuedForSnapshot, MayQueueRecovery

\* A recovery order that was not active waits after the recovery only if a pass of
\* this recovery queued it: closed fills, open orders and unmatched rows never do.
LEMMA RecoveredRow ==
    ASSUME TypeOK, NEW c \in {RecoveryStop, RecoveryExit}, ~IsActive(rows[c])
    PROVE  QueuedForSnapshot(Recovered[c])
<1> DEFINE r1 == WithRecoveredEntry(rows)
           r2 == WithClosedFills(r1)
           r3 == WithStopForNewPosition(r2)
           r4 == WithCoverForPosition(r3)
           r5 == WithOpenOrders(r4)
<1>1. /\ SnapshotTypeOK /\ LedgerTypeOK /\ rows \in RowsType
  BY DEF TypeOK, SnapshotTypeOK, LedgerTypeOK, RowsType
<1>2. r1 \in RowsType /\ r2 \in RowsType /\ r3 \in RowsType /\ r4 \in RowsType /\ r5 \in RowsType
  BY <1>1, RecoveredEntryType, ClosedFillsType, StopForNewPositionType, CoverForPositionType,
     OpenOrdersType
<1>3. c \in OrderIds \ {Entry} /\ RecoveryStop \in OrderIds /\ RecoveryExit \in OrderIds
  BY DEF OrderIds, SellIds, StopIds, ExitIds, Entry, Stop, Replacement, RecoveryStop,
         RecoveryExit, RejectionExit
<1>4. rows[c].st # "pending_submit" /\ c \notin LocalActive
  BY DEF IsActive, ActiveStatus, LocalActive
<1>5. r1[c].st # "pending_submit"
  BY <1>1, <1>3, <1>4 DEF WithRecoveredEntry, RowsType
<1> HIDE DEF r1
<1>6. r2[c].st # "pending_submit"
  <2>1. CASE IsFillNew(c)
    <3>1. PICK d \in OrderIds : ClosedFill(c) = FillOf(rows[c], d)
      BY <2>1 DEF IsFillNew, ClosedFill, ClosedFills, ClosedInSnapshot
    <3>2. snap.closed[d].st \in BrokerStatus
      BY <1>1 DEF SnapshotTypeOK, Snapshot, BrokerOrder
    <3> QED BY <1>3, <2>1, <3>1, <3>2 DEF WithClosedFills, FillOf, BrokerStatus
  <2>2. CASE ~IsFillNew(c)
    BY <1>3, <1>5, <2>2 DEF WithClosedFills
  <2> QED BY <2>1, <2>2
<1>7. QueuedForSnapshot(r2[c])
  BY <1>6 DEF QueuedForSnapshot
<1> HIDE DEF r2
<1>8. QueuedForSnapshot(r3[c])
  BY <1>2, <1>3, <1>7, QueuedRow DEF WithStopForNewPosition
<1> HIDE DEF r3
<1>9. QueuedForSnapshot(r4[c])
  BY <1>2, <1>3, <1>8, QueuedRow DEF WithCoverForPosition, NeedsCover
<1> HIDE DEF r4
<1>10. QueuedForSnapshot(r5[c])
  <2>1. CASE c \in OpenInSnapshot
    <3>1. snap.open[c].st \in BrokerStatus
      BY <1>1, <1>3 DEF SnapshotTypeOK, Snapshot, BrokerOrder
    <3>2. r4[c] \in OrderRow BY <1>2, <1>3 DEF RowsType
    <3>3. r5[c].st = snap.open[c].st
      BY <1>3, <2>1, <3>2 DEF WithOpenOrders, Saved, OrderRow
    <3> QED BY <3>1, <3>3 DEF QueuedForSnapshot, BrokerStatus
  <2>2. CASE c \notin OpenInSnapshot
    BY <1>3, <1>9, <2>2 DEF WithOpenOrders
  <2> QED BY <2>1, <2>2
<1> HIDE DEF r5
<1>11. WithUnmatched(r5)[c] = r5[c]
  BY <1>3, <1>4 DEF WithUnmatched
<1> QED BY <1>10, <1>11 DEF Recovered, r1, r2, r3, r4, r5

\* The stream thread never queues a recovery order.
LEMMA StreamQueuesNoRecovery ==
    ASSUME TypeOK, Stream, NEW c \in {RecoveryStop, RecoveryExit}
    PROVE  rows'[c] = rows[c] \/ rows'[c].st # "pending_submit"
<1>1. c \in OrderIds \ {Entry, Stop}
  BY DEF OrderIds, SellIds, StopIds, ExitIds, Entry, Stop, Replacement, RecoveryStop,
         RecoveryExit, RejectionExit
<1>2. rows \in [OrderIds -> OrderRow] BY DEF TypeOK, LedgerTypeOK
<1>3. CASE ApplyUpdate
  <2> DEFINE e == Head(updates)
  <2>1. e \in TradeUpdate
    BY <1>3 DEF ApplyUpdate, TypeOK, BrokerTypeOK
  <2>2. Updated(c, e).st # "pending_submit"
    <3>1. e.st # "pending_submit" BY <2>1 DEF TradeUpdate, BrokerStatus
    <3>2. rows[c] \in OrderRow BY <1>1, <1>2
    <3> QED BY <3>1, <3>2 DEF Updated, SavedFill, Saved, OrderRow
  <2> HIDE DEF e
  <2>3. CASE IgnoreUpdate(e)
    BY <2>3 DEF IgnoreUpdate, ledger
  <2>4. CASE ApplyEntryFill(e) \/ ApplyEntryEnd(e)
    BY <1>1, <1>2, <2>4 DEF ApplyEntryFill, ApplyEntryEnd, SavePositionAndStop
  <2>5. CASE ApplySellFill(e) \/ ApplyStatus(e)
    <3>1. rows' = [rows EXCEPT ![RowFor(e)] = Updated(RowFor(e), e)]
      BY <2>5 DEF ApplySellFill, ApplyStatus
    <3>2. CASE RowFor(e) = c BY <1>1, <1>2, <2>2, <3>1, <3>2
    <3>3. CASE RowFor(e) # c BY <1>1, <1>2, <3>1, <3>3
    <3> QED BY <3>2, <3>3
  <2> QED BY <1>3, <2>3, <2>4, <2>5 DEF ApplyUpdate, e
<1>4. CASE SaveReplacement
  BY <1>1, <1>2, <1>4 DEF SaveReplacement
<1>5. CASE ReplaceAccepted \/ ReplaceRefused \/ ReplaceFails
  BY <1>5 DEF ReplaceAccepted, ReplaceRefused, ReplaceFails, ledger
<1> QED BY <1>3, <1>4, <1>5 DEF Stream, StreamStep

\* The step of the theorem below: of all the steps possible while the supervisor is
\* about to run the recovery, only the recovery itself queues such an order.
LEMMA RecoveryStep ==
    ASSUME TypeOK, SnapshotStaysSafe, [Next]_vars, NEW c \in {RecoveryStop, RecoveryExit},
           pc = "recover", ~IsActive(rows[c]), rows'[c].st = "pending_submit"
    PROVE  OpenSells = {} /\ rows'[c].qty <= held
<1>1. rows[c].st # "pending_submit" BY DEF IsActive, ActiveStatus
<1>2. rows'[c] # rows[c] BY <1>1
<1>3. CASE RunRecovery
  <2>1. rows' = Recovered BY <1>3 DEF RunRecovery, Recover
  <2>2. ~HasBrokerSell /\ rows'[c].qty = snap.held
    BY <2>1, RecoveredRow DEF QueuedForSnapshot
  <2> QED BY <2>2 DEF SnapshotStaysSafe
<1>4. CASE Stream BY <1>2, <1>4, StreamQueuesNoRecovery
<1>5. CASE Supervisor /\ ~RunRecovery
  BY <1>5 DEF Supervisor, FetchOpenOrders, FetchPositions, FetchClosedOrders, CycleFails,
     NoEntryToExpire, CancelOldEntry, CancelOldEntryFails, SaveExpiredEntry, OpenGate, StartRound,
     Dispatch, EndDispatch, WatchStream, Goto
<1>6. CASE Broker \/ EntryAges \/ StreamDies \/ Crash \/ UNCHANGED vars
  BY <1>2, <1>6 DEF Broker, EntryAges, StreamDies, Crash, vars, ledger
<1> QED BY <1>3, <1>4, <1>5, <1>6 DEF Next

\* A recovery newly queues a stop or an exit only when no sell order is open at
\* the broker and for no more shares than the account holds when the row is
\* written, for entries of any size and any number of failures and crashes.
THEOREM RecoverySafety == Spec => RecoveryQueuesOnlyForHeldShares
<1>1. TypeOK /\ SnapshotStaysSafe /\ [Next]_vars
        => [\A c \in {RecoveryStop, RecoveryExit} :
              pc = "recover" /\ ~IsActive(rows[c]) /\ rows'[c].st = "pending_submit"
                => OpenSells = {} /\ rows'[c].qty <= held]_vars
  BY RecoveryStep
<1> QED BY <1>1, TypeCorrectness, SnapshotSafety, PTL DEF Spec, RecoveryQueuesOnlyForHeldShares

-----------------------------------------------------------------------------
(***************************************************************************)
(* How the broker's orders move, and what its updates say of them.         *)
(***************************************************************************)
LEMMA Ids ==
    /\ {Entry, Stop, Replacement, RecoveryStop, RecoveryExit, RejectionExit} = OrderIds
    /\ SellIds \subseteq OrderIds /\ StopIds \subseteq OrderIds /\ NoId \notin OrderIds
    /\ Entry \notin SellIds /\ Stop \in StopIds /\ Replacement \in StopIds
    /\ Entry # Stop /\ Entry # Replacement /\ Stop # Replacement
    /\ {Entry, Stop, Replacement} \cap {RecoveryStop, RecoveryExit, RejectionExit} = {}
BY DEF OrderIds, SellIds, StopIds, ExitIds, Entry, Stop, Replacement, RecoveryStop,
       RecoveryExit, RejectionExit, NoId

Ends == {"filled", "canceled", "expired", "replaced"}

\* An order n that may have become of the order o: it is placed once, and once it
\* is over it stays as it is.
Later(o, n) ==
    \/ n = o
    \/ o.st = "none" /\ n.st = "accepted" /\ n.filled = 0
    \/ IsOpen(o) /\ n.st \in FillStatuses /\ n.filled > o.filled
    \/ IsOpen(o) /\ n.st \in Ends /\ n.filled = o.filled

\* What an update says of its order still holds when it is handled.
Truthful(e, orders) ==
    /\ orders[e.id].st # "none"
    /\ e.st \in Ends => ~IsOpen(orders[e.id])
    /\ e.id = Entry =>
         /\ e.st \in FillStatuses => e.filled > 0
         /\ e.st \in EntryEndStatuses => e.filled = orders[Entry].filled
         /\ e.filled > 0 => orders[Entry].filled > 0

UpdatesAreTrue == \A i \in 1 .. Len(updates) : Truthful(updates[i], bo)

OrdersMove == \A c \in OrderIds : Later(bo[c], bo'[c])
NothingPlaced == \A c \in OrderIds : bo[c].st = "none" => bo'[c] = bo[c]
SharesAreBought == held' = held \/ held' < held \/ bo'[Entry].filled > 0

Announced ==
    \/ updates' \in {updates, <<>>}
    \/ updates # <<>> /\ updates' = Tail(updates)
    \/ \E u \in TradeUpdate : Truthful(u, bo') /\ updates' = Published(<<u>>)
    \/ \E u, v \in TradeUpdate :
         Truthful(u, bo') /\ Truthful(v, bo') /\ updates' = Published(<<u, v>>)

Moves == OrdersMove /\ SharesAreBought /\ Announced

\* The calls the bot makes.
LEMMA CancelMoves ==
    ASSUME TypeOK, NEW c \in OrderIds, CancelOrder(c)
    PROVE  Moves /\ NothingPlaced /\ ~IsOpen(bo'[c]) /\ \A d \in OrderIds \ {c} : bo'[d] = bo[d]
<1>1. bo \in [OrderIds -> BrokerOrder]
  BY DEF TypeOK, BrokerTypeOK
<1>2. /\ IsOpen(bo[c]) /\ bo'[c].st = "canceled" /\ bo'[c].filled = bo[c].filled
      /\ \A d \in OrderIds \ {c} : bo'[d] = bo[d]
  BY <1>1 DEF CancelOrder, BrokerOrder
<1>3. ~IsOpen(bo'[c]) /\ bo[c].st # "none"
  BY <1>2 DEF IsOpen
<1>4. OrdersMove /\ NothingPlaced
  BY <1>2, <1>3 DEF OrdersMove, NothingPlaced, Later, Ends
<1>5. SharesAreBought
  BY DEF CancelOrder, SharesAreBought
<1>6. Announced
  <2> DEFINE u == Update(c, "canceled", bo[c].filled)
  <2>1. u \in TradeUpdate /\ bo[c].filled \in Nat
    BY <1>1 DEF Update, TradeUpdate, BrokerStatus, BrokerOrder
  <2>2. u.id = c /\ u.st = "canceled" /\ u.filled = bo[c].filled
    BY DEF Update
  <2> HIDE DEF u
  <2>3. Truthful(u, bo')
    BY <1>2, <1>3, <2>1, <2>2 DEF Truthful, Ends, FillStatuses
  <2>4. updates' = Published(<<u>>)
    BY DEF CancelOrder, u
  <2> QED BY <2>1, <2>3, <2>4 DEF Announced
<1> QED BY <1>2, <1>3, <1>4, <1>5, <1>6 DEF Moves

LEMMA PlaceMoves ==
    ASSUME TypeOK, NEW c \in OrderIds, NEW q, PlaceOrder(c, q)
    PROVE  /\ Moves /\ bo[c].st = "none" /\ bo'[c].st = "accepted"
           /\ \A d \in OrderIds \ {c} : bo'[d] = bo[d]
<1>1. bo \in [OrderIds -> BrokerOrder]
  BY DEF TypeOK, BrokerTypeOK
<1>2. /\ bo[c].st = "none" /\ bo'[c].st = "accepted" /\ bo'[c].filled = 0
      /\ \A d \in OrderIds \ {c} : bo'[d] = bo[d]
  BY <1>1 DEF PlaceOrder, Accepts, IsDuplicate
<1>3. OrdersMove
  BY <1>2 DEF OrdersMove, Later
<1>4. SharesAreBought
  BY DEF PlaceOrder, SharesAreBought
<1>5. Announced
  <2> DEFINE u == Update(c, "accepted", 0)
  <2>1. u \in TradeUpdate
    BY DEF Update, TradeUpdate, BrokerStatus
  <2>2. u.id = c /\ u.st = "accepted" /\ u.filled = 0
    BY DEF Update
  <2> HIDE DEF u
  <2>3. Truthful(u, bo')
    BY <1>2, <2>2 DEF Truthful, Ends, FillStatuses, EntryEndStatuses
  <2>4. updates' = Published(<<u>>)
    BY DEF PlaceOrder, u
  <2> QED BY <2>1, <2>3, <2>4 DEF Announced
<1> QED BY <1>2, <1>3, <1>4, <1>5 DEF Moves

LEMMA ReplaceMoves ==
    ASSUME TypeOK, NEW c, NEW q, ReplaceOrder(c, q)
    PROVE  /\ Moves
           /\ bo[Stop].st = "accepted" /\ bo'[Stop].st = "replaced" /\ bo[Replacement].st = "none"
           /\ \A d \in OrderIds \ {Stop, Replacement} : bo'[d] = bo[d]
<1>1. bo \in [OrderIds -> BrokerOrder]
  BY DEF TypeOK, BrokerTypeOK
<1>2. /\ bo[Stop].st = "accepted" /\ bo'[Stop].st = "replaced" /\ bo'[Stop].filled = bo[Stop].filled
      /\ bo[Replacement].st = "none" /\ bo'[Replacement].st = "accepted" /\ bo'[Replacement].filled = 0
      /\ \A d \in OrderIds \ {Stop, Replacement} : bo'[d] = bo[d]
  BY <1>1, Ids DEF ReplaceOrder, CanReplace, BrokerOrder
<1>3. OrdersMove
  BY <1>2 DEF OrdersMove, Later, IsOpen, Ends
<1>4. SharesAreBought
  BY DEF ReplaceOrder, SharesAreBought
<1>5. Announced
  <2> DEFINE u == Update(Stop, "replaced", 0)
             v == Update(Replacement, "accepted", 0)
  <2>1. u \in TradeUpdate /\ v \in TradeUpdate
    BY Ids DEF Update, TradeUpdate, BrokerStatus
  <2>2. u.id = Stop /\ u.st = "replaced" /\ v.id = Replacement /\ v.st = "accepted"
    BY DEF Update
  <2> HIDE DEF u, v
  <2>3. Truthful(u, bo') /\ Truthful(v, bo')
    BY <1>2, <2>2, Ids DEF Truthful, Ends, IsOpen
  <2>4. updates' = Published(<<u, v>>)
    BY DEF ReplaceOrder, u, v
  <2> QED BY <2>1, <2>3, <2>4 DEF Announced
<1> QED BY <1>2, <1>3, <1>4, <1>5 DEF Moves

\* What the broker does by itself.
LEMMA BrokerMoves == ASSUME TypeOK, BrokerStep PROVE Moves /\ NothingPlaced
<1>1. bo \in [OrderIds -> BrokerOrder] /\ held \in Nat
  BY DEF TypeOK, BrokerTypeOK
<1>2. ASSUME NEW c \in OrderIds, IsOpen(bo[c]), NEW n \in 1 .. (bo[c].qty - bo[c].filled),
             bo' = AfterFill(c, n),
             updates' = Published(<<Update(c, FillStatus(bo[c], n), bo[c].filled + n)>>)
      PROVE  OrdersMove /\ NothingPlaced /\ Announced /\ bo'[c].filled > 0
  <2> DEFINE u == Update(c, FillStatus(bo[c], n), bo[c].filled + n)
  <2>1. n \in Nat \ {0} /\ bo[c].filled \in Nat
    BY <1>1, <1>2, FillType DEF TypeOK, BrokerOrder
  <2>2. /\ bo'[c].st = FillStatus(bo[c], n) /\ bo'[c].filled = bo[c].filled + n
        /\ \A d \in OrderIds \ {c} : bo'[d] = bo[d]
    BY <1>1, <1>2 DEF AfterFill, BrokerOrder
  <2>3. FillStatus(bo[c], n) \in FillStatuses
    BY DEF FillStatus, FillStatuses
  <2>4. bo[c].st # "none" /\ bo'[c].st # "none" /\ bo'[c].filled > bo[c].filled /\ bo'[c].filled > 0
    BY <1>2, <2>1, <2>2, <2>3 DEF IsOpen, FillStatuses
  <2>5. OrdersMove /\ NothingPlaced
    BY <1>2, <2>2, <2>3, <2>4 DEF OrdersMove, NothingPlaced, Later
  <2>6. u \in TradeUpdate
    BY <2>1, <2>3 DEF Update, TradeUpdate, BrokerStatus, FillStatuses
  <2>7. u.id = c /\ u.st = FillStatus(bo[c], n) /\ u.filled = bo[c].filled + n
    BY DEF Update
  <2>8. u.st \in Ends => ~IsOpen(bo'[c])
    BY <2>2, <2>7 DEF IsOpen, FillStatus, Ends
  <2> HIDE DEF u
  <2>9. Truthful(u, bo')
    BY <2>2, <2>3, <2>4, <2>7, <2>8 DEF Truthful, FillStatuses, EntryEndStatuses
  <2> QED BY <1>2, <2>4, <2>5, <2>6, <2>9 DEF Announced, u
<1>3. CASE EntryFills
  <2>1. Entry \in OrderIds BY Ids
  <2>2. OrdersMove /\ NothingPlaced /\ Announced /\ bo'[Entry].filled > 0
    BY <1>2, <1>3, <2>1 DEF EntryFills
  <2> QED BY <2>2 DEF Moves, SharesAreBought
<1>4. ASSUME NEW c \in SellIds, SellFills(c) PROVE Moves /\ NothingPlaced
  <2>1. c \in OrderIds BY Ids
  <2>2. PICK n \in 1 .. (bo[c].qty - bo[c].filled) :
          /\ bo' = AfterFill(c, n) /\ held' = held - n
          /\ updates' = Published(<<Update(c, FillStatus(bo[c], n), bo[c].filled + n)>>)
    BY <1>4 DEF SellFills
  <2>3. OrdersMove /\ NothingPlaced /\ Announced
    BY <1>2, <1>4, <2>1, <2>2 DEF SellFills
  <2>4. n \in Nat \ {0}
    BY <2>1, FillType DEF TypeOK
  <2>5. SharesAreBought
    BY <1>1, <2>2, <2>4 DEF SharesAreBought
  <2> QED BY <2>3, <2>5 DEF Moves
<1>5. ASSUME NEW c \in OrderIds, OrderLapses(c) PROVE Moves /\ NothingPlaced
  <2> DEFINE u == Update(c, "expired", bo[c].filled)
  <2>1. /\ IsOpen(bo[c]) /\ bo'[c].st = "expired" /\ bo'[c].filled = bo[c].filled
        /\ \A d \in OrderIds \ {c} : bo'[d] = bo[d]
    BY <1>1, <1>5 DEF OrderLapses, BrokerOrder
  <2>2. ~IsOpen(bo'[c]) /\ bo[c].st # "none"
    BY <2>1 DEF IsOpen
  <2>3. OrdersMove /\ NothingPlaced
    BY <2>1, <2>2 DEF OrdersMove, NothingPlaced, Later, Ends
  <2>4. u \in TradeUpdate /\ u.id = c /\ u.st = "expired" /\ u.filled = bo[c].filled /\ bo[c].filled \in Nat
    BY <1>1 DEF Update, TradeUpdate, BrokerStatus, BrokerOrder
  <2>5. updates' = Published(<<u>>) /\ held' = held
    BY <1>5 DEF OrderLapses
  <2> HIDE DEF u
  <2>6. Truthful(u, bo')
    BY <2>1, <2>2, <2>4 DEF Truthful, Ends, FillStatuses
  <2> QED BY <2>3, <2>4, <2>5, <2>6 DEF Moves, Announced, SharesAreBought
<1>6. CASE PriceMoves
  BY <1>6 DEF PriceMoves, channel, Moves, OrdersMove, Later, NothingPlaced, SharesAreBought, Announced
<1> QED BY <1>3, <1>4, <1>5, <1>6, Ids DEF BrokerStep

\* A step that leaves the account alone.
LEMMA QuietMoves ==
    ASSUME UNCHANGED account, updates' = updates \/ updates' = <<>> \/ (updates # <<>> /\ updates' = Tail(updates))
    PROVE  Moves /\ NothingPlaced
BY DEF account, Moves, OrdersMove, Later, NothingPlaced, SharesAreBought, Announced

\* Orders are placed by the dispatcher, and by the replacement of a stop.
Placed(c) ==
    /\ pc = "dispatch" /\ job.stage = "submit" /\ job.id = c /\ job'.stage = "answered" /\ job'.id = c
    /\ rows' = rows

Replaced(c) ==
    /\ c = Replacement /\ bo[Stop].st = "accepted" /\ bo'[Stop].st = "replaced"

OnlyPlaced == \A c \in OrderIds : bo[c].st = "none" => bo'[c] = bo[c] \/ Placed(c) \/ Replaced(c)

LEMMA OrdersNext == ASSUME TypeOK, [Next]_vars PROVE Moves /\ OnlyPlaced
<1>1. NothingPlaced => OnlyPlaced
  BY DEF NothingPlaced, OnlyPlaced
<1>2. Entry \in OrderIds BY Ids
<1>3. CASE CancelOldEntry \/ CancelOldEntryFails
  <2>1. CASE CancelOrder(Entry)
    BY <1>1, <1>2, <2>1, CancelMoves
  <2>2. CASE ~CancelOrder(Entry)
    BY <1>1, <1>3, <2>2, QuietMoves DEF CancelOldEntry, CancelOldEntryFails, brokerVars, channel
  <2> QED BY <2>1, <2>2
<1>4. CASE Dispatch
  <2>0. job \in Job /\ (job.stage # "idle" => job.id \in OrderIds)
    BY DEF TypeOK, DispatchTypeOK, Job
  <2>1. CASE CancelPartialEntry \/ CancelPartialEntryFails
    <3>1. CASE CancelOrder(Entry)
      BY <1>1, <1>2, <3>1, CancelMoves
    <3>2. CASE ~CancelOrder(Entry)
      BY <1>1, <2>1, <3>2, QuietMoves DEF CancelPartialEntry, CancelPartialEntryFails, brokerVars, channel
    <3> QED BY <3>1, <3>2
  <2>2. CASE SubmitAccepted \/ SubmitFails
    <3>1. job.stage = "submit" /\ job'.stage = "answered" /\ job'.id = job.id /\ rows' = rows /\ pc = "dispatch"
      BY <1>4, <2>0, <2>2 DEF Dispatch, SubmitAccepted, SubmitFails, Answered, Job, ledger
    <3>2. CASE PlaceOrder(job.id, job.row.qty)
      BY <2>0, <3>1, <3>2, PlaceMoves DEF OnlyPlaced, Placed
    <3>3. CASE ~PlaceOrder(job.id, job.row.qty)
      BY <1>1, <2>2, <3>3, QuietMoves DEF SubmitAccepted, SubmitFails, channel
    <3> QED BY <3>2, <3>3
  <2>3. CASE ~(CancelPartialEntry \/ CancelPartialEntryFails \/ SubmitAccepted \/ SubmitFails)
    <3>1. UNCHANGED brokerVars
      BY <1>4, <2>3 DEF Dispatch, DispatchStep, Take, SaveCanceledEntry, MarkSubmitting, SubmitRefused, SaveAnswer
    <3> QED BY <1>1, <3>1, QuietMoves DEF brokerVars, channel
  <2> QED BY <2>1, <2>2, <2>3
<1>5. CASE Stream
  <2>1. CASE \E c, q : ReplaceOrder(c, q)
    <3>1. /\ Moves /\ bo[Stop].st = "accepted" /\ bo'[Stop].st = "replaced" /\ bo[Replacement].st = "none"
          /\ \A d \in OrderIds \ {Stop, Replacement} : bo'[d] = bo[d]
      BY <2>1, ReplaceMoves
    <3> QED BY <3>1 DEF OnlyPlaced, Replaced
  <2>2. CASE ~\E c, q : ReplaceOrder(c, q)
    <3>1. UNCHANGED account
      BY <1>5, <2>2 DEF Stream, StreamStep, ApplyUpdate, ReplaceAccepted, ReplaceRefused,
                        ReplaceFails, SaveReplacement, brokerVars
    <3>2. updates' = updates \/ (updates # <<>> /\ updates' = Tail(updates))
      BY <1>5, <2>2 DEF Stream, StreamStep, ApplyUpdate, ReplaceAccepted, ReplaceRefused,
                        ReplaceFails, SaveReplacement, brokerVars, channel
    <3> QED BY <1>1, <3>1, <3>2, QuietMoves
  <2> QED BY <2>1, <2>2
<1>6. CASE Broker
  BY <1>1, <1>6, BrokerMoves DEF Broker
<1>7. CASE Supervisor /\ ~CancelOldEntry /\ ~CancelOldEntryFails /\ ~Dispatch
  <2>1. UNCHANGED <<account, updates>>
    BY <1>7 DEF Supervisor, FetchOpenOrders, FetchPositions, FetchClosedOrders, RunRecovery, CycleFails,
       NoEntryToExpire, SaveExpiredEntry, OpenGate, StartRound, EndDispatch, WatchStream, brokerVars, channel
  <2> QED BY <1>1, <2>1, QuietMoves
<1>8. CASE EntryAges \/ StreamDies \/ Crash \/ UNCHANGED vars
  <2>1. UNCHANGED account /\ updates' \in {updates, <<>>}
    BY <1>8 DEF EntryAges, StreamDies, Crash, vars, brokerVars, channel
  <2> QED BY <1>1, <2>1, QuietMoves
<1> QED BY <1>3, <1>4, <1>5, <1>6, <1>7, <1>8 DEF Next

\* What is over stays as it is, and what is open was open or has just been placed.
LEMMA LaterFacts ==
    ASSUME NEW o, NEW n, Later(o, n)
    PROVE  /\ ~IsOpen(o) /\ o.st # "none" => n = o
           /\ IsOpen(n) => IsOpen(o) \/ o.st = "none"
           /\ o.st # "none" => n.st # "none"
           /\ IsOpen(o) => o.st # "none"
BY DEF Later, IsOpen, Ends, FillStatuses

LEMMA TruthfulLater ==
    ASSUME TypeOK, OrdersMove, NEW e \in TradeUpdate, Truthful(e, bo), TypeOK'
    PROVE  Truthful(e, bo')
<1>1. e.id \in OrderIds /\ Entry \in OrderIds
  BY Ids DEF TradeUpdate
<1>2. bo[Entry].filled \in Nat /\ bo'[Entry].filled \in Nat
  BY <1>1 DEF TypeOK, BrokerTypeOK, BrokerOrder
<1>3. Later(bo[e.id], bo'[e.id]) /\ Later(bo[Entry], bo'[Entry])
  BY <1>1 DEF OrdersMove
<1>4. bo[e.id].st # "none" /\ bo'[e.id].st # "none"
  BY <1>3, LaterFacts DEF Truthful
<1>5. e.st \in Ends => ~IsOpen(bo'[e.id]) /\ bo'[e.id] = bo[e.id]
  BY <1>3, <1>4, LaterFacts DEF Truthful
<1>6. e.st \in EntryEndStatuses => e.st \in Ends
  BY DEF EntryEndStatuses, Ends
<1>7. e.id = Entry /\ bo[Entry].filled > 0 => bo'[Entry].filled > 0
  BY <1>2, <1>3, <1>4 DEF Later
<1> QED BY <1>4, <1>5, <1>6, <1>7 DEF Truthful

\* The queue stays true: it loses updates at its head, and gains true ones.
LEMMA UpdatesNext ==
    ASSUME TypeOK, TypeOK', UpdatesAreTrue, OrdersMove, Announced
    PROVE  UpdatesAreTrue'
<1>1. updates \in Seq(TradeUpdate)
  BY DEF TypeOK, BrokerTypeOK
<1>2. \A i \in 1 .. Len(updates) : Truthful(updates[i], bo')
  BY <1>1, TruthfulLater DEF UpdatesAreTrue
<1>3. UpdatesAreTrue' <=> \A i \in 1 .. Len(updates') : Truthful(updates'[i], bo')
  BY DEF UpdatesAreTrue, Truthful
<1>4. CASE updates' = updates
  BY <1>2, <1>3, <1>4
<1>5. CASE updates' = <<>>
  BY <1>3, <1>5
<1>6. CASE updates # <<>> /\ updates' = Tail(updates)
  <2>1. \A i \in 1 .. Len(updates') : updates'[i] = updates[i + 1] /\ i + 1 \in 1 .. Len(updates)
    BY <1>1, <1>6
  <2> QED BY <1>2, <1>3, <2>1
<1>7. ASSUME NEW u \in TradeUpdate, Truthful(u, bo'), updates' = Published(<<u>>) PROVE UpdatesAreTrue'
  <2>1. \A i \in 1 .. Len(updates') : updates'[i] = u \/ (i \in 1 .. Len(updates) /\ updates'[i] = updates[i])
    BY <1>1, <1>7 DEF Published
  <2> QED BY <1>2, <1>3, <1>7, <2>1
<1>8. ASSUME NEW u \in TradeUpdate, NEW v \in TradeUpdate, Truthful(u, bo'), Truthful(v, bo'),
             updates' = Published(<<u, v>>)
      PROVE  UpdatesAreTrue'
  <2>1. \A i \in 1 .. Len(updates') :
          updates'[i] \in {u, v} \/ (i \in 1 .. Len(updates) /\ updates'[i] = updates[i])
    BY <1>1, <1>8 DEF Published
  <2> QED BY <1>2, <1>3, <1>8, <2>1
<1> QED BY <1>4, <1>5, <1>6, <1>7, <1>8 DEF Announced

-----------------------------------------------------------------------------
(***************************************************************************)
(* What the snapshot misses is not open.                                   *)
(***************************************************************************)
Live == {"accepted", "partially_filled"}

Reading == pc \in {"positions", "closed", "recover"}

SnapshotCovers ==
    /\ \A c \in OrderIds : snap.open[c].st \in Live \cup {"none"}
    /\ \A c \in OrderIds : snap.closed[c].st # "none" => ~IsOpen(bo[c]) /\ bo[c].st # "none"
    /\ Reading => \A c \in OrderIds :
         IsOpen(bo[c]) => c \in OpenInSnapshot \/ (c = Replacement /\ Stop \in OpenInSnapshot)

\* How the snapshot changes.
LEMMA SnapshotSteps ==
    ASSUME [Next]_vars
    PROVE  \/ FetchOpenOrders \/ FetchPositions \/ FetchClosedOrders
           \/ snap' = NoSnapshot /\ ~Reading'
           \/ snap' = snap /\ (pc' = pc \/ ~Reading')
<1>1. CASE Supervisor
  BY <1>1 DEF Supervisor, RunRecovery, CycleFails, NoEntryToExpire, CancelOldEntry,
     CancelOldEntryFails, SaveExpiredEntry, OpenGate, StartRound, Dispatch, EndDispatch,
     WatchStream, Goto, control, Reading
<1>2. CASE Stream \/ Broker \/ EntryAges \/ StreamDies \/ Crash \/ UNCHANGED vars
  BY <1>2 DEF Stream, Broker, EntryAges, StreamDies, Crash, vars, control, Reading
<1> QED BY <1>1, <1>2 DEF Next

LEMMA SnapshotCoversNext ==
    ASSUME TypeOK, SnapshotCovers, [Next]_vars PROVE SnapshotCovers'
<1>1. snap \in Snapshot /\ bo \in [OrderIds -> BrokerOrder]
  BY DEF TypeOK, BrokerTypeOK
<1>2. OrdersMove /\ OnlyPlaced
  BY OrdersNext DEF Moves
<1>3. \A c \in OrderIds : snap.closed[c].st # "none" => ~IsOpen(bo'[c]) /\ bo'[c].st # "none"
  BY <1>2, LaterFacts DEF SnapshotCovers, OrdersMove
<1>4. IsOpen(NoBrokerOrder) = FALSE /\ NoBrokerOrder.st = "none"
  BY DEF IsOpen, NoBrokerOrder
<1>5. CASE FetchOpenOrders
  <2>1. snap'.open = Orders(OpenIds) /\ snap'.closed = NoOrders /\ bo' = bo
    BY <1>5 DEF FetchOpenOrders, ReadOpenOrders, NoSnapshot, brokerVars, account
  <2>2. \A c \in OrderIds : snap'.open[c].st # "none" <=> IsOpen(bo[c])
    BY <1>4, <2>1 DEF Orders, OpenIds, IsOpen
  <2>3. \A c \in OrderIds : snap'.open[c].st \in Live \cup {"none"}
    BY <1>4, <2>1 DEF Orders, OpenIds, IsOpen, Live
  <2>4. \A c \in OrderIds : snap'.closed[c].st = "none"
    BY <1>4, <2>1 DEF NoOrders
  <2> QED BY <2>1, <2>2, <2>3, <2>4 DEF SnapshotCovers, OpenInSnapshot
<1>6. CASE FetchPositions \/ FetchClosedOrders
  <2>1. snap'.open = snap.open /\ snap'.closed \in {snap.closed, Orders(ClosedIds)}
    BY <1>1, <1>6 DEF FetchPositions, FetchClosedOrders, ReadPositions, ReadClosedOrders, Snapshot
  <2>3. bo' = bo /\ Reading
    BY <1>6 DEF FetchPositions, FetchClosedOrders, Goto, Reading, brokerVars, account
  <2>2. \A c \in OrderIds : Orders(ClosedIds)[c].st # "none" => ~IsOpen(bo[c]) /\ bo[c].st # "none"
    BY <1>4 DEF Orders, ClosedIds, OpenIds
  <2>4. OpenInSnapshot' = OpenInSnapshot
    BY <2>1 DEF OpenInSnapshot
  <2> QED BY <2>1, <2>2, <2>3, <2>4 DEF SnapshotCovers
<1>7. CASE snap' = NoSnapshot /\ ~Reading'
  BY <1>4, <1>7 DEF SnapshotCovers, NoSnapshot, NoOrders
<1>8. CASE snap' = snap /\ (pc' = pc \/ ~Reading')
  <2>1. ASSUME NEW c \in OrderIds, Reading', IsOpen(bo'[c])
        PROVE  c \in OpenInSnapshot \/ (c = Replacement /\ Stop \in OpenInSnapshot)
    <3>1. Reading /\ pc # "dispatch"
      BY <1>8, <2>1 DEF Reading
    <3>2. CASE IsOpen(bo[c])
      BY <3>1, <3>2 DEF SnapshotCovers
    <3>3. CASE ~IsOpen(bo[c])
      <4>1. bo[c].st = "none" /\ bo'[c] # bo[c]
        BY <1>2, <2>1, <3>3, LaterFacts DEF OrdersMove
      <4>2. c = Replacement /\ IsOpen(bo[Stop])
        BY <1>2, <3>1, <4>1 DEF OnlyPlaced, Placed, Replaced, IsOpen
      <4>3. Stop \in OpenInSnapshot
        BY <3>1, <4>2, Ids DEF SnapshotCovers
      <4> QED BY <4>2, <4>3
    <3> QED BY <3>2, <3>3
  <2>2. OpenInSnapshot' = OpenInSnapshot
    BY <1>8 DEF OpenInSnapshot
  <2> QED BY <1>3, <1>8, <2>1, <2>2 DEF SnapshotCovers
<1> QED BY <1>5, <1>6, <1>7, <1>8, SnapshotSteps

-----------------------------------------------------------------------------
(***************************************************************************)
(* A row has no broker order id but its own, or the replacement's.         *)
(***************************************************************************)
OwnId(c, id) == id \in {NoId, c} \/ (c = Stop /\ id = Replacement)

GoodRow(c, r) == OwnId(c, r.bid) /\ (r.st \in Live => r.bid # NoId)

OwnRows(rs) == \A c \in OrderIds : GoodRow(c, rs[c])

OwnJob ==
    /\ \A c \in OrderIds : OwnId(c, pending[c].bid)
    /\ job.id # NoId => OwnId(job.id, job.row.bid)
    /\ OwnId(Entry, job.entry.bid)

OwnIds == OwnRows(rows) /\ OwnJob

\* What a save writes.
LEMMA SavedColumns ==
    ASSUME NEW r \in OrderRow, NEW st, NEW qty, NEW bid, NEW filled
    PROVE  /\ Saved(r, st, qty, bid).st = st /\ Saved(r, st, qty, bid).bid = bid
           /\ Saved(r, st, qty, bid).qty = qty
           /\ Saved(r, st, qty, bid).filled = r.filled
           /\ SavedFill(r, st, qty, bid, filled).st = st
           /\ SavedFill(r, st, qty, bid, filled).bid = bid
           /\ SavedFill(r, st, qty, bid, filled).qty = qty
           /\ SavedFill(r, st, qty, bid, filled).filled = filled
BY DEF Saved, SavedFill, OrderRow

LEMMA SavedOwn ==
    ASSUME NEW r \in OrderRow, NEW st, NEW qty, NEW bid, NEW filled, NEW c,
           OwnId(c, bid), st \in Live => bid # NoId
    PROVE  GoodRow(c, Saved(r, st, qty, bid)) /\ GoodRow(c, SavedFill(r, st, qty, bid, filled))
BY SavedColumns DEF GoodRow

\* _find_order finds the row of the order, or of the stop it replaced.
LEMMA RowForOwn ==
    ASSUME OwnIds, NEW e \in TradeUpdate
    PROVE  RowFor(e) \in OrderIds /\ e.id \in OrderIds /\ OwnId(RowFor(e), e.id)
BY DEF OwnIds, OwnRows, GoodRow, RowFor, OwnId, TradeUpdate

LEMMA UpdatedOwn ==
    ASSUME TypeOK, OwnIds, NEW e \in TradeUpdate
    PROVE  GoodRow(RowFor(e), Updated(RowFor(e), e))
<1>1. rows[RowFor(e)] \in OrderRow
  BY RowForOwn DEF TypeOK, LedgerTypeOK
<1>2. OwnId(RowFor(e), e.id) /\ e.id # NoId
  BY RowForOwn, Ids
<1> QED BY <1>1, <1>2, SavedOwn DEF Updated

LEMMA ProtectiveOwn ==
    ASSUME TypeOK, OwnIds, NEW q PROVE GoodRow(Stop, ProtectiveStop(q))
<1>1. rows[Stop] \in OrderRow /\ GoodRow(Stop, rows[Stop])
  BY Ids DEF TypeOK, LedgerTypeOK, OwnIds, OwnRows
<1>2. OwnId(Stop, NoId) /\ OwnId(Stop, rows[Stop].bid) /\ "pending_submit" \notin Live
  BY <1>1 DEF OwnId, GoodRow, Live
<1> QED BY <1>1, <1>2, SavedOwn DEF ProtectiveStop

LEMMA StreamOwn == ASSUME TypeOK, OwnIds, Stream PROVE OwnRows(rows')
<1>1. rows \in [OrderIds -> OrderRow] /\ OwnRows(rows)
  BY DEF TypeOK, LedgerTypeOK, OwnIds
<1>2. CASE rows' = rows
  BY <1>1, <1>2
<1>3. CASE SaveReplacement
  <2>1. GoodRow(Stop, Saved(rows[Stop], "accepted", sreq.qty, Replacement))
    BY <1>1, Ids, SavedOwn DEF OwnId
  <2> QED BY <1>1, <1>3, <2>1, Ids DEF SaveReplacement, OwnRows
<1>4. CASE ApplyUpdate
  <2> DEFINE e == Head(updates)
  <2>1. e \in TradeUpdate
    BY <1>4 DEF ApplyUpdate, TypeOK, BrokerTypeOK
  <2>2. GoodRow(RowFor(e), Updated(RowFor(e), e))
    BY <2>1, UpdatedOwn
  <2> HIDE DEF e
  <2>3. ASSUME NEW q, SavePositionAndStop(e, q), RowFor(e) = Entry PROVE OwnRows(rows')
    BY <1>1, <2>2, <2>3, Ids, ProtectiveOwn DEF SavePositionAndStop, OwnRows
  <2>4. CASE ApplyEntryEnd(e) /\ ~\E q : SavePositionAndStop(e, q)
    <3>1. GoodRow(Stop, Saved(rows[Stop], "canceled", rows[Stop].qty, rows[Stop].bid))
      BY <1>1, Ids, SavedOwn DEF OwnRows, GoodRow, Live
    <3> QED BY <1>1, <2>2, <2>4, <3>1, Ids DEF ApplyEntryEnd, OwnRows
  <2>5. CASE ApplySellFill(e) \/ ApplyStatus(e)
    BY <1>1, <2>2, <2>5 DEF ApplySellFill, ApplyStatus, OwnRows
  <2>6. CASE IgnoreUpdate(e)
    BY <1>1, <2>6 DEF IgnoreUpdate, ledger
  <2> QED BY <1>4, <2>3, <2>4, <2>5, <2>6 DEF ApplyUpdate, ApplyEntryFill, ApplyEntryEnd, e
<1> QED BY <1>2, <1>3, <1>4 DEF Stream, StreamStep, ReplaceAccepted, ReplaceRefused, ReplaceFails, ledger

\* The dispatcher writes rows under the ids of the records it has read.
LEMMA DispatchOwn == ASSUME TypeOK, OwnIds, Dispatch PROVE OwnRows(rows') /\ OwnJob'
<1>1. rows \in [OrderIds -> OrderRow] /\ OwnRows(rows) /\ OwnJob /\ job \in Job
      /\ pending \in [OrderIds -> OrderRow]
  BY DEF TypeOK, LedgerTypeOK, DispatchTypeOK, OwnIds
<1>2. \A c : OwnId(c, NoId)
  BY DEF OwnId
<1>3. NoRow.bid = NoId /\ NoJob.id = NoId /\ NoJob.entry.bid = NoId
  BY DEF NoRow, NoJob
<1>4. \A c \in OrderIds : Without(c) \in [OrderIds -> OrderRow]
                          /\ \A d \in OrderIds : Without(c)[d] \in {pending[d], NoRow}
  BY <1>1, NoJobType DEF Without
<1>5. ASSUME NEW c \in OrderIds, pending' = Without(c), job' = job PROVE OwnJob'
  BY <1>1, <1>2, <1>3, <1>4, <1>5 DEF OwnJob
<1>6. ASSUME NEW c \in OrderIds, NEW stage, NEW entry, OwnId(Entry, entry.bid), pending' = Without(c),
             job' = Start(c, stage, entry)
      PROVE  OwnJob'
  <2>1. job'.id = c /\ job'.row = pending[c] /\ job'.entry = entry
    BY <1>6 DEF Start, NoJob
  <2> QED BY <1>1, <1>2, <1>3, <1>4, <1>6, <2>1 DEF OwnJob
<1>7. pending' = pending /\ job' = NoJob => OwnJob'
  BY <1>1, <1>2, <1>3 DEF OwnJob
<1>8. pending' = pending /\ job'.id = job.id /\ job'.row.bid = job.row.bid /\ job'.entry = job.entry => OwnJob'
  BY <1>1 DEF OwnJob
<1>9. job.stage # "idle" => job.id \in OrderIds /\ job.id # NoId
  BY <1>1 DEF TypeOK, DispatchTypeOK, Job
<1>10. OwnId(Entry, rows[Entry].bid) /\ OwnId(Entry, pending[Entry].bid)
  BY <1>1, Ids DEF OwnRows, GoodRow, OwnJob
<1>11. CASE \E d, o, x : Take(d, o, x)
  <2>1. CASE rows' = rows
    <3>1. OwnJob'
      <4>1. CASE \E c \in OrderIds : Leave(c)
        BY <1>5, <4>1 DEF Leave
      <4>2. CASE ~\E c \in OrderIds : Leave(c)
        BY <1>2, <1>3, <1>5, <1>6, <1>10, <1>11, <2>1, <4>2, Ids
        DEF Take, TakeEntry, TakeExit, TakeStop, SellIds
      <4> QED BY <4>1, <4>2
    <3> QED BY <1>1, <2>1, <3>1
  <2>2. CASE rows' # rows
    <3>1. /\ rows' = [rows EXCEPT ![Entry] = Saved(@, "expired", pending[Entry].qty, pending[Entry].bid)]
          /\ pending' = Without(Entry) /\ job' = job
      BY <1>11, <2>2 DEF Take, TakeEntry, TakeExit, TakeStop, Leave, ledger
    <3>2. GoodRow(Entry, Saved(rows[Entry], "expired", pending[Entry].qty, pending[Entry].bid))
      BY <1>1, <1>10, Ids, SavedOwn DEF Live
    <3> QED BY <1>1, <1>5, <3>1, <3>2, Ids DEF OwnRows
  <2> QED BY <2>1, <2>2
<1>12. CASE CancelPartialEntry \/ CancelPartialEntryFails
  BY <1>1, <1>7, <1>8, <1>12 DEF CancelPartialEntry, CancelPartialEntryFails, ledger, Job
<1>13. ASSUME NEW x, SaveCanceledEntry(x) PROVE OwnRows(rows') /\ OwnJob'
  <2>1. GoodRow(Entry, SavedFill(rows[Entry], "canceled", job.entry.qty, job.entry.bid, job.entry.filled))
    BY <1>1, Ids, SavedOwn DEF Live, OwnJob
  <2>2. OwnRows(rows')
    BY <1>1, <1>13, <2>1, Ids DEF SaveCanceledEntry, OwnRows
  <2>3. job' = NoJob \/ (job'.id = job.id /\ job'.row.bid = job.row.bid /\ job'.entry = job.entry)
    BY <1>1, <1>13 DEF SaveCanceledEntry, Job, OrderRow
  <2> QED BY <1>7, <1>8, <1>13, <2>2, <2>3 DEF SaveCanceledEntry
<1>14. CASE MarkSubmitting
  <2>1. GoodRow(job.id, Saved(rows[job.id], "submitting", job.row.qty, NoId))
    BY <1>1, <1>2, <1>9, <1>14, SavedOwn DEF Live, MarkSubmitting
  <2> QED BY <1>1, <1>8, <1>9, <1>14, <2>1 DEF MarkSubmitting, OwnRows, Job
<1>15. CASE SubmitAccepted \/ SubmitRefused \/ SubmitFails
  BY <1>1, <1>8, <1>15 DEF SubmitAccepted, SubmitRefused, SubmitFails, Answered, ledger, Job
<1>16. CASE SaveAnswer
  <2>1. GoodRow(RejectionExit, Saved(rows[RejectionExit], "pending_submit", job.row.qty, NoId))
    BY <1>1, <1>2, Ids, SavedOwn DEF Live
  <2>2. WithRejectionExit(rows) \in [OrderIds -> OrderRow] /\ OwnRows(WithRejectionExit(rows))
    <3>1. WithRejectionExit(rows) \in RowsType
      BY RejectionExitType DEF TypeOK
    <3> QED BY <1>1, <2>1, <3>1, Ids DEF WithRejectionExit, OwnRows, RowsType
  <2> DEFINE bid == IF job.answer = "accepted" THEN job.id ELSE job.row.bid
  <2>3. OwnId(job.id, bid) /\ (FinalStatus \in Live => bid # NoId)
    BY <1>1, <1>9, <1>16 DEF OwnId, OwnJob, FinalStatus, Live, SaveAnswer
  <2>4. GoodRow(job.id, Saved(WithRejectionExit(rows)[job.id], FinalStatus, job.row.qty, bid))
    BY <1>9, <1>16, <2>2, <2>3, SavedOwn DEF SaveAnswer
  <2> QED BY <1>7, <1>9, <1>16, <2>2, <2>4 DEF SaveAnswer, OwnRows
<1> QED BY <1>11, <1>12, <1>13, <1>14, <1>15, <1>16 DEF Dispatch, DispatchStep

-----------------------------------------------------------------------------
(***************************************************************************)
(* The recovery finds the row of every order it has read.                  *)
(***************************************************************************)
LEMMA ResolveOwn ==
    ASSUME TypeOK, OwnIds, NEW d \in OrderIds
    PROVE  /\ Resolve(d) \in OrderIds /\ OwnId(Resolve(d), d)
           /\ d # Replacement => Resolve(d) = d
           /\ Stop \in LocalActive /\ rows[Stop].bid = d => Resolve(d) = Stop
<1> DEFINE byBrokerId == {r \in LocalActive : rows[r].bid = d}
<1>1. \A r \in byBrokerId : r \in OrderIds /\ OwnId(r, d)
  BY DEF LocalActive, OwnIds, OwnRows, GoodRow
<1>2. Stop \in LocalActive /\ rows[Stop].bid = d <=> Stop \in byBrokerId
  OBVIOUS
<1>3. OwnId(d, d) /\ d # NoId
  BY Ids DEF OwnId
<1>4. Resolve(d) = CASE byBrokerId = {}     -> d
                     [] Stop \in byBrokerId -> Stop
                     [] OTHER               -> CHOOSE r \in byBrokerId : TRUE
  BY DEF Resolve
<1> HIDE DEF byBrokerId
<1>5. Resolve(d) \in OrderIds /\ OwnId(Resolve(d), d)
  BY <1>1, <1>3, <1>4
<1> QED BY <1>2, <1>3, <1>4, <1>5 DEF OwnId

\* A row that is given up has no order open under its broker id.
LEMMA UnmatchedIsOver ==
    ASSUME TypeOK, OwnIds, SnapshotCovers, pc = "recover",
           NEW c \in LocalActive \ MatchedRows, c # Replacement, rows[c].bid # NoId
    PROVE  ~IsOpen(bo[rows[c].bid])
<1> DEFINE d == rows[c].bid
<1>1. c \in OrderIds /\ d \in OrderIds /\ OwnId(c, d)
  BY DEF LocalActive, OwnIds, OwnRows, GoodRow, TypeOK, LedgerTypeOK, OrderRow
<1> SUFFICES ASSUME IsOpen(bo[d]) PROVE FALSE
  OBVIOUS
<1>2. d \in OpenInSnapshot \/ (d = Replacement /\ Stop \in OpenInSnapshot)
  BY <1>1 DEF SnapshotCovers, Reading
<1>3. Resolve(d) = c
  BY <1>1, ResolveOwn DEF OwnId
<1>4. d \notin OpenInSnapshot
  BY <1>3 DEF MatchedRows
<1>5. c = Stop /\ Stop \in OpenInSnapshot /\ Resolve(Stop) = Stop
  BY <1>1, <1>2, <1>4, ResolveOwn, Ids DEF OwnId
<1> QED BY <1>5 DEF MatchedRows

\* The passes before the last.
Matched ==
    WithOpenOrders(WithCoverForPosition(WithStopForNewPosition(
        WithClosedFills(WithRecoveredEntry(rows)))))

LEMMA MatchedType == ASSUME TypeOK PROVE Matched \in RowsType
<1>1. rows \in RowsType /\ SnapshotTypeOK /\ LedgerTypeOK
  BY DEF TypeOK, LedgerTypeOK, RowsType, SnapshotTypeOK
<1> QED BY <1>1, RecoveredEntryType, ClosedFillsType, StopForNewPositionType,
           CoverForPositionType, OpenOrdersType DEF Matched

\* The last pass of the recovery works on what the passes over the positions left.
LEMMA RecoveredRows == Recovered = WithUnmatched(Matched)
BY DEF Recovered, Matched

\* The row of a new position's entry, pass by pass.
LEMMA RecoveredEntryRow ==
    ASSUME NEW rs \in RowsType, NEW c \in OrderIds
    PROVE  \/ WithRecoveredEntry(rs)[c] = rs[c]
           \/ /\ c = Entry /\ IsEntryRecovered
              /\ WithRecoveredEntry(rs)[c].st = "filled"
              /\ WithRecoveredEntry(rs)[c].filled = snap.held
              /\ WithRecoveredEntry(rs)[c].bid = rs[c].bid
BY Ids DEF WithRecoveredEntry, RowsType, OrderRow

\* Rows the first passes queue.
LEMMA QueuedColumns ==
    ASSUME NEW rs \in RowsType, NEW d \in OrderIds, NEW c \in OrderIds
    PROVE  \/ Queued(rs, d)[c] = rs[c]
           \/ /\ c = d
              /\ Queued(rs, d)[c].st = "pending_submit" /\ Queued(rs, d)[c].bid = NoId
              /\ Queued(rs, d)[c].filled = rs[c].filled
<1>1. rs \in [OrderIds -> OrderRow] /\ rs[d] \in OrderRow
  BY DEF RowsType
<1> DEFINE r == Saved(rs[d], "pending_submit", snap.held, NoId)
<1>2. r.st = "pending_submit" /\ r.bid = NoId /\ r.filled = rs[d].filled
  BY <1>1, SavedColumns
<1>3. Queued(rs, d) = [rs EXCEPT ![d] = r]
  BY DEF Queued
<1> HIDE DEF r
<1> QED BY <1>1, <1>2, <1>3

\* A pass over positions leaves a row as it is, or queues the recovery's own orders.
LEMMA CoverRow ==
    ASSUME TypeOK, NEW rs \in RowsType, NEW c \in OrderIds,
           NEW out \in {WithStopForNewPosition(rs), WithCoverForPosition(rs)}
    PROVE  \/ out[c] = rs[c]
           \/ /\ c \in {RecoveryStop, RecoveryExit} /\ ~HasBrokerSell
              /\ out[c].st = "pending_submit" /\ out[c].bid = NoId /\ out[c].filled = rs[c].filled
<1>1. RecoveryStop \in OrderIds /\ RecoveryExit \in OrderIds
  BY Ids
<1>2. out = rs \/ (~HasBrokerSell /\ out \in {Queued(rs, RecoveryStop), Queued(rs, RecoveryExit)})
  BY DEF WithStopForNewPosition, WithCoverForPosition, NeedsCover, MayQueueRecovery
<1> QED BY <1>1, <1>2, QueuedColumns

\* The row of a closed order that filled says what the order says.
LEMMA ClosedRow ==
    ASSUME TypeOK, OwnIds, NEW rs \in RowsType, NEW c \in OrderIds
    PROVE  \/ WithClosedFills(rs)[c] = rs[c]
           \/ \E d \in OrderIds :
                /\ snap.closed[d].filled > 0 /\ snap.closed[d].st # "none"
                /\ Resolve(d) = c /\ OwnId(c, d) /\ Exists(c)
                /\ WithClosedFills(rs)[c].st = snap.closed[d].st
                /\ WithClosedFills(rs)[c].bid = d
                /\ WithClosedFills(rs)[c].filled = snap.closed[d].filled
<1>1. WithClosedFills(rs)[c] = IF IsFillNew(c) THEN ClosedFill(c) ELSE rs[c]
  BY DEF WithClosedFills
<1>2. CASE IsFillNew(c)
  <2>1. PICK d \in ClosedFills(c) : ClosedFill(c) = FillOf(rows[c], d)
    BY <1>2 DEF IsFillNew, ClosedFill
  <2>2. d \in OrderIds /\ snap.closed[d].st # "none" /\ snap.closed[d].filled > 0 /\ Resolve(d) = c /\ Exists(c)
    BY DEF ClosedFills, ClosedInSnapshot
  <2>3. OwnId(c, d)
    BY <2>2, ResolveOwn
  <2> QED BY <1>1, <1>2, <2>1, <2>2, <2>3 DEF FillOf
<1> QED BY <1>1, <1>2

\* An open order is written over the row of its client id.
LEMMA OpenRow ==
    ASSUME NEW rs \in RowsType, NEW c \in OrderIds
    PROVE  /\ c \in OpenInSnapshot =>
                /\ WithOpenOrders(rs)[c].st = snap.open[c].st /\ WithOpenOrders(rs)[c].bid = c
                /\ WithOpenOrders(rs)[c].filled = rs[c].filled
           /\ c \notin OpenInSnapshot => WithOpenOrders(rs)[c] = rs[c]
BY SavedColumns DEF WithOpenOrders, RowsType

\* What becomes of an active row the broker knows nothing of.
LEMMA UnmatchedColumns ==
    ASSUME TypeOK, NEW row \in OrderRow, NEW c \in OrderIds
    PROVE  LET u == Unmatched(row, c) IN
           \/ rows[c].st = "pending_submit" /\ u = row
           \/ /\ rows[c].st = "submitting"
              /\ u.st = "pending_submit" /\ u.bid = NoId /\ u.filled = row.filled
           \/ /\ ~IsNeverSubmitted(rows[c])
              /\ u.st \in {rows[c].st, "reconciled_missing"} /\ u.bid = rows[c].bid
              /\ u.filled = row.filled
<1> DEFINE again == Saved(row, rows[c].st, rows[c].qty, rows[c].bid)
           misses == IF c \in StopIds THEN rows[c].miss + 1 ELSE 0
<1>0. rows[c].st \in RowStatus /\ rows[c].qty \in Nat /\ rows[c].bid \in OrderIds \cup {NoId}
  BY DEF TypeOK, LedgerTypeOK, OrderRow
<1>1. again \in OrderRow /\ again.st = rows[c].st /\ again.bid = rows[c].bid /\ again.filled = row.filled
  <2>1. again \in OrderRow
    BY <1>0, SavedType
  <2>2. again.st = rows[c].st /\ again.bid = rows[c].bid /\ again.filled = row.filled
    BY SavedColumns
  <2> QED BY <2>1, <2>2
<1>2. [again EXCEPT !.miss = misses].st = again.st
      /\ [again EXCEPT !.miss = misses].bid = again.bid
      /\ [again EXCEPT !.miss = misses].filled = again.filled
  BY <1>1 DEF OrderRow
<1>3. [again EXCEPT !.st = "reconciled_missing", !.miss = misses].st = "reconciled_missing"
      /\ [again EXCEPT !.st = "reconciled_missing", !.miss = misses].bid = again.bid
      /\ [again EXCEPT !.st = "reconciled_missing", !.miss = misses].filled = again.filled
  BY <1>1 DEF OrderRow
<1> DEFINE back == Saved(row, "pending_submit", rows[c].qty, NoId)
<1>4. back.st = "pending_submit" /\ back.bid = NoId /\ back.filled = row.filled
  BY SavedColumns
<1>5. IsNeverSubmitted(rows[c]) => rows[c].st \in {"pending_submit", "submitting"}
  BY DEF IsNeverSubmitted
<1>6. \/ IsNeverSubmitted(rows[c]) /\ rows[c].st = "pending_submit" /\ Unmatched(row, c) = row
      \/ IsNeverSubmitted(rows[c]) /\ rows[c].st = "submitting" /\ Unmatched(row, c) = back
      \/ ~IsNeverSubmitted(rows[c]) /\ Unmatched(row, c) = [again EXCEPT !.miss = misses]
      \/ /\ ~IsNeverSubmitted(rows[c])
         /\ Unmatched(row, c) = [again EXCEPT !.st = "reconciled_missing", !.miss = misses]
  BY <1>5 DEF Unmatched
<1> HIDE DEF again, misses, back
<1> QED BY <1>1, <1>2, <1>3, <1>4, <1>6

\* The passes before the last keep rows their own, and give none up.
LEMMA MatchedOwn ==
    ASSUME TypeOK, OwnIds
    PROVE  /\ OwnRows(Matched)
           /\ \A c \in OrderIds : Matched[c].st = "reconciled_missing" => rows[c].st = "reconciled_missing"
<1> DEFINE Kept(rs) == /\ OwnRows(rs)
                       /\ \A c \in OrderIds : rs[c].st = "reconciled_missing" => rows[c].st = "reconciled_missing"
           r1 == WithRecoveredEntry(rows)
           r2 == WithClosedFills(r1)
           r3 == WithStopForNewPosition(r2)
           r4 == WithCoverForPosition(r3)
<1>1. SnapshotTypeOK /\ LedgerTypeOK /\ rows \in RowsType
  BY DEF TypeOK, LedgerTypeOK, RowsType, SnapshotTypeOK
<1>2. r1 \in RowsType /\ r2 \in RowsType /\ r3 \in RowsType /\ r4 \in RowsType
  BY <1>1, RecoveredEntryType, ClosedFillsType, StopForNewPositionType, CoverForPositionType
<1>3. Kept(rows)
  BY DEF OwnIds
<1>4. Kept(r1)
  BY <1>1, <1>3, RecoveredEntryRow DEF OwnRows, GoodRow, Live
<1>5. Kept(r2)
  <2> HIDE DEF r1
  <2>1. \A d \in OrderIds : snap.closed[d].st # "reconciled_missing"
    BY DEF TypeOK, Snapshot, BrokerOrder, BrokerStatus
  <2> QED BY <1>2, <1>4, <2>1, ClosedRow, Ids DEF OwnRows, GoodRow
<1>6. \A id : OwnId(id, NoId)
  BY DEF OwnId
<1>7. Kept(r3)
  <2> HIDE DEF r2
  <2> QED BY <1>2, <1>5, <1>6, CoverRow DEF OwnRows, GoodRow, Live
<1>8. Kept(r4)
  <2> HIDE DEF r3
  <2> QED BY <1>2, <1>6, <1>7, CoverRow DEF OwnRows, GoodRow, Live
<1>9. Kept(WithOpenOrders(r4))
  <2> HIDE DEF r4
  <2>1. \A d \in OrderIds : snap.open[d].st # "reconciled_missing" /\ OwnId(d, d) /\ d # NoId
    BY Ids DEF TypeOK, Snapshot, BrokerOrder, BrokerStatus, OwnId
  <2> QED BY <1>2, <1>8, <2>1, OpenRow DEF OwnRows, GoodRow
<1> QED BY <1>9 DEF Matched

LEMMA RecoveryOwn == ASSUME TypeOK, OwnIds PROVE OwnRows(Recovered)
<1>1. ASSUME NEW c \in OrderIds PROVE GoodRow(c, Unmatched(Matched[c], c))
  <2>1. Matched[c] \in OrderRow /\ GoodRow(c, Matched[c]) /\ GoodRow(c, rows[c])
    BY MatchedType, MatchedOwn DEF RowsType, OwnRows, OwnIds
  <2>2. OwnId(c, NoId) /\ "pending_submit" \notin Live /\ "reconciled_missing" \notin Live
    BY DEF OwnId, Live
  <2> QED BY <2>1, <2>2, UnmatchedColumns DEF GoodRow
<1> QED BY <1>1, MatchedOwn, RecoveredRows DEF WithUnmatched, OwnRows

\* Every step.
LEMMA OwnIdsNext == ASSUME TypeOK, OwnIds, [Next]_vars PROVE OwnIds'
<1>1. rows \in [OrderIds -> OrderRow] /\ OwnRows(rows)
  BY DEF TypeOK, LedgerTypeOK, OwnIds
<1>2. rows' = rows => OwnRows(rows')
  BY <1>1
<1>3. dispatch' = dispatch => OwnJob'
  BY DEF OwnIds, OwnJob, dispatch
<1>4. CASE Dispatch
  BY <1>4, DispatchOwn DEF OwnIds
<1>5. CASE Stream
  BY <1>3, <1>5, StreamOwn DEF OwnIds, Stream
<1>6. CASE RunRecovery
  BY <1>3, <1>6, RecoveryOwn DEF OwnIds, RunRecovery, Recover
<1>7. CASE SaveExpiredEntry
  <2>1. \A st, filled : GoodRow(Entry, SavedFill(rows[Entry], st, rows[Entry].qty, Entry, filled))
    BY <1>1, Ids, SavedOwn DEF OwnId
  <2> QED BY <1>1, <1>3, <1>7, <2>1, Ids DEF SaveExpiredEntry, OwnRows, OwnIds
<1>8. CASE StartRound
  <2>1. \A c \in OrderIds : pending'[c] \in {rows[c], NoRow} /\ NoRow.bid = NoId
    BY <1>8 DEF StartRound, ListPending, NoRow
  <2> QED BY <1>1, <1>2, <1>8, <2>1 DEF StartRound, ledger, OwnIds, OwnRows, OwnJob, GoodRow, OwnId
<1>9. CASE Crash
  <2>1. pending' = NothingPending /\ job' = NoJob /\ rows' = rows
    BY <1>9 DEF Crash, ledger
  <2> QED BY <1>1, <2>1 DEF NothingPending, NoJob, NoRow, OwnIds, OwnRows, OwnJob, OwnId
<1>10. CASE UNCHANGED <<rows, dispatch>>
  BY <1>2, <1>3, <1>10 DEF OwnIds
<1>11. CASE FetchOpenOrders \/ FetchPositions \/ FetchClosedOrders \/ CycleFails \/ NoEntryToExpire
            \/ CancelOldEntry \/ CancelOldEntryFails
  BY <1>10, <1>11 DEF FetchOpenOrders, FetchPositions, FetchClosedOrders, CycleFails, NoEntryToExpire,
     CancelOldEntry, CancelOldEntryFails, ledger
<1>12. CASE OpenGate \/ EndDispatch \/ WatchStream \/ Broker \/ EntryAges \/ StreamDies \/ UNCHANGED vars
  BY <1>10, <1>12 DEF OpenGate, EndDispatch, WatchStream, Broker, EntryAges, StreamDies, vars, ledger
<1> QED BY <1>4, <1>5, <1>6, <1>7, <1>8, <1>9, <1>11, <1>12 DEF Next, Supervisor

\* Nothing else gives a row up.
LEMMA NothingElseGivesUp ==
    ASSUME TypeOK, [Next]_vars, ~RunRecovery, NEW c \in OrderIds, rows[c].st # "reconciled_missing"
    PROVE  rows'[c].st # "reconciled_missing"
<1>1. rows \in [OrderIds -> OrderRow] /\ \A d \in OrderIds : rows[d] \in OrderRow
  BY DEF TypeOK, LedgerTypeOK
<1> SUFFICES ASSUME rows' # rows PROVE rows'[c].st # "reconciled_missing"
  OBVIOUS
<1>2. CASE Dispatch
  <2>1. job.stage # "idle" => job.id \in OrderIds
    BY DEF TypeOK, DispatchTypeOK, Job
  <2>2. WithRejectionExit(rows) \in [OrderIds -> OrderRow]
        /\ WithRejectionExit(rows)[c].st # "reconciled_missing"
    <3>1. WithRejectionExit(rows) \in RowsType
      BY RejectionExitType DEF TypeOK
    <3>2. Saved(rows[RejectionExit], "pending_submit", job.row.qty, NoId).st = "pending_submit"
      BY <1>1, Ids, SavedColumns
    <3> QED BY <1>1, <3>1, <3>2, Ids DEF WithRejectionExit, RowsType
  <2>3. CASE SaveAnswer
    <3>1. \A q, bid : Saved(WithRejectionExit(rows)[job.id], FinalStatus, q, bid).st # "reconciled_missing"
      BY <2>1, <2>2, <2>3, SavedColumns DEF SaveAnswer, FinalStatus
    <3> QED BY <2>1, <2>2, <2>3, <3>1 DEF SaveAnswer
  <2>4. CASE MarkSubmitting
    <3>1. Saved(rows[job.id], "submitting", job.row.qty, NoId).st = "submitting"
      BY <1>1, <2>1, <2>4, SavedColumns DEF MarkSubmitting
    <3> QED BY <1>1, <2>1, <2>4, <3>1 DEF MarkSubmitting
  <2>5. CASE ~SaveAnswer /\ ~MarkSubmitting
    <3>1. \A q, bid, filled : Saved(rows[Entry], "expired", q, bid).st = "expired"
                              /\ SavedFill(rows[Entry], "canceled", q, bid, filled).st = "canceled"
      BY <1>1, Ids, SavedColumns
    <3> QED BY <1>1, <1>2, <2>5, <3>1, Ids
            DEF Dispatch, DispatchStep, Take, TakeEntry, TakeExit, TakeStop, Leave, SaveCanceledEntry,
                CancelPartialEntry, CancelPartialEntryFails, SubmitAccepted, SubmitRefused, SubmitFails, ledger
  <2> QED BY <2>3, <2>4, <2>5
<1>3. CASE Stream
  <2>1. CASE SaveReplacement
    <3>1. Saved(rows[Stop], "accepted", sreq.qty, Replacement).st = "accepted"
      BY <1>1, Ids, SavedColumns
    <3> QED BY <1>1, <2>1, <3>1 DEF SaveReplacement
  <2>2. CASE ApplyUpdate
    <3> DEFINE e == Head(updates)
    <3>1. e \in TradeUpdate
      BY <2>2 DEF ApplyUpdate, TypeOK, BrokerTypeOK
    <3>2. RowFor(e) \in OrderIds /\ e.st # "reconciled_missing"
      BY <3>1, RowForType DEF TradeUpdate, BrokerStatus
    <3> HIDE DEF e
    <3>3. \A d \in OrderIds : Updated(d, e).st = e.st
      BY <1>1, SavedColumns DEF Updated
    <3>4. \A q : ProtectiveStop(q).st \in {rows[Stop].st, "pending_submit"}
      BY <1>1, Ids, SavedColumns DEF ProtectiveStop
    <3>5. Saved(rows[Stop], "canceled", rows[Stop].qty, rows[Stop].bid).st = "canceled"
      BY <1>1, Ids, SavedColumns
    <3>6. ASSUME NEW q, SavePositionAndStop(e, q) PROVE rows'[c].st # "reconciled_missing"
      BY <1>1, <3>2, <3>3, <3>4, <3>6, Ids DEF SavePositionAndStop
    <3>7. CASE ApplyEntryEnd(e) /\ ~\E q : SavePositionAndStop(e, q)
      BY <1>1, <3>2, <3>3, <3>5, <3>7, Ids DEF ApplyEntryEnd
    <3>8. CASE ApplySellFill(e) \/ ApplyStatus(e)
      BY <1>1, <3>2, <3>3, <3>8 DEF ApplySellFill, ApplyStatus
    <3>9. ~IgnoreUpdate(e)
      BY DEF IgnoreUpdate, ledger
    <3> QED BY <2>2, <3>6, <3>7, <3>8, <3>9 DEF ApplyUpdate, ApplyEntryFill, ApplyEntryEnd, e
  <2> QED BY <1>3, <2>1, <2>2 DEF Stream, StreamStep, ReplaceAccepted, ReplaceRefused, ReplaceFails, ledger
<1>4. CASE SaveExpiredEntry
  <2>1. \A q, bid, filled : SavedFill(rows[Entry], "canceled", q, bid, filled).st = "canceled"
                            /\ SavedFill(rows[Entry], "expired", q, bid, filled).st = "expired"
    BY <1>1, Ids, SavedColumns
  <2> QED BY <1>1, <1>4, <2>1, Ids DEF SaveExpiredEntry
<1> QED BY <1>2, <1>3, <1>4 DEF Next, Supervisor, FetchOpenOrders, FetchPositions, FetchClosedOrders,
     CycleFails, NoEntryToExpire, CancelOldEntry, CancelOldEntryFails, OpenGate, StartRound, EndDispatch,
     WatchStream, Broker, EntryAges, StreamDies, Crash, vars, ledger

\* The recovery alone gives a row up, and only one whose order is over.
LEMMA GivenUpIsOver ==
    ASSUME TypeOK, OwnIds, SnapshotCovers, [Next]_vars, NEW c \in {Stop, RecoveryStop},
           rows[c].st # "reconciled_missing", rows'[c].st = "reconciled_missing"
    PROVE  rows[c].bid # NoId /\ ~IsOpen(bo[rows[c].bid])
<1>1. c \in OrderIds /\ c # Replacement /\ rows \in [OrderIds -> OrderRow]
  BY Ids DEF TypeOK, LedgerTypeOK, Replacement, RecoveryStop
<1>2. CASE RunRecovery
  <2>1. pc = "recover" /\ rows' = WithUnmatched(Matched)
    BY <1>2, RecoveredRows DEF RunRecovery, Recover
  <2>2. Matched[c].st # "reconciled_missing" /\ Matched[c] \in OrderRow
    BY <1>1, MatchedOwn, MatchedType DEF RowsType
  <2>3. c \in LocalActive \ MatchedRows /\ rows'[c] = Unmatched(Matched[c], c)
    BY <1>1, <2>1, <2>2 DEF WithUnmatched
  <2>4. ~IsNeverSubmitted(rows[c])
    BY <1>1, <2>2, <2>3, UnmatchedColumns
  <2>5. rows[c].bid # NoId
    BY <1>1, <2>3, <2>4 DEF IsNeverSubmitted, LocalActive, IsActive, ActiveStatus, OwnIds, OwnRows,
                            GoodRow, Live
  <2> QED BY <1>1, <2>1, <2>3, <2>5, UnmatchedIsOver
<1>3. CASE ~RunRecovery
  BY <1>1, <1>3, NothingElseGivesUp
<1> QED BY <1>2, <1>3

LEMMA SnapshotCoversInit == Init => SnapshotCovers
BY DEF Init, SnapshotCovers, NoSnapshot, NoOrders, NoBrokerOrder, Live, Reading

LEMMA OwnIdsInit == Init => OwnIds
BY DEF Init, LedgerInit, DispatchInit, OwnIds, OwnRows, OwnJob, GoodRow, OwnId, NoRow, NothingPending, NoJob,
       Live, OrderIds

\* A stop is given up as missing only once it is no longer open at the broker.  The
\* invariant: an order that is open was in the snapshot, or is the replacement of a
\* stop that was, and a row names no order but its own or the replacement.
THEOREM GivenUpStopsAreOver == Spec => ReconcileNeverClearsLiveStop
<1>1. TypeOK /\ SnapshotCovers /\ OwnIds /\ [Next]_vars
        => SnapshotCovers' /\ OwnIds'
           /\ \A c \in {Stop, RecoveryStop} :
                rows[c].st # "reconciled_missing" /\ rows'[c].st = "reconciled_missing"
                  => rows[c].bid # NoId /\ ~IsOpen(bo[rows[c].bid])
  BY SnapshotCoversNext, OwnIdsNext, GivenUpIsOver
<1>2. Init => SnapshotCovers /\ OwnIds
  BY SnapshotCoversInit, OwnIdsInit
<1>3. (\A c \in {Stop, RecoveryStop} :
         rows[c].st # "reconciled_missing" /\ rows'[c].st = "reconciled_missing"
           => rows[c].bid # NoId /\ ~IsOpen(bo[rows[c].bid]))
      => [\A c \in {Stop, RecoveryStop} :
         rows[c].st # "reconciled_missing" /\ rows'[c].st = "reconciled_missing"
           => rows[c].bid # NoId /\ ~IsOpen(bo[rows[c].bid])]_vars
  OBVIOUS
<1> QED BY <1>1, <1>2, <1>3, TypeCorrectness, PTL DEF Spec, ReconcileNeverClearsLiveStop

-----------------------------------------------------------------------------
(***************************************************************************)
(* Nothing is bought before the entry fills, and nothing is protected      *)
(* before it is bought.                                                    *)
(***************************************************************************)
Unfilled == bo[Entry].st = "none" => bo[Entry].filled = 0

StopReplaced ==
    /\ bo[Replacement].st # "none" => bo[Stop].st = "replaced"
    /\ sreq.stage = "save" => bo[Stop].st # "none"

SnapshotKnown == \A c \in OrderIds : snap.open[c].st # "none" => bo[c].st # "none"

NothingBought ==
    /\ held = 0 /\ snap.held = 0
    /\ rows[Entry].filled = 0 /\ job.entry.filled = 0
    /\ snap.open[Entry].filled = 0 /\ snap.closed[Entry].filled = 0
    /\ ~Exists(Stop) /\ pending[Stop].st = "none" /\ job.id # Stop
    /\ bo[Stop].st = "none"

EntryFirst == bo[Entry].filled = 0 => NothingBought

\* A recovery that follows answered calls knows of the shares the entry bought.
FillIsKnown ==
    pc = "recover" /\ faults = 0 /\ bo[Entry].filled > 0 =>
        Entry \in OpenInSnapshot \/ (Entry \in ClosedInSnapshot /\ snap.closed[Entry].filled > 0)

\* The dispatcher's order, between its choice and the save of its answer.
JobStands ==
    /\ pc # "dispatch" => job = NoJob
    /\ job.stage # "idle" => job.id # Replacement /\ pending[job.id].st = "none"
    /\ pending[Replacement].st = "none" /\ rows[Replacement].st \notin {"pending_submit", "submitting"}
    /\ job.stage = "submit" /\ bo[job.id].st = "none" => rows[job.id].st = "submitting"
    /\ job.stage = "canceled" => ~IsOpen(bo[Entry])
    /\ pc = "expired" => ~IsOpen(bo[Entry])

\* The orders that may still be submitted.
Waiting ==
    {c \in OrderIds : \/ rows[c].st = "pending_submit" \/ pending[c].st # "none"
                      \/ job.id = c /\ job.stage \in {"cancel", "canceled", "mark", "submit"}}

OrdersAgree ==
    /\ \A c \in OrderIds \ {Replacement} : IsOpen(bo[c]) => rows[c].st \in Live \cup {"submitting"}
    /\ \A c \in Waiting : ~IsOpen(bo[c]) /\ (c = Entry => bo[Entry].filled = 0)
    /\ job.stage = "answered" /\ job.answer # "accepted" => ~IsOpen(bo[job.id])

OrdersAgreeUnlessLost == faults = 0 => OrdersAgree

NoOrderTwice ==
    /\ UpdatesAreTrue /\ SnapshotCovers /\ OwnIds
    /\ Unfilled /\ StopReplaced /\ SnapshotKnown
    /\ EntryFirst /\ FillIsKnown /\ JobStands /\ OrdersAgreeUnlessLost

LEMMA UnfilledNext == ASSUME TypeOK, Unfilled, [Next]_vars PROVE Unfilled'
<1>1. Later(bo[Entry], bo'[Entry])
  BY OrdersNext, Ids DEF Moves, OrdersMove
<1> QED BY <1>1, LaterFacts DEF Unfilled, Later

\* The request is saved after the replacement of the stop.
LEMMA SavesAfterReplacing ==
    ASSUME TypeOK, [Next]_vars, sreq'.stage = "save"
    PROVE  sreq.stage = "save" \/ bo'[Stop].st = "replaced"
<1>1. sreq \in Request
  BY DEF TypeOK, TradeUpdatesTypeOK
<1>2. CASE Stream
  <2>1. CASE ReplaceAccepted
    <3>1. ReplaceOrder(sreq.row.bid, sreq.qty)
      BY <2>1 DEF ReplaceAccepted
    <3> QED BY <3>1, ReplaceMoves
  <2>2. CASE ~ReplaceAccepted
    <3>1. sreq' = sreq \/ sreq' = NoRequest \/ sreq'.stage = "call"
      BY <1>2, <2>2 DEF Stream, StreamStep, ApplyUpdate, IgnoreUpdate, ApplyEntryFill, ApplyEntryEnd,
         ApplySellFill, ApplyStatus, SavePositionAndStop, ReplaceRefused, ReplaceFails, SaveReplacement
    <3> QED BY <3>1 DEF NoRequest
  <2> QED BY <2>1, <2>2
<1>3. CASE ~Stream
  <2>1. sreq' \in {sreq, NoRequest}
    BY <1>3 DEF Next, Supervisor, FetchOpenOrders, FetchPositions, FetchClosedOrders, RunRecovery,
       CycleFails, NoEntryToExpire, CancelOldEntry, CancelOldEntryFails, SaveExpiredEntry, OpenGate,
       StartRound, Dispatch, EndDispatch, WatchStream, Broker, EntryAges, StreamDies, Crash, vars
  <2> QED BY <2>1 DEF NoRequest
<1> QED BY <1>2, <1>3

LEMMA StopReplacedNext ==
    ASSUME TypeOK, JobStands, StopReplaced, [Next]_vars PROVE StopReplaced'
<1>1. OrdersMove /\ OnlyPlaced
  BY OrdersNext DEF Moves
<1>2. bo'[Replacement].st # "none" => bo'[Stop].st = "replaced"
  <2>1. CASE bo[Replacement].st # "none"
    <3>1. bo[Stop].st = "replaced" /\ ~IsOpen(bo[Stop])
      BY <2>1 DEF StopReplaced, IsOpen
    <3> QED BY <1>1, <3>1, LaterFacts, Ids DEF OrdersMove
  <2>2. CASE bo[Replacement].st = "none"
    BY <1>1, <2>2, Ids DEF OnlyPlaced, Placed, Replaced, JobStands
  <2> QED BY <2>1, <2>2
<1>3. sreq'.stage = "save" => bo'[Stop].st # "none"
  BY <1>1, SavesAfterReplacing, LaterFacts, Ids DEF OrdersMove, StopReplaced
<1> QED BY <1>2, <1>3 DEF StopReplaced

LEMMA SnapshotKnownNext == ASSUME TypeOK, SnapshotKnown, [Next]_vars PROVE SnapshotKnown'
<1>1. OrdersMove /\ snap \in Snapshot
  BY OrdersNext DEF Moves, TypeOK
<1>2. CASE snap'.open = snap.open
  BY <1>1, <1>2, LaterFacts DEF SnapshotKnown, OrdersMove
<1>3. CASE FetchOpenOrders
  BY <1>3 DEF FetchOpenOrders, ReadOpenOrders, NoSnapshot, Orders, OpenIds, IsOpen, NoBrokerOrder,
              SnapshotKnown, brokerVars, account
<1>4. CASE snap' = NoSnapshot
  BY <1>4 DEF NoSnapshot, NoOrders, NoBrokerOrder, SnapshotKnown
<1>5. CASE FetchPositions \/ FetchClosedOrders
  <2>1. snap'.open = snap.open
    BY <1>1, <1>5 DEF FetchPositions, FetchClosedOrders, ReadPositions, ReadClosedOrders, Snapshot
  <2> QED BY <1>2, <2>1
<1> QED BY <1>2, <1>3, <1>4, <1>5, SnapshotSteps

\* Lost calls are counted.
LEMMA FaultsGrow == ASSUME TypeOK, [Next]_vars PROVE faults' = 0 => faults = 0
<1>1. faults \in Nat
  BY BrokerBoundsAssumption DEF TypeOK, BrokerTypeOK
<1>2. CASE faults' = faults
  BY <1>2
<1>3. CASE Fault
  BY <1>1, <1>3 DEF Fault
<1>4. CASE Supervisor /\ ~Dispatch
  BY <1>2, <1>3, <1>4 DEF Supervisor, FetchOpenOrders, FetchPositions, FetchClosedOrders, RunRecovery,
     CycleFails, NoEntryToExpire, CancelOldEntry, CancelOldEntryFails, SaveExpiredEntry, OpenGate,
     StartRound, EndDispatch, WatchStream, brokerVars
<1>5. CASE Dispatch
  BY <1>2, <1>3, <1>5 DEF Dispatch, DispatchStep, Take, CancelPartialEntry, CancelPartialEntryFails,
     SaveCanceledEntry, MarkSubmitting, SubmitAccepted, SubmitRefused, SubmitFails, SaveAnswer, brokerVars
<1>6. CASE Stream
  BY <1>2, <1>3, <1>6 DEF Stream, StreamStep, ApplyUpdate, ReplaceAccepted, ReplaceRefused, ReplaceFails,
     SaveReplacement, brokerVars
<1>7. CASE Broker \/ EntryAges \/ StreamDies \/ Crash \/ UNCHANGED vars
  BY <1>2, <1>7 DEF Broker, BrokerStep, EntryFills, SellFills, OrderLapses, PriceMoves, EntryAges,
     StreamDies, Crash, vars, brokerVars
<1> QED BY <1>4, <1>5, <1>6, <1>7 DEF Next

\* A fill the entry makes after the open orders were read is of an order they hold;
\* one it made before is in the closed orders.
LEMMA FillIsKnownNext ==
    ASSUME TypeOK, SnapshotCovers, Unfilled, FillIsKnown, [Next]_vars PROVE FillIsKnown'
<1>1. Later(bo[Entry], bo'[Entry]) /\ Entry \in OrderIds
  BY OrdersNext, Ids DEF Moves, OrdersMove
<1>2. bo[Entry].filled \in Nat /\ snap \in Snapshot
  BY <1>1 DEF TypeOK, BrokerTypeOK, BrokerOrder
<1> SUFFICES ASSUME pc' = "recover", faults' = 0, bo'[Entry].filled > 0
             PROVE  Entry \in OpenInSnapshot' \/ (Entry \in ClosedInSnapshot' /\ snap'.closed[Entry].filled > 0)
  BY DEF FillIsKnown
<1>3. faults = 0
  BY FaultsGrow
<1>4. Reading /\ IsOpen(bo[Entry]) => Entry \in OpenInSnapshot
  BY <1>1, Ids DEF SnapshotCovers
<1>5. CASE FetchOpenOrders \/ FetchPositions \/ (snap' = NoSnapshot /\ ~Reading')
  BY <1>5 DEF FetchOpenOrders, FetchPositions, Goto, Reading
<1>6. CASE FetchClosedOrders
  <2>1. ~Fault
    BY <1>3 DEF Fault
  <2>2. ReadClosedOrders /\ bo' = bo /\ pc = "closed"
    BY <1>6, <2>1 DEF FetchClosedOrders, Goto, account
  <2>3. snap'.open = snap.open /\ snap'.closed = Orders(ClosedIds) /\ OpenInSnapshot' = OpenInSnapshot
    BY <1>2, <2>2 DEF ReadClosedOrders, Snapshot, OpenInSnapshot
  <2>4. CASE IsOpen(bo[Entry])
    BY <1>4, <2>2, <2>3, <2>4 DEF Reading
  <2>5. CASE ~IsOpen(bo[Entry])
    <3>1. Entry \in ClosedIds /\ bo[Entry].st # "none"
      BY <1>1, <1>2, <2>2, <2>5 DEF ClosedIds, OpenIds, Unfilled
    <3> QED BY <1>1, <2>2, <2>3, <3>1 DEF Orders, ClosedInSnapshot
  <2> QED BY <2>4, <2>5
<1>7. CASE snap' = snap /\ pc' = pc
  <2>1. OpenInSnapshot' = OpenInSnapshot /\ ClosedInSnapshot' = ClosedInSnapshot
    BY <1>7 DEF OpenInSnapshot, ClosedInSnapshot
  <2>2. bo[Entry].filled > 0 \/ IsOpen(bo[Entry])
    BY <1>1, <1>2 DEF Later
  <2> QED BY <1>3, <1>4, <1>7, <2>1, <2>2 DEF FillIsKnown, Reading
<1>8. snap' = snap /\ ~Reading' => FALSE
  BY DEF Reading
<1> QED BY <1>5, <1>6, <1>7, <1>8, SnapshotSteps

\* The stream thread records no fill, and makes no stop, before the entry fills.
LEMMA EntryFirstStream ==
    ASSUME TypeOK, UpdatesAreTrue, OwnIds, StopReplaced, bo[Entry].filled = 0, NothingBought, Stream
    PROVE  rows'[Entry].filled = 0 /\ rows'[Stop].st = "none"
<1>1. rows \in [OrderIds -> OrderRow] /\ rows[Entry] \in OrderRow /\ rows[Entry].filled = 0 /\ ~Exists(Stop)
  BY Ids DEF TypeOK, LedgerTypeOK, NothingBought
<1>2. CASE rows' = rows
  BY <1>1, <1>2 DEF Exists
<1>3. ~SaveReplacement
  BY DEF SaveReplacement, StopReplaced, NothingBought
<1>4. CASE ApplyUpdate
  <2> DEFINE e == Head(updates)
  <2>1. e \in TradeUpdate /\ Truthful(e, bo)
    <3>1. updates \in Seq(TradeUpdate) /\ updates # <<>>
      BY <1>4 DEF ApplyUpdate, TypeOK, BrokerTypeOK
    <3>2. e = updates[1] /\ 1 \in 1 .. Len(updates) /\ e \in TradeUpdate
      BY <3>1
    <3> QED BY <3>2 DEF UpdatesAreTrue
  <2> HIDE DEF e
  <2>2. RowFor(e) \in OrderIds /\ (RowFor(e) = Entry => e.id = Entry)
    BY <2>1, RowForOwn, Ids DEF OwnId
  <2>3. RowFor(e) = Entry => /\ e.filled \in Nat /\ e.filled = 0 /\ e.st \notin FillStatuses
                             /\ CumulativeFill(rows[Entry], e) = 0
    BY <1>1, <2>1, <2>2 DEF Truthful, TradeUpdate, CumulativeFill
  <2>4. RowFor(e) = Entry => Updated(Entry, e).filled = 0
    BY <1>1, <2>3, SavedColumns DEF Updated
  <2>5. CASE IgnoreUpdate(e)
    BY <1>2, <2>5 DEF IgnoreUpdate, ledger
  <2>6. CASE ApplyEntryFill(e)
    BY <2>3, <2>6 DEF ApplyEntryFill
  <2>7. CASE ApplyEntryEnd(e)
    <3>1. rows' = [rows EXCEPT ![Entry] = Updated(Entry, e),
                               ![Stop] = IF Exists(Stop) THEN Saved(@, "canceled", @.qty, @.bid) ELSE @]
      BY <2>3, <2>7 DEF ApplyEntryEnd
    <3> QED BY <1>1, <2>4, <2>7, <3>1, Ids DEF ApplyEntryEnd, Exists
  <2>8. CASE (ApplySellFill(e) \/ ApplyStatus(e)) /\ ~IsUnmatched(e)
    <3>1. RowFor(e) # Stop /\ rows' = [rows EXCEPT ![RowFor(e)] = Updated(RowFor(e), e)]
      BY <1>1, <2>8 DEF ApplySellFill, ApplyStatus, IsUnmatched
    <3> QED BY <1>1, <2>2, <2>4, <3>1, Ids DEF Exists
  <2> QED BY <1>4, <2>5, <2>6, <2>7, <2>8 DEF ApplyUpdate, e
<1> QED BY <1>2, <1>3, <1>4 DEF Stream, StreamStep, ReplaceAccepted, ReplaceRefused, ReplaceFails, ledger

\* Nor does the recovery.
LEMMA EntryFirstRecovery ==
    ASSUME TypeOK, OwnIds, SnapshotKnown, NothingBought
    PROVE  Recovered[Entry].filled = 0 /\ Recovered[Stop].st = "none"
<1>1. rows \in RowsType /\ SnapshotTypeOK /\ LedgerTypeOK /\ Entry \in OrderIds /\ Stop \in OrderIds
  BY Ids DEF TypeOK, LedgerTypeOK, RowsType, SnapshotTypeOK
<1>2. rows[Entry].filled = 0 /\ rows[Stop].st = "none" /\ Stop \notin OpenInSnapshot
  BY <1>1 DEF NothingBought, Exists, OpenInSnapshot, SnapshotKnown
<1> DEFINE r2 == WithClosedFills(rows)
           r3 == WithStopForNewPosition(r2)
           r4 == WithCoverForPosition(r3)
<1>3. r2 \in RowsType /\ r3 \in RowsType /\ r4 \in RowsType
  BY <1>1, ClosedFillsType, StopForNewPositionType, CoverForPositionType
<1>4. WithRecoveredEntry(rows) = rows
  BY DEF WithRecoveredEntry, IsEntryRecovered, IsNewPosition, NothingBought
<1>5. r2[Entry].filled = 0 /\ r2[Stop].st = "none"
  <2>1. \A d \in OrderIds : OwnId(Entry, d) => ~(snap.closed[d].filled > 0)
    BY Ids DEF OwnId, NothingBought
  <2> QED BY <1>1, <1>2, <2>1, ClosedRow DEF Exists
<1>6. r3[Entry].filled = 0 /\ r3[Stop].st = "none"
  <2> HIDE DEF r2
  <2> QED BY <1>1, <1>3, <1>5, CoverRow, Ids
<1>7. r4[Entry].filled = 0 /\ r4[Stop].st = "none"
  <2> HIDE DEF r3
  <2> QED BY <1>1, <1>3, <1>6, CoverRow, Ids
<1>8. WithOpenOrders(r4)[Entry].filled = 0 /\ WithOpenOrders(r4)[Stop].st = "none"
  <2> HIDE DEF r4
  <2> QED BY <1>1, <1>2, <1>3, <1>7, OpenRow
<1>9. Matched[Entry].filled = 0 /\ Matched[Stop].st = "none"
  BY <1>4, <1>8 DEF Matched
<1>10. Stop \notin LocalActive
  BY <1>2 DEF LocalActive, IsActive, ActiveStatus
<1>11. Unmatched(Matched[Entry], Entry).filled = 0
  BY <1>1, <1>9, MatchedType, UnmatchedColumns DEF RowsType
<1> QED BY <1>1, <1>9, <1>10, <1>11, RecoveredRows DEF WithUnmatched

\* Nor does the dispatcher.
LEMMA EntryFirstDispatch ==
    ASSUME TypeOK, NothingBought, Dispatch
    PROVE  /\ rows'[Entry].filled = 0 /\ rows'[Stop].st = "none"
           /\ job'.entry.filled = 0 /\ pending'[Stop].st = "none" /\ job'.id # Stop
<1>1. /\ rows \in [OrderIds -> OrderRow] /\ rows[Entry] \in OrderRow
      /\ rows[Entry].filled = 0 /\ rows[Stop].st = "none"
      /\ pending \in [OrderIds -> OrderRow] /\ pending[Stop].st = "none"
      /\ job \in Job /\ job.entry.filled = 0 /\ job.id # Stop
      /\ job.stage # "idle" => job.id \in OrderIds
  BY Ids DEF TypeOK, LedgerTypeOK, DispatchTypeOK, Job, NothingBought, Exists
<1>2. /\ NoRow.st = "none" /\ NoRow.filled = 0 /\ NoJob.id # Stop /\ NoJob.entry.filled = 0
      /\ NoRow \in OrderRow
  BY NoJobType, Ids DEF NoRow, NoJob, NoId, Stop
<1>3. \A c \in OrderIds : Without(c)[Stop].st = "none"
  BY <1>1, <1>2, Ids DEF Without
<1>4. CASE \E d, o, x : Take(d, o, x)
  <2>1. Saved(rows[Entry], "expired", pending[Entry].qty, pending[Entry].bid).filled = 0
    BY <1>1, SavedColumns
  <2>2. rows'[Entry].filled = 0 /\ rows'[Stop].st = "none"
    BY <1>1, <1>4, <2>1, Ids DEF Take, TakeEntry, TakeExit, TakeStop, Leave, ledger
  <2>3. \A c, s, r : Start(c, s, r).id = c /\ Start(c, s, r).entry = r
    BY DEF Start, NoJob
  <2> DEFINE Taken(c) == /\ c \in OrderIds \ {Stop} /\ pending' = Without(c)
                         /\ \/ job' = job
                            \/ \E s : \E r \in {rows[Entry], NoRow} : job' = Start(c, s, r)
  <2>4. \E c : Taken(c)
    <3>1. ASSUME NEW d, NEW o, TakeEntry(d, o) PROVE Taken(Entry)
      BY <3>1, Ids DEF TakeEntry, Leave
    <3>2. ASSUME NEW c, TakeExit(c) PROVE Taken(c)
      BY <1>1, <3>2 DEF TakeExit, PendingIds
    <3>3. ASSUME NEW c, NEW x, TakeStop(c, x) PROVE Taken(c)
      BY <1>1, <3>3 DEF TakeStop, PendingIds, Leave
    <3> QED BY <1>4, <3>1, <3>2, <3>3 DEF Take
  <2> QED BY <1>1, <1>2, <1>3, <2>2, <2>3, <2>4
<1>5. CASE CancelPartialEntry \/ CancelPartialEntryFails \/ SubmitAccepted \/ SubmitRefused \/ SubmitFails
  BY <1>1, <1>2, <1>5 DEF CancelPartialEntry, CancelPartialEntryFails, SubmitAccepted, SubmitRefused,
     SubmitFails, Answered, ledger, Job
<1>6. ASSUME NEW x, SaveCanceledEntry(x)
      PROVE  /\ rows'[Entry].filled = 0 /\ rows'[Stop].st = "none"
             /\ job'.entry.filled = 0 /\ pending'[Stop].st = "none" /\ job'.id # Stop
  <2>1. SavedFill(rows[Entry], "canceled", job.entry.qty, job.entry.bid, job.entry.filled).filled = 0
    BY <1>1, SavedColumns
  <2>2. rows'[Entry].filled = 0 /\ rows'[Stop].st = "none"
    BY <1>1, <1>6, <2>1, Ids DEF SaveCanceledEntry
  <2>3. job' = NoJob \/ (job'.id = job.id /\ job'.entry = job.entry)
    BY <1>1, <1>6 DEF SaveCanceledEntry, Job, OrderRow
  <2> QED BY <1>1, <1>2, <1>6, <2>2, <2>3 DEF SaveCanceledEntry
<1>7. CASE MarkSubmitting
  <2>1. Saved(rows[job.id], "submitting", job.row.qty, NoId).filled = rows[job.id].filled
    BY <1>1, <1>7, SavedColumns DEF MarkSubmitting
  <2> QED BY <1>1, <1>7, <2>1 DEF MarkSubmitting, Job
<1>8. CASE SaveAnswer
  <2>1. WithRejectionExit(rows) \in [OrderIds -> OrderRow]
    BY RejectionExitType DEF TypeOK, RowsType
  <2>2. WithRejectionExit(rows)[Entry] = rows[Entry] /\ WithRejectionExit(rows)[Stop] = rows[Stop]
    BY <1>1, Ids DEF WithRejectionExit
  <2>3. \A bid : Saved(WithRejectionExit(rows)[job.id], FinalStatus, job.row.qty, bid).filled
                   = WithRejectionExit(rows)[job.id].filled
    BY <1>1, <1>8, <2>1, SavedColumns DEF SaveAnswer
  <2> QED BY <1>1, <1>2, <1>8, <2>1, <2>2, <2>3, Ids DEF SaveAnswer
<1> QED BY <1>4, <1>5, <1>6, <1>7, <1>8 DEF Dispatch, DispatchStep

LEMMA EntryFirstNext ==
    ASSUME TypeOK, TypeOK', UpdatesAreTrue, OwnIds, Unfilled, StopReplaced, SnapshotKnown,
           EntryFirst, [Next]_vars
    PROVE  EntryFirst'
<1> SUFFICES ASSUME bo'[Entry].filled = 0 PROVE NothingBought'
  BY DEF EntryFirst
<1>1. OrdersMove /\ OnlyPlaced /\ SharesAreBought
  BY OrdersNext DEF Moves
<1>2. bo \in [OrderIds -> BrokerOrder] /\ bo' \in [OrderIds -> BrokerOrder] /\ held \in Nat /\ held' \in Nat
  BY DEF TypeOK, BrokerTypeOK
<1>3. bo[Entry].filled = 0
  <2>1. Later(bo[Entry], bo'[Entry]) /\ bo[Entry].filled \in Nat
    BY <1>1, <1>2, Ids DEF OrdersMove, BrokerOrder
  <2> QED BY <2>1 DEF Later, Unfilled
<1>4. NothingBought
  BY <1>3 DEF EntryFirst
<1>5. held' = 0
  BY <1>1, <1>2, <1>4 DEF SharesAreBought, NothingBought
<1>6. bo'[Stop].st = "none"
  BY <1>1, <1>4, Ids DEF OnlyPlaced, Placed, Replaced, NothingBought
<1>7. snap'.held = 0 /\ snap'.open[Entry].filled = 0 /\ snap'.closed[Entry].filled = 0
  <2>1. NoSnapshot.held = 0 /\ NoSnapshot.open[Entry].filled = 0 /\ NoSnapshot.closed[Entry].filled = 0
    BY Ids DEF NoSnapshot, NoOrders, NoBrokerOrder
  <2>2. \A ids : Orders(ids)[Entry].filled = 0
    BY <1>3, Ids DEF Orders, NoBrokerOrder
  <2>3. snap \in Snapshot
    BY DEF TypeOK
  <2>4. CASE FetchOpenOrders \/ FetchPositions \/ FetchClosedOrders
    <3>1. CASE FetchOpenOrders
      BY <2>1, <2>2, <3>1 DEF FetchOpenOrders, ReadOpenOrders, NoSnapshot
    <3>2. CASE FetchPositions
      BY <1>4, <2>3, <3>2 DEF FetchPositions, ReadPositions, Snapshot, NothingBought
    <3>3. CASE FetchClosedOrders
      BY <1>4, <2>2, <2>3, <3>3 DEF FetchClosedOrders, ReadClosedOrders, Snapshot, NothingBought
    <3> QED BY <2>4, <3>1, <3>2, <3>3
  <2> QED BY <1>4, <2>1, <2>4, SnapshotSteps DEF NothingBought
<1>8. /\ rows'[Entry].filled = 0 /\ rows'[Stop].st = "none"
      /\ job'.entry.filled = 0 /\ pending'[Stop].st = "none" /\ job'.id # Stop
  <2>1. UNCHANGED dispatch => job'.entry.filled = 0 /\ pending'[Stop].st = "none" /\ job'.id # Stop
    BY <1>4 DEF dispatch, NothingBought
  <2>2. UNCHANGED rows => rows'[Entry].filled = 0 /\ rows'[Stop].st = "none"
    BY <1>4 DEF NothingBought, Exists
  <2>3. CASE Dispatch
    BY <1>4, <2>3, EntryFirstDispatch
  <2>4. CASE Stream
    BY <1>3, <1>4, <2>1, <2>4, EntryFirstStream DEF Stream
  <2>5. CASE RunRecovery
    BY <1>4, <2>1, <2>5, EntryFirstRecovery DEF RunRecovery, Recover
  <2>6. CASE SaveExpiredEntry
    <3>1. \A st, q : SavedFill(rows[Entry], st, q, Entry, snap.open[Entry].filled).filled = 0
      BY <1>4, Ids, SavedColumns DEF NothingBought, TypeOK, LedgerTypeOK
    <3>2. rows'[Entry].filled = 0 /\ rows'[Stop].st = "none"
      BY <1>4, <2>6, <3>1, Ids DEF SaveExpiredEntry, TypeOK, LedgerTypeOK, NothingBought, Exists
    <3> QED BY <2>1, <2>6, <3>2 DEF SaveExpiredEntry
  <2>7. CASE StartRound
    <3>1. pending'[Stop] = NoRow /\ job' = job
      BY <1>4, <2>7, Ids DEF StartRound, ListPending, NothingBought, Exists
    <3> QED BY <1>4, <2>2, <2>7, <3>1 DEF StartRound, ledger, NothingBought, NoRow
  <2>8. CASE Crash
    BY <2>2, <2>8, Ids DEF Crash, NothingPending, NoJob, NoRow, ledger
  <2>9. CASE UNCHANGED <<rows, dispatch>>
    BY <2>1, <2>2, <2>9
  <2>10. CASE FetchOpenOrders \/ FetchPositions \/ FetchClosedOrders \/ CycleFails \/ NoEntryToExpire
              \/ CancelOldEntry \/ CancelOldEntryFails
    BY <2>9, <2>10 DEF FetchOpenOrders, FetchPositions, FetchClosedOrders, CycleFails, NoEntryToExpire,
       CancelOldEntry, CancelOldEntryFails, ledger
  <2>11. CASE OpenGate \/ EndDispatch \/ WatchStream \/ Broker \/ EntryAges \/ StreamDies \/ UNCHANGED vars
    BY <2>9, <2>11 DEF OpenGate, EndDispatch, WatchStream, Broker, EntryAges, StreamDies, vars, ledger
  <2> QED BY <2>3, <2>4, <2>5, <2>6, <2>7, <2>8, <2>10, <2>11 DEF Next, Supervisor
<1> QED BY <1>5, <1>6, <1>7, <1>8 DEF NothingBought, Exists

-----------------------------------------------------------------------------
(***************************************************************************)
(* What each actor makes of the status of a row.                           *)
(***************************************************************************)
\* The stream thread: what an update says, or a stop queued anew.
LEMMA StreamRows ==
    ASSUME TypeOK, UpdatesAreTrue, OwnIds, StopReplaced, EntryFirst, Stream, NEW c \in OrderIds
    PROVE  \/ rows'[c].st = rows[c].st
           \/ /\ rows'[c].st \in BrokerStatus /\ bo[c].st # "none"
              /\ IsOpen(bo[c]) => rows'[c].st \in Live
           \/ c = Stop /\ rows[Stop].st \in EndedStopStatuses \cup {"none"} /\ rows'[Stop].st = "pending_submit"
<1>1. rows \in [OrderIds -> OrderRow] /\ \A d \in OrderIds : rows[d] \in OrderRow
  BY DEF TypeOK, LedgerTypeOK
<1>2. CASE rows' = rows
  BY <1>2
<1>3. CASE SaveReplacement
  <2>1. Saved(rows[Stop], "accepted", sreq.qty, Replacement).st = "accepted"
    BY <1>1, Ids, SavedColumns
  <2>2. bo[Stop].st # "none"
    BY <1>3 DEF SaveReplacement, StopReplaced
  <2> QED BY <1>1, <1>3, <2>1, <2>2, Ids DEF SaveReplacement, BrokerStatus, Live
<1>4. CASE ApplyUpdate
  <2> DEFINE e == Head(updates)
  <2>1. e \in TradeUpdate /\ Truthful(e, bo)
    <3>1. updates \in Seq(TradeUpdate) /\ updates # <<>>
      BY <1>4 DEF ApplyUpdate, TypeOK, BrokerTypeOK
    <3>2. e = updates[1] /\ 1 \in 1 .. Len(updates) /\ e \in TradeUpdate
      BY <3>1
    <3> QED BY <3>2 DEF UpdatesAreTrue
  <2> HIDE DEF e
  <2>2. RowFor(e) \in OrderIds /\ (RowFor(e) = e.id \/ (RowFor(e) = Stop /\ e.id = Replacement))
    BY <2>1, RowForOwn, Ids DEF OwnId
  <2> DEFINE Heard(d) == /\ rows'[d].st \in BrokerStatus /\ bo[d].st # "none"
                         /\ IsOpen(bo[d]) => rows'[d].st \in Live
  <2>3. \A d \in OrderIds : Updated(d, e).st = e.st
    BY <1>1, SavedColumns DEF Updated
  <2>4. rows'[RowFor(e)].st = e.st => Heard(RowFor(e))
    <3>1. bo[e.id].st # "none" /\ (IsOpen(bo[e.id]) => e.st \notin Ends) /\ e.st \in BrokerStatus \ {"none"}
      BY <2>1 DEF Truthful, TradeUpdate
    <3>2. e.st \notin Ends => e.st \in Live
      BY <3>1 DEF Ends, BrokerStatus, Live
    <3>3. CASE RowFor(e) = e.id
      BY <3>1, <3>2, <3>3
    <3>4. CASE RowFor(e) = Stop /\ e.id = Replacement
      <4>1. bo[Stop].st = "replaced"
        BY <3>1, <3>4 DEF StopReplaced
      <4> QED BY <3>1, <3>4, <4>1 DEF IsOpen
    <3> QED BY <2>2, <3>3, <3>4
  <2>5. ASSUME NEW q, SavePositionAndStop(e, q), RowFor(e) = Entry
        PROVE  \/ rows'[c].st = rows[c].st \/ Heard(c)
               \/ c = Stop /\ rows[Stop].st \in EndedStopStatuses \cup {"none"} /\ rows'[Stop].st = "pending_submit"
    <3>1. rows'[Entry].st = e.st /\ rows'[Stop] = ProtectiveStop(q)
          /\ \A d \in OrderIds \ {Entry, Stop} : rows'[d] = rows[d]
      BY <1>1, <2>3, <2>5, Ids DEF SavePositionAndStop
    <3>2. \/ ProtectiveStop(q).st = rows[Stop].st
          \/ rows[Stop].st \in EndedStopStatuses \cup {"none"} /\ ProtectiveStop(q).st = "pending_submit"
      BY <1>1, Ids, SavedColumns DEF ProtectiveStop
    <3> QED BY <2>4, <2>5, <3>1, <3>2
  <2>6. CASE ApplyEntryEnd(e) /\ ~\E q : SavePositionAndStop(e, q)
    <3>1. RowFor(e) = Entry /\ e.st \in EntryEndStatuses /\ ~(CumulativeFill(rows[Entry], e) > 0)
      BY <2>6 DEF ApplyEntryEnd
    <3>2. e.filled \in Nat /\ rows[Entry].filled \in Nat /\ e.id = Entry
      BY <1>1, <2>1, <2>2, <3>1, Ids DEF TradeUpdate, OrderRow
    <3>3. e.filled = 0 /\ bo[Entry].filled = 0
      BY <2>1, <3>1, <3>2 DEF CumulativeFill, Truthful
    <3>4. ~Exists(Stop)
      BY <3>3 DEF EntryFirst, NothingBought
    <3>5. rows' = [rows EXCEPT ![Entry] = Updated(Entry, e),
                               ![Stop] = IF Exists(Stop) THEN Saved(@, "canceled", @.qty, @.bid) ELSE @]
      BY <2>6, <3>1 DEF ApplyEntryEnd
    <3>6. rows'[Entry].st = e.st /\ \A d \in OrderIds \ {Entry} : rows'[d] = rows[d]
      BY <1>1, <2>3, <3>4, <3>5, Ids
    <3> QED BY <2>4, <3>1, <3>6
  <2>7. CASE ApplySellFill(e) \/ ApplyStatus(e)
    <3>1. rows'[RowFor(e)].st = e.st /\ \A d \in OrderIds \ {RowFor(e)} : rows'[d] = rows[d]
      BY <1>1, <2>2, <2>3, <2>7 DEF ApplySellFill, ApplyStatus
    <3> QED BY <2>4, <3>1
  <2>8. CASE IgnoreUpdate(e)
    BY <1>2, <2>8 DEF IgnoreUpdate, ledger
  <2> QED BY <1>4, <2>5, <2>6, <2>7, <2>8 DEF ApplyUpdate, ApplyEntryFill, ApplyEntryEnd, e
<1> QED BY <1>2, <1>3, <1>4 DEF Stream, StreamStep, ReplaceAccepted, ReplaceRefused, ReplaceFails, ledger

\* The recovery's passes before the last.
LEMMA MatchedStatus ==
    ASSUME TypeOK, OwnIds, NEW c \in OrderIds
    PROVE  /\ c \in OpenInSnapshot => Matched[c].st = snap.open[c].st
           /\ Matched[c].st \in {"pending_submit", "submitting"} =>
                Matched[c].st = rows[c].st \/ c \in {RecoveryStop, RecoveryExit}
<1> DEFINE Kept(rs) == rs[c].st \in {"pending_submit", "submitting"} =>
                         rs[c].st = rows[c].st \/ c \in {RecoveryStop, RecoveryExit}
           r1 == WithRecoveredEntry(rows)
           r2 == WithClosedFills(r1)
           r3 == WithStopForNewPosition(r2)
           r4 == WithCoverForPosition(r3)
<1>1. SnapshotTypeOK /\ LedgerTypeOK /\ rows \in RowsType
  BY DEF TypeOK, LedgerTypeOK, RowsType, SnapshotTypeOK
<1>2. r1 \in RowsType /\ r2 \in RowsType /\ r3 \in RowsType /\ r4 \in RowsType
  BY <1>1, RecoveredEntryType, ClosedFillsType, StopForNewPositionType, CoverForPositionType
<1>3. \A d \in OrderIds : /\ snap.closed[d].st \notin {"pending_submit", "submitting"}
                          /\ snap.open[d].st \notin {"pending_submit", "submitting"}
  BY DEF TypeOK, Snapshot, BrokerOrder, BrokerStatus
<1>4. Kept(r1)
  BY <1>1, RecoveredEntryRow
<1>5. Kept(r2)
  <2> HIDE DEF r1
  <2> QED BY <1>2, <1>3, <1>4, ClosedRow
<1>6. Kept(r3)
  <2> HIDE DEF r2
  <2> QED BY <1>2, <1>5, CoverRow
<1>7. Kept(r4)
  <2> HIDE DEF r3
  <2> QED BY <1>2, <1>6, CoverRow
<1>8. Kept(WithOpenOrders(r4)) /\ (c \in OpenInSnapshot => WithOpenOrders(r4)[c].st = snap.open[c].st)
  <2> HIDE DEF r4
  <2> QED BY <1>2, <1>3, <1>7, OpenRow
<1> QED BY <1>8 DEF Matched

\* The recovery: an order that is open has a live row; a row waits for its
\* submission when it did, or when the broker does not know its order.
LEMMA RecoveryRows ==
    ASSUME TypeOK, OwnIds, SnapshotCovers, pc = "recover", NEW c \in OrderIds
    PROVE  /\ c # Replacement /\ IsOpen(bo[c]) => Recovered[c].st \in Live
           /\ Recovered[c].st \in {"pending_submit", "submitting"} =>
                \/ Recovered[c].st = rows[c].st
                \/ c \in {RecoveryStop, RecoveryExit}
                \/ rows[c].st = "submitting" /\ c \notin MatchedRows
<1>1. Recovered[c] = IF c \in LocalActive \ MatchedRows /\ ~(c = Entry /\ IsEntryRecovered)
                     THEN Unmatched(Matched[c], c) ELSE Matched[c]
  BY RecoveredRows DEF WithUnmatched
<1>2. Matched[c] \in OrderRow
  BY MatchedType DEF RowsType
<1>3. ASSUME c # Replacement, IsOpen(bo[c]) PROVE Recovered[c].st \in Live
  <2>1. c \in OpenInSnapshot
    BY <1>3 DEF SnapshotCovers, Reading
  <2>2. c \in MatchedRows
    BY <1>3, <2>1, ResolveOwn DEF MatchedRows
  <2>3. snap.open[c].st \in Live
    BY <2>1 DEF SnapshotCovers, OpenInSnapshot
  <2> QED BY <1>1, <2>1, <2>2, <2>3, MatchedStatus
<1>4. ASSUME Recovered[c].st \in {"pending_submit", "submitting"}, c \in LocalActive \ MatchedRows
      PROVE  \/ Recovered[c].st = rows[c].st \/ c \in {RecoveryStop, RecoveryExit}
             \/ rows[c].st = "submitting" /\ c \notin MatchedRows
  BY <1>1, <1>2, <1>4, MatchedStatus, UnmatchedColumns
<1> QED BY <1>1, <1>3, <1>4, MatchedStatus

\* The dispatcher, by the stage of its order.
LEMMA DispatchRows ==
    ASSUME TypeOK, Dispatch, NEW c \in OrderIds
    PROVE  \/ rows'[c].st = rows[c].st
           \/ c = Entry /\ rows'[c].st = "expired" /\ pending[Entry].st # "none"
           \/ c = Entry /\ rows'[c].st = "canceled" /\ job.stage = "canceled"
           \/ c = job.id /\ rows'[c].st = "submitting" /\ job.stage = "mark"
           \/ c = job.id /\ rows'[c].st = FinalStatus /\ job.stage = "answered" /\ job' = NoJob
           \/ /\ c = RejectionExit /\ rows'[c].st = "pending_submit" /\ ~IsActive(rows[c])
              /\ job.stage = "answered"
<1>1. /\ rows \in [OrderIds -> OrderRow] /\ \A d \in OrderIds : rows[d] \in OrderRow
      /\ job.stage # "idle" => job.id \in OrderIds
  BY DEF TypeOK, LedgerTypeOK, DispatchTypeOK, Job
<1>2. CASE rows' = rows
  BY <1>2
<1>3. CASE \E d, o : TakeEntry(d, o)
  <2>1. \A q, bid : Saved(rows[Entry], "expired", q, bid).st = "expired"
    BY <1>1, Ids, SavedColumns
  <2> QED BY <1>1, <1>2, <1>3, <2>1, Ids DEF TakeEntry, Leave, ledger, PendingIds
<1>4. CASE \E x : SaveCanceledEntry(x)
  <2>1. \A q, bid, n : SavedFill(rows[Entry], "canceled", q, bid, n).st = "canceled"
    BY <1>1, Ids, SavedColumns
  <2> QED BY <1>1, <1>4, <2>1, Ids DEF SaveCanceledEntry
<1>5. CASE MarkSubmitting
  <2>1. Saved(rows[job.id], "submitting", job.row.qty, NoId).st = "submitting"
    BY <1>1, <1>5, SavedColumns DEF MarkSubmitting
  <2> QED BY <1>1, <1>5, <2>1 DEF MarkSubmitting
<1>6. CASE SaveAnswer
  <2> DEFINE out == WithRejectionExit(rows)
  <2>1. out \in [OrderIds -> OrderRow]
    BY RejectionExitType DEF TypeOK, RowsType
  <2>2. out[c] = rows[c] \/ (c = RejectionExit /\ out[c].st = "pending_submit" /\ ~IsActive(rows[c]))
    <3>1. Saved(rows[RejectionExit], "pending_submit", job.row.qty, NoId).st = "pending_submit"
      BY <1>1, Ids, SavedColumns
    <3>2. ~HasActiveExitRow => ~IsActive(rows[RejectionExit])
      BY DEF HasActiveExitRow, ExitIds
    <3> QED BY <1>1, <3>1, <3>2, Ids DEF WithRejectionExit
  <2> HIDE DEF out
  <2>3. \A bid : Saved(out[job.id], FinalStatus, job.row.qty, bid).st = FinalStatus
    BY <1>1, <1>6, <2>1, SavedColumns DEF SaveAnswer
  <2>4. CASE c = job.id
    BY <1>1, <1>6, <2>1, <2>3, <2>4 DEF SaveAnswer, out
  <2>5. CASE c # job.id
    BY <1>1, <1>6, <2>1, <2>2, <2>5 DEF SaveAnswer, out
  <2> QED BY <2>4, <2>5
<1> QED BY <1>2, <1>3, <1>4, <1>5, <1>6
        DEF Dispatch, DispatchStep, Take, TakeExit, TakeStop, Leave, CancelPartialEntry,
            CancelPartialEntryFails, SubmitAccepted, SubmitRefused, SubmitFails, ledger

\* How the dispatcher goes from one order to the next, and one stage to the next.
JobStep(s, t) ==
    job.stage = s /\ job'.stage = t /\ job'.id = job.id /\ pending' = pending

LEMMA DispatchJob ==
    ASSUME TypeOK, Dispatch
    PROVE  \/ \E c \in PendingIds : pending' = Without(c) /\ job' = job /\ job.stage = "idle"
           \/ \E c \in PendingIds : /\ pending' = Without(c) /\ job.stage = "idle" /\ job'.id = c
                                    /\ job'.stage \in {"mark", "cancel"}
           \/ pending' = pending /\ job' = NoJob
           \/ JobStep("cancel", "canceled") /\ ~IsOpen(bo'[Entry])
           \/ JobStep("canceled", "mark")
           \/ JobStep("mark", "submit") /\ rows'[job.id].st = "submitting"
           \/ JobStep("submit", "answered")
<1>1. /\ job \in Job /\ (job.stage # "idle" => job.id \in OrderIds)
      /\ rows \in [OrderIds -> OrderRow]
  BY DEF TypeOK, LedgerTypeOK, DispatchTypeOK, Job
<1>2. \A c, s, r : Start(c, s, r).id = c /\ Start(c, s, r).stage = s
  BY DEF Start, NoJob
<1>3. ASSUME NEW d, NEW o, NEW x, Take(d, o, x)
      PROVE  \E c \in PendingIds :
               /\ pending' = Without(c)
               /\ job.stage = "idle"
               /\ job' = job \/ (job'.id = c /\ job'.stage \in {"mark", "cancel"})
  <2>1. CASE TakeEntry(d, o)
    BY <1>2, <1>3, <2>1 DEF Take, TakeEntry, Leave
  <2>2. ASSUME NEW c, TakeExit(c)
        PROVE  /\ c \in PendingIds /\ pending' = Without(c)
               /\ job.stage = "idle" /\ job'.id = c /\ job'.stage \in {"mark", "cancel"}
    BY <1>2, <1>3, <2>2 DEF Take, TakeExit
  <2>3. ASSUME NEW c, TakeStop(c, x)
        PROVE  /\ c \in PendingIds /\ pending' = Without(c)
               /\ job' = job \/ (job.stage = "idle" /\ job'.id = c /\ job'.stage \in {"mark", "cancel"})
    BY <1>2, <1>3, <2>3 DEF Take, TakeStop, Leave
  <2> QED BY <1>3, <2>1, <2>2, <2>3 DEF Take
<1>4. CASE CancelPartialEntry
  <2>1. ~IsOpen(bo'[Entry])
    <3>1. CASE CancelOrder(Entry)
      BY <3>1, CancelMoves, Ids
    <3>2. CASE bo[Entry].st = "canceled" /\ UNCHANGED brokerVars
      BY <3>2 DEF brokerVars, account, IsOpen
    <3> QED BY <1>4, <3>1, <3>2 DEF CancelPartialEntry
  <2> QED BY <1>1, <1>4, <2>1 DEF CancelPartialEntry, JobStep, Job
<1>5. ASSUME NEW x, SaveCanceledEntry(x) PROVE pending' = pending /\ (job' = NoJob \/ JobStep("canceled", "mark"))
  BY <1>1, <1>5 DEF SaveCanceledEntry, JobStep, Job, OrderRow
<1>6. CASE MarkSubmitting
  <2>1. Saved(rows[job.id], "submitting", job.row.qty, NoId).st = "submitting"
    BY <1>1, <1>6, SavedColumns DEF MarkSubmitting
  <2> QED BY <1>1, <1>6, <2>1 DEF MarkSubmitting, JobStep, Job
<1>7. CASE SubmitAccepted \/ SubmitRefused \/ SubmitFails
  BY <1>1, <1>7 DEF SubmitAccepted, SubmitRefused, SubmitFails, Answered, JobStep, Job
<1>8. CASE SaveAnswer \/ CancelPartialEntryFails
  BY <1>8 DEF SaveAnswer, CancelPartialEntryFails
<1> QED BY <1>3, <1>4, <1>5, <1>6, <1>7, <1>8 DEF Dispatch, DispatchStep

\* Every other step leaves the dispatcher alone, lists what waits, or crashes.
LEMMA JobSteps ==
    ASSUME [Next]_vars, ~Dispatch
    PROVE  UNCHANGED dispatch \/ StartRound \/ Crash
BY DEF Next, Supervisor, FetchOpenOrders, FetchPositions, FetchClosedOrders, RunRecovery, CycleFails,
   NoEntryToExpire, CancelOldEntry, CancelOldEntryFails, SaveExpiredEntry, OpenGate, EndDispatch,
   WatchStream, Stream, Broker, EntryAges, StreamDies, vars

\* Nothing but these actors and the expiry of the entry writes a row.
LEMMA RowSteps ==
    ASSUME [Next]_vars, ~Dispatch, ~Stream, ~RunRecovery, ~SaveExpiredEntry
    PROVE  UNCHANGED rows
BY DEF Next, Supervisor, FetchOpenOrders, FetchPositions, FetchClosedOrders, CycleFails,
   NoEntryToExpire, CancelOldEntry, CancelOldEntryFails, OpenGate, StartRound, EndDispatch,
   WatchStream, Broker, EntryAges, StreamDies, Crash, vars, ledger

LEMMA ExpiredRow ==
    ASSUME TypeOK, SaveExpiredEntry, NEW c \in OrderIds
    PROVE  rows'[c] = rows[c] \/ (c = Entry /\ pc = "expired" /\ rows'[c].st \in {"canceled", "expired"})
<1>1. rows \in [OrderIds -> OrderRow] /\ rows[Entry] \in OrderRow
  BY Ids DEF TypeOK, LedgerTypeOK
<1>2. \A st, n : SavedFill(rows[Entry], st, rows[Entry].qty, Entry, n).st = st
  BY <1>1, SavedColumns
<1> QED BY <1>1, <1>2, Ids DEF SaveExpiredEntry, Goto

-----------------------------------------------------------------------------
(***************************************************************************)
(* The dispatcher's order stands until its answer is saved.                *)
(***************************************************************************)
\* An order that opens is one the dispatcher submits, or the replacement.
LEMMA Opens ==
    ASSUME TypeOK, [Next]_vars, NEW c \in OrderIds, ~IsOpen(bo[c]), IsOpen(bo'[c])
    PROVE  bo[c].st = "none" /\ (Placed(c) \/ c = Replacement)
<1>1. OrdersMove /\ OnlyPlaced
  BY OrdersNext DEF Moves
<1>2. bo[c].st = "none" /\ bo'[c] # bo[c]
  BY <1>1, LaterFacts DEF OrdersMove
<1> QED BY <1>1, <1>2 DEF OnlyPlaced, Replaced

LEMMA LocationSteps ==
    ASSUME TypeOK, [Next]_vars
    PROVE  /\ pc = "dispatch" /\ pc' # "dispatch" => job = NoJob \/ Crash
           /\ pc' = "expired" => pc = "expired" \/ CancelOldEntry
BY DEF Next, Supervisor, FetchOpenOrders, FetchPositions, FetchClosedOrders, RunRecovery, CycleFails,
   NoEntryToExpire, CancelOldEntry, CancelOldEntryFails, SaveExpiredEntry, OpenGate, StartRound, Dispatch,
   EndDispatch, WatchStream, Stream, Broker, EntryAges, StreamDies, Crash, vars, control, Goto, RoundIsOver

\* A row the replacement has is never one to submit.
LEMMA ReplacementRow ==
    ASSUME TypeOK, UpdatesAreTrue, SnapshotCovers, OwnIds, StopReplaced, EntryFirst, JobStands, [Next]_vars
    PROVE  rows'[Replacement].st \notin {"pending_submit", "submitting"}
<1>1. Replacement \in OrderIds /\ rows[Replacement].st \notin {"pending_submit", "submitting"}
  BY Ids DEF JobStands
<1>2. CASE Stream
  <2>1. \A s \in BrokerStatus : s \notin {"pending_submit", "submitting"}
    BY DEF BrokerStatus
  <2> QED BY <1>1, <1>2, <2>1, StreamRows, Ids
<1>3. CASE RunRecovery
  <2>1. pc = "recover" /\ rows' = Recovered
    BY <1>3 DEF RunRecovery, Recover
  <2> QED BY <1>1, <2>1, RecoveryRows, Ids
<1>4. CASE Dispatch
  <2>1. job.stage \in {"mark", "answered"} => job.id # Replacement
    BY DEF JobStands
  <2> QED BY <1>1, <1>4, <2>1, DispatchRows, Ids
<1>5. CASE SaveExpiredEntry
  BY <1>1, <1>5, ExpiredRow, Ids
<1> QED BY <1>1, <1>2, <1>3, <1>4, <1>5, RowSteps

LEMMA JobStandsNext ==
    ASSUME TypeOK, UpdatesAreTrue, SnapshotCovers, OwnIds, StopReplaced, EntryFirst, JobStands, [Next]_vars
    PROVE  JobStands'
<1>1. /\ NoJob.stage = "idle" /\ NoRow.st = "none" /\ Replacement \in OrderIds /\ Entry \in OrderIds
      /\ pending \in [OrderIds -> OrderRow]
      /\ job.stage # "idle" => job.id \in OrderIds
  BY Ids DEF NoJob, NoRow, TypeOK, DispatchTypeOK, Job
<1>2. \A c, d \in OrderIds : Without(c)[d] = IF d = c THEN NoRow ELSE pending[d]
  BY <1>1, NoJobType DEF Without
<1>3. job.stage # "idle" => pc = "dispatch"
  BY <1>1 DEF JobStands
<1>4. CASE Crash
  <2>1. job' = NoJob /\ pending' = NothingPending /\ pc' = "orders"
    BY <1>4 DEF Crash
  <2> QED BY <1>1, <2>1, ReplacementRow DEF JobStands, NothingPending
<1>5. pc' # "dispatch" => job' = NoJob
  <2>1. CASE Dispatch
    BY <2>1 DEF Dispatch, control
  <2>2. CASE Crash
    BY <2>2 DEF Crash
  <2>3. CASE UNCHANGED job /\ ~Crash
    BY <2>3, LocationSteps DEF JobStands
  <2> QED BY <2>1, <2>2, <2>3, JobSteps DEF dispatch, StartRound
<1>6. /\ job'.stage # "idle" => job'.id # Replacement /\ pending'[job'.id].st = "none"
      /\ pending'[Replacement].st = "none"
  <2>1. CASE Dispatch
    <3>1. \A c \in PendingIds : c \in OrderIds /\ c # Replacement
      BY DEF PendingIds, JobStands
    <3> QED BY <1>1, <1>2, <2>1, <3>1, DispatchJob DEF JobStands, JobStep
  <2>2. CASE StartRound
    BY <1>1, <2>2 DEF StartRound, RoundIsOver, ListPending, JobStands
  <2>3. CASE UNCHANGED dispatch
    BY <2>3 DEF dispatch, JobStands
  <2> QED BY <1>1, <1>4, <2>1, <2>2, <2>3, JobSteps DEF JobStands
<1>7. job'.stage \in {"submit", "canceled"} /\ ~Dispatch => job' = job /\ pc = "dispatch"
  BY <1>1, <1>3, JobSteps DEF dispatch, StartRound, Crash
<1>8. job'.stage = "submit" /\ bo'[job'.id].st = "none" => rows'[job'.id].st = "submitting"
  <2> SUFFICES ASSUME job'.stage = "submit", bo'[job'.id].st = "none" PROVE rows'[job'.id].st = "submitting"
    OBVIOUS
  <2>1. CASE Dispatch
    BY <1>1, <2>1, DispatchJob DEF JobStep
  <2>2. CASE ~Dispatch
    <3>1. job' = job /\ job.id \in OrderIds /\ pc = "dispatch"
      BY <1>1, <1>7, <2>2
    <3>2. bo[job.id].st = "none"
      BY <3>1, OrdersNext, LaterFacts DEF Moves, OrdersMove
    <3>3. rows[job.id].st = "submitting"
      BY <3>1, <3>2 DEF JobStands
    <3>4. CASE Stream
      BY <3>1, <3>2, <3>3, <3>4, StreamRows DEF EndedStopStatuses
    <3>5. CASE ~Stream
      BY <2>2, <3>1, <3>3, <3>5, RowSteps DEF RunRecovery, SaveExpiredEntry, Goto
    <3> QED BY <3>4, <3>5
  <2> QED BY <2>1, <2>2
<1>9. job'.stage = "canceled" => ~IsOpen(bo'[Entry])
  <2>1. CASE Dispatch
    BY <1>1, <2>1, DispatchJob DEF JobStep
  <2>2. CASE ~Dispatch
    BY <1>1, <1>7, <2>2, Opens, Ids DEF JobStands, Placed
  <2> QED BY <2>1, <2>2
<1>10. pc' = "expired" => ~IsOpen(bo'[Entry])
  <2>1. CASE CancelOldEntry
    BY <1>1, <2>1, CancelMoves DEF CancelOldEntry
  <2>2. CASE pc = "expired"
    BY <1>1, <2>2, Opens, Ids DEF JobStands, Placed
  <2> QED BY <2>1, <2>2, LocationSteps
<1> QED BY <1>5, <1>6, <1>8, <1>9, <1>10, ReplacementRow DEF JobStands

-----------------------------------------------------------------------------
(***************************************************************************)
(* As long as no call was lost, no order that waits is open.               *)
(***************************************************************************)
\* What is open has a live row, or is being submitted.
LEMMA OpenRowsNext ==
    ASSUME TypeOK, UpdatesAreTrue, SnapshotCovers, OwnIds, StopReplaced, EntryFirst, JobStands,
           OrdersAgree, [Next]_vars, NEW c \in OrderIds \ {Replacement}, IsOpen(bo'[c])
    PROVE  rows'[c].st \in Live \cup {"submitting"}
<1>1. CASE ~IsOpen(bo[c])
  BY <1>1, Opens DEF Placed, JobStands
<1>2. CASE IsOpen(bo[c])
  <2>1. rows[c].st \in Live \cup {"submitting"}
    BY <1>2 DEF OrdersAgree
  <2>2. CASE Stream
    BY <1>2, <2>1, <2>2, StreamRows DEF EndedStopStatuses, Live
  <2>3. CASE RunRecovery
    BY <1>2, <2>3, RecoveryRows DEF RunRecovery, Recover
  <2>4. CASE Dispatch
    <3>1. IsActive(rows[c])
      BY <2>1 DEF IsActive, ActiveStatus, Live
    <3>2. c = Entry => pending[Entry].st = "none" /\ job.stage # "canceled"
      BY <1>2 DEF OrdersAgree, Waiting, JobStands
    <3>3. c = job.id /\ job.stage = "answered" => FinalStatus \in Live
      BY <1>2 DEF OrdersAgree, FinalStatus, Live
    <3> QED BY <2>1, <2>4, <3>1, <3>2, <3>3, DispatchRows
  <2>5. CASE SaveExpiredEntry
    BY <1>2, <2>1, <2>5, ExpiredRow DEF JobStands
  <2> QED BY <2>1, <2>2, <2>3, <2>4, <2>5, RowSteps
<1> QED BY <1>1, <1>2

\* An order comes to wait when it is over, or was never sent.
LEMMA WaitingNext ==
    ASSUME TypeOK, UpdatesAreTrue, SnapshotCovers, OwnIds, StopReplaced, EntryFirst, FillIsKnown, JobStands,
           faults = 0, OrdersAgree, [Next]_vars, NEW c \in Waiting', c # Replacement
    PROVE  ~IsOpen(bo[c]) /\ (c = Entry => bo[Entry].filled = 0)
<1>1. c \in OrderIds
  BY DEF Waiting
<1>2. CASE c \in Waiting
  BY <1>2 DEF OrdersAgree
<1>3. CASE c \notin Waiting /\ rows'[c].st = "pending_submit"
  <2>1. rows[c].st # "pending_submit" /\ rows' # rows
    BY <1>1, <1>3 DEF Waiting
  <2>2. IsOpen(bo[c]) => rows[c].st \in Live \cup {"submitting"}
    BY <1>1 DEF OrdersAgree
  <2>3. CASE Stream
    <3>1. c = Stop /\ rows[Stop].st \in EndedStopStatuses \cup {"none"}
      BY <1>1, <1>3, <2>1, <2>3, StreamRows DEF BrokerStatus
    <3> QED BY <2>2, <3>1, Ids DEF EndedStopStatuses, Live
  <2>4. CASE RunRecovery
    <3>1. pc = "recover" /\ rows' = Recovered
      BY <2>4 DEF RunRecovery, Recover
    <3>2. ~IsOpen(bo[c])
      BY <1>1, <1>3, <3>1, RecoveryRows DEF Live
    <3>3. ASSUME c = Entry PROVE bo[Entry].filled = 0
      <4>1. rows[Entry].st = "submitting" /\ Entry \notin MatchedRows
        BY <1>1, <1>3, <2>1, <3>1, <3>3, RecoveryRows, Ids
      <4>2. Resolve(Entry) = Entry /\ Exists(Entry)
        BY <4>1, ResolveOwn, Ids DEF Exists
      <4>3. Entry \notin OpenInSnapshot /\ ~(Entry \in ClosedInSnapshot /\ snap.closed[Entry].filled > 0)
        BY <4>1, <4>2, Ids DEF MatchedRows, ClosedFills
      <4>4. bo[Entry].filled \in Nat
        BY Ids DEF TypeOK, BrokerTypeOK, BrokerOrder
      <4> QED BY <3>1, <4>3, <4>4 DEF FillIsKnown
    <3> QED BY <3>2, <3>3
  <2>5. CASE Dispatch
    <3>1. FinalStatus # "pending_submit"
      BY DEF FinalStatus
    <3>2. c = RejectionExit /\ ~IsActive(rows[c])
      BY <1>1, <1>3, <2>1, <2>5, <3>1, DispatchRows
    <3> QED BY <2>2, <3>2, Ids DEF IsActive, ActiveStatus, Live
  <2>6. ~SaveExpiredEntry
    BY <1>1, <1>3, <2>1, ExpiredRow
  <2> QED BY <2>1, <2>3, <2>4, <2>5, <2>6, RowSteps
<1>4. CASE c \notin Waiting /\ rows'[c].st # "pending_submit"
  <2>1. \/ pending'[c].st # "none"
        \/ job'.id = c /\ job'.stage \in {"cancel", "canceled", "mark", "submit"}
    BY <1>1, <1>4 DEF Waiting
  <2>2. /\ NoJob.stage = "idle" /\ NoRow.st = "none" /\ pending \in [OrderIds -> OrderRow]
        /\ \A d \in OrderIds : Without(d)[c] \in {NoRow, pending[c]}
    BY <1>1, NoJobType DEF NoJob, NoRow, TypeOK, DispatchTypeOK, Without
  <2>3. CASE Dispatch
    BY <1>1, <1>4, <2>1, <2>2, <2>3, DispatchJob DEF Waiting, PendingIds, JobStep
  <2>4. CASE StartRound
    BY <1>1, <1>4, <2>1, <2>2, <2>4 DEF StartRound, ListPending, RoundIsOver, Waiting
  <2>5. CASE Crash
    BY <1>1, <2>1, <2>2, <2>5 DEF Crash, NothingPending
  <2>6. CASE UNCHANGED dispatch
    BY <1>1, <1>4, <2>1, <2>6 DEF dispatch, Waiting
  <2> QED BY <2>3, <2>4, <2>5, <2>6, JobSteps
<1> QED BY <1>2, <1>3, <1>4

LEMMA OrdersAgreeNext ==
    ASSUME TypeOK, UpdatesAreTrue, SnapshotCovers, OwnIds, Unfilled, StopReplaced, EntryFirst, FillIsKnown,
           JobStands, JobStands', OrdersAgreeUnlessLost, [Next]_vars
    PROVE  OrdersAgreeUnlessLost'
<1> SUFFICES ASSUME faults' = 0 PROVE OrdersAgree'
  BY DEF OrdersAgreeUnlessLost
<1>1. faults = 0 /\ OrdersAgree
  BY FaultsGrow DEF OrdersAgreeUnlessLost
<1>2. ASSUME NEW c \in Waiting' PROVE ~IsOpen(bo'[c]) /\ (c = Entry => bo'[Entry].filled = 0)
  <2>1. c \in OrderIds /\ c # Replacement
    BY <1>2 DEF Waiting, JobStands
  <2>2. ~IsOpen(bo[c]) /\ (c = Entry => bo[Entry].filled = 0)
    BY <1>1, <1>2, <2>1, WaitingNext
  <2>3. ASSUME Placed(c), bo[c].st = "none" PROVE FALSE
    <3>1. rows'[c].st = "submitting" /\ pending'[c].st = "none" /\ job'.stage = "answered"
      BY <2>3 DEF Placed, JobStands
    <3> QED BY <1>2, <3>1 DEF Waiting
  <2>4. ~IsOpen(bo'[c])
    BY <2>1, <2>2, <2>3, Opens
  <2>5. c = Entry => bo'[Entry].filled = 0
    <3>1. Later(bo[Entry], bo'[Entry])
      BY OrdersNext, Ids DEF Moves, OrdersMove
    <3> QED BY <2>2, <3>1 DEF Later
  <2> QED BY <2>4, <2>5
<1>3. ASSUME job'.stage = "answered", job'.answer # "accepted" PROVE ~IsOpen(bo'[job'.id])
  <2>0. job.stage # "idle" => job.id \in OrderIds
    BY DEF TypeOK, DispatchTypeOK, Job
  <2>1. CASE job' = job
    <3>1. ~IsOpen(bo[job.id]) /\ job.id \in OrderIds /\ job.id # Replacement
      BY <1>1, <1>3, <2>0, <2>1 DEF OrdersAgree, JobStands
    <3> QED BY <1>3, <2>1, <3>1, Opens DEF Placed
  <2>2. CASE Dispatch /\ job' # job
    <3>1. NoJob.stage = "idle"
      BY DEF NoJob
    <3>2. JobStep("submit", "answered")
      BY <1>3, <2>2, <3>1, DispatchJob DEF JobStep
    <3>3. job.id \in Waiting
      BY <2>0, <3>2 DEF Waiting, JobStep
    <3>4. ~Fault
      BY <1>1 DEF Fault
    <3>5. SubmitRefused
      <4>1. ~SubmitAccepted
        BY <1>3 DEF SubmitAccepted, Answered, TypeOK, DispatchTypeOK, Job
      <4> QED BY <2>2, <3>2, <3>4, <4>1 DEF JobStep, Dispatch, DispatchStep, Take, CancelPartialEntry,
              CancelPartialEntryFails, SaveCanceledEntry, MarkSubmitting, SubmitFails, SaveAnswer
    <3>6. bo' = bo /\ job'.id = job.id
      BY <3>2, <3>5 DEF SubmitRefused, brokerVars, account, JobStep
    <3> QED BY <1>1, <3>3, <3>6 DEF OrdersAgree
  <2>3. CASE ~Dispatch /\ job' # job
    <3>1. StartRound \/ Crash
      BY <2>3, JobSteps DEF dispatch
    <3>2. job' = NoJob
      BY <2>3, <3>1 DEF StartRound, Crash
    <3> QED BY <1>3, <3>2 DEF NoJob
  <2> QED BY <2>1, <2>2, <2>3
<1> QED BY <1>1, <1>2, <1>3, OpenRowsNext DEF OrdersAgree

LEMMA NoOrderTwiceInit == Init => NoOrderTwice
<1> SUFFICES ASSUME Init PROVE NoOrderTwice
  OBVIOUS
<1>1. /\ \A c \in OrderIds : bo[c] = NoBrokerOrder /\ rows[c].st \in {"none", "pending_submit"}
      /\ \A c \in OrderIds \ {Entry} : rows[c] = NoRow
      /\ rows[Entry].filled = 0
      /\ updates = <<>> /\ held = 0 /\ snap = NoSnapshot /\ sreq = NoRequest
      /\ pending = NothingPending /\ job = NoJob /\ pc = "orders"
  BY Ids DEF Init, BrokerInit, LedgerInit, TradeUpdatesInit, DispatchInit, NoRow
<1>2. /\ NoBrokerOrder.st = "none" /\ NoBrokerOrder.filled = 0 /\ ~IsOpen(NoBrokerOrder)
      /\ NoRow.st = "none" /\ NoRow.filled = 0
      /\ NoJob.stage = "idle" /\ NoJob.id = NoId /\ NoJob.entry = NoRow
      /\ NoRequest.stage = "idle"
      /\ NoSnapshot.held = 0
      /\ \A c \in OrderIds : NoSnapshot.open[c] = NoBrokerOrder /\ NoSnapshot.closed[c] = NoBrokerOrder
      /\ \A c \in OrderIds : NothingPending[c] = NoRow
  BY DEF NoBrokerOrder, IsOpen, NoRow, NoJob, NoRequest, NoSnapshot, NoOrders, NothingPending
<1>3. UpdatesAreTrue
  BY <1>1 DEF UpdatesAreTrue
<1>4. Unfilled /\ StopReplaced /\ SnapshotKnown /\ FillIsKnown /\ JobStands
  BY <1>1, <1>2, Ids DEF Unfilled, StopReplaced, SnapshotKnown, FillIsKnown, JobStands, NoRow
<1>5. EntryFirst
  BY <1>1, <1>2, Ids DEF EntryFirst, NothingBought, Exists
<1>6. OrdersAgreeUnlessLost
  BY <1>1, <1>2, Ids DEF OrdersAgreeUnlessLost, OrdersAgree, Waiting
<1> QED BY <1>3, <1>4, <1>5, <1>6, SnapshotCoversInit, OwnIdsInit DEF NoOrderTwice

\* Without a lost answer, an order is submitted under its id anew only once it is
\* over, and an entry that bought shares never is.  The invariant: an order that is
\* open has a live row, or one that is being submitted, and no order that waits for
\* its submission is open.
THEOREM NothingIsSubmittedTwice == Spec => []NeverResubmits
<1>1. TypeOK /\ TypeOK' /\ NoOrderTwice /\ [Next]_vars => NoOrderTwice'
  <2> SUFFICES ASSUME TypeOK, TypeOK', NoOrderTwice, [Next]_vars PROVE NoOrderTwice'
    OBVIOUS
  <2>1. OrdersMove /\ Announced
    BY OrdersNext DEF Moves
  <2>2. UpdatesAreTrue' /\ SnapshotCovers' /\ OwnIds'
    BY <2>1, UpdatesNext, SnapshotCoversNext, OwnIdsNext DEF NoOrderTwice
  <2>3. Unfilled' /\ StopReplaced' /\ SnapshotKnown' /\ EntryFirst' /\ FillIsKnown' /\ JobStands'
    BY UnfilledNext, StopReplacedNext, SnapshotKnownNext, EntryFirstNext, FillIsKnownNext, JobStandsNext
    DEF NoOrderTwice
  <2>4. OrdersAgreeUnlessLost'
    BY <2>3, OrdersAgreeNext DEF NoOrderTwice
  <2> QED BY <2>2, <2>3, <2>4 DEF NoOrderTwice
<1>2. TypeOK /\ NoOrderTwice => NeverResubmits
  <2>1. TypeOK /\ job.stage = "submit" => job.id \in OrderIds
    BY DEF TypeOK, DispatchTypeOK, Job
  <2> QED BY <2>1 DEF NoOrderTwice, OrdersAgreeUnlessLost, OrdersAgree, Waiting, NeverResubmits
<1> QED BY <1>1, <1>2, NoOrderTwiceInit, TypeCorrectness, PTL DEF Spec
=============================================================================
