---------------------------- MODULE TradeUpdates ----------------------------
(***************************************************************************)
(* The stream thread: it applies one trade update at a time to the ledger, *)
(* in one transaction, and afterwards, outside the store_lock, asks the    *)
(* broker to replace a live protective stop whose quantity has changed.    *)
(***************************************************************************)
EXTENDS Ledger

VARIABLE sreq    \* the replacement the stream thread is making

Request == [stage : {"idle", "call", "save"}, qty : Nat, row : OrderRow]
NoRequest == [stage |-> "idle", qty |-> 0, row |-> NoRow]

FillStatuses == {"filled", "partially_filled"}
EntryEndStatuses == {"canceled", "expired"}
EndedStopStatuses == {"expired", "canceled", "error"}

\* _find_order: by client order id, else by broker order id.
RowFor(e) ==
    LET byBrokerId == {c \in OrderIds : Exists(c) /\ rows[c].bid = e.id} IN
    IF Exists(e.id) \/ byBrokerId = {} THEN e.id ELSE CHOOSE c \in byBrokerId : TRUE

IsUnmatched(e) == ~Exists(RowFor(e))

\* A row that is filled takes no fill that does not exceed its own.
IsStaleFill(r, e) ==
    r.st = "filled" /\ e.st \in FillStatuses /\ e.filled <= r.filled

CumulativeFill(r, e) == IF e.filled > r.filled THEN e.filled ELSE r.filled

\* The row as the update leaves it, whatever its status was before.
Updated(c, e) ==
    LET r == rows[c] IN
    CASE e.st \in FillStatuses                       -> SavedFill(r, e.st, r.qty, e.id, e.filled)
      [] c = Entry /\ e.st \in EntryEndStatuses      ->
                            SavedFill(r, e.st, r.qty, e.id, CumulativeFill(r, e))
      [] OTHER                                       -> Saved(r, e.st, r.qty, e.id)

\* The protective stop after the position was saved with q shares: queued when
\* there is none, resized while it still waits for its dispatch.
ProtectiveStop(q) ==
    LET s == rows[Stop] IN
    CASE s.st \in EndedStopStatuses \cup {"none"}  -> Saved(s, "pending_submit", q, NoId)
      [] s.st = "pending_submit"                   -> Saved(s, s.st, q, s.bid)
      [] OTHER                                     -> s

NeedsReplacement(q) ==
    /\ rows[Stop].st \notin EndedStopStatuses \cup {"none", "pending_submit"}
    /\ rows[Stop].bid # NoId
    /\ rows[Stop].qty # q

\* _save_entry_position_and_stop with q shares bought.
SavePositionAndStop(e, q) ==
    /\ pos' = q
    /\ rows' = [rows EXCEPT ![Entry] = Updated(Entry, e), ![Stop] = ProtectiveStop(q)]
    /\ sreq' = IF NeedsReplacement(q) THEN [stage |-> "call", qty |-> q, row |-> rows[Stop]]
                                      ELSE sreq

\* An update the stream thread drops: no row has its ids, or its fill is old.
IgnoreUpdate(e) ==
    /\ IsUnmatched(e) \/ IsStaleFill(rows[RowFor(e)], e)
    /\ UNCHANGED <<ledger, sreq>>

ApplyEntryFill(e) ==
    /\ RowFor(e) = Entry /\ e.st \in FillStatuses
    /\ rows[Entry].st # "filled"
    /\ SavePositionAndStop(e, e.filled)

\* The entry ended.  With shares bought the position stays and is protected;
\* without any, it is cleared and its stop, in whatever state, is given up.
ApplyEntryEnd(e) ==
    /\ RowFor(e) = Entry /\ e.st \in EntryEndStatuses
    /\ LET q == CumulativeFill(rows[Entry], e) IN
       IF q > 0
       THEN SavePositionAndStop(e, q)
       ELSE /\ pos' = 0
            /\ rows' = [rows EXCEPT
                 ![Entry] = Updated(Entry, e),
                 ![Stop] = IF Exists(Stop) THEN Saved(@, "canceled", @.qty, @.bid) ELSE @]
            /\ UNCHANGED sreq

\* Mutation: a fill beyond the position is subtracted from it all the same.
PositionAfterSellUnclamped(r, e) ==
    IF e.st = "filled" THEN 0 ELSE pos - (e.filled - r.filled)

PositionAfterSell(r, e) ==
    LET sold == e.filled - r.filled IN
    CASE e.st = "filled" \/ sold > pos             -> 0
      [] e.st # "filled" /\ sold \in 1 .. pos      -> pos - sold
      [] OTHER                                     -> pos

ApplySellFill(e) ==
    /\ RowFor(e) # Entry /\ e.st \in FillStatuses
    /\ rows[RowFor(e)].st # "filled"
    /\ pos' = PositionAfterSell(rows[RowFor(e)], e)
    /\ rows' = [rows EXCEPT ![RowFor(e)] = Updated(RowFor(e), e)]
    /\ UNCHANGED sreq

\* Every other update only overwrites the row's status and broker order id.
ApplyStatus(e) ==
    /\ \/ e.st \in FillStatuses /\ rows[RowFor(e)].st = "filled"
       \/ e.st \in EntryEndStatuses /\ RowFor(e) # Entry
       \/ e.st \notin FillStatuses \cup EntryEndStatuses
    /\ rows' = [rows EXCEPT ![RowFor(e)] = Updated(RowFor(e), e)]
    /\ UNCHANGED <<pos, sreq>>

\* _apply_trade_update_locked on the oldest update.
ApplyUpdate ==
    /\ sreq.stage = "idle"
    /\ updates # <<>>
    /\ updates' = Tail(updates)
    /\ LET e == Head(updates) IN
       \/ IgnoreUpdate(e)
       \/ /\ ~IsUnmatched(e) /\ ~IsStaleFill(rows[RowFor(e)], e)
          /\ ApplyEntryFill(e) \/ ApplyEntryEnd(e) \/ ApplySellFill(e) \/ ApplyStatus(e)
    /\ UNCHANGED <<account, streamUp, faults, lapses>>

-----------------------------------------------------------------------------
(***************************************************************************)
(* _replace_broker_backed_stop_quantities.  A failed call leaves the stop  *)
(* as it is; the answer of a successful one is saved over the row as it    *)
(* was read before the call.                                               *)
(***************************************************************************)
ReplaceAccepted ==
    /\ sreq.stage = "call"
    /\ ReplaceOrder(sreq.row.bid, sreq.qty)
    /\ sreq' = [sreq EXCEPT !.stage = "save"]
    /\ UNCHANGED <<ledger, faults>>

ReplaceRefused ==
    /\ sreq.stage = "call"
    /\ ~CanReplace(sreq.row.bid, sreq.qty)
    /\ sreq' = NoRequest
    /\ UNCHANGED <<ledger, brokerVars>>

ReplaceFails ==
    /\ sreq.stage = "call"
    /\ Fault
    /\ \/ UNCHANGED <<account, channel, lapses>>
       \/ ReplaceOrder(sreq.row.bid, sreq.qty)
    /\ sreq' = NoRequest
    /\ UNCHANGED ledger

SaveReplacement ==
    /\ sreq.stage = "save"
    /\ rows' = [rows EXCEPT ![Stop] = Saved(@, "accepted", sreq.qty, Replacement)]
    /\ sreq' = NoRequest
    /\ UNCHANGED <<pos, brokerVars>>

StreamStep ==
    \/ ApplyUpdate
    \/ ReplaceAccepted \/ ReplaceRefused \/ ReplaceFails
    \/ SaveReplacement

TradeUpdatesTypeOK == sreq \in Request
TradeUpdatesInit == sreq = NoRequest
=============================================================================
