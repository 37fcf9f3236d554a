--------------------------- MODULE OrderDispatch ---------------------------
(***************************************************************************)
(* dispatch_pending_orders: one round over the rows that were pending when *)
(* it began.  Each order is marked `submitting', submitted outside the     *)
(* store_lock, and its row saved again from the record read at the start;  *)
(* before a stop the partially filled entry is canceled.                   *)
(*                                                                         *)
(* The round follows created_at, which is not a column of the model: the   *)
(* pending orders are taken in any order.  The session is one day, so no   *)
(* row is of a prior one.                                                  *)
(***************************************************************************)
EXTENDS Ledger

VARIABLES
    pending,     \* the rows still to be dispatched in this round, as read
    job          \* the order being dispatched

Stages == {"idle", "cancel", "canceled", "mark", "submit", "answered"}
Answers == {"none", "accepted", "price", "duplicate", "error"}

Job == [stage : Stages, id : OrderIds \cup {NoId}, row : OrderRow, entry : OrderRow,
        answer : Answers]
NoJob == [stage |-> "idle", id |-> NoId, row |-> NoRow, entry |-> NoRow, answer |-> "none"]
NothingPending == [c \in OrderIds |-> NoRow]

PendingIds == {c \in OrderIds : pending[c].st # "none"}
ListPending ==
    pending' = [c \in OrderIds |-> IF rows[c].st = "pending_submit" THEN rows[c] ELSE NoRow]
Without(c) == [pending EXCEPT ![c] = NoRow]
RoundIsOver == PendingIds = {} /\ job = NoJob

Start(c, stage, entry) ==
    [NoJob EXCEPT !.stage = stage, !.id = c, !.row = pending[c], !.entry = entry]

\* The next order, whose row is not written, is left for a later round.
Leave(c) ==
    /\ pending' = Without(c)
    /\ UNCHANGED <<job, ledger>>

EntryIsPartial == rows[Entry].st = "partially_filled"

\* What _cancel_partial_fill_entry needs before it may call the broker: the
\* stop is the one paired with the entry, and the row knows its fill and its id.
CanCancelPartial(c) == c = Stop /\ rows[Entry].filled > 0 /\ rows[Entry].bid # NoId

TakeEntry(entriesDisabled, aged) ==
    /\ Entry \in PendingIds
    /\ \/ entriesDisabled /\ Leave(Entry)
       \/ /\ ~entriesDisabled /\ aged
          /\ rows' = [rows EXCEPT
               ![Entry] = Saved(@, "expired", pending[Entry].qty, pending[Entry].bid)]
          /\ pending' = Without(Entry)
          /\ UNCHANGED <<pos, job>>
       \/ /\ ~entriesDisabled /\ ~aged
          /\ job' = Start(Entry, "mark", NoRow)
          /\ pending' = Without(Entry)
          /\ UNCHANGED ledger

TakeExit(c) ==
    /\ c \in ExitIds \cap PendingIds
    /\ job' = Start(c, "mark", NoRow)
    /\ pending' = Without(c)
    /\ UNCHANGED ledger

\* Alpaca takes no stop outside the regular session: it stays pending.
TakeStop(c, extended) ==
    /\ c \in StopIds \cap PendingIds
    /\ \/ EntryIsPartial /\ ~CanCancelPartial(c) /\ Leave(c)
       \/ ~EntryIsPartial /\ extended /\ Leave(c)
       \/ /\ EntryIsPartial /\ CanCancelPartial(c)
          /\ job' = Start(c, "cancel", rows[Entry])
          /\ pending' = Without(c)
          /\ UNCHANGED ledger
       \/ /\ ~EntryIsPartial /\ ~extended
          /\ job' = Start(c, "mark", NoRow)
          /\ pending' = Without(c)
          /\ UNCHANGED ledger

Take(entriesDisabled, aged, extended) ==
    /\ job.stage = "idle"
    /\ \/ TakeEntry(entriesDisabled, aged)
       \/ \E c \in ExitIds : TakeExit(c)
       \/ \E c \in StopIds : TakeStop(c, extended)
    /\ UNCHANGED brokerVars

-----------------------------------------------------------------------------
(***************************************************************************)
(* _cancel_partial_fill_entry: the broker call, then the row.              *)
(***************************************************************************)
CancelPartialEntry ==
    /\ job.stage = "cancel"
    /\ \/ CancelOrder(Entry) /\ UNCHANGED faults
       \/ bo[Entry].st = "canceled" /\ UNCHANGED brokerVars
    /\ job' = [job EXCEPT !.stage = "canceled"]
    /\ UNCHANGED <<ledger, pending>>

\* Refused, or lost on the way: the stop waits for the next cycle.
CancelPartialEntryFails ==
    /\ job.stage = "cancel"
    /\ \/ ~IsOpen(bo[Entry]) /\ bo[Entry].st # "canceled" /\ UNCHANGED brokerVars
       \/ Fault /\ UNCHANGED <<account, channel, lapses>>
       \/ Fault /\ CancelOrder(Entry)
    /\ job' = NoJob
    /\ UNCHANGED <<ledger, pending>>

\* The entry's row is saved as it was read, and the stop takes its fill.
SaveCanceledEntry(extended) ==
    /\ job.stage = "canceled"
    /\ rows' = [rows EXCEPT
         ![Entry] = SavedFill(@, "canceled", job.entry.qty, job.entry.bid, job.entry.filled)]
    /\ job' = IF extended THEN NoJob
              ELSE [job EXCEPT !.stage = "mark", !.row.qty = job.entry.filled]
    /\ UNCHANGED <<pos, pending, brokerVars>>

-----------------------------------------------------------------------------
(***************************************************************************)
(* Submission.                                                             *)
(***************************************************************************)
MarkSubmitting ==
    /\ job.stage = "mark"
    /\ rows' = [rows EXCEPT ![job.id] = Saved(@, "submitting", job.row.qty, NoId)]
    /\ job' = [job EXCEPT !.stage = "submit"]
    /\ UNCHANGED <<pos, pending, brokerVars>>

Answered(answer) == job' = [job EXCEPT !.stage = "answered", !.answer = answer]

SubmitAccepted ==
    /\ job.stage = "submit"
    /\ PlaceOrder(job.id, job.row.qty)
    /\ Answered("accepted")
    /\ UNCHANGED <<ledger, pending, faults>>

\* The first rule the order breaks names the refusal.
Refusal(c, q) ==
    CASE IsDuplicate(c)                        -> "duplicate"
      [] ~IsDuplicate(c) /\ IsWashTrade(c)     -> "error"
      [] ~IsDuplicate(c) /\ IsUncovered(c, q)  -> "error"
      [] OTHER                                 -> "price"

SubmitRefused ==
    /\ job.stage = "submit"
    /\ ~Accepts(job.id, job.row.qty)
    /\ Answered(Refusal(job.id, job.row.qty))
    /\ UNCHANGED <<ledger, pending, brokerVars>>

\* The call fails in transit, and so do its retries, before the broker sees it;
\* or its answer is lost after the order was accepted, and a retry is told of
\* the duplicate or is lost as well.
SubmitFails ==
    /\ job.stage = "submit"
    /\ Fault
    /\ \/ UNCHANGED <<account, channel, lapses>> /\ Answered("error")
       \/ PlaceOrder(job.id, job.row.qty) /\ Answered("duplicate")
       \/ PlaceOrder(job.id, job.row.qty) /\ Answered("error")
    /\ UNCHANGED <<ledger, pending>>

\* The row is saved from the record as it was listed, whatever it is by now.
FinalStatus ==
    CASE job.answer = "accepted"                       -> "accepted"
      [] job.answer = "price"                          -> "canceled"
      [] job.answer = "duplicate" /\ job.id = Entry    -> "expired"
      [] OTHER                                         -> "error"

HasActiveExitRow == \E c \in ExitIds : IsActive(rows[c])

\* A stop refused for its price is followed by a market exit, unless one is
\* active.
WithRejectionExit(rs) ==
    IF job.answer = "price" /\ ~HasActiveExitRow
    THEN [rs EXCEPT ![RejectionExit] = Saved(@, "pending_submit", job.row.qty, NoId)]
    ELSE rs

SaveAnswer ==
    /\ job.stage = "answered"
    /\ rows' = [WithRejectionExit(rows) EXCEPT
         ![job.id] = Saved(@, FinalStatus, job.row.qty,
                           IF job.answer = "accepted" THEN job.id ELSE job.row.bid)]
    /\ job' = NoJob
    /\ UNCHANGED <<pos, pending, brokerVars>>

DispatchStep(entriesDisabled, aged, extended) ==
    \/ Take(entriesDisabled, aged, extended)
    \/ CancelPartialEntry \/ CancelPartialEntryFails
    \/ SaveCanceledEntry(extended)
    \/ MarkSubmitting
    \/ SubmitAccepted \/ SubmitRefused \/ SubmitFails
    \/ SaveAnswer

DispatchTypeOK ==
    /\ pending \in [OrderIds -> OrderRow]
    /\ job \in Job
    /\ job.stage # "idle" => job.id # NoId
DispatchInit == pending = NothingPending /\ job = NoJob
=============================================================================
