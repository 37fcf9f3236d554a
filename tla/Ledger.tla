------------------------------- MODULE Ledger -------------------------------
(***************************************************************************)
(* The two Postgres tables the runtime trades from: `orders', one row per  *)
(* client order id, and `positions', whose row for the one symbol and      *)
(* strategy is its quantity (0: no row).  Every action that writes them is *)
(* one transaction under the runtime's store_lock.                         *)
(***************************************************************************)
EXTENDS Alpaca

VARIABLES rows, pos

ledger == <<rows, pos>>

NoId == "no.id"

RowStatus ==
    BrokerStatus \cup {"pending_submit", "submitting", "error", "reconciled_missing"}

\* The statuses the recovery, the dispatcher and the supervisor call active
\* (`accepted' stands for every status of an order live at the broker).
ActiveStatus == {"pending_submit", "submitting", "accepted", "partially_filled"}

\* A filled quantity of 0 stands for NULL as well: no reader of the column
\* tells the two apart.
OrderRow == [st : RowStatus, qty : Nat, bid : OrderIds \cup {NoId}, filled : Nat, miss : Nat]

NoRow == [st |-> "none", qty |-> 0, bid |-> NoId, filled |-> 0, miss |-> 0]

Exists(c) == rows[c].st # "none"
IsActive(r) == r.st \in ActiveStatus
IsNeverSubmitted(r) == r.st \in {"pending_submit", "submitting"} /\ r.bid = NoId

\* OrderStore.save of a record without fill columns: the upsert keeps the
\* stored fill (COALESCE) and takes every other column from the record, whose
\* reconciliation_miss_count defaults to 0.
Saved(r, st, qty, bid) == [r EXCEPT !.st = st, !.qty = qty, !.bid = bid, !.miss = 0]

\* OrderStore.save of a record that carries a filled quantity.
SavedFill(r, st, qty, bid, filled) == [Saved(r, st, qty, bid) EXCEPT !.filled = filled]

LedgerTypeOK == rows \in [OrderIds -> OrderRow] /\ pos \in Nat

\* A signal has just queued the entry.
LedgerInit ==
    /\ rows = [c \in OrderIds |->
                 IF c = Entry THEN [NoRow EXCEPT !.st = "pending_submit", !.qty = EntryQty]
                              ELSE NoRow]
    /\ pos = 0
=============================================================================
