---------------------------- MODULE OptionOrders ----------------------------
(***************************************************************************)
(* Option orders from the decision to the sale at the close: the rows of   *)
(* option_orders, the dispatcher that sends what is pending, the broker,   *)
(* the stream thread that records fills, and a supervisor that may be      *)
(* killed between any two of its steps.                                    *)
(*                                                                         *)
(* A row is [status, quantity, filled]; its id <<contract, side, number>>  *)
(* says what it is: the number of a buy is its signal bar, so the same bar *)
(* gives the same id again, the number of a sale is new every cycle.       *)
(* Strategies are not told apart, and every cycle lies in the regular      *)
(* session.                                                                *)
(***************************************************************************)
EXTENDS Integers, Sequences, FiniteSets, FiniteSetsExt

CONSTANTS Contracts,      \* the OCC symbols of the chains
          Underlying,     \* the stock of each
          Quantity,       \* contracts bought by one entry
          LastBar,        \* bound: bars of the session
          FlattenBar,     \* the first bar past FLATTEN_TIME
          MaxSales,       \* bound: sell records saved
          MaxCrashes,     \* bound: kills of the supervisor
          Days            \* whether the day may be calm, and other than calm

ASSUME OptionAssumption ==
    /\ IsFiniteSet(Contracts)
    /\ Quantity \in Nat \ {0}
    /\ {LastBar, FlattenBar, MaxSales, MaxCrashes} \subseteq Nat
    /\ Days \subseteq BOOLEAN

VARIABLES rows,       \* option_orders: the rows by client order id
          broker,     \* the orders the broker has accepted, by the same id
          updates,    \* trade updates on their way to the stream thread
          process,    \* where the supervisor is, and what it has read
          bar,        \* the latest completed bar
          sales,      \* sell records saved so far: their timestamps differ
          crashes,
          calm        \* the day goes well: calls succeed, fills are recorded between
                      \* two cycles, nothing is killed

vars == <<rows, broker, updates, process, bar, sales, crashes, calm>>

Ids == (Contracts \X {"buy"} \X (1 .. LastBar))
         \cup (Contracts \X {"sell"} \X (1 .. MaxSales))
Contract(id) == id[1]
Side(id) == id[2]

Absent == [status |-> "absent", quantity |-> 0, filled |-> 0]
Row(status, quantity, filled) ==
    [status |-> status, quantity |-> quantity, filled |-> filled]

Idle(usedBar) ==
    [at |-> "idle", working |-> {}, todo |-> {}, sending |-> {},
     answer |-> "none", past |-> FALSE, usedBar |-> usedBar]

Goto(at) == [process EXCEPT !.at = at]

-----------------------------------------------------------------------------
(* Queries of the option order store.                                      *)

Pending == {id \in Ids : rows[id].status = "pending_submit"}

\* Mutation: an order counts once it is filled in full.
FilledOnly(id) == rows[id].status = "filled"

Executed(id) == rows[id].status = "filled" \/ rows[id].filled > 0

Amount(id) == IF Side(id) = "buy" THEN rows[id].filled ELSE -rows[id].filled

Net(c) == SumFunctionOnSet([id \in Ids |-> Amount(id)],
                           {id \in Ids : Contract(id) = c /\ Executed(id)})

(* Positions that a sale closes; a net short one is left to the carryover. *)
OpenLong == {c \in Contracts : Net(c) > 0}
OpenContracts == {c \in Contracts : Net(c) # 0}

-----------------------------------------------------------------------------
(* One supervisor cycle.                                                   *)

Settled ==
    /\ updates = <<>>
    /\ \A id \in Ids : Side(id) = "sell" => broker[id].status # "open"

(* The symbols with an open option are read before anything is decided.    *)
BeginCycle ==
    /\ process.at = "idle"
    /\ calm => Settled
    /\ process' = [Goto("choose") EXCEPT
                     !.working = {Underlying[c] : c \in OpenContracts}]
    /\ UNCHANGED <<rows, broker, updates, bar, sales, crashes, calm>>

(* The strategies decide, and their entries are saved in one transaction.  *)
(* A bar is decided once, as far as this process remembers; with entries   *)
(* disabled nothing is decided and the bar stays undecided.                *)
Choose ==
    /\ process.at = "choose"
    /\ \E chosen \in SUBSET {c \in Contracts : Underlying[c] \notin process.working} :
         /\ (process.usedBar = bar \/ bar >= FlattenBar) => chosen = {}
         /\ \E enabled \in BOOLEAN :
              /\ ~enabled => chosen = {}
              /\ rows' = [id \in Ids |->
                            IF Contract(id) \in chosen /\ Side(id) = "buy" /\ id[3] = bar
                            THEN Row("pending_submit", Quantity, 0)
                            ELSE rows[id]]
              /\ process' = [Goto("list") EXCEPT
                               !.usedBar = IF enabled THEN bar ELSE @]
    /\ UNCHANGED <<broker, updates, bar, sales, crashes, calm>>

(* dispatch_pending_option_orders lists the pending rows once ...          *)
List ==
    /\ process.at = "list"
    /\ process' = [Goto("dispatch") EXCEPT !.todo = Pending]
    /\ UNCHANGED <<rows, broker, updates, bar, sales, crashes, calm>>

(* ... saves each as submitting ...                                        *)
SaveSubmitting(id) ==
    /\ process.at = "dispatch"
    /\ id \in process.todo
    /\ rows' = [rows EXCEPT ![id] = Row("submitting", @.quantity, 0)]
    /\ process' = [Goto("send") EXCEPT !.sending = {id}]
    /\ UNCHANGED <<broker, updates, bar, sales, crashes, calm>>

(* ... sends it: accepted, refused (always, for an id the broker knows), or *)
(* accepted with the answer lost, which raises like a refusal ...          *)
Send(id) ==
    /\ process.at = "send"
    /\ id \in process.sending
    /\ \E accepted, answered \in BOOLEAN :
         /\ accepted => broker[id].status = "none"
         /\ calm => answered /\ (broker[id].status = "none" => accepted)
         /\ broker' = IF accepted
                      THEN [broker EXCEPT ![id] =
                              [status |-> "open", quantity |-> rows[id].quantity, filled |-> 0]]
                      ELSE broker
         /\ process' = [Goto("answer") EXCEPT
                          !.answer = IF accepted /\ answered THEN "submitted" ELSE "failed"]
    /\ UNCHANGED <<rows, updates, bar, sales, crashes, calm>>

\* Mutation: an accepted sale counts as filled.

SentIsFilled(id) ==
    /\ process.at = "answer" /\ id \in process.sending
    /\ rows' = [rows EXCEPT ![id] = Row(process.answer, @.quantity,
                   IF Side(id) = "sell" THEN @.quantity ELSE 0)]
    /\ process' = [Goto("dispatch") EXCEPT !.sending = {}, !.todo = @ \ {id}]
    /\ UNCHANGED <<broker, updates, bar, sales, crashes, calm>>

(* ... and saves the answer over the row it read while it was pending.     *)
SaveAnswer(id) ==
    /\ process.at = "answer"
    /\ id \in process.sending
    /\ rows' = [rows EXCEPT ![id] = Row(process.answer, @.quantity, 0)]
    /\ process' = [Goto("dispatch") EXCEPT !.sending = {}, !.todo = @ \ {id}]
    /\ UNCHANGED <<broker, updates, bar, sales, crashes, calm>>

(* With the list done the positions to close are read, once a cycle.       *)
EndDispatch ==
    /\ process.at = "dispatch" /\ process.todo = {}
    /\ process' = IF /\ bar >= FlattenBar /\ ~process.past /\ OpenContracts # {}
                     /\ sales + Cardinality(OpenLong) <= MaxSales
                  THEN [Goto("flatten") EXCEPT !.todo = OpenLong, !.past = TRUE]
                  ELSE Idle(process.usedBar)
    /\ UNCHANGED <<rows, broker, updates, bar, sales, crashes, calm>>

SaveSale(c) ==
    /\ process.at = "flatten"
    /\ c \in process.todo
    /\ sales' = sales + 1
    /\ rows' = [rows EXCEPT ![<<c, "sell", sales + 1>>] = Row("pending_submit", Net(c), 0)]
    /\ process' = [process EXCEPT !.todo = @ \ {c}]
    /\ UNCHANGED <<broker, updates, bar, crashes, calm>>

EndFlatten ==
    /\ process.at = "flatten"
    /\ process.todo = {}
    /\ process' = Goto("list")
    /\ UNCHANGED <<rows, broker, updates, bar, sales, crashes, calm>>

-----------------------------------------------------------------------------
(* The stream thread.                                                      *)

(* A fill is written whatever the row says; an update without a fill price *)
(* is dropped.                                                             *)
RecordFill ==
    /\ updates # <<>>
    /\ calm => process.at = "idle"
    /\ LET u == Head(updates)
       IN rows' = IF u.filled > 0 /\ rows[u.id] # Absent
                  THEN [rows EXCEPT ![u.id] = Row(u.status, @.quantity, u.filled)]
                  ELSE rows
    /\ updates' = Tail(updates)
    /\ UNCHANGED <<broker, process, bar, sales, crashes, calm>>

-----------------------------------------------------------------------------
(* The broker, the clock and the kill.                                     *)

Report(id, status, filled) ==
    updates' = Append(updates, [id |-> id, status |-> status, filled |-> filled])

Fill(id) ==
    /\ broker[id].status = "open"
    /\ LET filled == broker[id].filled + 1
           done == filled = broker[id].quantity
       IN /\ broker' = [broker EXCEPT ![id].filled = filled,
                                      ![id].status = IF done THEN "done" ELSE "open"]
          /\ Report(id, IF done THEN "filled" ELSE "partially_filled", filled)
    /\ UNCHANGED <<rows, process, bar, sales, crashes, calm>>

(* A limit entry that is not filled in full lapses.                        *)
Lapse(id) ==
    /\ broker[id].status = "open" /\ Side(id) = "buy"
    /\ broker' = [broker EXCEPT ![id].status = "done"]
    /\ Report(id, "canceled", broker[id].filled)
    /\ UNCHANGED <<rows, process, bar, sales, crashes, calm>>

NextBar ==
    /\ process.at = "idle"
    /\ bar < LastBar
    /\ bar' = bar + 1
    /\ UNCHANGED <<rows, broker, updates, process, sales, crashes, calm>>

(* A kill loses what the process remembers and the updates it did not read. *)
Crash ==
    /\ crashes < MaxCrashes /\ ~calm
    /\ crashes' = crashes + 1
    /\ process' = Idle(0)
    /\ updates' = <<>>
    /\ UNCHANGED <<rows, broker, bar, sales, calm>>

Init ==
    /\ rows = [id \in Ids |-> Absent]
    /\ broker = [id \in Ids |-> [status |-> "none", quantity |-> 0, filled |-> 0]]
    /\ updates = <<>>
    /\ process = Idle(0)
    /\ bar = 1
    /\ sales = 0
    /\ crashes = 0
    /\ calm \in Days

Cycle ==
    \/ BeginCycle \/ Choose \/ List \/ EndDispatch \/ EndFlatten
    \/ \E id \in Ids : SaveSubmitting(id) \/ Send(id) \/ SaveAnswer(id)
    \/ \E c \in Contracts : SaveSale(c)

Next ==
    \/ Cycle
    \/ RecordFill
    \/ \E id \in Ids : Fill(id) \/ Lapse(id)
    \/ NextBar
    \/ Crash

Spec == Init /\ [][Next]_vars

(* The supervisor loops and the stream thread runs; the broker owes        *)
(* nothing but the fills of its market orders.                             *)
FairSpec ==
    /\ Spec
    /\ WF_vars(Cycle)
    /\ WF_vars(RecordFill)
    /\ \A id \in Ids : WF_vars(Side(id) = "sell" /\ Fill(id))
    /\ WF_vars(NextBar)

-----------------------------------------------------------------------------
(* Properties.                                                             *)

Traded(id) == IF Side(id) = "buy" THEN broker[id].filled ELSE -broker[id].filled
Held(c) == SumFunctionOnSet([id \in DOMAIN broker |-> Traded(id)],
                            {id \in DOMAIN broker : Contract(id) = c})
Closing(c) == {id \in Ids : /\ Contract(id) = c /\ Side(id) = "sell"
                            /\ rows[id].status # "absent"}

(* No row counts a fill the broker has not made: whatever is overwritten,   *)
(* sent again after a kill or recorded late, a position in the table is one *)
(* in the account, or was before it was sold.                              *)
CountedIsFilled == \A id \in DOMAIN rows : rows[id].filled <= broker[id].filled

(* The account is never short of a contract it bought: the sales of the     *)
(* close add up to what was bought, when fills are recorded between cycles. *)
NeverShort == \A c \in Contracts : Held(c) >= 0

(* A position in the table is one in the account, and is sold no more than  *)
(* once on a calm day.                                                     *)
OptionsAreCovered == CountedIsFilled /\ (calm => NeverShort)

(* The sale at the close is idempotent (2026-05-26-trading-system-bugs): no *)
(* second sale is recorded while one of the same contract is under way.    *)
ClosesOnce ==
    \A c \in Contracts :
        Cardinality({id \in Closing(c) : rows[id].status \in
                        {"pending_submit", "submitting", "submitted", "partially_filled"}}) <= 1

(* "Add open option position underlying symbols to prevent double-entry":   *)
(* the orders under way and the contracts held are of one entry a stock.   *)
OneEntry ==
    \A i, j \in {id \in Ids : Side(id) = "buy" /\ broker[id].status = "open"} :
        Underlying[Contract(i)] = Underlying[Contract(j)] => i = j

(* "sells all open option positions at EOD": what the account holds past     *)
(* the flatten time gets a sale on record, when nothing is killed.         *)
SellsAllAtClose ==
    \A c \in Contracts :
        (Held(c) > 0 /\ bar >= FlattenBar) ~> (Closing(c) # {} \/ Held(c) <= 0)
=============================================================================
