---------------------------- MODULE BooksProofs ----------------------------
(***************************************************************************)
(* What follows the trades, for any number of contracts, bars, kills, days *)
(* and strategies: no option row counts a fill that the broker has not     *)
(* made, and on a calm day no more is sold than was bought; the reports    *)
(* over the orders table say what the trades earned while rows are saved   *)
(* in turn, and agree in any case; an exclusion is for good.               *)
(***************************************************************************)
EXTENDS OptionOrders, TradeAccounting, SumLemmas, TLAPS

CONSTANTS Strategies, Options, LosingStreak, MaxRestarts

VARIABLES streak, today, held, announced, checked, weighed, logged, restarts, chance

Streaks == INSTANCE LosingStreaks

-----------------------------------------------------------------------------
(***************************************************************************)
(* Option orders. A row is overwritten with nothing filled, or with what   *)
(* an update says; an update says what the broker had filled by then, and  *)
(* that never becomes less, nor is an order accepted twice.                *)
(***************************************************************************)
RowsAreCounted ==
    /\ DOMAIN rows = Ids /\ rows = [id \in Ids |-> rows[id]]
    /\ \A id \in Ids : rows[id].filled \in Nat

BrokerIsCounted ==
    /\ DOMAIN broker = Ids /\ broker = [id \in Ids |-> broker[id]]
    /\ \A id \in Ids :
         /\ DOMAIN broker[id] = {"status", "quantity", "filled"}
         /\ broker[id] = [f \in DOMAIN broker[id] |-> broker[id][f]]
         /\ broker[id].filled \in Nat
         /\ broker[id].status = "none" => broker[id].filled = 0

UpdatesAreTrue ==
    /\ updates \in Seq([id : Ids, status : {"partially_filled", "filled", "canceled"}, filled : Nat])
    /\ \A i \in DOMAIN updates : updates[i].filled <= broker[updates[i].id].filled

Counted == RowsAreCounted /\ BrokerIsCounted /\ UpdatesAreTrue /\ CountedIsFilled

(* A row is overwritten with no more than the broker has filled.            *)
LEMMA OverwriteKeepsCounted ==
    ASSUME Counted, NEW id, NEW status, NEW quantity, NEW filled \in Nat,
           id \in Ids => filled <= broker[id].filled,
           rows' = [rows EXCEPT ![id] = Row(status, quantity, filled)]
    PROVE  RowsAreCounted' /\ \A i \in Ids : rows'[i].filled <= broker[i].filled
<1>1. Row(status, quantity, filled).filled = filled
  BY DEF Row
<1>2. \A i \in Ids : rows'[i] = IF i = id THEN Row(status, quantity, filled) ELSE rows[i]
  BY DEF Counted, RowsAreCounted
<1>3. DOMAIN rows' = Ids /\ rows' = [i \in Ids |-> rows'[i]]
  BY DEF Counted, RowsAreCounted
<1> QED
  BY <1>1, <1>2, <1>3 DEF Counted, RowsAreCounted, CountedIsFilled

(* The broker's orders only fill up.                                        *)
LEMMA BrokerOnlyFills ==
    ASSUME Counted, NEW id \in Ids, NEW order,
           DOMAIN order = {"status", "quantity", "filled"},
           order = [f \in DOMAIN order |-> order[f]],
           order.filled \in Nat, order.status # "none", broker[id].filled <= order.filled,
           broker' = [broker EXCEPT ![id] = order]
    PROVE  BrokerIsCounted' /\ \A i \in Ids : broker[i].filled <= broker'[i].filled
<1>1. \A i \in Ids : broker'[i] = IF i = id THEN order ELSE broker[i]
  BY DEF Counted, BrokerIsCounted
<1>2. DOMAIN broker' = Ids /\ broker' = [i \in Ids |-> broker'[i]]
  BY DEF Counted, BrokerIsCounted
<1> QED
  BY <1>1, <1>2 DEF Counted, BrokerIsCounted

(* Nothing is recorded, nothing is filled.                                  *)
LEMMA InitIsCounted == Init => Counted
  BY DEF Init, Counted, RowsAreCounted, BrokerIsCounted, UpdatesAreTrue, CountedIsFilled, Absent

Updates == [id : Ids, status : {"partially_filled", "filled", "canceled"}, filled : Nat]

(* A new report does not make the earlier ones wrong.                       *)
LEMMA ReportKeepsUpdates ==
    ASSUME Counted, BrokerIsCounted', \A i \in Ids : broker[i].filled <= broker'[i].filled,
           \/ updates' = updates
           \/ \E u \in Updates : u.filled <= broker'[u.id].filled /\ updates' = Append(updates, u)
    PROVE  UpdatesAreTrue'
<1>1. updates \in Seq(Updates) /\ \A i \in DOMAIN updates : updates[i].filled <= broker[updates[i].id].filled
  BY DEF Counted, UpdatesAreTrue, Updates
<1>2. ASSUME NEW u \in Updates PROVE u.id \in Ids /\ u.filled \in Nat
  BY <1>2 DEF Updates
<1>3. \A i \in DOMAIN updates : updates[i].filled <= broker'[updates[i].id].filled
  <2> SUFFICES ASSUME NEW i \in DOMAIN updates
               PROVE  updates[i].filled <= broker'[updates[i].id].filled
    OBVIOUS
  <2>1. updates[i] \in Updates
    BY <1>1
  <2> DEFINE id == updates[i].id
  <2>2. id \in Ids /\ updates[i].filled \in Nat
    BY <1>2, <2>1
  <2>3. broker[id].filled \in Nat /\ broker'[id].filled \in Nat
    BY <2>2 DEF Counted, BrokerIsCounted
  <2> QED
    BY <1>1, <2>2, <2>3
<1>4. CASE updates' = updates
  BY <1>1, <1>3, <1>4 DEF UpdatesAreTrue, Updates
<1>5. ASSUME NEW u \in Updates, u.filled <= broker'[u.id].filled, updates' = Append(updates, u)
      PROVE  UpdatesAreTrue'
  <2>1. updates' \in Seq(Updates) /\ Len(updates) \in Nat /\ DOMAIN updates' = 1 .. Len(updates) + 1
        /\ updates'[Len(updates) + 1] = u /\ \A i \in 1 .. Len(updates) : updates'[i] = updates[i]
    BY <1>1, <1>5
  <2>2. \A i \in DOMAIN updates' : updates'[i].filled <= broker'[updates'[i].id].filled
    <3> SUFFICES ASSUME NEW i \in 1 .. Len(updates) + 1
                 PROVE  updates'[i].filled <= broker'[updates'[i].id].filled
      BY <2>1
    <3>1. CASE i \in 1 .. Len(updates)
      <4>1. updates'[i] = updates[i] /\ i \in DOMAIN updates
        BY <1>1, <2>1, <3>1
      <4> QED
        BY <1>3, <4>1
    <3>2. CASE i = Len(updates) + 1
      BY <1>5, <2>1, <3>2
    <3> QED
      BY <2>1, <3>1, <3>2
  <2> QED
    BY <2>1, <2>2 DEF UpdatesAreTrue, Updates
<1> QED
  BY <1>4, <1>5

(* The supervisor's steps.                                                  *)
LEMMA CycleKeepsCounted == ASSUME Counted, Cycle PROVE Counted'
<1> USE DEF Counted
<1>1. CASE BeginCycle \/ List \/ EndDispatch \/ EndFlatten
  <2>1. UNCHANGED <<rows, broker, updates>>
    BY <1>1 DEF BeginCycle, List, EndDispatch, EndFlatten
  <2> QED
    BY <2>1 DEF RowsAreCounted, BrokerIsCounted, UpdatesAreTrue, CountedIsFilled
<1>2. CASE Choose
  <2>1. PICK chosen \in SUBSET Contracts :
          rows' = [id \in Ids |-> IF Contract(id) \in chosen /\ Side(id) = "buy" /\ id[3] = bar
                                  THEN Row("pending_submit", Quantity, 0) ELSE rows[id]]
    BY <1>2 DEF Choose
  <2>2. UNCHANGED <<broker, updates>>
    BY <1>2 DEF Choose
  <2>3. DOMAIN rows' = Ids /\ rows' = [id \in Ids |-> rows'[id]]
        /\ \A id \in Ids : rows'[id].filled \in {0, rows[id].filled}
    BY <2>1 DEF Row
  <2>4. RowsAreCounted' /\ CountedIsFilled'
    BY <2>2, <2>3 DEF RowsAreCounted, BrokerIsCounted, CountedIsFilled
  <2> QED
    BY <2>2, <2>4 DEF BrokerIsCounted, UpdatesAreTrue
<1>3. ASSUME NEW id, NEW status, NEW quantity, UNCHANGED <<broker, updates>>,
             rows' = [rows EXCEPT ![id] = Row(status, quantity, 0)]
      PROVE  Counted'
  <2>1. id \in Ids => 0 <= broker[id].filled
    BY DEF BrokerIsCounted
  <2>2. RowsAreCounted' /\ \A i \in Ids : rows'[i].filled <= broker[i].filled
    BY <1>3, <2>1, OverwriteKeepsCounted
  <2> QED
    BY <1>3, <2>2 DEF RowsAreCounted, BrokerIsCounted, UpdatesAreTrue, CountedIsFilled
<1>4. ASSUME NEW id \in Ids, SaveSubmitting(id) \/ SaveAnswer(id) PROVE Counted'
  BY <1>3, <1>4 DEF SaveSubmitting, SaveAnswer
<1>5. ASSUME NEW c \in Contracts, SaveSale(c) PROVE Counted'
  BY <1>3, <1>5 DEF SaveSale
<1>6. ASSUME NEW id \in Ids, Send(id) PROVE Counted'
  <2> DEFINE order(q) == [status |-> "open", quantity |-> q, filled |-> 0]
  <2>1. UNCHANGED <<rows, updates>>
    BY <1>6 DEF Send
  <2>2. \/ broker' = broker
        \/ broker[id].status = "none" /\ \E q : broker' = [broker EXCEPT ![id] = order(q)]
    BY <1>6 DEF Send
  <2>3. BrokerIsCounted' /\ \A i \in Ids : broker[i].filled <= broker'[i].filled
    <3>1. CASE broker' = broker
      BY <3>1 DEF BrokerIsCounted
    <3>2. ASSUME NEW q, broker[id].status = "none", broker' = [broker EXCEPT ![id] = order(q)]
          PROVE  BrokerIsCounted' /\ \A i \in Ids : broker[i].filled <= broker'[i].filled
      <4>1. broker[id].filled = 0
        BY <3>2 DEF BrokerIsCounted
      <4>2. /\ DOMAIN order(q) = {"status", "quantity", "filled"}
            /\ order(q) = [f \in DOMAIN order(q) |-> order(q)[f]]
            /\ order(q).filled \in Nat /\ order(q).status # "none" /\ order(q).filled = 0
        OBVIOUS
      <4> HIDE DEF order
      <4>3. broker[id].filled <= order(q).filled
        BY <4>1, <4>2
      <4> QED
        BY <3>2, <4>2, <4>3, BrokerOnlyFills
    <3> QED
      BY <2>2, <3>1, <3>2
  <2>4. UpdatesAreTrue'
    BY <2>1, <2>3, ReportKeepsUpdates
  <2>5. CountedIsFilled' /\ RowsAreCounted'
    BY <2>1, <2>3 DEF CountedIsFilled, RowsAreCounted, BrokerIsCounted
  <2> QED
    BY <2>3, <2>4, <2>5
<1> QED
  BY <1>1, <1>2, <1>4, <1>5, <1>6 DEF Cycle

(* The stream thread overwrites a row with what the broker had filled.      *)
LEMMA RecordFillKeepsCounted == ASSUME Counted, RecordFill PROVE Counted'
<1> USE DEF Counted
<1> DEFINE u == Head(updates)
<1>1. /\ updates # <<>> /\ updates' = Tail(updates) /\ UNCHANGED broker
      /\ \/ rows' = rows
         \/ \E status, quantity : rows' = [rows EXCEPT ![u.id] = Row(status, quantity, u.filled)]
  BY DEF RecordFill
<1>2. updates \in Seq(Updates)
  BY DEF UpdatesAreTrue, Updates
<1>3. u \in Updates /\ u.filled <= broker[u.id].filled
  <2>1. u = updates[1] /\ 1 \in DOMAIN updates
    BY <1>1, <1>2
  <2> QED
    BY <1>2, <2>1 DEF UpdatesAreTrue
<1>4. u.filled \in Nat
  BY <1>3 DEF Updates
<1> HIDE DEF u
<1>5. RowsAreCounted' /\ \A i \in Ids : rows'[i].filled <= broker[i].filled
  <2>1. CASE rows' = rows
    BY <2>1 DEF RowsAreCounted, CountedIsFilled
  <2>2. ASSUME NEW status, NEW quantity, rows' = [rows EXCEPT ![u.id] = Row(status, quantity, u.filled)]
        PROVE  RowsAreCounted' /\ \A i \in Ids : rows'[i].filled <= broker[i].filled
    <3>1. PICK id, filled : id = u.id /\ filled = u.filled
      OBVIOUS
    <3>2. filled \in Nat /\ filled <= broker[id].filled
      BY <1>3, <1>4, <3>1
    <3> QED
      BY <2>2, <3>1, <3>2, OverwriteKeepsCounted
  <2> QED
    BY <1>1, <2>1, <2>2
<1>6. UpdatesAreTrue'
  <2>1. /\ Tail(updates) \in Seq(Updates) /\ Len(updates) \in Nat \ {0}
        /\ DOMAIN Tail(updates) = 1 .. Len(updates) - 1
        /\ \A i \in 1 .. Len(updates) - 1 : Tail(updates)[i] = updates[i + 1] /\ i + 1 \in DOMAIN updates
    BY <1>1, <1>2
  <2> QED
    BY <1>1, <2>1 DEF UpdatesAreTrue, Updates
<1> QED
  BY <1>1, <1>5, <1>6 DEF RowsAreCounted, BrokerIsCounted, CountedIsFilled

(* The broker's fills and the end of an order.                              *)
LEMMA BrokerKeepsCounted ==
    ASSUME Counted, NEW id \in Ids, Fill(id) \/ Lapse(id)
    PROVE  Counted'
<1> USE DEF Counted
<1>1. broker[id].filled \in Nat
  BY DEF BrokerIsCounted
<1>2. PICK status, filled :
        /\ filled \in {broker[id].filled, broker[id].filled + 1}
        /\ status \in {"open", "done"}
        /\ broker' = [broker EXCEPT ![id] = [@ EXCEPT !.filled = filled, !.status = status]]
        /\ \E kind \in {"partially_filled", "filled", "canceled"} : Report(id, kind, filled)
  <2>1. CASE Fill(id)
    BY <2>1 DEF Fill
  <2>2. CASE Lapse(id)
    <3>1. /\ broker' = [broker EXCEPT ![id] = [@ EXCEPT !.status = "done"]]
          /\ Report(id, "canceled", broker[id].filled)
      BY <2>2 DEF Lapse
    <3>2. [broker[id] EXCEPT !.status = "done"]
            = [broker[id] EXCEPT !.filled = broker[id].filled, !.status = "done"]
      BY DEF BrokerIsCounted
    <3> QED
      BY <3>1, <3>2
  <2> QED
    BY <2>1, <2>2
<1>3. filled \in Nat /\ broker[id].filled <= filled
  BY <1>1, <1>2
<1>4. PICK order : order = [broker[id] EXCEPT !.filled = filled, !.status = status]
  OBVIOUS
<1>5. /\ DOMAIN order = {"status", "quantity", "filled"}
      /\ order = [f \in DOMAIN order |-> order[f]]
      /\ order.filled = filled /\ order.status = status
  BY <1>4 DEF BrokerIsCounted
<1>6. broker' = [broker EXCEPT ![id] = order]
  BY <1>2, <1>4
<1>7. BrokerIsCounted' /\ \A i \in Ids : broker[i].filled <= broker'[i].filled
  BY <1>2, <1>3, <1>5, <1>6, BrokerOnlyFills
<1>8. broker'[id].filled = filled
  BY <1>5, <1>6 DEF BrokerIsCounted
<1>9. UpdatesAreTrue'
  <2>1. PICK kind \in {"partially_filled", "filled", "canceled"} : Report(id, kind, filled)
    BY <1>2
  <2> DEFINE u == [id |-> id, status |-> kind, filled |-> filled]
  <2>2. u \in Updates /\ u.filled <= broker'[u.id].filled
    BY <1>3, <1>8 DEF Updates
  <2>3. updates' = Append(updates, u)
    BY <2>1 DEF Report
  <2> QED
    BY <1>7, <2>2, <2>3, ReportKeepsUpdates
<1>10. UNCHANGED rows
  BY DEF Fill, Lapse
<1>11. RowsAreCounted' /\ CountedIsFilled'
  BY <1>7, <1>10 DEF RowsAreCounted, CountedIsFilled, BrokerIsCounted
<1> QED
  BY <1>7, <1>9, <1>11

(* Every step keeps the invariant; a kill loses the updates not yet read.   *)
LEMMA NextKeepsCounted == Counted /\ [Next]_vars => Counted'
<1> SUFFICES ASSUME Counted, [Next]_vars PROVE Counted'
  OBVIOUS
<1>1. CASE Cycle
  BY <1>1, CycleKeepsCounted
<1>2. CASE RecordFill
  BY <1>2, RecordFillKeepsCounted
<1>3. ASSUME NEW id \in Ids, Fill(id) \/ Lapse(id) PROVE Counted'
  BY <1>3, BrokerKeepsCounted
<1>4. CASE NextBar \/ UNCHANGED vars
  <2>1. UNCHANGED <<rows, broker, updates>>
    BY <1>4 DEF NextBar, vars
  <2> QED
    BY <2>1 DEF Counted, RowsAreCounted, BrokerIsCounted, UpdatesAreTrue, CountedIsFilled
<1>5. CASE Crash
  <2>1. UNCHANGED <<rows, broker>> /\ updates' = <<>>
    BY <1>5 DEF Crash
  <2>2. UpdatesAreTrue'
    BY <2>1 DEF UpdatesAreTrue
  <2> QED
    BY <2>1, <2>2 DEF Counted, RowsAreCounted, BrokerIsCounted, CountedIsFilled
<1> QED
  BY <1>1, <1>2, <1>3, <1>4, <1>5 DEF Next

(* No row counts a fill the broker has not made: whatever is overwritten,   *)
(* sent again after a kill or recorded late, a position in the table is    *)
(* one in the account, or was before it was sold.                          *)
THEOREM OptionsCountFills == Spec => []CountedIsFilled
<1>1. Counted => CountedIsFilled
  BY DEF Counted
<1> QED
  BY <1>1, InitIsCounted, NextKeepsCounted, PTL DEF Spec

-----------------------------------------------------------------------------
(***************************************************************************)
(* Sales on a calm day. What is on record for sale is never more than what *)
(* was bought: a sale is saved for the net of the rows, when every earlier *)
(* sale of the contract has been filled and recorded in full.              *)
(***************************************************************************)
IdsOf(c) == {id \in Ids : Contract(id) = c}
Sells == {id \in Ids : Side(id) = "sell"}

(* What a contract owes or is owed: bought, less what is on record for sale. *)
Covered(id) == IF Side(id) = "buy" THEN broker[id].filled ELSE -rows[id].quantity
Cover(c) == SumFunctionOnSet([id \in Ids |-> Covered(id)], IdsOf(c))

(* On record, and not at the broker yet.                                    *)
Unsent(id) == rows[id].quantity > 0 /\ broker[id].status = "none"

(* A sale is at the broker as it is on record; its market order only fills. *)
SaleIsSent(id) ==
    /\ rows[id].quantity \in Nat
    /\ id[3] > sales => rows[id].quantity = 0
    /\ rows[id].status = "pending_submit" => Unsent(id)
    /\ broker[id].status # "none" =>
         /\ rows[id].quantity > 0
         /\ broker[id].quantity = rows[id].quantity
         /\ broker[id].filled <= rows[id].quantity
         /\ broker[id].status = IF broker[id].filled = rows[id].quantity THEN "done" ELSE "open"

(* A cycle sends what it listed.                                            *)
SaleIsInTurn(id) ==
    /\ process.at \in {"idle", "choose"} => ~Unsent(id)
    /\ process.at \in {"list", "flatten"} /\ Unsent(id) => rows[id].status = "pending_submit"
    /\ process.at \in {"dispatch", "send"} => (Unsent(id) <=> id \in process.todo)
    /\ process.at = "send" /\ id \in process.sending => rows[id].status # "pending_submit"
    /\ process.at = "answer" => (Unsent(id) <=> id \in process.todo \ process.sending)
    /\ process.at = "answer" /\ id \in process.sending => rows[id].filled = 0

(* Until a cycle saves sales itself, every sale has been filled in full.    *)
SaleIsFilled(id) ==
    /\ process.at \in {"choose", "list", "dispatch", "send", "answer"} /\ ~process.past
         => rows[id].filled = rows[id].quantity
    /\ process.at = "flatten" /\ Contract(id) \in process.todo
         => rows[id].filled = rows[id].quantity

(* What the broker has filled is on record, or on its way.                  *)
SaleIsReported(id) ==
    /\ (\A i \in DOMAIN updates : updates[i].id # id) => rows[id].filled = broker[id].filled
    /\ \A i \in DOMAIN updates : updates[i].id = id =>
         /\ updates[i].filled > 0
         /\ (\A j \in DOMAIN updates : j > i => updates[j].id # id)
              => updates[i].filled = broker[id].filled

SalesAreSound ==
    \A id \in Sells : SaleIsSent(id) /\ SaleIsInTurn(id) /\ SaleIsFilled(id) /\ SaleIsReported(id)

CycleIsSound ==
    /\ DOMAIN process = {"at", "working", "todo", "sending", "answer", "past", "usedBar"}
    /\ process = [f \in DOMAIN process |-> process[f]]
    /\ sales \in Nat
    /\ process.at \in {"idle", "choose", "list", "dispatch", "send", "answer", "flatten"}
    /\ process.answer \in {"none", "submitted", "failed"}
    /\ process.at \in {"send", "answer"} =>
         process.sending \subseteq process.todo /\ \A i, j \in process.sending : i = j
    /\ process.at = "flatten" => process.past /\ \A c \in process.todo : Net(c) > 0

Calm == SalesAreSound /\ CycleIsSound /\ \A c \in Contracts : Cover(c) >= 0

(* There are finitely many orders, each of a contract and on one side.      *)
LEMMA IdsAreFinite ==
    ASSUME OptionAssumption
    PROVE  IsFiniteSet(Ids) /\ \A c : IsFiniteSet(IdsOf(c))
<1>1. IsFiniteSet(1 .. LastBar) /\ IsFiniteSet(1 .. MaxSales) /\ IsFiniteSet(Contracts)
  BY FS_Interval DEF OptionAssumption
<1>2. ASSUME NEW side, NEW n, IsFiniteSet(1 .. n) PROVE IsFiniteSet(Contracts \X {side} \X (1 .. n))
  <2> DEFINE f == [p \in Contracts \X (1 .. n) |-> <<p[1], side, p[2]>>]
  <2>1. IsFiniteSet(Contracts \X (1 .. n))
    BY <1>1, <1>2, FS_Product
  <2>2. f \in Surjection(Contracts \X (1 .. n), Contracts \X {side} \X (1 .. n))
    <3>1. \A t \in Contracts \X {side} \X (1 .. n) :
            <<t[1], t[3]>> \in Contracts \X (1 .. n) /\ f[<<t[1], t[3]>>] = t
      OBVIOUS
    <3>2. f \in [Contracts \X (1 .. n) -> Contracts \X {side} \X (1 .. n)]
      OBVIOUS
    <3> HIDE DEF f
    <3> QED
      BY <3>1, <3>2 DEF Surjection
  <2> HIDE DEF f
  <2> QED
    BY <2>1, <2>2, FS_Surjection
<1>3. IsFiniteSet(Ids)
  BY <1>1, <1>2, FS_Union DEF Ids
<1> QED
  BY <1>3, FS_Subset DEF IdsOf

(* What an id says.                                                         *)
LEMMA IdsAreWhole ==
    /\ \A id \in Ids : Contract(id) \in Contracts /\ Side(id) \in {"buy", "sell"}
    /\ \A id \in Sells : id \in Ids /\ id[3] \in Nat /\ id = <<Contract(id), "sell", id[3]>>
    /\ \A c, n : LET id == <<c, "sell", n>>
                 IN  Contract(id) = c /\ Side(id) = "sell" /\ id[3] = n
                     /\ (id \in Ids => id \in Sells /\ id \in IdsOf(c))
<1>1. Ids \subseteq Contracts \X {"buy", "sell"} \X Nat
  BY DEF Ids
<1> QED
  BY <1>1 DEF Contract, Side, Sells, IdsOf

(* Every term of a sum is an integer.                                       *)
LEMMA TermsAreInt ==
    ASSUME Counted, SalesAreSound, NEW id \in Ids
    PROVE  /\ Covered(id) \in Int
           /\ rows[id].filled \in Nat /\ Amount(id) \in Int
           /\ broker[id].filled \in Nat /\ Traded(id) \in Int
  BY IdsAreWhole DEF Counted, RowsAreCounted, BrokerIsCounted, SalesAreSound, SaleIsSent,
     Covered, Amount, Traded, Sells

(* No more can be sold than is covered.                                     *)
LEMMA CalmIsCovered ==
    ASSUME OptionAssumption, Counted, Calm
    PROVE  NeverShort
<1> SUFFICES ASSUME NEW c \in Contracts PROVE Held(c) >= 0
  BY DEF NeverShort
<1> DEFINE v == [id \in Ids |-> Covered(id)]
           w == [id \in Ids |-> Traded(id)]
<1>1. Held(c) = SumFunctionOnSet(w, IdsOf(c))
  BY DEF Held, IdsOf, Counted, BrokerIsCounted
<1>2. \A id \in IdsOf(c) : v[id] \in Int /\ w[id] \in Int
  BY TermsAreInt DEF Calm, IdsOf
<1>3. \A id \in IdsOf(c) : v[id] <= w[id]
  <2> SUFFICES ASSUME NEW id \in IdsOf(c) PROVE Covered(id) <= Traded(id)
    BY DEF IdsOf
  <2>1. broker[id].filled \in Nat /\ (broker[id].status = "none" => broker[id].filled = 0)
    BY DEF Counted, BrokerIsCounted, IdsOf
  <2>2. CASE Side(id) = "buy"
    BY <2>1, <2>2 DEF Covered, Traded
  <2>3. CASE Side(id) # "buy"
    <3>1. SaleIsSent(id)
      BY <2>3, IdsAreWhole DEF Calm, SalesAreSound, Sells, IdsOf
    <3>2. rows[id].quantity \in Nat /\ broker[id].filled <= rows[id].quantity
      BY <2>1, <3>1 DEF SaleIsSent
    <3> QED
      BY <2>1, <2>3, <3>2 DEF Covered, Traded
  <2> QED
    BY <2>2, <2>3
<1>4. IsFiniteSet(IdsOf(c))
  BY IdsAreFinite
<1>5. Cover(c) = SumFunctionOnSet(v, IdsOf(c)) /\ Cover(c) >= 0
  BY DEF Calm, Cover
<1> HIDE DEF v, w
<1>6. SumFunctionOnSet(v, IdsOf(c)) <= SumFunctionOnSet(w, IdsOf(c))
  BY <1>2, <1>3, <1>4, SumGrows
<1>7. SumFunctionOnSet(v, IdsOf(c)) \in Int /\ SumFunctionOnSet(w, IdsOf(c)) \in Int
  BY <1>2, <1>4, SumIsInt
<1> QED
  BY <1>1, <1>5, <1>6, <1>7

(* What is covered stays covered while bought contracts are added.          *)
LEMMA CoverIsKept ==
    ASSUME OptionAssumption, NEW c \in Contracts, Cover(c) >= 0,
           \A id \in Ids : Covered(id) \in Int /\ Covered(id)' \in Int /\ Covered(id) <= Covered(id)'
    PROVE  Cover(c)' >= 0
<1>1. PICK v, w : v = [id \in Ids |-> Covered(id)] /\ w = [id \in Ids |-> Covered(id)']
  OBVIOUS
<1>2. Cover(c) = SumFunctionOnSet(v, IdsOf(c)) /\ Cover(c)' = SumFunctionOnSet(w, IdsOf(c))
  BY <1>1 DEF Cover
<1>3. \A id \in IdsOf(c) : v[id] \in Int /\ w[id] \in Int /\ v[id] <= w[id]
  BY <1>1 DEF IdsOf
<1>4. IsFiniteSet(IdsOf(c))
  BY IdsAreFinite
<1>5. SumFunctionOnSet(v, IdsOf(c)) <= SumFunctionOnSet(w, IdsOf(c))
  BY <1>3, <1>4, SumGrows
<1>6. SumFunctionOnSet(v, IdsOf(c)) \in Int /\ SumFunctionOnSet(w, IdsOf(c)) \in Int
  BY <1>3, <1>4, SumIsInt
<1> QED
  BY <1>2, <1>5, <1>6

(* The net of a contract depends on its own rows.                           *)
LEMMA NetIsKept ==
    ASSUME OptionAssumption, RowsAreCounted, NEW c,
           \A id \in IdsOf(c) : rows'[id] = rows[id]
    PROVE  Net(c)' = Net(c)
<1>1. PICK v, w, S :
        /\ v = [id \in Ids |-> Amount(id)]
        /\ w = [id \in Ids |-> Amount(id)']
        /\ S = {id \in Ids : Contract(id) = c /\ Executed(id)}
  OBVIOUS
<1>2. {id \in Ids : Contract(id) = c /\ Executed(id)'} = S
  BY <1>1 DEF Executed, IdsOf
<1>3. Net(c) = SumFunctionOnSet(v, S) /\ Net(c)' = SumFunctionOnSet(w, S)
  BY <1>1, <1>2, Zenon DEF Net
<1>4. \A id \in S : v[id] \in Int /\ v[id] = w[id]
  BY <1>1 DEF IdsOf, Amount, RowsAreCounted
<1>5. IsFiniteSet(S)
  <2>1. S \subseteq Ids
    BY <1>1
  <2> QED
    BY <2>1, IdsAreFinite, FS_Subset
<1> QED
  BY <1>3, <1>4, <1>5, SumOfEquals

(* When its sales have been filled, the net of a contract is covered.       *)
LEMMA NetIsCovered ==
    ASSUME OptionAssumption, Counted, SalesAreSound, NEW c \in Contracts,
           \A id \in Sells : Contract(id) = c => rows[id].filled = rows[id].quantity
    PROVE  Net(c) \in Int /\ Cover(c) \in Int /\ Net(c) <= Cover(c)
<1> DEFINE v == [id \in Ids |-> Amount(id)]
           w == [id \in Ids |-> Covered(id)]
           T == {id \in Ids : Contract(id) = c /\ Executed(id)}
           S == IdsOf(c)
<1>1. Net(c) = SumFunctionOnSet(v, T) /\ Cover(c) = SumFunctionOnSet(w, S)
  BY DEF Net, Cover
<1>2. T \in SUBSET S /\ IsFiniteSet(S) /\ IsFiniteSet(T)
  <2>1. T \in SUBSET S
    BY DEF IdsOf
  <2> HIDE DEF T
  <2> QED
    BY <2>1, IdsAreFinite, FS_Subset
<1>3. \A id \in S : v[id] \in Int /\ w[id] \in Int
  BY TermsAreInt DEF IdsOf
<1>4. ASSUME NEW id \in S
      PROVE  (id \in T => v[id] <= w[id]) /\ (id \notin T => w[id] >= 0)
  <2>1. id \in Ids /\ Contract(id) = c /\ rows[id].filled \in Nat /\ broker[id].filled \in Nat
        /\ rows[id].filled <= broker[id].filled
    BY TermsAreInt DEF IdsOf, Counted, CountedIsFilled, RowsAreCounted
  <2>2. CASE Side(id) = "buy"
    BY <2>1, <2>2 DEF Amount, Covered
  <2>3. CASE Side(id) # "buy"
    <3>1. rows[id].filled = rows[id].quantity
      BY <2>1, <2>3, IdsAreWhole DEF Sells
    <3> QED
      BY <2>1, <2>3, <3>1 DEF Amount, Covered, Executed
  <2> QED
    BY <2>2, <2>3
<1> HIDE DEF v, w, T, S
<1>5. SumFunctionOnSet(v, T) <= SumFunctionOnSet(w, S)
  BY <1>2, <1>3, <1>4, SumGrows
<1>6. SumFunctionOnSet(v, T) \in Int /\ SumFunctionOnSet(w, S) \in Int
  BY <1>2, <1>3, SumIsInt
<1> QED
  BY <1>1, <1>5, <1>6

(* Nothing is for sale.                                                     *)
LEMMA InitIsCalm == ASSUME OptionAssumption, Init PROVE Calm
<1>1. \A id \in Ids : rows[id] = Absent /\ broker[id].status = "none" /\ broker[id].filled = 0
  BY DEF Init
<1>2. updates = <<>> /\ sales = 0 /\ process = Idle(0)
  BY DEF Init
<1>3. SalesAreSound
  <2> SUFFICES ASSUME NEW id \in Sells
               PROVE  SaleIsSent(id) /\ SaleIsInTurn(id) /\ SaleIsFilled(id) /\ SaleIsReported(id)
    BY DEF SalesAreSound
  <2>1. id \in Ids /\ rows[id].status = "absent" /\ rows[id].quantity = 0 /\ rows[id].filled = 0
    BY <1>1 DEF Sells, Absent
  <2> QED
    BY <1>1, <1>2, <2>1 DEF SaleIsSent, SaleIsInTurn, SaleIsFilled, SaleIsReported, Unsent, Idle
<1>4. CycleIsSound
  BY <1>2 DEF CycleIsSound, Idle
<1>5. ASSUME NEW c \in Contracts PROVE Cover(c) >= 0
  <2> DEFINE w == [id \in Ids |-> Covered(id)]
             z == [id \in {} |-> 0]
  <2>1. \A id \in IdsOf(c) : w[id] = 0
    BY <1>1 DEF IdsOf, Covered, Absent
  <2>2. Cover(c) = SumFunctionOnSet(w, IdsOf(c))
    BY DEF Cover
  <2>3. IsFiniteSet(IdsOf(c)) /\ IsFiniteSet({}) /\ {} \in SUBSET IdsOf(c)
    BY IdsAreFinite, FS_EmptySet
  <2> HIDE DEF w, z
  <2>4. SumFunctionOnSet(z, {}) <= SumFunctionOnSet(w, IdsOf(c))
    BY <2>1, <2>3, SumGrows
  <2>5. SumFunctionOnSet(z, {}) = 0
    BY <2>3, SumOfNothing
  <2>6. SumFunctionOnSet(w, IdsOf(c)) \in Int
    BY <2>1, <2>3, SumIsInt
  <2> QED
    BY <2>2, <2>4, <2>5, <2>6
<1> QED
  BY <1>3, <1>4, <1>5 DEF Calm

(* Where the supervisor is, and what it has noted of an order, decides      *)
(* nothing about the account.                                              *)
LEMMA GoingOnKeepsCalm ==
    ASSUME OptionAssumption, Counted, Calm, UNCHANGED <<broker, updates, sales>>,
           \A id \in Sells : /\ rows'[id].quantity = rows[id].quantity
                             /\ rows'[id].filled = rows[id].filled
                             /\ rows'[id].status = "pending_submit"
                                  => rows[id].status = "pending_submit",
           \A id \in Sells : SaleIsInTurn(id)' /\ SaleIsFilled(id)', CycleIsSound'
    PROVE  Calm'
<1>1. \A id \in Sells : SaleIsSent(id)' /\ SaleIsReported(id)'
  BY DEF Calm, SalesAreSound, SaleIsSent, SaleIsReported, Unsent
<1>2. \A c \in Contracts : Cover(c)' >= 0
  <2> SUFFICES ASSUME NEW c \in Contracts PROVE Cover(c)' >= 0
    OBVIOUS
  <2>1. \A id \in Ids : Covered(id) \in Int /\ Covered(id)' = Covered(id)
    BY TermsAreInt, IdsAreWhole DEF Calm, Covered, Sells
  <2> QED
    BY <2>1, CoverIsKept DEF Calm
<1> QED
  BY <1>1, <1>2 DEF Calm, SalesAreSound

(* The supervisor's own steps: what is sent, or not yet, does not change.   *)
LEMMA CycleKeepsTurn ==
    ASSUME OptionAssumption, Counted, Calm, calm,
           BeginCycle \/ List \/ EndDispatch \/ EndFlatten
    PROVE  Calm'
<1>1. UNCHANGED <<rows, broker, updates, sales>>
  BY DEF BeginCycle, List, EndDispatch, EndFlatten
<1>2. /\ DOMAIN process = {"at", "working", "todo", "sending", "answer", "past", "usedBar"}
      /\ process = [f \in DOMAIN process |-> process[f]]
  BY DEF Calm, CycleIsSound
<1>3. \A c \in Contracts : Net(c)' = Net(c)
  BY <1>1 DEF Net, Amount, Executed
<1>4. \A id \in Sells : /\ SaleIsSent(id) /\ SaleIsInTurn(id) /\ SaleIsFilled(id) /\ SaleIsReported(id)
                        /\ id \in Ids
                        /\ rows[id].filled \in Nat /\ rows[id].quantity \in Nat
                        /\ rows'[id] = rows[id] /\ broker'[id] = broker[id]
  BY <1>1, TermsAreInt, IdsAreWhole DEF Calm, SalesAreSound, SaleIsSent
<1>5. CASE BeginCycle
  <2>1. process.at = "idle" /\ process'.at = "choose" /\ Settled
    BY <1>2, <1>5 DEF BeginCycle, Goto
  <2>2. CycleIsSound'
    BY <1>1, <1>2, <1>5, <2>1 DEF Calm, CycleIsSound, BeginCycle, Goto
  <2>3. ASSUME NEW id \in Sells PROVE SaleIsInTurn(id)' /\ SaleIsFilled(id)'
    <3>1. ~Unsent(id)
      BY <1>4, <2>1 DEF SaleIsInTurn
    <3>2. rows[id].filled = broker[id].filled /\ broker[id].status # "open"
      BY <1>4, <2>1 DEF SaleIsReported, Settled, Sells
    <3>3. rows[id].filled = rows[id].quantity
      BY <1>4, <3>1, <3>2 DEF SaleIsSent, Unsent, Counted, BrokerIsCounted
    <3> QED
      BY <1>4, <2>1, <3>1, <3>3 DEF SaleIsInTurn, SaleIsFilled, Unsent
  <2> QED
    BY <1>1, <2>2, <2>3, GoingOnKeepsCalm
<1>6. CASE List
  <2>1. /\ process.at = "list" /\ process'.at = "dispatch" /\ process'.todo = Pending
        /\ process'.past = process.past
    BY <1>2, <1>6 DEF List, Goto
  <2>2. CycleIsSound'
    BY <1>1, <1>2, <1>6, <2>1 DEF Calm, CycleIsSound, List, Goto
  <2>3. ASSUME NEW id \in Sells PROVE SaleIsInTurn(id)' /\ SaleIsFilled(id)'
    <3>1. Unsent(id) <=> id \in Pending
      BY <1>4, <2>1 DEF SaleIsInTurn, SaleIsSent, Pending
    <3> QED
      BY <1>4, <2>1, <3>1 DEF SaleIsInTurn, SaleIsFilled, Unsent
  <2> QED
    BY <1>1, <2>2, <2>3, GoingOnKeepsCalm
<1>7. CASE EndDispatch
  <2>1. process.at = "dispatch" /\ process.todo = {}
    BY <1>7 DEF EndDispatch
  <2>2. CASE process' = Idle(process.usedBar)
    <3>1. process'.at = "idle"
      BY <2>2 DEF Idle
    <3>2. CycleIsSound'
      BY <1>1, <2>2, <3>1 DEF Calm, CycleIsSound, Idle
    <3>3. ASSUME NEW id \in Sells PROVE SaleIsInTurn(id)' /\ SaleIsFilled(id)'
      BY <1>4, <2>1, <3>1 DEF SaleIsInTurn, SaleIsFilled, Unsent
    <3> QED
      BY <1>1, <3>2, <3>3, GoingOnKeepsCalm
  <2>3. CASE ~process.past /\ process' = [Goto("flatten") EXCEPT !.todo = OpenLong, !.past = TRUE]
    <3>1. process'.at = "flatten" /\ process'.todo = OpenLong /\ process'.past
      BY <1>2, <2>3 DEF Goto
    <3>2. CycleIsSound'
      <4>1. \A c \in process'.todo : Net(c)' > 0
        BY <1>3, <3>1 DEF OpenLong
      <4>2. /\ process'.answer = process.answer
            /\ DOMAIN process' = DOMAIN process /\ process' = [f \in DOMAIN process' |-> process'[f]]
        BY <1>2, <2>3 DEF Goto
      <4> QED
        BY <1>1, <1>2, <3>1, <4>1, <4>2 DEF Calm, CycleIsSound
    <3>3. ASSUME NEW id \in Sells PROVE SaleIsInTurn(id)' /\ SaleIsFilled(id)'
      BY <1>4, <2>1, <2>3, <3>1 DEF SaleIsInTurn, SaleIsFilled, Unsent
    <3> QED
      BY <1>1, <3>2, <3>3, GoingOnKeepsCalm
  <2> QED
    BY <1>7, <2>2, <2>3 DEF EndDispatch
<1>8. CASE EndFlatten
  <2>1. /\ process.at = "flatten" /\ process'.at = "list" /\ process.past /\ process'.past = process.past
    BY <1>2, <1>8 DEF EndFlatten, Goto, Calm, CycleIsSound
  <2>2. CycleIsSound'
    BY <1>1, <1>2, <1>8, <2>1 DEF Calm, CycleIsSound, EndFlatten, Goto
  <2>3. ASSUME NEW id \in Sells PROVE SaleIsInTurn(id)' /\ SaleIsFilled(id)'
    BY <1>4, <2>1 DEF SaleIsInTurn, SaleIsFilled, Unsent
  <2> QED
    BY <1>1, <2>2, <2>3, GoingOnKeepsCalm
<1> QED
  BY <1>5, <1>6, <1>7, <1>8

(* Entries are saved as rows of buys.                                       *)
LEMMA ChooseKeepsCalm ==
    ASSUME OptionAssumption, Counted, Calm, Choose
    PROVE  Calm'
<1>1. /\ DOMAIN process = {"at", "working", "todo", "sending", "answer", "past", "usedBar"}
      /\ process = [f \in DOMAIN process |-> process[f]]
  BY DEF Calm, CycleIsSound
<1>2. PICK chosen, used :
        /\ rows' = [id \in Ids |-> IF Contract(id) \in chosen /\ Side(id) = "buy" /\ id[3] = bar
                                   THEN Row("pending_submit", Quantity, 0) ELSE rows[id]]
        /\ process' = [Goto("list") EXCEPT !.usedBar = used]
  <2>1. PICK chosen \in SUBSET Contracts, on \in BOOLEAN :
          /\ rows' = [id \in Ids |-> IF Contract(id) \in chosen /\ Side(id) = "buy" /\ id[3] = bar
                                     THEN Row("pending_submit", Quantity, 0) ELSE rows[id]]
          /\ process' = [Goto("list") EXCEPT !.usedBar = IF on THEN bar ELSE @]
    BY Zenon DEF Choose
  <2> QED
    BY <2>1, Zenon
<1>3. process.at = "choose" /\ UNCHANGED <<broker, updates, sales>>
  BY DEF Choose
<1>4. /\ process'.at = "list" /\ process'.past = process.past /\ process'.answer = process.answer
      /\ DOMAIN process' = DOMAIN process /\ process' = [f \in DOMAIN process' |-> process'[f]]
  BY <1>1, <1>2 DEF Goto
<1>5. CycleIsSound'
  BY <1>1, <1>3, <1>4 DEF Calm, CycleIsSound
<1>6. \A id \in Sells : rows'[id] = rows[id]
  BY <1>2, IdsAreWhole DEF Sells
<1>7. ASSUME NEW id \in Sells PROVE SaleIsInTurn(id)' /\ SaleIsFilled(id)'
  <2>1. SaleIsInTurn(id) /\ SaleIsFilled(id) /\ rows'[id] = rows[id]
    BY <1>6 DEF Calm, SalesAreSound
  <2> QED
    BY <1>3, <1>4, <2>1 DEF SaleIsInTurn, SaleIsFilled, Unsent
<1> QED
  BY <1>3, <1>5, <1>6, <1>7, GoingOnKeepsCalm

(* A row is overwritten before and after its order is sent.                 *)
LEMMA SavingKeepsCalm ==
    ASSUME OptionAssumption, Counted, Calm, NEW id \in Ids, SaveSubmitting(id) \/ SaveAnswer(id)
    PROVE  Calm'
<1>1. /\ DOMAIN process = {"at", "working", "todo", "sending", "answer", "past", "usedBar"}
      /\ process = [f \in DOMAIN process |-> process[f]]
  BY DEF Calm, CycleIsSound
<1>2. UNCHANGED <<broker, updates, sales>>
  BY DEF SaveSubmitting, SaveAnswer
<1>3. \A i \in Sells : /\ SaleIsSent(i) /\ SaleIsInTurn(i) /\ SaleIsFilled(i) /\ i \in Ids
                       /\ rows[i].filled \in Nat /\ rows[i].filled <= broker[i].filled
                       /\ broker[i].status = "none" => broker[i].filled = 0
                       /\ broker[i].filled \in Nat
  BY IdsAreWhole DEF Calm, SalesAreSound, Counted, CountedIsFilled, RowsAreCounted, BrokerIsCounted
<1>4. CASE SaveSubmitting(id)
  <2>1. /\ process.at = "dispatch" /\ id \in process.todo
        /\ process'.at = "send" /\ process'.sending = {id}
        /\ process'.todo = process.todo /\ process'.past = process.past
        /\ process'.answer = process.answer
        /\ DOMAIN process' = DOMAIN process /\ process' = [f \in DOMAIN process' |-> process'[f]]
    BY <1>1, <1>4 DEF SaveSubmitting, Goto
  <2>2. CycleIsSound'
    BY <1>1, <1>2, <2>1 DEF Calm, CycleIsSound
  <2>3. \A i \in Ids : rows'[i] = IF i = id THEN Row("submitting", rows[id].quantity, 0) ELSE rows[i]
    BY <1>4 DEF SaveSubmitting, Counted, RowsAreCounted
  <2>4. ASSUME NEW i \in Sells
        PROVE  /\ rows'[i].quantity = rows[i].quantity /\ rows'[i].filled = rows[i].filled
               /\ rows'[i].status = IF i = id THEN "submitting" ELSE rows[i].status
    <3>1. i = id => Unsent(id)
      BY <1>3, <2>1 DEF SaleIsInTurn
    <3>2. i = id => rows[i].filled = 0
      BY <1>3, <3>1 DEF Unsent
    <3> QED
      BY <1>3, <2>3, <3>2 DEF Row
  <2>5. ASSUME NEW i \in Sells PROVE SaleIsInTurn(i)' /\ SaleIsFilled(i)'
    BY <1>2, <1>3, <2>1, <2>4 DEF SaleIsInTurn, SaleIsFilled, Unsent
  <2>6. \A i \in Sells : rows'[i].status = "pending_submit" => rows[i].status = "pending_submit"
    BY <2>4
  <2> QED
    BY <1>2, <2>2, <2>4, <2>5, <2>6, GoingOnKeepsCalm
<1>5. CASE SaveAnswer(id)
  <2>1. /\ process.at = "answer" /\ id \in process.sending
        /\ process'.at = "dispatch" /\ process'.sending = {}
        /\ process'.todo = process.todo \ {id} /\ process'.past = process.past
        /\ process'.answer = process.answer
        /\ DOMAIN process' = DOMAIN process /\ process' = [f \in DOMAIN process' |-> process'[f]]
    BY <1>1, <1>5 DEF SaveAnswer, Goto
  <2>2. CycleIsSound'
    BY <1>1, <1>2, <2>1 DEF Calm, CycleIsSound
  <2>3. \A i \in Ids : rows'[i] = IF i = id THEN Row(process.answer, rows[id].quantity, 0) ELSE rows[i]
    BY <1>5 DEF SaveAnswer, Counted, RowsAreCounted
  <2>4. ASSUME NEW i \in Sells
        PROVE  /\ rows'[i].quantity = rows[i].quantity /\ rows'[i].filled = rows[i].filled
               /\ rows'[i].status = IF i = id THEN process.answer ELSE rows[i].status
    <3>1. i = id => rows[i].filled = 0
      BY <1>3, <2>1 DEF SaleIsInTurn
    <3> QED
      BY <1>3, <2>3, <3>1 DEF Row
  <2>5. process.sending = {id}
    BY <2>1 DEF Calm, CycleIsSound
  <2>6. ASSUME NEW i \in Sells PROVE SaleIsInTurn(i)' /\ SaleIsFilled(i)'
    BY <1>2, <1>3, <2>1, <2>4, <2>5 DEF SaleIsInTurn, SaleIsFilled, Unsent
  <2>7. \A i \in Sells : rows'[i].status = "pending_submit" => rows[i].status = "pending_submit"
    BY <2>4 DEF Calm, CycleIsSound
  <2> QED
    BY <1>2, <2>2, <2>4, <2>6, <2>7, GoingOnKeepsCalm
<1> QED
  BY <1>4, <1>5

(* A sale is sent once; on a calm day the broker takes it.                  *)
LEMMA SendKeepsCalm ==
    ASSUME OptionAssumption, Counted, Counted', Calm, calm, NEW id \in Ids, Send(id)
    PROVE  Calm'
<1>1. /\ DOMAIN process = {"at", "working", "todo", "sending", "answer", "past", "usedBar"}
      /\ process = [f \in DOMAIN process |-> process[f]]
  BY DEF Calm, CycleIsSound
<1>2. UNCHANGED <<rows, updates, sales>> /\ process.at = "send" /\ id \in process.sending
  BY DEF Send
<1>3. /\ process'.at = "answer" /\ process'.answer \in {"submitted", "failed"}
      /\ process'.sending = process.sending
      /\ process'.todo = process.todo /\ process'.past = process.past
      /\ DOMAIN process' = DOMAIN process /\ process' = [f \in DOMAIN process' |-> process'[f]]
  <2>1. PICK accepted \in BOOLEAN, answered \in BOOLEAN :
          process' = [Goto("answer") EXCEPT
                        !.answer = IF accepted /\ answered THEN "submitted" ELSE "failed"]
    BY Zenon DEF Send
  <2>2. PICK answer : answer \in {"submitted", "failed"}
                      /\ process' = [Goto("answer") EXCEPT !.answer = answer]
    BY <2>1, Zenon
  <2> QED
    BY <1>1, <2>2 DEF Goto
<1>4. /\ broker[id].status = "none" =>
           broker' = [broker EXCEPT ![id] =
                        [status |-> "open", quantity |-> rows[id].quantity, filled |-> 0]]
      /\ broker[id].status # "none" => broker' = broker
  BY DEF Send
<1>5. process.sending = {id} /\ id \in process.todo
  BY <1>2 DEF Calm, CycleIsSound
<1>6. CycleIsSound'
  BY <1>1, <1>2, <1>3 DEF Calm, CycleIsSound
<1>7. ASSUME NEW i \in Ids
      PROVE  /\ broker[i].filled \in Nat
             /\ broker[i].status = "none" => broker[i].filled = 0
             /\ i # id => broker'[i] = broker[i]
             /\ i = id => IF broker[i].status = "none"
                          THEN broker'[i].status = "open" /\ broker'[i].filled = 0
                               /\ broker'[i].quantity = rows[i].quantity
                          ELSE broker'[i] = broker[i]
  BY <1>4 DEF Counted, BrokerIsCounted
<1>8. ASSUME NEW i \in Sells
      PROVE  SaleIsSent(i)' /\ SaleIsInTurn(i)' /\ SaleIsFilled(i)' /\ SaleIsReported(i)'
  <2>1. /\ SaleIsSent(i) /\ SaleIsInTurn(i) /\ SaleIsFilled(i) /\ SaleIsReported(i) /\ i \in Ids
        /\ rows'[i] = rows[i] /\ rows[i].filled \in Nat /\ rows[i].filled <= broker[i].filled
    BY <1>2, IdsAreWhole
       DEF Calm, SalesAreSound, Counted, CountedIsFilled, RowsAreCounted
  <2>2. broker'[i].filled = broker[i].filled
    BY <1>7, <2>1
  <2>3. CASE i = id
    <3>1. Unsent(i) /\ rows[i].status # "pending_submit"
      BY <1>2, <1>5, <2>1, <2>3 DEF SaleIsInTurn
    <3>2. rows[i].filled = 0 /\ broker[i].filled = 0 /\ broker'[i].status = "open"
          /\ broker'[i].filled = 0 /\ broker'[i].quantity = rows[i].quantity
      BY <1>7, <2>1, <2>3, <3>1 DEF Unsent
    <3>3. SaleIsSent(i)'
      BY <1>2, <2>1, <3>1, <3>2 DEF SaleIsSent, Unsent
    <3>4. SaleIsInTurn(i)' /\ SaleIsFilled(i)'
      BY <1>2, <1>3, <1>5, <2>1, <2>3, <3>2 DEF SaleIsInTurn, SaleIsFilled, Unsent
    <3>5. SaleIsReported(i)'
      BY <1>2, <2>1, <2>2 DEF SaleIsReported
    <3> QED
      BY <3>3, <3>4, <3>5
  <2>4. CASE i # id
    <3>1. broker'[i] = broker[i]
      BY <1>7, <2>1, <2>4
    <3>2. SaleIsSent(i)' /\ SaleIsReported(i)'
      BY <1>2, <2>1, <3>1 DEF SaleIsSent, Unsent, SaleIsReported
    <3>3. SaleIsInTurn(i)' /\ SaleIsFilled(i)'
      BY <1>2, <1>3, <1>5, <2>1, <2>4, <3>1 DEF SaleIsInTurn, SaleIsFilled, Unsent
    <3> QED
      BY <3>2, <3>3
  <2> QED
    BY <2>3, <2>4
<1>9. ASSUME NEW c \in Contracts PROVE Cover(c)' >= 0
  <2>1. \A i \in Ids : Covered(i) \in Int /\ Covered(i)' = Covered(i)
    BY <1>2, <1>7, TermsAreInt DEF Calm, Covered
  <2> QED
    BY <2>1, CoverIsKept DEF Calm
<1> QED
  BY <1>6, <1>8, <1>9 DEF Calm, SalesAreSound

(* A sale is saved for the net of the rows.                                 *)
LEMMA SaveSaleKeepsCalm ==
    ASSUME OptionAssumption, Counted, Counted', Calm, NEW c \in Contracts, SaveSale(c)
    PROVE  Calm'
<1>1. /\ DOMAIN process = {"at", "working", "todo", "sending", "answer", "past", "usedBar"}
      /\ process = [f \in DOMAIN process |-> process[f]]
  BY DEF Calm, CycleIsSound
<1>2. /\ UNCHANGED <<broker, updates>> /\ process.at = "flatten" /\ c \in process.todo
      /\ sales \in Nat /\ sales' = sales + 1
  BY DEF SaveSale, Calm, CycleIsSound
<1>3. /\ process'.at = "flatten" /\ process'.todo = process.todo \ {c}
      /\ process'.past = process.past /\ process'.answer = process.answer
      /\ DOMAIN process' = DOMAIN process /\ process' = [f \in DOMAIN process' |-> process'[f]]
  BY <1>1, <1>2 DEF SaveSale
<1>4. PICK new, net : new = <<c, "sell", sales + 1>> /\ net = Net(c)
  OBVIOUS
<1>5. \A i \in Ids : rows'[i] = IF i = new THEN Row("pending_submit", net, 0) ELSE rows[i]
  BY <1>4 DEF SaveSale, Counted, RowsAreCounted
<1>6. /\ net > 0 /\ net \in Int /\ Cover(c) \in Int /\ net <= Cover(c)
  <2>1. \A id \in Sells : Contract(id) = c => rows[id].filled = rows[id].quantity
    BY <1>2 DEF Calm, SalesAreSound, SaleIsFilled
  <2>2. Net(c) \in Int /\ Cover(c) \in Int /\ Net(c) <= Cover(c)
    BY <2>1, NetIsCovered DEF Calm
  <2>3. Net(c) > 0
    BY <1>2 DEF Calm, CycleIsSound
  <2> QED
    BY <1>4, <2>2, <2>3
<1>7. Contract(new) = c /\ Side(new) = "sell" /\ new[3] = sales + 1
      /\ (new \in Ids => new \in Sells /\ new \in IdsOf(c))
  BY <1>4, IdsAreWhole
<1>8. new \in Ids => /\ rows[new].quantity = 0 /\ rows[new].filled = 0
                     /\ broker[new].status = "none" /\ broker[new].filled = 0
  <2> SUFFICES ASSUME new \in Ids
               PROVE  /\ rows[new].quantity = 0 /\ rows[new].filled = 0
                      /\ broker[new].status = "none" /\ broker[new].filled = 0
    OBVIOUS
  <2>1. SaleIsSent(new)
    BY <1>7 DEF Calm, SalesAreSound
  <2>2. new[3] > sales
    BY <1>2, <1>7
  <2> QED
    BY <2>1, <2>2 DEF SaleIsSent, Counted, RowsAreCounted, BrokerIsCounted, CountedIsFilled
<1>9. CycleIsSound'
  <2>1. ASSUME NEW d \in process'.todo PROVE Net(d)' > 0
    <3>1. d # c /\ Net(d) > 0
      BY <1>2, <1>3, <2>1 DEF Calm, CycleIsSound
    <3>2. \A id \in IdsOf(d) : rows'[id] = rows[id]
      BY <1>5, <1>7, <3>1 DEF IdsOf
    <3>3. Net(d)' = Net(d)
      BY <3>2, NetIsKept DEF Counted
    <3> QED
      BY <3>1, <3>3
  <2> QED
    BY <1>1, <1>2, <1>3, <2>1 DEF Calm, CycleIsSound
<1>10. ASSUME NEW i \in Sells
       PROVE  SaleIsSent(i)' /\ SaleIsInTurn(i)' /\ SaleIsFilled(i)' /\ SaleIsReported(i)'
  <2>1. /\ SaleIsSent(i) /\ SaleIsInTurn(i) /\ SaleIsFilled(i) /\ SaleIsReported(i)
        /\ i \in Ids /\ i[3] \in Nat /\ broker'[i] = broker[i]
    BY <1>2, IdsAreWhole DEF Calm, SalesAreSound
  <2>2. CASE i = new
    <3>1. rows'[i].status = "pending_submit" /\ rows'[i].quantity = net /\ rows'[i].filled = 0
      BY <1>5, <2>1, <2>2 DEF Row
    <3>2. SaleIsSent(i)'
      BY <1>2, <1>6, <1>7, <1>8, <2>1, <2>2, <3>1 DEF SaleIsSent, Unsent
    <3>3. SaleIsInTurn(i)' /\ SaleIsFilled(i)'
      BY <1>2, <1>3, <1>7, <2>2, <3>1 DEF SaleIsInTurn, SaleIsFilled
    <3>4. SaleIsReported(i)'
      BY <1>2, <1>8, <2>1, <2>2, <3>1 DEF SaleIsReported
    <3> QED
      BY <3>2, <3>3, <3>4
  <2>3. CASE i # new
    <3>1. rows'[i] = rows[i]
      BY <1>5, <2>1, <2>3
    <3>2. SaleIsSent(i)'
      BY <1>2, <2>1, <3>1 DEF SaleIsSent, Unsent
    <3>3. SaleIsInTurn(i)' /\ SaleIsFilled(i)' /\ SaleIsReported(i)'
      BY <1>2, <1>3, <2>1, <3>1 DEF SaleIsInTurn, SaleIsFilled, SaleIsReported, Unsent
    <3> QED
      BY <3>2, <3>3
  <2> QED
    BY <2>2, <2>3
<1>11. ASSUME NEW d \in Contracts PROVE Cover(d)' >= 0
  <2>1. ASSUME NEW i \in Ids
        PROVE  /\ Covered(i) \in Int /\ Covered(i)' \in Int
               /\ Covered(i)' = IF i = new THEN Covered(i) - net ELSE Covered(i)
    <3>1. Covered(i) \in Int
      BY TermsAreInt DEF Calm
    <3>2. CASE i = new
      <4>1. Covered(i) = -rows[i].quantity /\ Covered(i)' = -rows'[i].quantity
        BY <1>7, <3>2 DEF Covered
      <4>2. rows[i].quantity = 0 /\ rows'[i].quantity = net
        BY <1>5, <1>8, <3>2 DEF Row
      <4> QED
        BY <1>6, <3>1, <3>2, <4>1, <4>2
    <3>3. CASE i # new
      BY <1>2, <1>5, <3>1, <3>3 DEF Covered
    <3> QED
      BY <3>2, <3>3
  <2>2. PICK v, w : v = [id \in Ids |-> Covered(id)] /\ w = [id \in Ids |-> Covered(id)']
    OBVIOUS
  <2>3. PICK ids : ids = IdsOf(d) /\ IsFiniteSet(ids)
    BY IdsAreFinite
  <2>4. Cover(d) = SumFunctionOnSet(v, ids) /\ Cover(d)' = SumFunctionOnSet(w, ids)
    BY <2>2, <2>3 DEF Cover
  <2>5. \A i \in ids : v[i] \in Int /\ w[i] \in Int /\ w[i] = IF i = new THEN v[i] - net ELSE v[i]
    BY <2>1, <2>2, <2>3 DEF IdsOf
  <2>6. SumFunctionOnSet(v, ids) \in Int /\ SumFunctionOnSet(w, ids) \in Int
    BY <2>3, <2>5, SumIsInt
  <2>7. CASE new \in ids
    <3>1. d = c
      BY <1>7, <2>3, <2>7 DEF IdsOf
    <3>2. SumFunctionOnSet(v, ids) - v[new] = SumFunctionOnSet(w, ids) - w[new]
      BY <2>3, <2>5, <2>7, SumChanges
    <3>3. v[new] \in Int /\ w[new] = v[new] - net
      BY <2>5, <2>7
    <3> QED
      BY <1>6, <2>4, <2>6, <3>1, <3>2, <3>3
  <2>8. CASE new \notin ids
    <3>1. SumFunctionOnSet(v, ids) = SumFunctionOnSet(w, ids)
      BY <2>3, <2>5, <2>8, SumOfEquals
    <3> QED
      BY <2>4, <3>1 DEF Calm
  <2> QED
    BY <2>7, <2>8
<1> QED
  BY <1>9, <1>10, <1>11 DEF Calm, SalesAreSound

(* What a row says.                                                         *)
LEMMA RowSays ==
    ASSUME NEW status, NEW quantity, NEW filled
    PROVE  LET row == Row(status, quantity, filled)
           IN  row.status = status /\ row.quantity = quantity /\ row.filled = filled
  BY DEF Row

(* The updates of an order are recorded in turn, and the last one is right. *)
LEMMA RecordFillKeepsCalm ==
    ASSUME OptionAssumption, Counted, Counted', Calm, calm, RecordFill
    PROVE  Calm'
<1>1. UNCHANGED <<broker, process, sales>> /\ process.at = "idle"
  BY DEF RecordFill
<1>2. PICK u : u = Head(updates)
  OBVIOUS
<1>3. /\ updates # <<>> /\ updates' = Tail(updates)
      /\ rows' = IF u.filled > 0 /\ rows[u.id] # Absent
                 THEN [rows EXCEPT ![u.id] = Row(u.status, @.quantity, u.filled)]
                 ELSE rows
  BY <1>2 DEF RecordFill
<1>4. updates \in Seq(Updates)
  BY DEF Counted, UpdatesAreTrue, Updates
<1>5. /\ Len(updates) \in Nat \ {0} /\ DOMAIN updates = 1 .. Len(updates) /\ u = updates[1]
      /\ DOMAIN updates' = 1 .. Len(updates) - 1
      /\ \A i \in DOMAIN updates' : updates'[i] = updates[i + 1]
  BY <1>2, <1>3, <1>4
<1>6. u \in Updates
  BY <1>4, <1>5
<1>7. u.id \in Ids /\ u.filled \in Nat /\ u.filled <= broker[u.id].filled
      /\ u.status \in {"partially_filled", "filled", "canceled"}
  BY <1>5, <1>6 DEF Updates, Counted, UpdatesAreTrue
<1>8. ASSUME NEW i \in Ids
      PROVE  \/ rows'[i] = rows[i]
             \/ i = u.id /\ rows'[i] = Row(u.status, rows[i].quantity, u.filled)
  BY <1>3 DEF Counted, RowsAreCounted
<1>9. ASSUME NEW i \in Sells, i = u.id
      PROVE  rows'[i] = Row(u.status, rows[i].quantity, u.filled)
  <2>1. SaleIsSent(i) /\ SaleIsReported(i) /\ i \in Ids
    BY IdsAreWhole DEF Calm, SalesAreSound
  <2>2. u.filled > 0
    BY <1>5, <1>9, <2>1 DEF SaleIsReported
  <2>3. broker[i].status # "none"
    BY <1>7, <1>9, <2>1, <2>2 DEF Counted, BrokerIsCounted
  <2>4. rows[i].quantity > 0
    BY <2>1, <2>3 DEF SaleIsSent
  <2>5. rows[i] # Absent
    BY <2>4 DEF Absent
  <2> QED
    BY <1>3, <1>9, <2>1, <2>2, <2>5 DEF Counted, RowsAreCounted
<1>10. ASSUME NEW i \in Sells
       PROVE  SaleIsSent(i)' /\ SaleIsInTurn(i)' /\ SaleIsFilled(i)' /\ SaleIsReported(i)'
  <2>1. /\ SaleIsSent(i) /\ SaleIsInTurn(i) /\ SaleIsReported(i)
        /\ i \in Ids /\ broker'[i] = broker[i]
    BY <1>1, IdsAreWhole DEF Calm, SalesAreSound
  <2>2. /\ rows'[i].quantity = rows[i].quantity
        /\ rows'[i].status = "pending_submit" => rows[i].status = "pending_submit"
        /\ i # u.id => rows'[i] = rows[i]
        /\ i = u.id => rows'[i].filled = u.filled
    <3>1. CASE i = u.id
      BY <1>7, <1>9, <3>1, RowSays
    <3>2. CASE i # u.id
      BY <1>8, <2>1, <3>2
    <3> QED
      BY <3>1, <3>2
  <2>3. SaleIsSent(i)'
    BY <1>1, <2>1, <2>2 DEF SaleIsSent, Unsent
  <2>4. SaleIsInTurn(i)' /\ SaleIsFilled(i)'
    BY <1>1, <2>1, <2>2 DEF SaleIsInTurn, SaleIsFilled, Unsent
  <2>5. SaleIsReported(i)'
    <3>1. ASSUME NEW k \in DOMAIN updates', updates'[k].id = i
          PROVE  /\ updates'[k].filled > 0
                 /\ (\A j \in DOMAIN updates' : j > k => updates'[j].id # i)
                      => updates'[k].filled = broker'[i].filled
      <4>1. k + 1 \in DOMAIN updates /\ updates[k + 1].id = i /\ updates'[k] = updates[k + 1]
        BY <1>5, <3>1
      <4>2. ASSUME \A j \in DOMAIN updates' : j > k => updates'[j].id # i
            PROVE  \A j \in DOMAIN updates : j > k + 1 => updates[j].id # i
        <5> SUFFICES ASSUME NEW j \in DOMAIN updates, j > k + 1 PROVE updates[j].id # i
          OBVIOUS
        <5>1. j - 1 \in DOMAIN updates' /\ j - 1 > k /\ updates'[j - 1] = updates[j]
          BY <1>5
        <5> QED
          BY <4>2, <5>1
      <4> QED
        BY <2>1, <4>1, <4>2 DEF SaleIsReported
    <3>2. ASSUME \A k \in DOMAIN updates' : updates'[k].id # i
          PROVE  rows'[i].filled = broker'[i].filled
      <4>1. \A j \in DOMAIN updates : j > 1 => updates[j].id # i
        <5> SUFFICES ASSUME NEW j \in DOMAIN updates, j > 1 PROVE updates[j].id # i
          OBVIOUS
        <5>1. j - 1 \in DOMAIN updates' /\ updates'[j - 1] = updates[j]
          BY <1>5
        <5> QED
          BY <3>2, <5>1
      <4>2. CASE i = u.id
        <5>1. 1 \in DOMAIN updates /\ updates[1].id = i /\ updates[1].filled = u.filled
          BY <1>5, <4>2
        <5>2. u.filled = broker[i].filled
          BY <2>1, <4>1, <5>1 DEF SaleIsReported
        <5> QED
          BY <2>1, <2>2, <4>2, <5>2
      <4>3. CASE i # u.id
        <5>1. \A j \in DOMAIN updates : updates[j].id # i
          <6> SUFFICES ASSUME NEW j \in DOMAIN updates PROVE updates[j].id # i
            OBVIOUS
          <6>1. j = 1 \/ j > 1
            BY <1>5
          <6> QED
            BY <1>5, <4>1, <4>3, <6>1
        <5> QED
          BY <2>1, <2>2, <4>3, <5>1 DEF SaleIsReported
      <4> QED
        BY <4>2, <4>3
    <3> QED
      BY <3>1, <3>2 DEF SaleIsReported
  <2> QED
    BY <2>3, <2>4, <2>5
<1>11. CycleIsSound'
  BY <1>1 DEF Calm, CycleIsSound
<1>12. ASSUME NEW c \in Contracts PROVE Cover(c)' >= 0
  <2>1. ASSUME NEW i \in Ids PROVE Covered(i) \in Int /\ Covered(i)' = Covered(i)
    <3>1. rows'[i].quantity = rows[i].quantity
      BY <1>8, RowSays
    <3> QED
      BY <1>1, <3>1, TermsAreInt DEF Calm, Covered
  <2> QED
    BY <2>1, CoverIsKept DEF Calm
<1> QED
  BY <1>10, <1>11, <1>12 DEF Calm, SalesAreSound

(* The broker fills a sale until it is done, and reports every fill.        *)
LEMMA ReportKeepsCalm ==
    ASSUME OptionAssumption, Counted, Counted', Calm, UNCHANGED <<rows, process, sales>>,
           NEW id \in Ids, broker[id].status = "open", NEW status, NEW filled, NEW kind,
           broker' = [broker EXCEPT ![id] = [@ EXCEPT !.filled = filled, !.status = status]],
           updates' = Append(updates, [id |-> id, status |-> kind, filled |-> filled]),
           filled = broker[id].filled \/ filled = broker[id].filled + 1,
           Side(id) # "buy" => /\ filled = broker[id].filled + 1
                               /\ status = IF filled = broker[id].quantity THEN "done" ELSE "open"
    PROVE  Calm'
<1>1. /\ broker[id].filled \in Nat /\ filled \in Nat /\ broker[id].filled <= filled
      /\ broker'[id].filled = filled /\ broker'[id].status = status
      /\ broker'[id].quantity = broker[id].quantity
      /\ \A i \in Ids \ {id} : broker'[i] = broker[i]
  <2>1. broker[id].filled \in Nat
    BY DEF Counted, BrokerIsCounted
  <2>2. /\ broker'[id] = [broker[id] EXCEPT !.filled = filled, !.status = status]
        /\ \A i \in Ids \ {id} : broker'[i] = broker[i]
    BY DEF Counted, BrokerIsCounted
  <2>3. DOMAIN broker[id] = {"status", "quantity", "filled"}
    BY DEF Counted, BrokerIsCounted
  <2>4. /\ broker'[id].filled = filled /\ broker'[id].status = status
        /\ broker'[id].quantity = broker[id].quantity
    <3>1. PICK order, after : order = broker[id] /\ after = [order EXCEPT !.filled = filled, !.status = status]
      OBVIOUS
    <3>2. DOMAIN order = {"status", "quantity", "filled"} /\ broker'[id] = after
      BY <2>2, <2>3, <3>1
    <3>3. after.status = status /\ after.quantity = order.quantity /\ after.filled = filled
      BY <3>1, <3>2
    <3> QED
      BY <3>1, <3>2, <3>3
  <2>5. filled \in Nat /\ broker[id].filled <= filled
    BY <2>1
  <2> QED
    BY <2>1, <2>2, <2>4, <2>5
<1>2. /\ Len(updates) \in Nat /\ DOMAIN updates = 1 .. Len(updates)
      /\ DOMAIN updates' = 1 .. Len(updates) + 1
      /\ updates'[Len(updates) + 1].id = id /\ updates'[Len(updates) + 1].filled = filled
      /\ \A i \in 1 .. Len(updates) : updates'[i] = updates[i]
  <2>1. updates \in Seq(Updates)
    BY DEF Counted, UpdatesAreTrue, Updates
  <2> QED
    BY <2>1
<1>3. ASSUME NEW i \in Sells
      PROVE  SaleIsSent(i)' /\ SaleIsInTurn(i)' /\ SaleIsFilled(i)' /\ SaleIsReported(i)'
  <2>1. /\ SaleIsSent(i) /\ SaleIsInTurn(i) /\ SaleIsFilled(i) /\ SaleIsReported(i)
        /\ i \in Ids /\ rows'[i] = rows[i] /\ Side(i) # "buy"
    BY IdsAreWhole DEF Calm, SalesAreSound, Sells
  <2>2. CASE i = id
    <3>1. /\ rows[i].quantity \in Nat /\ rows[i].quantity > 0 /\ broker[i].quantity = rows[i].quantity
          /\ broker[i].filled <= rows[i].quantity /\ broker[i].filled # rows[i].quantity
      BY <2>1, <2>2 DEF SaleIsSent
    <3>2. /\ filled = broker[i].filled + 1 /\ filled > 0 /\ filled <= rows[i].quantity
          /\ status = IF filled = rows[i].quantity THEN "done" ELSE "open"
      BY <1>1, <2>1, <2>2, <3>1
    <3>3. broker[i].status # "none" /\ broker'[i].status # "none"
      BY <1>1, <2>2, <3>2
    <3>4. SaleIsSent(i)'
      BY <1>1, <2>1, <2>2, <3>1, <3>2, <3>3 DEF SaleIsSent, Unsent
    <3>5. SaleIsInTurn(i)' /\ SaleIsFilled(i)'
      BY <2>1, <3>3 DEF SaleIsInTurn, SaleIsFilled, Unsent
    <3>6. SaleIsReported(i)'
      <4>1. ASSUME NEW k \in DOMAIN updates', updates'[k].id = i
            PROVE  /\ updates'[k].filled > 0
                   /\ (\A j \in DOMAIN updates' : j > k => updates'[j].id # i)
                        => updates'[k].filled = broker'[i].filled
        <5>1. CASE k = Len(updates) + 1
          BY <1>1, <1>2, <2>2, <3>2, <5>1
        <5>2. CASE k # Len(updates) + 1
          <6>1. k \in DOMAIN updates /\ updates'[k] = updates[k]
            BY <1>2, <4>1, <5>2
          <6>2. updates'[k].filled > 0
            BY <2>1, <4>1, <6>1 DEF SaleIsReported
          <6>3. Len(updates) + 1 \in DOMAIN updates' /\ Len(updates) + 1 > k
            BY <1>2, <6>1
          <6> QED
            BY <1>2, <2>2, <6>2, <6>3
        <5> QED
          BY <5>1, <5>2
      <4>2. Len(updates) + 1 \in DOMAIN updates' /\ updates'[Len(updates) + 1].id = i
        BY <1>2, <2>2
      <4> QED
        BY <4>1, <4>2 DEF SaleIsReported
    <3> QED
      BY <3>4, <3>5, <3>6
  <2>3. CASE i # id
    <3>1. broker'[i] = broker[i]
      BY <1>1, <2>1, <2>3
    <3>2. SaleIsSent(i)' /\ SaleIsInTurn(i)' /\ SaleIsFilled(i)'
      BY <2>1, <3>1 DEF SaleIsSent, SaleIsInTurn, SaleIsFilled, Unsent
    <3>3. SaleIsReported(i)'
      <4>1. ASSUME \A k \in DOMAIN updates' : updates'[k].id # i
            PROVE  rows'[i].filled = broker'[i].filled
        <5>1. \A k \in DOMAIN updates : updates[k].id # i
          BY <1>2, <4>1
        <5> QED
          BY <2>1, <3>1, <5>1 DEF SaleIsReported
      <4>2. ASSUME NEW k \in DOMAIN updates', updates'[k].id = i
            PROVE  /\ updates'[k].filled > 0
                   /\ (\A j \in DOMAIN updates' : j > k => updates'[j].id # i)
                        => updates'[k].filled = broker'[i].filled
        <5>1. k \in DOMAIN updates /\ updates'[k] = updates[k]
          BY <1>2, <2>3, <4>2
        <5>2. (\A j \in DOMAIN updates' : j > k => updates'[j].id # i)
                => \A j \in DOMAIN updates : j > k => updates[j].id # i
          BY <1>2
        <5> QED
          BY <2>1, <3>1, <4>2, <5>1, <5>2 DEF SaleIsReported
      <4> QED
        BY <4>1, <4>2 DEF SaleIsReported
    <3> QED
      BY <3>2, <3>3
  <2> QED
    BY <2>2, <2>3
<1>4. CycleIsSound'
  <2>1. \A c : Net(c)' = Net(c)
    BY DEF Net, Amount, Executed
  <2> QED
    BY <2>1 DEF Calm, CycleIsSound
<1>5. ASSUME NEW c \in Contracts PROVE Cover(c)' >= 0
  <2>1. ASSUME NEW i \in Ids
        PROVE  Covered(i) \in Int /\ Covered(i)' \in Int /\ Covered(i) <= Covered(i)'
    <3>1. Covered(i) \in Int
      BY TermsAreInt DEF Calm
    <3>2. CASE i = id /\ Side(i) = "buy"
      BY <1>1, <3>2 DEF Covered
    <3>3. CASE i # id
      <4>1. Covered(i)' = Covered(i)
        BY <1>1, <3>3 DEF Covered
      <4> QED
        BY <3>1, <4>1
    <3>4. CASE Side(i) # "buy"
      <4>1. Covered(i)' = Covered(i)
        BY <3>4 DEF Covered
      <4> QED
        BY <3>1, <4>1
    <3> QED
      BY <3>2, <3>3, <3>4
  <2> QED
    BY <2>1, CoverIsKept DEF Calm
<1> QED
  BY <1>3, <1>4, <1>5 DEF Calm, SalesAreSound

(* A fill is reported, and the end of an entry that lapses.                 *)
LEMMA BrokerKeepsCalm ==
    ASSUME OptionAssumption, Counted, Counted', Calm, NEW id \in Ids, Fill(id) \/ Lapse(id)
    PROVE  Calm'
<1>1. UNCHANGED <<rows, process, sales>> /\ broker[id].status = "open"
  BY DEF Fill, Lapse
<1>2. CASE Fill(id)
  <2>1. PICK filled, status, kind :
          /\ filled = broker[id].filled + 1
          /\ status = IF filled = broker[id].quantity THEN "done" ELSE "open"
          /\ kind = IF filled = broker[id].quantity THEN "filled" ELSE "partially_filled"
    OBVIOUS
  <2>2. /\ broker' = [broker EXCEPT ![id] = [@ EXCEPT !.filled = filled, !.status = status]]
        /\ updates' = Append(updates, [id |-> id, status |-> kind, filled |-> filled])
    BY <1>2, <2>1 DEF Fill, Report
  <2> QED
    BY <1>1, <2>1, <2>2, ReportKeepsCalm
<1>3. CASE Lapse(id)
  <2>1. /\ broker' = [broker EXCEPT ![id] = [@ EXCEPT !.status = "done"]] /\ Side(id) = "buy"
        /\ updates' = Append(updates, [id |-> id, status |-> "canceled", filled |-> broker[id].filled])
    BY <1>3 DEF Lapse, Report
  <2>2. [broker[id] EXCEPT !.status = "done"]
          = [broker[id] EXCEPT !.filled = broker[id].filled, !.status = "done"]
    BY DEF Counted, BrokerIsCounted
  <2>3. PICK filled : filled = broker[id].filled
    OBVIOUS
  <2>4. broker' = [broker EXCEPT ![id] = [@ EXCEPT !.filled = filled, !.status = "done"]]
    BY <2>1, <2>2, <2>3
  <2> QED
    BY <1>1, <2>1, <2>3, <2>4, ReportKeepsCalm
<1> QED
  BY <1>2, <1>3

(* Every step of a calm day; there is no kill on it.                        *)
LEMMA NextKeepsCalm ==
    ASSUME OptionAssumption, Counted, Counted', calm => Calm, [Next]_vars
    PROVE  (calm => Calm)'
<1>1. calm' = calm
  BY DEF Next, vars, Cycle, BeginCycle, Choose, List, EndDispatch, EndFlatten, SaveSubmitting,
         Send, SaveAnswer, SaveSale, RecordFill, Fill, Lapse, NextBar, Crash
<1> SUFFICES ASSUME calm, Calm PROVE Calm'
  BY <1>1
<1>2. CASE BeginCycle \/ List \/ EndDispatch \/ EndFlatten
  BY <1>2, CycleKeepsTurn
<1>3. CASE Choose
  BY <1>3, ChooseKeepsCalm
<1>4. ASSUME NEW id \in Ids, SaveSubmitting(id) \/ SaveAnswer(id) PROVE Calm'
  BY <1>4, SavingKeepsCalm
<1>5. ASSUME NEW id \in Ids, Send(id) PROVE Calm'
  BY <1>5, SendKeepsCalm
<1>6. ASSUME NEW c \in Contracts, SaveSale(c) PROVE Calm'
  BY <1>6, SaveSaleKeepsCalm
<1>7. CASE RecordFill
  BY <1>7, RecordFillKeepsCalm
<1>8. ASSUME NEW id \in Ids, Fill(id) \/ Lapse(id) PROVE Calm'
  BY <1>8, BrokerKeepsCalm
<1>9. CASE NextBar \/ UNCHANGED vars
  <2>1. UNCHANGED <<rows, broker, updates, process, sales>>
    BY <1>9 DEF NextBar, vars
  <2>2. \A c : Net(c)' = Net(c)
    BY <2>1 DEF Net, Amount, Executed
  <2>3. \A id \in Sells : SaleIsInTurn(id)' /\ SaleIsFilled(id)'
    BY <2>1 DEF Calm, SalesAreSound, SaleIsInTurn, SaleIsFilled, Unsent
  <2>4. CycleIsSound'
    BY <2>1, <2>2 DEF Calm, CycleIsSound
  <2> QED
    BY <2>1, <2>3, <2>4, GoingOnKeepsCalm
<1>10. CASE Crash
  BY <1>10 DEF Crash
<1> QED
  BY <1>2, <1>3, <1>4, <1>5, <1>6, <1>7, <1>8, <1>9, <1>10 DEF Next, Cycle

(* Whatever is overwritten or recorded late, a position in the table is one *)
(* in the account; and on a day when calls succeed and fills are recorded  *)
(* between two cycles, the account is never short: the sales of the close  *)
(* add up to no more than what was bought, however often it is sold.       *)
THEOREM OptionsStayCovered == Spec => []OptionsAreCovered
<1>1. OptionAssumption
  BY OptionAssumption
<1>2. Init => Counted /\ (calm => Calm)
  BY <1>1, InitIsCounted, InitIsCalm
<1>3. Counted /\ (calm => Calm) /\ [Next]_vars => Counted' /\ (calm => Calm)'
  BY <1>1, NextKeepsCounted, NextKeepsCalm
<1>4. Counted /\ (calm => Calm) => OptionsAreCovered
  <2>1. Counted => CountedIsFilled
    BY DEF Counted
  <2> QED
    BY <1>1, <2>1, CalmIsCovered DEF OptionsAreCovered
<1> QED
  BY <1>2, <1>3, <1>4, PTL DEF Spec

-----------------------------------------------------------------------------
(***************************************************************************)
(* The reports. An owner's trades follow one another: while rows are saved *)
(* in turn an entry is saved after the exits of the trades before it and   *)
(* before those of its own, so the entry saved last before an exit is that *)
(* of its trade.  The shares of a trade cost what its row says, the        *)
(* average of even prices being exact, so that each exit earns what the    *)
(* query makes of it, fill by fill.                                        *)
(***************************************************************************)
TradeRow == [filled : Nat, price : Nat, at : Nat, day : Nat, open : BOOLEAN]

AccountTypes ==
    /\ entries \in [EntryIds -> TradeRow]
    /\ exits \in [ExitIds -> TradeRow]
    /\ current \in [Owners -> 0 .. Trades]
    /\ now \in Nat \ {0}
    /\ day \in 1 .. LastDay
    /\ cost \in [Owners -> Int]
    /\ earned \in [Owners -> [1 .. LastDay -> Int]]
    /\ moved \in SUBSET Owners

\* The entry of the trade that an exit left.
OwnEntry(x) == <<x[1], x[2]>>

EntriesAreSound ==
    \A e \in EntryIds :
        /\ entries[e].filled > 0 <=> e[2] <= current[e[1]]
        /\ entries[e].filled <= 2
        /\ entries[e].open => entries[e].filled = 1 /\ e[2] = current[e[1]]
        /\ entries[e].filled = 1 => entries[e].price % 2 = 0
        /\ entries[e].at < now /\ entries[e].day <= day

ExitsAreSound ==
    \A x \in Exited :
        /\ entries[OwnEntry(x)].filled > 0
        /\ exits[x].at < now
        /\ exits[x].day \in 1 .. day

\* An exit that may sell more has sold once.
OpenExits ==
    \A x \in ExitIds : exits[x].open => exits[x].filled = 1 /\ exits[x].price % 2 = 0

\* Trade after trade, in the order of updated_at and of the days.
EntriesFollow ==
    \A e, f \in EntryIds :
        e[1] = f[1] /\ e[2] < f[2] /\ entries[f].filled > 0 =>
            entries[e].at < entries[f].at /\ entries[e].day < entries[f].day

\* What was saved later was saved on no earlier day.
ExitsFollow ==
    \A x \in Exited, f \in EntryIds :
        f[1] = x[1] /\ entries[f].filled > 0 =>
            (entries[f].at <= exits[x].at => entries[f].day <= exits[x].day)

\* While rows are saved in turn an exit lies between its entry and the next.
ExitsRest ==
    \A x \in Exited, f \in EntryIds :
        InOrder(x[1]) /\ f[1] = x[1] /\ entries[f].filled > 0 =>
            /\ x[2] < f[2] => exits[x].at < entries[f].at
            /\ x[2] = f[2] => entries[f].at <= exits[x].at

CostIsKept ==
    \A o \in Owners : current[o] > 0 /\ InOrder(o) =>
        cost[o] = entries[<<o, current[o]>>].price * HeldBy(o)

OwnGain(x) == Shares(x) * Gain(x, OwnEntry(x))
Left(o, d) == {x \in Exited : x[1] = o /\ exits[x].day = d}
GainOf(o, d) == SumFunctionOnSet([x \in ExitIds |-> OwnGain(x)], Left(o, d))

EarnedIsKept ==
    \A o \in Owners : InOrder(o) => \A d \in 1 .. LastDay : earned[o][d] = GainOf(o, d)

Accounted ==
    /\ AccountTypes
    /\ EntriesAreSound /\ ExitsAreSound /\ OpenExits
    /\ EntriesFollow /\ ExitsFollow /\ ExitsRest
    /\ CostIsKept /\ EarnedIsKept

(* What ids say.                                                            *)
LEMMA TradeIds ==
    /\ \A o \in Owners, k \in 1 .. Trades : <<o, k>> \in EntryIds
    /\ \A e \in EntryIds : e[1] \in Owners /\ e[2] \in 1 .. Trades /\ e = <<e[1], e[2]>>
    /\ \A o \in Owners, k \in 1 .. Trades, j \in 1 .. 2 : <<o, k, j>> \in ExitIds
    /\ \A x \in ExitIds : x[1] \in Owners /\ x[2] \in 1 .. Trades /\ OwnEntry(x) \in EntryIds
    /\ \A o, k, j : <<o, k, j>>[1] = o /\ <<o, k, j>>[2] = k /\ OwnEntry(<<o, k, j>>) = <<o, k>>
    /\ \A o, k : <<o, k>>[1] = o /\ <<o, k>>[2] = k
  BY DEF EntryIds, ExitIds, OwnEntry

(* The fields of a saved row.                                               *)
LEMMA SavedSays ==
    ASSUME AccountTypes, NEW filled \in Nat, NEW price \in Nat, NEW open \in BOOLEAN
    PROVE  /\ Saved(filled, price, open) \in TradeRow
           /\ Saved(filled, price, open).filled = filled
           /\ Saved(filled, price, open).price = price
           /\ Saved(filled, price, open).at = now
           /\ Saved(filled, price, open).day = day
           /\ Saved(filled, price, open).open = open
<1>1. now \in Nat /\ day \in Nat
  BY DEF AccountTypes
<1> QED
  BY <1>1 DEF Saved, TradeRow

(* The rows of the table.                                                   *)
LEMMA RowsAreTyped ==
    ASSUME AccountTypes
    PROVE  /\ DOMAIN entries = EntryIds /\ DOMAIN exits = ExitIds /\ DOMAIN current = Owners
           /\ \A e \in EntryIds : /\ entries[e].filled \in Nat /\ entries[e].price \in Nat
                                  /\ entries[e].at \in Nat /\ entries[e].day \in Nat
                                  /\ entries[e].open \in BOOLEAN
           /\ \A x \in ExitIds : /\ exits[x].filled \in Nat /\ exits[x].price \in Nat
                                 /\ exits[x].at \in Nat /\ exits[x].day \in Nat
                                 /\ exits[x].open \in BOOLEAN
           /\ Exited \subseteq ExitIds
  BY DEF AccountTypes, TradeRow, Exited

(* The ids are finitely many.                                               *)
LEMMA TradeIdsAreFinite ==
    ASSUME AccountingAssumption
    PROVE  IsFiniteSet(EntryIds) /\ IsFiniteSet(ExitIds)
<1>1. IsFiniteSet(Owners) /\ IsFiniteSet(1 .. Trades) /\ IsFiniteSet(1 .. 2)
  <2>1. Trades \in Int /\ 1 \in Int /\ 2 \in Int /\ IsFiniteSet(Owners)
    BY DEF AccountingAssumption
  <2> QED
    BY <2>1, FS_Interval
<1>2. IsFiniteSet(EntryIds)
  BY <1>1, FS_Product DEF EntryIds
<1> DEFINE f == [p \in EntryIds \X (1 .. 2) |-> <<p[1][1], p[1][2], p[2]>>]
<1>3. ExitIds = {f[p] : p \in EntryIds \X (1 .. 2)}
  <2>1. ASSUME NEW x \in ExitIds PROVE x \in {f[p] : p \in EntryIds \X (1 .. 2)}
    <3>1. PICK p : p = <<<<x[1], x[2]>>, x[3]>>
      OBVIOUS
    <3>2. p \in EntryIds \X (1 .. 2) /\ f[p] = x
      BY <3>1 DEF EntryIds, ExitIds
    <3> HIDE DEF f
    <3> QED
      BY <3>2
  <2>2. ASSUME NEW p \in EntryIds \X (1 .. 2) PROVE f[p] \in ExitIds
    BY DEF EntryIds, ExitIds
  <2> HIDE DEF f
  <2> QED
    BY <2>1, <2>2
<1>4. IsFiniteSet(EntryIds \X (1 .. 2))
  BY <1>1, <1>2, FS_Product
<1>5. IsFiniteSet({f[p] : p \in EntryIds \X (1 .. 2)})
  <2> HIDE DEF f
  <2> QED
    BY <1>4, ImageIsFinite
<1> QED
  BY <1>2, <1>3, <1>5

(* What the exits earned, as an integer.                                    *)
LEMMA GainsAreInt ==
    ASSUME AccountingAssumption, AccountTypes
    PROVE  /\ \A x \in ExitIds, e \in EntryIds : Gain(x, e) \in Int
           /\ \A x : Shares(x) \in Int
           /\ \A x \in ExitIds : OwnGain(x) \in Int
           /\ \A S \in SUBSET Exited : IsFiniteSet(S)
<1>1. \A x \in ExitIds, e \in EntryIds : Gain(x, e) \in Int
  BY RowsAreTyped DEF Gain
<1>2. \A x : Shares(x) \in Int
  BY DEF Shares, ContractSize, AccountingAssumption
<1>3. \A x \in ExitIds : OwnGain(x) \in Int
  <2> SUFFICES ASSUME NEW x \in ExitIds PROVE OwnGain(x) \in Int
    OBVIOUS
  <2>1. PICK g, s : g = Gain(x, OwnEntry(x)) /\ s = Shares(x)
    OBVIOUS
  <2>2. g \in Int /\ s \in Int
    BY <1>1, <1>2, <2>1, TradeIds
  <2>3. OwnGain(x) = s * g
    BY <2>1 DEF OwnGain
  <2> QED
    BY <2>2, <2>3
<1>4. \A S \in SUBSET Exited : IsFiniteSet(S)
  BY TradeIdsAreFinite, RowsAreTyped, FS_Subset
<1> QED
  BY <1>1, <1>2, <1>3, <1>4

(* No trade is made at first.                                               *)
LEMMA InitIsAccounted ==
    ASSUME AccountingAssumption, AccountingInit
    PROVE  Accounted
<1>1. Unsaved \in TradeRow /\ Unsaved.filled = 0 /\ Unsaved.open = FALSE
  BY DEF Unsaved, TradeRow
<1>2. AccountTypes
  BY <1>1 DEF AccountingInit, AccountTypes, AccountingAssumption
<1>3. \A e \in EntryIds : /\ entries[e].filled = 0 /\ entries[e].open = FALSE
                           /\ entries[e].at = 0 /\ entries[e].day = 0
  BY DEF AccountingInit, Unsaved
<1>4. Exited = {}
  BY <1>1 DEF AccountingInit, Exited
<1>5. EntriesAreSound
  BY <1>3, TradeIds DEF EntriesAreSound, AccountingInit
<1>6. ExitsAreSound /\ EntriesFollow /\ ExitsFollow /\ ExitsRest
  BY <1>3, <1>4 DEF ExitsAreSound, EntriesFollow, ExitsFollow, ExitsRest
<1>7. CostIsKept
  BY DEF CostIsKept, AccountingInit
<1>8. EarnedIsKept
  <2> SUFFICES ASSUME NEW o \in Owners, NEW d \in 1 .. LastDay PROVE earned[o][d] = GainOf(o, d)
    BY DEF EarnedIsKept
  <2>1. Left(o, d) = {}
    BY <1>4 DEF Left
  <2>2. GainOf(o, d) = 0
    BY <2>1, SumOfNothing DEF GainOf
  <2> QED
    BY <2>2 DEF AccountingInit
<1>9. OpenExits
  BY <1>1 DEF OpenExits, AccountingInit
<1> QED
  BY <1>2, <1>5, <1>6, <1>7, <1>8, <1>9 DEF Accounted

(* When the exits of an owner and the prices of their own entries stay as  *)
(* they are, so does what they earned.                                     *)
LEMMA GainStays ==
    ASSUME AccountingAssumption, AccountTypes, AccountTypes', NEW o \in Owners, NEW d,
           Left(o, d)' = Left(o, d),
           \A x \in Left(o, d) : /\ exits'[x] = exits[x]
                                 /\ entries'[OwnEntry(x)].price = entries[OwnEntry(x)].price
    PROVE  GainOf(o, d)' = GainOf(o, d)
<1>1. PICK S : S = Left(o, d)
  OBVIOUS
<1>2. PICK v, w : /\ v = [x \in ExitIds |-> OwnGain(x)]
                  /\ w = [x \in ExitIds |-> OwnGain(x)']
  OBVIOUS
<1>3. S \subseteq Exited /\ Exited \subseteq ExitIds /\ IsFiniteSet(S)
  <2>1. S \subseteq Exited
    BY <1>1 DEF Left
  <2> QED
    BY <2>1, RowsAreTyped, GainsAreInt
<1>4. \A x \in S : w[x] \in Int /\ w[x] = v[x]
  <2> SUFFICES ASSUME NEW x \in S PROVE OwnGain(x)' = OwnGain(x) /\ OwnGain(x) \in Int
    BY <1>2, <1>3
  <2>1. exits'[x] = exits[x] /\ entries'[OwnEntry(x)].price = entries[OwnEntry(x)].price
    BY <1>1
  <2>2. OwnGain(x)' = OwnGain(x)
    BY <2>1 DEF OwnGain, Gain, Shares, OwnEntry
  <2> QED
    BY <1>3, <2>2, GainsAreInt
<1>5. SumFunctionOnSet(w, S) = SumFunctionOnSet(v, S)
  BY <1>3, <1>4, SumOfEquals
<1>6. GainOf(o, d) = SumFunctionOnSet(v, S)
  BY <1>1, <1>2 DEF GainOf
<1>7. GainOf(o, d)' = SumFunctionOnSet(w, S)
  BY <1>1, <1>2 DEF GainOf
<1> QED
  BY <1>5, <1>6, <1>7

(* What saving an entry row does: the row is that of the running trade, or *)
(* of the next one when the last is decided and its day is over.           *)
EntryIsSaved(o, k, filled, price, open) ==
    /\ o \in Owners /\ k \in 1 .. Trades
    /\ filled \in 1 .. 2 /\ price \in Nat /\ open \in BOOLEAN
    /\ filled = 1 => price % 2 = 0
    /\ open => filled = 1
    /\ \/ k = current[o]
       \/ /\ k = current[o] + 1
          /\ current[o] > 0 => /\ ~entries[<<o, current[o]>>].open
                               /\ entries[<<o, current[o]>>].day < day
    /\ current' = [current EXCEPT ![o] = k]
    /\ cost' \in [Owners -> Int]
    /\ SaveEntry(o, k, filled, price, open)

(* The rows after it.                                                       *)
LEMMA SavedEntry ==
    ASSUME AccountingAssumption, Accounted, NEW o, NEW k, NEW filled, NEW price, NEW open,
           EntryIsSaved(o, k, filled, price, open)
    PROVE  /\ AccountTypes'
           /\ <<o, k>> \in EntryIds
           /\ entries'[<<o, k>>] = Saved(filled, price, open)
           /\ \A e \in EntryIds : e # <<o, k>> => entries'[e] = entries[e]
           /\ exits' = exits /\ Exited' = Exited /\ earned' = earned
           /\ now' = now + 1 /\ day' = day
           /\ current'[o] = k /\ \A p \in Owners : p # o => current'[p] = current[p]
           /\ \A e \in EntryIds : entries[e].at < now
           /\ \A p \in Owners : InOrder(p)' => InOrder(p)
           /\ InOrder(o)' => \A x \in Exited : OwnEntry(x) # <<o, k>>
<1>1. AccountTypes
  BY DEF Accounted
<1>2. filled \in Nat /\ price \in Nat /\ open \in BOOLEAN
  BY DEF EntryIsSaved
<1>3. Saved(filled, price, open) \in TradeRow
  BY <1>1, <1>2, SavedSays
<1>4. <<o, k>> \in EntryIds
  BY TradeIds DEF EntryIsSaved
<1>5. entries' = [entries EXCEPT ![<<o, k>>] = Saved(filled, price, open)]
  BY DEF EntryIsSaved, SaveEntry
<1>6. exits' = exits /\ earned' = earned /\ day' = day /\ now' = now + 1
  BY DEF EntryIsSaved, SaveEntry, Tick
<1>7. Exited' = Exited
  BY <1>6 DEF Exited
<1>8. k \in 0 .. Trades /\ o \in Owners /\ Trades \in Nat
  BY DEF EntryIsSaved, AccountingAssumption
<1>9. current' = [current EXCEPT ![o] = k] /\ cost' \in [Owners -> Int]
  BY DEF EntryIsSaved
<1>10. AccountTypes'
  <2>1. entries' \in [EntryIds -> TradeRow]
    BY <1>1, <1>3, <1>5 DEF AccountTypes
  <2>2. current' \in [Owners -> 0 .. Trades]
    BY <1>1, <1>8, <1>9 DEF AccountTypes
  <2>3. now' \in Nat \ {0}
    BY <1>1, <1>6 DEF AccountTypes
  <2>4. moved' \in SUBSET Owners
    <3>1. \A x \in Exited : x[1] \in Owners
      BY <1>1, RowsAreTyped, TradeIds
    <3>2. moved' = moved \cup {x[1] : x \in {y \in Exited : <<y[1], y[2]>> = <<o, k>>}}
      BY DEF EntryIsSaved, SaveEntry
    <3> QED
      BY <1>1, <3>1, <3>2 DEF AccountTypes
  <2> QED
    BY <1>1, <1>6, <1>9, <2>1, <2>2, <2>3, <2>4 DEF AccountTypes
<1>11. /\ entries'[<<o, k>>] = Saved(filled, price, open)
       /\ \A e \in EntryIds : e # <<o, k>> => entries'[e] = entries[e]
  BY <1>1, <1>4, <1>5 DEF AccountTypes
<1>12. current'[o] = k /\ \A p \in Owners : p # o => current'[p] = current[p]
  BY <1>1, <1>8, <1>9 DEF AccountTypes
<1>13. \A e \in EntryIds : entries[e].at < now
  BY DEF Accounted, EntriesAreSound
<1>14. moved' = moved \cup {x[1] : x \in {y \in Exited : <<y[1], y[2]>> = <<o, k>>}}
  BY DEF EntryIsSaved, SaveEntry
<1>15. \A p \in Owners : InOrder(p)' => InOrder(p)
  BY <1>14 DEF InOrder
<1>16. InOrder(o)' => \A x \in Exited : OwnEntry(x) # <<o, k>>
  <2> SUFFICES ASSUME NEW x \in Exited, OwnEntry(x) = <<o, k>> PROVE o \in moved'
    BY DEF InOrder
  <2>1. <<x[1], x[2]>> = <<o, k>> /\ x[1] = o
    BY DEF OwnEntry
  <2> QED
    BY <1>14, <2>1
<1> QED
  BY <1>4, <1>6, <1>7, <1>10, <1>11, <1>12, <1>13, <1>15, <1>16

LEMMA SavedEntrySays ==
    ASSUME AccountingAssumption, Accounted, NEW o, NEW k, NEW filled, NEW price, NEW open,
           EntryIsSaved(o, k, filled, price, open)
    PROVE  /\ entries'[<<o, k>>].filled = filled /\ entries'[<<o, k>>].price = price
           /\ entries'[<<o, k>>].at = now /\ entries'[<<o, k>>].day = day
           /\ entries'[<<o, k>>].open = open
<1>1. AccountTypes
  BY DEF Accounted
<1>2. filled \in Nat /\ price \in Nat /\ open \in BOOLEAN
  BY DEF EntryIsSaved
<1>3. entries'[<<o, k>>] = Saved(filled, price, open)
  BY SavedEntry
<1> QED
  BY <1>1, <1>2, <1>3, SavedSays

LEMMA SavedEntryIsSound ==
    ASSUME AccountingAssumption, Accounted, NEW o, NEW k, NEW filled, NEW price, NEW open,
           EntryIsSaved(o, k, filled, price, open)
    PROVE  EntriesAreSound' /\ ExitsAreSound' /\ OpenExits'
<1>1. AccountTypes /\ EntriesAreSound /\ ExitsAreSound /\ OpenExits
  BY DEF Accounted
<1>2. filled \in 1 .. 2 /\ price \in Nat /\ open \in BOOLEAN /\ o \in Owners
  BY DEF EntryIsSaved
<1>3. PICK e0 : e0 = <<o, k>>
  OBVIOUS
<1>4. /\ entries'[e0].filled = filled /\ entries'[e0].price = price /\ entries'[e0].at = now
      /\ entries'[e0].day = day /\ entries'[e0].open = open
  BY <1>3, SavedEntrySays
<1>5. /\ e0 \in EntryIds /\ e0[1] = o /\ e0[2] = k
      /\ \A e \in EntryIds : e # e0 => entries'[e] = entries[e]
      /\ exits' = exits /\ Exited' = Exited
      /\ now' = now + 1 /\ day' = day
      /\ current'[o] = k /\ \A p \in Owners : p # o => current'[p] = current[p]
  BY <1>3, SavedEntry, TradeIds
<1>6. now \in Nat /\ day \in Nat /\ \A p \in Owners : current[p] \in Nat
  BY <1>1 DEF AccountTypes
<1>7. ASSUME NEW e \in EntryIds
      PROVE  /\ entries'[e].filled > 0 <=> e[2] <= current'[e[1]]
             /\ entries'[e].filled <= 2
             /\ entries'[e].open => entries'[e].filled = 1 /\ e[2] = current'[e[1]]
             /\ entries'[e].filled = 1 => entries'[e].price % 2 = 0
             /\ entries'[e].at < now' /\ entries'[e].day <= day'
  <2>1. CASE e = e0
    BY <1>2, <1>4, <1>5, <1>6, <2>1 DEF EntryIsSaved
  <2>2. CASE e # e0
    <3>1. entries'[e] = entries[e] /\ e[1] \in Owners /\ e[2] \in Nat
      BY <1>5, <2>2, TradeIds
    <3>2. /\ entries[e].filled > 0 <=> e[2] <= current[e[1]]
          /\ entries[e].filled <= 2
          /\ entries[e].open => entries[e].filled = 1 /\ e[2] = current[e[1]]
          /\ entries[e].filled = 1 => entries[e].price % 2 = 0
          /\ entries[e].at < now /\ entries[e].day <= day
      BY <1>1 DEF EntriesAreSound
    <3>3. /\ entries[e].filled \in Nat /\ entries[e].at \in Nat /\ entries[e].day \in Nat
          /\ entries[e].open \in BOOLEAN
      BY <1>1, RowsAreTyped
    <3>4. CASE e[1] # o
      BY <1>5, <1>6, <3>1, <3>2, <3>3, <3>4
    <3>5. CASE e[1] = o
      <4>1. e[2] # k
        BY <1>3, <2>2, <3>5, TradeIds
      <4>2. k \in Nat /\ (k = current[o] \/ k = current[o] + 1)
        BY DEF EntryIsSaved
      <4>3. e[2] <= current'[e[1]] <=> e[2] <= current[e[1]]
        BY <1>2, <1>5, <1>6, <3>1, <3>5, <4>1, <4>2
      <4>4. entries[e].open => e[2] = current'[e[1]]
        <5> SUFFICES ASSUME entries[e].open PROVE FALSE
          OBVIOUS
        <5>1. e = <<o, current[o]>> /\ current[o] > 0
          BY <3>2, <3>5, TradeIds
        <5> QED
          BY <3>2, <3>5, <4>1, <5>1 DEF EntryIsSaved
      <4> QED
        BY <1>5, <1>6, <3>1, <3>2, <3>3, <4>3, <4>4
    <3> QED
      BY <3>4, <3>5
  <2> QED
    BY <2>1, <2>2
<1>8. EntriesAreSound'
  BY <1>7 DEF EntriesAreSound
<1>9. ExitsAreSound'
  <2> SUFFICES ASSUME NEW x \in Exited
               PROVE  /\ entries'[OwnEntry(x)].filled > 0
                      /\ exits'[x].at < now'
                      /\ exits'[x].day \in 1 .. day'
    BY <1>5 DEF ExitsAreSound, OwnEntry
  <2>1. x \in ExitIds /\ OwnEntry(x) \in EntryIds
    BY <1>1, RowsAreTyped, TradeIds
  <2>2. /\ entries[OwnEntry(x)].filled > 0 /\ exits[x].at < now /\ exits[x].day \in 1 .. day
    BY <1>1 DEF ExitsAreSound
  <2>3. exits[x].at \in Nat
    BY <1>1, <2>1, RowsAreTyped
  <2>4. entries'[OwnEntry(x)].filled > 0
    BY <1>2, <1>4, <1>5, <2>1, <2>2
  <2> QED
    BY <1>5, <1>6, <2>2, <2>3, <2>4
<1>10. OpenExits'
  BY <1>1, <1>5 DEF OpenExits
<1> QED
  BY <1>8, <1>9, <1>10

LEMMA SavedEntryFollows ==
    ASSUME AccountingAssumption, Accounted, NEW o, NEW k, NEW filled, NEW price, NEW open,
           EntryIsSaved(o, k, filled, price, open)
    PROVE  EntriesFollow' /\ ExitsFollow' /\ ExitsRest'
<1>1. AccountTypes /\ EntriesAreSound /\ ExitsAreSound /\ EntriesFollow /\ ExitsFollow /\ ExitsRest
  BY DEF Accounted
<1>2. filled \in 1 .. 2 /\ price \in Nat /\ open \in BOOLEAN /\ o \in Owners
  BY DEF EntryIsSaved
<1>3. PICK e0 : e0 = <<o, k>>
  OBVIOUS
<1>4. /\ entries'[e0].filled = filled /\ entries'[e0].at = now /\ entries'[e0].day = day
  BY <1>3, SavedEntrySays
<1>5. /\ e0 \in EntryIds /\ e0[1] = o /\ e0[2] = k
      /\ \A e \in EntryIds : e # e0 => entries'[e] = entries[e]
      /\ exits' = exits /\ Exited' = Exited
      /\ \A e \in EntryIds : entries[e].at < now
  BY <1>3, SavedEntry, TradeIds
<1>6. now \in Nat /\ day \in Nat /\ current[o] \in Nat
  BY <1>1, <1>2 DEF AccountTypes
<1>7. k \in Nat /\ (k = current[o] \/ k = current[o] + 1)
  BY DEF EntryIsSaved
\* The trades before the one saved were entered, and on days before.
<1>8. ASSUME NEW e \in EntryIds, e[1] = o, e[2] < k
      PROVE  entries[e].filled > 0 /\ entries[e].day < day
  <2>1. e[2] \in Nat \ {0} /\ e = <<o, e[2]>>
    BY <1>8, TradeIds
  <2>2. entries[e].filled > 0 /\ current[o] > 0
    BY <1>1, <1>6, <1>7, <1>8, <2>1 DEF EntriesAreSound
  <2>3. PICK c \in EntryIds : c = <<o, current[o]>>
    <3>1. current[o] \in 1 .. Trades
      BY <1>1, <1>2, <2>2 DEF AccountTypes
    <3> QED
      BY <1>2, <3>1, TradeIds
  <2>4. c[1] = o /\ c[2] = current[o] /\ entries[c].filled > 0 /\ entries[c].day <= day
    <3>1. c[1] = o /\ c[2] = current[o]
      BY <2>3, TradeIds
    <3>2. entries[c].filled > 0
      BY <1>1, <1>6, <3>1 DEF EntriesAreSound
    <3> QED
      BY <1>1, <3>1, <3>2 DEF EntriesAreSound
  <2>5. entries[e].day \in Nat /\ entries[c].day \in Nat
    BY <1>1, RowsAreTyped
  <2>6. CASE k = current[o]
    <3>1. entries[e].day < entries[c].day
      BY <1>1, <1>8, <2>4, <2>6 DEF EntriesFollow
    <3> QED
      BY <1>6, <2>2, <2>4, <2>5, <3>1
  <2>7. CASE k = current[o] + 1
    <3>1. entries[c].day < day
      BY <1>6, <2>2, <2>3, <2>7 DEF EntryIsSaved
    <3>2. entries[e].day <= entries[c].day
      <4>1. CASE e[2] = current[o]
        BY <2>1, <2>3, <2>5, <4>1
      <4>2. CASE e[2] < current[o]
        BY <1>1, <1>8, <2>4, <2>5, <4>2 DEF EntriesFollow
      <4> QED
        BY <1>6, <1>8, <2>1, <2>7, <4>1, <4>2
    <3> QED
      BY <1>6, <2>2, <2>5, <3>1, <3>2
  <2> QED
    BY <1>7, <2>6, <2>7
\* No trade is entered after it.
<1>9. ASSUME NEW e \in EntryIds, e[1] = o, e[2] > k
      PROVE  ~(entries'[e].filled > 0)
  <2>1. e # e0 /\ e[2] \in Nat
    BY <1>5, <1>7, <1>9, TradeIds
  <2>2. ~(e[2] <= current[o])
    BY <1>6, <1>7, <1>9, <2>1
  <2> QED
    BY <1>1, <1>5, <1>9, <2>1, <2>2 DEF EntriesAreSound
<1>10. EntriesFollow'
  <2> SUFFICES ASSUME NEW e \in EntryIds, NEW f \in EntryIds, e[1] = f[1], e[2] < f[2],
                      entries'[f].filled > 0
               PROVE  entries'[e].at < entries'[f].at /\ entries'[e].day < entries'[f].day
    BY DEF EntriesFollow
  <2>1. e # f
    BY TradeIds
  <2>2. CASE f = e0
    BY <1>4, <1>5, <1>8, <2>1, <2>2
  <2>3. CASE e = e0
    <3>1. e[1] = o /\ e[2] = k
      BY <1>5, <2>3
    <3>2. f[1] = o /\ f[2] > k
      BY <3>1
    <3> QED
      BY <1>9, <3>2
  <2>4. CASE e # e0 /\ f # e0
    BY <1>1, <1>5, <2>4 DEF EntriesFollow
  <2> QED
    BY <2>2, <2>3, <2>4
<1>11. ExitsFollow'
  <2> SUFFICES ASSUME NEW x \in Exited, NEW f \in EntryIds, f[1] = x[1], entries'[f].filled > 0
               PROVE  entries'[f].at <= exits[x].at => entries'[f].day <= exits[x].day
    BY <1>5 DEF ExitsFollow
  <2>1. exits[x].at < now /\ exits[x].at \in Nat
    BY <1>1, RowsAreTyped DEF ExitsAreSound
  <2>2. CASE f = e0
    BY <1>4, <1>6, <2>1, <2>2
  <2>3. CASE f # e0
    BY <1>1, <1>5, <2>3 DEF ExitsFollow
  <2> QED
    BY <2>2, <2>3
<1>12. ExitsRest'
  <2> SUFFICES ASSUME NEW x \in Exited, NEW f \in EntryIds, InOrder(x[1])', f[1] = x[1],
                      entries'[f].filled > 0
               PROVE  /\ x[2] < f[2] => exits[x].at < entries'[f].at
                      /\ x[2] = f[2] => entries'[f].at <= exits[x].at
    BY <1>5 DEF ExitsRest
  <2>1. exits[x].at < now /\ exits[x].at \in Nat /\ x[1] \in Owners /\ OwnEntry(x) = <<x[1], x[2]>>
    BY <1>1, RowsAreTyped, TradeIds DEF ExitsAreSound, OwnEntry
  <2>2. InOrder(x[1]) /\ (x[1] = o => OwnEntry(x) # e0)
    BY <1>3, <2>1, SavedEntry
  <2>3. CASE f = e0
    <3>1. x[2] # f[2]
      BY <1>3, <1>5, <2>1, <2>2, <2>3
    <3> QED
      BY <1>4, <2>1, <2>3, <3>1
  <2>4. CASE f # e0
    BY <1>1, <1>5, <2>2, <2>4 DEF ExitsRest
  <2> QED
    BY <2>3, <2>4
<1> QED
  BY <1>10, <1>11, <1>12

(* What an exit earned stays when an entry row is saved: either no exit    *)
(* follows it, or its owner is out of order.                               *)
LEMMA SavedEntryKeepsEarned ==
    ASSUME AccountingAssumption, Accounted, NEW o, NEW k, NEW filled, NEW price, NEW open,
           EntryIsSaved(o, k, filled, price, open)
    PROVE  /\ EarnedIsKept'
           /\ \A p \in Owners : InOrder(p)' => InOrder(p)
           /\ InOrder(o)' => \A x \in Exited : OwnEntry(x) # <<o, k>>
<1>1. AccountTypes /\ AccountTypes' /\ EntriesAreSound /\ ExitsAreSound /\ EarnedIsKept
  BY SavedEntry DEF Accounted
<1>2. filled \in 1 .. 2 /\ price \in Nat /\ open \in BOOLEAN /\ o \in Owners /\ k \in 1 .. Trades
  BY DEF EntryIsSaved
<1>3. PICK e0 : e0 = <<o, k>>
  OBVIOUS
<1>4. entries'[e0].at = now
  BY <1>3, SavedEntrySays
<1>5. /\ e0 \in EntryIds /\ e0[1] = o /\ e0[2] = k
      /\ \A e \in EntryIds : e # e0 => entries'[e] = entries[e]
      /\ exits' = exits /\ Exited' = Exited /\ earned' = earned
  BY <1>3, SavedEntry, TradeIds
<1>6. \A p \in Owners : InOrder(p)' => InOrder(p)
  BY SavedEntry
<1>7. InOrder(o)' => \A x \in Exited : OwnEntry(x) # e0
  BY <1>3, SavedEntry
<1>8. EarnedIsKept'
  <2> SUFFICES ASSUME NEW p \in Owners, InOrder(p)', NEW d \in 1 .. LastDay
               PROVE  earned[p][d] = GainOf(p, d)'
    BY <1>5 DEF EarnedIsKept
  <2>1. earned[p][d] = GainOf(p, d)
    BY <1>1, <1>6 DEF EarnedIsKept
  <2>2. Left(p, d)' = Left(p, d)
    BY <1>5 DEF Left
  <2>3. ASSUME NEW x \in Left(p, d)
        PROVE  exits'[x] = exits[x] /\ entries'[OwnEntry(x)].price = entries[OwnEntry(x)].price
    <3>1. x \in Exited /\ x[1] = p /\ OwnEntry(x) \in EntryIds
      BY <1>1, RowsAreTyped, TradeIds DEF Left
    <3>2. OwnEntry(x) # e0
      <4>1. CASE p = o
        BY <1>7, <3>1, <4>1
      <4>2. CASE p # o
        BY <1>3, <3>1, <4>2 DEF OwnEntry
      <4> QED
        BY <4>1, <4>2
    <3> QED
      BY <1>5, <3>1, <3>2
  <2>4. GainOf(p, d)' = GainOf(p, d)
    BY <1>1, <2>2, <2>3, GainStays
  <2> QED
    BY <2>1, <2>4
<1> QED
  BY <1>3, <1>6, <1>7, <1>8

(* What the shares of an owner whose row is not saved cost.                 *)
LEMMA SavedEntryKeepsCosts ==
    ASSUME AccountingAssumption, Accounted, NEW o, NEW k, NEW filled, NEW price, NEW open,
           EntryIsSaved(o, k, filled, price, open), NEW p \in Owners, p # o,
           cost'[p] = cost[p], current'[p] > 0, InOrder(p)'
    PROVE  cost'[p] = entries'[<<p, current'[p]>>].price * HeldBy(p)'
<1>1. AccountTypes /\ CostIsKept
  BY DEF Accounted
<1>2. /\ current'[p] = current[p] /\ exits' = exits /\ InOrder(p)
      /\ \A e \in EntryIds : e # <<o, k>> => entries'[e] = entries[e]
  <2>1. InOrder(p)
    BY SavedEntryKeepsEarned
  <2>2. \A q \in Owners : q # o => current'[q] = current[q]
    BY SavedEntry
  <2>3. exits' = exits
    BY SavedEntry
  <2>4. PICK e0 : e0 = <<o, k>>
    OBVIOUS
  <2>5. \A e \in EntryIds : e # e0 => entries'[e] = entries[e]
    BY <2>4, SavedEntry
  <2> QED
    BY <2>1, <2>2, <2>3, <2>4, <2>5
<1>3. current[p] \in 1 .. Trades
  BY <1>1, <1>2 DEF AccountTypes
<1>4. <<p, current[p]>> \in EntryIds /\ <<p, current[p]>> # <<o, k>>
  BY <1>3, TradeIds
<1>5. entries'[<<p, current[p]>>] = entries[<<p, current[p]>>]
  BY <1>2, <1>4
<1>6. HeldBy(p)' = HeldBy(p)
  BY <1>2, <1>5 DEF HeldBy, Bought, Sold
<1> QED
  BY <1>1, <1>2, <1>5, <1>6 DEF CostIsKept

(* The running trade of an owner: its rows, and what is held of it.         *)
LEMMA RunningTrade ==
    ASSUME Accounted, NEW o \in Owners, current[o] > 0
    PROVE  /\ current[o] \in 1 .. Trades
           /\ <<o, current[o]>> \in EntryIds
           /\ entries[<<o, current[o]>>].filled \in 1 .. 2
           /\ <<o, current[o], 1>> \in ExitIds /\ <<o, current[o], 2>> \in ExitIds
           /\ Sold(o, current[o]) \in Nat
           /\ HeldBy(o) = entries[<<o, current[o]>>].filled - Sold(o, current[o])
<1>1. AccountTypes /\ EntriesAreSound
  BY DEF Accounted
<1>2. current[o] \in 1 .. Trades
  BY <1>1 DEF AccountTypes
<1>3. PICK e \in EntryIds : e = <<o, current[o]>> /\ e[1] = o /\ e[2] = current[o]
  BY <1>2, TradeIds
<1>4. <<o, current[o], 1>> \in ExitIds /\ <<o, current[o], 2>> \in ExitIds
  BY <1>2, TradeIds
<1>5. entries[e].filled > 0 /\ entries[e].filled <= 2 /\ entries[e].filled \in Nat
  BY <1>1, <1>2, <1>3, RowsAreTyped DEF EntriesAreSound
<1>6. Sold(o, current[o]) \in Nat
  BY <1>1, <1>4, RowsAreTyped DEF Sold
<1> QED
  BY <1>2, <1>3, <1>4, <1>5, <1>6 DEF HeldBy, Bought

(* With nothing sold of a trade it has no exit.                             *)
LEMMA NothingSold ==
    ASSUME AccountTypes, NEW o \in Owners, NEW k \in 1 .. Trades,
           \A x \in Exited : OwnEntry(x) # <<o, k>>
    PROVE  Sold(o, k) = 0
<1>1. ASSUME NEW j \in 1 .. 2 PROVE exits[<<o, k, j>>].filled = 0
  <2>1. PICK x : x = <<o, k, j>>
    OBVIOUS
  <2>2. x \in ExitIds /\ OwnEntry(x) = <<o, k>>
    BY <2>1 DEF ExitIds, OwnEntry
  <2>3. x \notin Exited
    BY <2>2
  <2>4. exits[x].filled \in Nat /\ ~(exits[x].filled > 0)
    BY <2>2, <2>3, RowsAreTyped DEF Exited
  <2> QED
    BY <2>1, <2>4
<1> QED
  BY <1>1 DEF Sold

LEMMA EnterKeepsAccount ==
    ASSUME AccountingAssumption, Accounted, NEW o \in Owners, NEW p \in Prices, Enter(o, p)
    PROVE  Accounted'
<1>1. AccountTypes /\ EntriesAreSound /\ ExitsAreSound
  BY DEF Accounted
<1>2. current[o] \in Nat /\ current[o] < Trades /\ Trades \in Nat /\ p \in Nat /\ p % 2 = 0
  BY <1>1 DEF AccountTypes, AccountingAssumption, Enter
<1>3. PICK k \in 1 .. Trades : k = current[o] + 1
  BY <1>2
<1>4. EntryIsSaved(o, k, 1, p, Ordered > 1)
  <2>1. cost' \in [Owners -> Int]
    BY <1>1, <1>2 DEF Enter, AccountTypes
  <2>2. (Ordered > 1) \in BOOLEAN
    OBVIOUS
  <2> QED
    BY <1>2, <1>3, <2>1, <2>2 DEF Enter, EntryIsSaved
<1>5. /\ AccountTypes' /\ EntriesAreSound' /\ ExitsAreSound' /\ OpenExits'
      /\ EntriesFollow' /\ ExitsFollow' /\ ExitsRest' /\ EarnedIsKept'
  BY <1>4, SavedEntry, SavedEntryIsSound, SavedEntryFollows, SavedEntryKeepsEarned
<1>6. CostIsKept'
  <2> SUFFICES ASSUME NEW q \in Owners, current'[q] > 0, InOrder(q)'
               PROVE  cost'[q] = entries'[<<q, current'[q]>>].price * HeldBy(q)'
    BY DEF CostIsKept
  <2>1. CASE q # o
    <3>1. cost'[q] = cost[q]
      BY <1>1, <2>1 DEF Enter, AccountTypes
    <3> QED
      BY <1>4, <2>1, <3>1, SavedEntryKeepsCosts
  <2>2. CASE q = o
    <3>1. cost'[o] = p /\ current'[o] = k /\ exits' = exits
      BY <1>1, <1>4, SavedEntry DEF Enter, AccountTypes
    <3>2. entries'[<<o, k>>].filled = 1 /\ entries'[<<o, k>>].price = p
      BY <1>4, SavedEntrySays
    <3>3. Sold(o, k)' = 0
      <4>1. \A x \in Exited : OwnEntry(x) # <<o, k>>
        BY <1>4, <2>2, SavedEntryKeepsEarned
      <4>2. Sold(o, k) = 0
        BY <1>1, <4>1, NothingSold
      <4> QED
        BY <3>1, <4>2 DEF Sold
    <3>4. HeldBy(o)' = 1
      BY <1>3, <3>1, <3>2, <3>3 DEF HeldBy, Bought, Sold
    <3> QED
      BY <1>2, <2>2, <3>1, <3>2, <3>4
  <2> QED
    BY <2>1, <2>2
<1> QED
  BY <1>5, <1>6 DEF Accounted

LEMMA FillKeepsAccount ==
    ASSUME AccountingAssumption, Accounted, NEW o \in Owners, NEW p \in Prices, FillEntry(o, p)
    PROVE  Accounted'
<1>1. AccountTypes /\ EntriesAreSound /\ ExitsAreSound /\ CostIsKept
  BY DEF Accounted
<1>2. current[o] > 0 /\ current[o] \in 1 .. Trades /\ entries[<<o, current[o]>>].open
  BY <1>1, RunningTrade DEF FillEntry, Open
<1>3. PICK k \in 1 .. Trades : k = current[o] /\ <<o, k>> \in EntryIds
  BY <1>2, RunningTrade
<1>4. PICK price : price = entries[<<o, k>>].price
  OBVIOUS
<1>5. entries[<<o, k>>].filled = 1 /\ price \in Nat /\ price % 2 = 0 /\ p \in Nat /\ p % 2 = 0
  <2>1. PICK e \in EntryIds : e = <<o, k>>
    BY <1>3
  <2>2. entries[e].filled = 1 /\ entries[e].price % 2 = 0
    BY <1>1, <1>2, <1>3, <2>1 DEF EntriesAreSound
  <2>3. entries[e].price \in Nat /\ p \in Nat /\ p % 2 = 0
    BY <1>1, RowsAreTyped DEF AccountingAssumption
  <2> QED
    BY <1>4, <2>1, <2>2, <2>3
<1>6. PICK new : new = (price + p) \div 2
  OBVIOUS
<1>7. new \in Nat /\ new * 2 = price + p
  BY <1>5, <1>6
<1>8. EntryIsSaved(o, k, 2, new, FALSE)
  <2>1. cost[o] + p \in Int
    <3>1. cost[o] \in Int
      BY <1>1 DEF AccountTypes
    <3> QED
      BY <1>5, <3>1
  <2>2. cost' = [cost EXCEPT ![o] = @ + p]
    BY DEF FillEntry
  <2>3. cost' \in [Owners -> Int]
    BY <1>1, <2>1, <2>2 DEF AccountTypes
  <2>4. SaveEntry(o, k, 2, new, FALSE)
    <3>1. SaveEntry(o, k, 1 + 1, (1 * price + p) \div (1 + 1), FALSE)
      BY <1>3, <1>4, <1>5, Zenon DEF FillEntry
    <3>2. 1 + 1 = 2 /\ (1 * price + p) \div (1 + 1) = new
      BY <1>5, <1>6
    <3> QED
      BY <3>1, <3>2
  <2>5. current' = [current EXCEPT ![o] = k]
    BY <1>1, <1>3 DEF FillEntry, AccountTypes
  <2> QED
    <3>1. 2 \in 1 .. 2 /\ 2 # 1
      OBVIOUS
    <3> QED
      BY <1>3, <1>7, <2>3, <2>4, <2>5, <3>1, Zenon DEF EntryIsSaved
<1>9. /\ AccountTypes' /\ EntriesAreSound' /\ ExitsAreSound' /\ OpenExits'
      /\ EntriesFollow' /\ ExitsFollow' /\ ExitsRest' /\ EarnedIsKept'
  BY <1>8, SavedEntry, SavedEntryIsSound, SavedEntryFollows, SavedEntryKeepsEarned
<1>10. CostIsKept'
  <2> SUFFICES ASSUME NEW q \in Owners, current'[q] > 0, InOrder(q)'
               PROVE  cost'[q] = entries'[<<q, current'[q]>>].price * HeldBy(q)'
    BY DEF CostIsKept
  <2>1. CASE q # o
    <3>1. cost'[q] = cost[q]
      BY <1>1, <2>1 DEF FillEntry, AccountTypes
    <3> QED
      BY <1>8, <2>1, <3>1, SavedEntryKeepsCosts
  <2>2. CASE q = o
    <3>1. cost'[o] = cost[o] + p /\ current'[o] = k /\ exits' = exits
      BY <1>1, <1>8, SavedEntry DEF FillEntry, AccountTypes
    <3>2. entries'[<<o, k>>].filled = 2 /\ entries'[<<o, k>>].price = new
      <4>1. PICK n : n = 2 /\ EntryIsSaved(o, k, n, new, FALSE)
        BY <1>8
      <4>2. EntryIsSaved(o, k, n, new, FALSE)
        BY <4>1
      <4>3. entries'[<<o, k>>].filled = n /\ entries'[<<o, k>>].price = new
        BY <4>2, SavedEntrySays
      <4> QED
        BY <4>1, <4>3
    <3>3. Sold(o, k) = 0 /\ Sold(o, k)' = 0
      <4>1. \A x \in Exited : OwnEntry(x) # <<o, k>>
        BY <1>8, <2>2, SavedEntryKeepsEarned
      <4>2. Sold(o, k) = 0
        BY <1>1, <4>1, NothingSold
      <4> QED
        BY <3>1, <4>2 DEF Sold
    <3>4. HeldBy(o) = 1 /\ HeldBy(o)' = 2
      BY <1>3, <1>5, <3>1, <3>2, <3>3 DEF HeldBy, Bought
    <3>5. cost[o] = price * 1
      <4>1. InOrder(o)
        BY <1>8, <2>2, SavedEntryKeepsEarned
      <4> QED
        BY <1>1, <1>2, <1>3, <1>4, <3>4, <4>1 DEF CostIsKept
    <3>6. cost'[o] = new * 2
      BY <1>5, <1>7, <3>1, <3>5
    <3> QED
      BY <2>2, <3>1, <3>2, <3>4, <3>6
  <2> QED
    BY <2>1, <2>2
<1> QED
  BY <1>9, <1>10 DEF Accounted

LEMMA EndKeepsAccount ==
    ASSUME AccountingAssumption, Accounted, NEW o \in Owners, EndEntry(o)
    PROVE  Accounted'
<1>1. AccountTypes /\ EntriesAreSound /\ ExitsAreSound /\ CostIsKept
  BY DEF Accounted
<1>2. current[o] > 0 /\ entries[<<o, current[o]>>].open
  BY DEF EndEntry, Open
<1>3. PICK k \in 1 .. Trades : k = current[o] /\ <<o, k>> \in EntryIds
  BY <1>2, RunningTrade
<1>4. PICK filled, price : filled = entries[<<o, k>>].filled /\ price = entries[<<o, k>>].price
  OBVIOUS
<1>5. filled = 1 /\ price \in Nat /\ price % 2 = 0
  <2>1. PICK e \in EntryIds : e = <<o, k>>
    BY <1>3
  <2>2. entries[e].filled = 1 /\ entries[e].price % 2 = 0
    BY <1>1, <1>2, <1>3, <2>1 DEF EntriesAreSound
  <2>3. entries[e].price \in Nat
    BY <1>1, RowsAreTyped
  <2> QED
    BY <1>4, <2>1, <2>2, <2>3
<1>6. EntryIsSaved(o, k, filled, price, FALSE)
  <2>1. SaveEntry(o, k, filled, price, FALSE)
    BY <1>3, <1>4, Zenon DEF EndEntry
  <2>2. current' = [current EXCEPT ![o] = k] /\ cost' \in [Owners -> Int]
    BY <1>1, <1>3 DEF EndEntry, AccountTypes
  <2> QED
    <3>1. filled \in 1 .. 2
      BY <1>5
    <3> QED
      BY <1>3, <1>5, <2>1, <2>2, <3>1, Zenon DEF EntryIsSaved
<1>7. /\ AccountTypes' /\ EntriesAreSound' /\ ExitsAreSound' /\ OpenExits'
      /\ EntriesFollow' /\ ExitsFollow' /\ ExitsRest' /\ EarnedIsKept'
  BY <1>6, SavedEntry, SavedEntryIsSound, SavedEntryFollows, SavedEntryKeepsEarned
<1>8. CostIsKept'
  <2> SUFFICES ASSUME NEW q \in Owners, current'[q] > 0, InOrder(q)'
               PROVE  cost'[q] = entries'[<<q, current'[q]>>].price * HeldBy(q)'
    BY DEF CostIsKept
  <2>1. cost' = cost
    BY DEF EndEntry
  <2>2. CASE q # o
    BY <1>6, <2>1, <2>2, SavedEntryKeepsCosts
  <2>3. CASE q = o
    <3>1. current'[o] = k /\ exits' = exits /\ InOrder(o)
      BY <1>6, <2>3, SavedEntry, SavedEntryKeepsEarned
    <3>2. entries'[<<o, k>>].filled = filled /\ entries'[<<o, k>>].price = price
      BY <1>6, SavedEntrySays
    <3>3. HeldBy(o)' = HeldBy(o)
      BY <1>3, <1>4, <3>1, <3>2 DEF HeldBy, Bought, Sold
    <3>4. cost[o] = price * HeldBy(o)
      BY <1>1, <1>2, <1>3, <1>4, <3>1 DEF CostIsKept
    <3> QED
      BY <2>1, <2>3, <3>1, <3>2, <3>3, <3>4
  <2> QED
    BY <2>2, <2>3
<1> QED
  BY <1>7, <1>8 DEF Accounted

(* What saving an exit row does: so much is paid of the cost, and so much  *)
(* is gained; while rows are saved in turn, by the running trade, and what *)
(* its further fills bring.                                                *)
ExitIsSaved(x0, filled, price, open, paid, gain) ==
    /\ x0 \in ExitIds /\ x0[2] <= current[x0[1]]
    /\ filled \in Nat \ {0} /\ price \in Nat /\ open \in BOOLEAN
    /\ open => filled = 1 /\ price % 2 = 0
    /\ paid \in Int /\ gain \in Int
    /\ cost' = [cost EXCEPT ![x0[1]] = @ - paid]
    /\ earned' = [earned EXCEPT ![x0[1]][day] = @ + gain]
    /\ SaveExit(x0, filled, price, open)
    /\ InOrder(x0[1]) /\ InTurn(x0) =>
         /\ x0[2] = current[x0[1]]
         /\ paid = entries[OwnEntry(x0)].price * (filled - exits[x0].filled)
         /\ gain = OwnGain(x0)' - OwnGain(x0)

LEMMA SavedExit ==
    ASSUME AccountingAssumption, Accounted, NEW x0, NEW filled, NEW price, NEW open, NEW paid,
           NEW gain, ExitIsSaved(x0, filled, price, open, paid, gain)
    PROVE  /\ AccountTypes'
           /\ x0 \in Exited' /\ Exited' = Exited \cup {x0}
           /\ exits'[x0].filled = filled /\ exits'[x0].price = price
           /\ exits'[x0].at = now /\ exits'[x0].day = day /\ exits'[x0].open = open
           /\ \A x \in ExitIds : x # x0 => exits'[x] = exits[x]
           /\ entries' = entries /\ current' = current /\ day' = day /\ now' = now + 1
           /\ \A q \in Owners : InOrder(q)' => InOrder(q)
           /\ InOrder(x0[1])' => InTurn(x0)
<1>1. AccountTypes
  BY DEF Accounted
<1>2. x0 \in ExitIds /\ x0[1] \in Owners
  BY TradeIds DEF ExitIsSaved
<1>3. filled \in Nat \ {0} /\ price \in Nat /\ open \in BOOLEAN
  BY DEF ExitIsSaved
<1>4. PICK row : exits' = [exits EXCEPT ![x0] = row] /\ row = Saved(filled, price, open)
  BY DEF ExitIsSaved, SaveExit
<1>5. /\ row \in TradeRow /\ row.filled = filled /\ row.price = price
      /\ row.at = now /\ row.day = day /\ row.open = open
  <2>1. filled \in Nat
    BY <1>3
  <2> QED
    BY <1>1, <1>3, <1>4, <2>1, SavedSays
<1>6. exits'[x0] = row /\ \A x \in ExitIds : x # x0 => exits'[x] = exits[x]
  BY <1>1, <1>2, <1>4 DEF AccountTypes
<1>7. DOMAIN exits = ExitIds /\ DOMAIN exits' = ExitIds
  BY <1>1, <1>4 DEF AccountTypes
<1>8. x0 \in Exited' /\ Exited' = Exited \cup {x0}
  <2>1. exits'[x0].filled > 0
    BY <1>3, <1>5, <1>6
  <2>2. Exited' = {x \in ExitIds : exits'[x].filled > 0} /\ Exited = {x \in ExitIds : exits[x].filled > 0}
    BY <1>7 DEF Exited
  <2> QED
    BY <1>2, <1>6, <2>1, <2>2
<1>9. entries' = entries /\ current' = current /\ day' = day /\ now' = now + 1
  BY DEF ExitIsSaved, SaveExit, Tick
<1>10. moved' = IF InTurn(x0) THEN moved ELSE moved \cup {x0[1]}
  BY DEF ExitIsSaved, SaveExit
<1>11. (\A q \in Owners : InOrder(q)' => InOrder(q)) /\ (InOrder(x0[1])' => InTurn(x0))
  BY <1>10 DEF InOrder
<1>12. /\ cost' = [cost EXCEPT ![x0[1]] = @ - paid] /\ paid \in Int
       /\ earned' = [earned EXCEPT ![x0[1]][day] = @ + gain] /\ gain \in Int
  BY DEF ExitIsSaved
<1>13. AccountTypes'
  <2>1. exits' \in [ExitIds -> TradeRow]
    BY <1>1, <1>2, <1>4, <1>5 DEF AccountTypes
  <2>2. cost' \in [Owners -> Int]
    BY <1>1, <1>2, <1>12 DEF AccountTypes
  <2>3. earned' \in [Owners -> [1 .. LastDay -> Int]]
    <3>1. PICK q : q = x0[1]
      OBVIOUS
    <3>2. earned \in [Owners -> [1 .. LastDay -> Int]] /\ q \in Owners /\ day \in 1 .. LastDay
      BY <1>1, <1>2, <3>1 DEF AccountTypes
    <3>3. PICK sum : sum = earned[q][day] + gain
      OBVIOUS
    <3>4. sum \in Int
      BY <1>12, <3>2, <3>3
    <3>5. earned' = [earned EXCEPT ![q][day] = sum]
      BY <1>12, <3>1, <3>3
    <3> QED
      BY <3>2, <3>4, <3>5
  <2>4. now' \in Nat \ {0}
    BY <1>1, <1>9 DEF AccountTypes
  <2>5. moved' \in SUBSET Owners
    BY <1>1, <1>2, <1>10 DEF AccountTypes
  <2> QED
    BY <1>1, <1>9, <2>1, <2>2, <2>3, <2>4, <2>5 DEF AccountTypes
<1> QED
  BY <1>5, <1>6, <1>8, <1>9, <1>11, <1>13

(* The rows after it.                                                       *)
LEMMA SavedExitIsSound ==
    ASSUME AccountingAssumption, Accounted, NEW x0, NEW filled, NEW price, NEW open, NEW paid,
           NEW gain, ExitIsSaved(x0, filled, price, open, paid, gain)
    PROVE  /\ EntriesAreSound' /\ ExitsAreSound' /\ OpenExits'
           /\ EntriesFollow' /\ ExitsFollow' /\ ExitsRest'
<1>1. /\ AccountTypes /\ EntriesAreSound /\ ExitsAreSound /\ OpenExits
      /\ EntriesFollow /\ ExitsFollow /\ ExitsRest
  BY DEF Accounted
<1>2. /\ Exited' = Exited \cup {x0}
      /\ exits'[x0].filled = filled /\ exits'[x0].price = price /\ exits'[x0].open = open
      /\ exits'[x0].at = now /\ exits'[x0].day = day
      /\ \A x \in ExitIds : x # x0 => exits'[x] = exits[x]
      /\ entries' = entries /\ current' = current /\ day' = day /\ now' = now + 1
      /\ \A q \in Owners : InOrder(q)' => InOrder(q)
      /\ InOrder(x0[1])' => InTurn(x0)
  BY SavedExit
<1>3. PICK o, e0 : o = x0[1] /\ e0 = OwnEntry(x0)
  OBVIOUS
<1>4. /\ x0 \in ExitIds /\ o \in Owners /\ x0[2] \in 1 .. Trades /\ x0[2] <= current[o]
      /\ e0 \in EntryIds /\ e0[1] = o /\ e0[2] = x0[2]
  BY <1>3, TradeIds DEF ExitIsSaved, OwnEntry
<1>5. now \in Nat /\ day \in Nat \ {0} /\ current[o] \in Nat
  BY <1>1, <1>4 DEF AccountTypes
<1>6. Exited \subseteq ExitIds /\ \A x \in Exited : x # x0 => exits'[x] = exits[x]
  BY <1>1, <1>2, RowsAreTyped
<1>7. EntriesAreSound'
  <2> SUFFICES ASSUME NEW e \in EntryIds
               PROVE  /\ entries[e].filled > 0 <=> e[2] <= current[e[1]]
                      /\ entries[e].filled <= 2
                      /\ entries[e].open => entries[e].filled = 1 /\ e[2] = current[e[1]]
                      /\ entries[e].filled = 1 => entries[e].price % 2 = 0
                      /\ entries[e].at < now + 1 /\ entries[e].day <= day
    BY <1>2 DEF EntriesAreSound
  <2>1. entries[e].at < now /\ entries[e].at \in Nat
    BY <1>1, RowsAreTyped DEF EntriesAreSound
  <2>2. entries[e].at < now + 1
    BY <1>5, <2>1
  <2> QED
    BY <1>1, <2>2 DEF EntriesAreSound
<1>8. ExitsAreSound'
  <2> SUFFICES ASSUME NEW x \in Exited'
               PROVE  /\ entries[OwnEntry(x)].filled > 0
                      /\ exits'[x].at < now + 1
                      /\ exits'[x].day \in 1 .. day
    BY <1>2 DEF ExitsAreSound, OwnEntry
  <2>1. CASE x \in Exited /\ x # x0
    <3>1. exits[x].at < now /\ exits[x].at \in Nat
      BY <1>1, <1>6, <2>1, RowsAreTyped DEF ExitsAreSound
    <3>2. exits'[x].at < now + 1
      BY <1>5, <1>6, <2>1, <3>1
    <3> QED
      BY <1>1, <1>6, <2>1, <3>2 DEF ExitsAreSound
  <2>2. CASE x = x0
    <3>1. entries[e0].filled > 0
      BY <1>1, <1>4 DEF EntriesAreSound
    <3> QED
      BY <1>2, <1>3, <1>5, <2>2, <3>1
  <2> QED
    BY <1>2, <2>1, <2>2
<1>9. OpenExits'
  <2> SUFFICES ASSUME NEW x \in ExitIds, exits'[x].open
               PROVE  exits'[x].filled = 1 /\ exits'[x].price % 2 = 0
    BY DEF OpenExits
  <2>1. CASE x = x0
    BY <1>2, <2>1 DEF ExitIsSaved
  <2>2. CASE x # x0
    BY <1>1, <1>2, <2>2 DEF OpenExits
  <2> QED
    BY <2>1, <2>2
<1>10. EntriesFollow'
  BY <1>1, <1>2 DEF EntriesFollow
<1>11. ASSUME NEW f \in EntryIds, f[1] = o, entries[f].filled > 0
       PROVE  f[2] <= current[o] /\ entries[f].day <= day /\ entries[f].at < now /\ f[2] \in Nat
              /\ entries[f].at \in Nat
  BY <1>1, <1>11, TradeIds, RowsAreTyped DEF EntriesAreSound
<1>12. ExitsFollow'
  <2> SUFFICES ASSUME NEW x \in Exited', NEW f \in EntryIds, f[1] = x[1], entries[f].filled > 0
               PROVE  entries[f].at <= exits'[x].at => entries[f].day <= exits'[x].day
    BY <1>2 DEF ExitsFollow
  <2>1. CASE x \in Exited /\ x # x0
    BY <1>1, <1>6, <2>1 DEF ExitsFollow
  <2>2. CASE x = x0
    BY <1>2, <1>3, <1>11, <2>2
  <2> QED
    BY <1>2, <2>1, <2>2
<1>13. ExitsRest'
  <2> SUFFICES ASSUME NEW x \in Exited', NEW f \in EntryIds, InOrder(x[1])', f[1] = x[1],
                      entries[f].filled > 0
               PROVE  /\ x[2] < f[2] => exits'[x].at < entries[f].at
                      /\ x[2] = f[2] => entries[f].at <= exits'[x].at
    BY <1>2 DEF ExitsRest
  <2>1. CASE x \in Exited /\ x # x0
    <3>1. x[1] \in Owners
      BY <1>6, <2>1, TradeIds
    <3> QED
      BY <1>1, <1>2, <1>6, <2>1, <3>1 DEF ExitsRest
  <2>2. CASE x = x0
    <3>1. x0[2] = current[o]
      BY <1>2, <1>3, <1>4, <2>2 DEF ExitIsSaved
    <3>2. f[2] <= current[o] /\ entries[f].at < now /\ f[2] \in Nat /\ entries[f].at \in Nat
      BY <1>3, <1>11, <2>2
    <3> QED
      BY <1>2, <1>5, <2>2, <3>1, <3>2
  <2> QED
    BY <1>2, <2>1, <2>2
<1> QED
  BY <1>7, <1>8, <1>9, <1>10, <1>12, <1>13

LEMMA SavedExitKeepsCosts ==
    ASSUME AccountingAssumption, Accounted, NEW x0, NEW filled, NEW price, NEW open, NEW paid,
           NEW gain, ExitIsSaved(x0, filled, price, open, paid, gain)
    PROVE  CostIsKept'
<1>1. AccountTypes /\ CostIsKept
  BY DEF Accounted
<1>2. /\ exits'[x0].filled = filled
      /\ \A x \in ExitIds : x # x0 => exits'[x] = exits[x]
      /\ entries' = entries /\ current' = current
      /\ \A q \in Owners : InOrder(q)' => InOrder(q)
      /\ InOrder(x0[1])' => InTurn(x0)
  BY SavedExit
<1>3. PICK o : o = x0[1]
  OBVIOUS
<1>4. /\ x0 \in ExitIds /\ o \in Owners /\ filled \in Nat /\ paid \in Int
      /\ exits[x0].filled \in Nat
      /\ cost' = [cost EXCEPT ![o] = @ - paid]
  BY <1>1, <1>3, TradeIds, RowsAreTyped DEF ExitIsSaved
<1> SUFFICES ASSUME NEW q \in Owners, current[q] > 0, InOrder(q)'
             PROVE  cost'[q] = entries[<<q, current[q]>>].price * HeldBy(q)'
  BY <1>2 DEF CostIsKept
<1>5. /\ <<q, current[q], 1>> \in ExitIds /\ <<q, current[q], 2>> \in ExitIds
      /\ <<q, current[q]>> \in EntryIds /\ Sold(q, current[q]) \in Nat
      /\ HeldBy(q) = entries[<<q, current[q]>>].filled - Sold(q, current[q])
      /\ entries[<<q, current[q]>>].filled \in 1 .. 2
  BY RunningTrade
<1>6. HeldBy(q)' = entries[<<q, current[q]>>].filled - Sold(q, current[q])'
  <2>1. current'[q] # 0
    BY <1>1, <1>2 DEF AccountTypes
  <2> QED
    BY <1>2, <2>1 DEF HeldBy, Bought, Sold
<1>7. CASE q # o
  <2>1. <<q, current[q], 1>> # x0 /\ <<q, current[q], 2>> # x0
    BY <1>3, <1>7
  <2>2. Sold(q, current[q])' = Sold(q, current[q])
    BY <1>2, <1>5, <2>1 DEF Sold
  <2>3. cost'[q] = cost[q]
    BY <1>1, <1>4, <1>7 DEF AccountTypes
  <2> QED
    BY <1>1, <1>2, <1>5, <1>6, <2>2, <2>3 DEF CostIsKept
<1>8. CASE q = o
  <2>1. InOrder(o) /\ InTurn(x0)
    BY <1>2, <1>3, <1>8
  <2>2. x0[2] = current[o] /\ paid = entries[OwnEntry(x0)].price * (filled - exits[x0].filled)
    BY <1>3, <2>1 DEF ExitIsSaved
  <2>3. PICK x1, x2 : x1 = <<o, current[o], 1>> /\ x2 = <<o, current[o], 2>>
    OBVIOUS
  <2>4. x1 \in ExitIds /\ x2 \in ExitIds /\ x1 # x2 /\ (x0 = x1 \/ x0 = x2)
    BY <1>3, <1>4, <1>5, <1>8, <2>2, <2>3 DEF ExitIds
  <2>5. PICK a, b, h, f : /\ a = exits[x1].filled /\ b = exits[x2].filled /\ h = HeldBy(o)
                          /\ f = exits[x0].filled
    OBVIOUS
  <2>6. a \in Nat /\ b \in Nat /\ f \in Nat
    BY <1>1, <1>4, <2>4, <2>5, RowsAreTyped
  <2>7. Sold(o, current[o]) = a + b
    BY <2>3, <2>5 DEF Sold
  <2>8. Sold(o, current[o])' = a + b - f + filled
    <3>1. Sold(o, current[o])' = exits'[x1].filled + exits'[x2].filled
      BY <1>2, <2>3 DEF Sold
    <3>2. CASE x0 = x1
      BY <1>2, <1>4, <2>4, <2>5, <2>6, <3>1, <3>2
    <3>3. CASE x0 = x2
      BY <1>2, <1>4, <2>4, <2>5, <2>6, <3>1, <3>3
    <3> QED
      BY <2>4, <3>2, <3>3
  <2>9. h \in Int /\ HeldBy(o)' = h - (filled - f)
    BY <1>4, <1>5, <1>6, <1>8, <2>5, <2>6, <2>7, <2>8
  <2>10. PICK own : own = entries[OwnEntry(x0)].price
    OBVIOUS
  <2>11. OwnEntry(x0) = <<o, current[o]>> /\ own \in Nat
    <3>1. OwnEntry(x0) = <<o, current[o]>>
      BY <1>3, <2>2 DEF OwnEntry
    <3> QED
      BY <1>1, <1>5, <1>8, <2>10, <3>1, RowsAreTyped
  <2>12. cost[o] = own * h
    BY <1>1, <1>8, <2>1, <2>5, <2>10, <2>11 DEF CostIsKept
  <2>13. cost'[o] = own * h - own * (filled - f)
    BY <1>1, <1>4, <2>2, <2>5, <2>10, <2>12 DEF AccountTypes
  <2>14. own * h - own * (filled - f) = own * (h - (filled - f))
    <3>1. PICK n : n = filled - f
      OBVIOUS
    <3>2. n \in Int /\ own \in Int
      BY <1>4, <2>6, <2>11, <3>1
    <3>3. own * h - own * n = own * (h - n)
      BY <2>9, <3>2, Z3
    <3> QED
      BY <3>1, <3>3
  <2> QED
    BY <1>8, <2>9, <2>10, <2>11, <2>13, <2>14
<1> QED
  BY <1>7, <1>8

(* What an exit gains is added to its owner and its day, and to the term of *)
(* its row in the sum.                                                     *)
LEMMA SavedExitKeepsEarned ==
    ASSUME AccountingAssumption, Accounted, NEW x0, NEW filled, NEW price, NEW open, NEW paid,
           NEW gain, ExitIsSaved(x0, filled, price, open, paid, gain)
    PROVE  EarnedIsKept'
<1>1. AccountTypes /\ EarnedIsKept
  BY DEF Accounted
<1>2. PICK o : o = x0[1]
  OBVIOUS
<1>3. /\ AccountTypes'
      /\ exits'[x0].day = day
      /\ \A x \in ExitIds : x # x0 => exits'[x] = exits[x]
      /\ Exited' = Exited \cup {x0}
      /\ entries' = entries
      /\ \A q \in Owners : InOrder(q)' => InOrder(q)
      /\ InOrder(o)' => InTurn(x0)
  BY <1>2, SavedExit
<1>4. x0 \in ExitIds /\ o \in Owners /\ day \in 1 .. LastDay /\ gain \in Int
  BY <1>1, <1>2, TradeIds DEF ExitIsSaved, AccountTypes
<1>5. earned' = [earned EXCEPT ![o][day] = @ + gain]
  BY <1>2 DEF ExitIsSaved
<1>6. Exited \subseteq ExitIds
  BY <1>1, RowsAreTyped
<1> SUFFICES ASSUME NEW q \in Owners, InOrder(q)', NEW d \in 1 .. LastDay
             PROVE  earned'[q][d] = GainOf(q, d)'
  BY DEF EarnedIsKept
<1>7. InOrder(q) /\ earned[q][d] = GainOf(q, d)
  BY <1>1, <1>3 DEF EarnedIsKept
<1>8. q = o /\ x0 \in Exited => exits[x0].day = day
  <2> SUFFICES ASSUME q = o, x0 \in Exited PROVE exits[x0].day = day
    OBVIOUS
  <2>1. exits[x0].filled > 0
    BY DEF Exited
  <2> QED
    BY <1>3, <2>1 DEF InTurn
<1>9. ASSUME NEW x \in Left(q, d), x # x0
      PROVE  exits'[x] = exits[x] /\ entries'[OwnEntry(x)].price = entries[OwnEntry(x)].price
  <2>1. x \in Exited
    BY DEF Left
  <2> QED
    BY <1>3, <1>6, <1>9, <2>1
<1>10. CASE q # o \/ d # day
  <2>1. x0 \notin Left(q, d) /\ x0 \notin Left(q, d)'
    BY <1>2, <1>3, <1>8, <1>10 DEF Left
  <2>2. Left(q, d)' = Left(q, d)
    <3>1. ASSUME NEW x \in ExitIds, x # x0 PROVE x \in Left(q, d)' <=> x \in Left(q, d)
      BY <1>3, <3>1 DEF Left
    <3>2. Left(q, d) \subseteq ExitIds /\ Left(q, d)' \subseteq ExitIds
      BY <1>3, <1>4, <1>6 DEF Left
    <3> QED
      BY <2>1, <3>1, <3>2
  <2>3. \A x \in Left(q, d) : /\ exits'[x] = exits[x]
                              /\ entries'[OwnEntry(x)].price = entries[OwnEntry(x)].price
    BY <1>9, <2>1
  <2>4. GainOf(q, d)' = GainOf(q, d)
    BY <1>1, <1>3, <2>2, <2>3, GainStays
  <2>5. earned'[q][d] = earned[q][d]
    BY <1>1, <1>4, <1>5, <1>10 DEF AccountTypes
  <2> QED
    BY <1>7, <2>4, <2>5
<1>11. CASE q = o /\ d = day
  <2>1. PICK S, T, U : S = Left(o, d)' /\ U = Left(o, d) /\ T = S \ {x0}
    OBVIOUS
  <2>2. x0 \in S /\ T = U \ {x0} /\ (x0 \in U <=> x0 \in Exited)
    <3>1. x0 \in S
      BY <1>2, <1>3, <1>11, <2>1 DEF Left
    <3>2. x0 \in U <=> x0 \in Exited
      BY <1>2, <1>8, <1>11, <2>1 DEF Left
    <3>3. ASSUME NEW x, x # x0 PROVE x \in S <=> x \in U
      BY <1>3, <1>6, <2>1, <3>3 DEF Left
    <3> QED
      BY <2>1, <3>1, <3>2, <3>3
  <2>3. PICK v, w : /\ v = [x \in ExitIds |-> OwnGain(x)]
                    /\ w = [x \in ExitIds |-> OwnGain(x)']
    OBVIOUS
  <2>4. /\ S \subseteq ExitIds /\ IsFiniteSet(S) /\ T \subseteq S /\ IsFiniteSet(T)
        /\ U \subseteq Exited /\ IsFiniteSet(U)
    <3>1. S \subseteq ExitIds /\ U \subseteq Exited
      BY <1>3, <1>4, <1>6, <2>1 DEF Left
    <3>2. IsFiniteSet(S) /\ IsFiniteSet(U)
      BY <1>6, <3>1, TradeIdsAreFinite, FS_Subset
    <3>3. T \subseteq S /\ IsFiniteSet(T)
      BY <2>1, <3>2, FS_Subset
    <3> QED
      BY <3>1, <3>2, <3>3
  <2>5. \A x \in ExitIds : v[x] \in Int
    BY <1>1, <2>3, GainsAreInt
  <2>6. \A x \in T : w[x] = v[x]
    <3> SUFFICES ASSUME NEW x \in T PROVE OwnGain(x)' = OwnGain(x)
      BY <2>3, <2>4
    <3>1. exits'[x] = exits[x] /\ entries'[OwnEntry(x)].price = entries[OwnEntry(x)].price
      BY <1>9, <1>11, <2>1, <2>2
    <3> QED
      BY <3>1 DEF OwnGain, Gain, Shares, OwnEntry
  <2>7. gain = w[x0] - v[x0] /\ w[x0] \in Int
    <3>1. gain = OwnGain(x0)' - OwnGain(x0)
      BY <1>2, <1>3, <1>7, <1>11 DEF ExitIsSaved
    <3>2. OwnGain(x0)' \in Int
      <4>1. PICK a, b, f, s : /\ a = exits'[x0].price /\ b = entries'[OwnEntry(x0)].price
                              /\ f = exits'[x0].filled /\ s = Shares(x0)
        OBVIOUS
      <4>2. a \in Nat /\ b \in Nat /\ f \in Nat
        BY <1>3, <1>4, <4>1, TradeIds DEF AccountTypes, TradeRow
      <4>3. s \in Int
        BY <1>1, <4>1, GainsAreInt
      <4>4. OwnGain(x0)' = s * ((a - b) * f)
        BY <4>1 DEF OwnGain, Gain, Shares, OwnEntry
      <4> QED
        BY <4>2, <4>3, <4>4
    <3> QED
      BY <1>4, <2>3, <3>1, <3>2
  <2>8. \A x \in S : w[x] \in Int
    BY <2>1, <2>4, <2>5, <2>6, <2>7
  <2>9. SumFunctionOnSet(w, T) = SumFunctionOnSet(v, T) /\ SumFunctionOnSet(w, T) \in Int
    BY <2>4, <2>6, <2>8, SumOfEquals, SumIsInt
  <2>10. SumFunctionOnSet(w, S) = w[x0] + SumFunctionOnSet(w, T)
    BY <2>1, <2>2, <2>4, <2>8, SumTakes
  <2>11. SumFunctionOnSet(v, U) = v[x0] + SumFunctionOnSet(v, T)
    <3>1. CASE x0 \in Exited
      <4>1. \A x \in U : v[x] \in Int
        BY <1>6, <2>4, <2>5
      <4> QED
        BY <2>2, <2>4, <3>1, <4>1, SumTakes
    <3>2. CASE x0 \notin Exited
      <4>1. U = T
        BY <2>2, <3>2
      <4>2. v[x0] = 0
        <5>1. exits[x0].filled = 0
          <6>1. exits[x0].filled \in Nat /\ ~(exits[x0].filled > 0)
            BY <1>1, <1>4, <3>2, RowsAreTyped DEF Exited
          <6> QED
            BY <6>1
        <5>2. PICK a, s : a = exits[x0].price - entries[OwnEntry(x0)].price /\ s = Shares(x0)
          OBVIOUS
        <5>3. a \in Int /\ s \in Int
          BY <1>1, <1>4, <5>2, RowsAreTyped, TradeIds, GainsAreInt
        <5>4. OwnGain(x0) = s * (a * 0)
          BY <5>1, <5>2 DEF OwnGain, Gain
        <5> QED
          BY <1>4, <2>3, <5>3, <5>4
      <4> QED
        BY <2>9, <4>1, <4>2
    <3> QED
      BY <3>1, <3>2
  <2>12. GainOf(o, d) = SumFunctionOnSet(v, U)
    BY <2>1, <2>3 DEF GainOf
  <2>13. GainOf(o, d)' = SumFunctionOnSet(w, S)
    <3>1. GainOf(o, d)' = SumFunctionOnSet([x \in ExitIds |-> OwnGain(x)'], Left(o, d)')
      BY DEF GainOf
    <3> QED
      BY <2>1, <2>3, <3>1
  <2>14. earned'[o][d] = earned[o][d] + gain
    BY <1>1, <1>4, <1>5, <1>11 DEF AccountTypes
  <2>15. v[x0] \in Int
    BY <1>4, <2>5
  <2> QED
    BY <1>7, <1>11, <2>7, <2>9, <2>10, <2>11, <2>12, <2>13, <2>14, <2>15
<1> QED
  BY <1>10, <1>11

LEMMA SavedExitKeepsAccount ==
    ASSUME AccountingAssumption, Accounted, NEW x0, NEW filled, NEW price, NEW open, NEW paid,
           NEW gain, ExitIsSaved(x0, filled, price, open, paid, gain)
    PROVE  Accounted'
<1>1. AccountTypes'
  BY SavedExit
<1> QED
  BY <1>1, SavedExitIsSound, SavedExitKeepsCosts, SavedExitKeepsEarned DEF Accounted

(* What is sold of a trade that is in order takes its price along.          *)
LEMMA SoldIsPaid ==
    ASSUME AccountingAssumption, Accounted, NEW o \in Owners, HeldBy(o) > 0, NEW n \in 1 .. HeldBy(o),
           NEW p \in Prices, Sell(o, n, p), NEW paid, paid = (cost[o] * n) \div HeldBy(o),
           NEW size, size = ContractSize(Strategy(o)),
           NEW gain, gain = size * (n * p - paid)
    PROVE  /\ current[o] > 0 /\ current[o] \in 1 .. Trades /\ HeldBy(o) \in 1 .. 2
           /\ p \in Nat /\ p % 2 = 0
           /\ paid \in Int /\ gain \in Int /\ size \in Int
           /\ cost' = [cost EXCEPT ![o] = @ - paid]
           /\ earned' = [earned EXCEPT ![o][day] = @ + gain]
           /\ entries[<<o, current[o]>>].price \in Nat
           /\ InOrder(o) => paid = entries[<<o, current[o]>>].price * n
<1>1. AccountTypes /\ CostIsKept
  BY DEF Accounted
<1>2. current[o] > 0 /\ current[o] \in 1 .. Trades /\ HeldBy(o) \in 1 .. 2
  <2>1. current[o] # 0 /\ current[o] \in Nat
    BY <1>1 DEF HeldBy, AccountTypes
  <2>2. current[o] > 0
    BY <2>1
  <2>3. PICK filled, sold : filled = entries[<<o, current[o]>>].filled /\ sold = Sold(o, current[o])
    OBVIOUS
  <2>4. HeldBy(o) = filled - sold /\ filled \in 1 .. 2 /\ sold \in Nat /\ current[o] \in 1 .. Trades
    BY <2>2, <2>3, RunningTrade
  <2> QED
    BY <2>2, <2>4
<1>3. p \in Nat /\ p % 2 = 0
  BY DEF AccountingAssumption
<1>4. PICK h, c, own : h = HeldBy(o) /\ c = cost[o] /\ own = entries[<<o, current[o]>>].price
  OBVIOUS
<1>5. h \in 1 .. 2 /\ n \in 1 .. h /\ c \in Int
  BY <1>1, <1>2, <1>4 DEF AccountTypes
<1>6. paid \in Int
  <2>1. PICK m : m = c * n
    OBVIOUS
  <2>2. m \in Int
    BY <1>5, <2>1
  <2> QED
    BY <1>4, <1>5, <2>1, <2>2
<1>7. size \in Int
  BY DEF ContractSize, AccountingAssumption
<1>8. gain \in Int
  <2>1. PICK rest : rest = n * p - paid
    OBVIOUS
  <2>2. rest \in Int
    BY <1>3, <1>5, <1>6, <2>1
  <2> QED
    BY <1>7, <2>1, <2>2
<1>9. /\ cost' = [cost EXCEPT ![o] = @ - paid]
      /\ earned' = [earned EXCEPT ![o][day] = @ + gain]
  BY DEF Sell
<1>10. own \in Nat
  <2>1. <<o, current[o]>> \in EntryIds
    BY <1>2, RunningTrade
  <2> QED
    BY <1>1, <1>4, <2>1, RowsAreTyped
<1>11. InOrder(o) => paid = own * n
  <2> SUFFICES ASSUME InOrder(o) PROVE paid = own * n
    OBVIOUS
  <2>1. c = own * h
    BY <1>1, <1>2, <1>4 DEF CostIsKept
  <2>2. CASE h = 1 /\ n = 1
    BY <1>4, <1>5, <1>10, <2>1, <2>2
  <2>3. CASE h = 2 /\ n = 1
    BY <1>4, <1>5, <1>10, <2>1, <2>3
  <2>4. CASE h = 2 /\ n = 2
    BY <1>4, <1>5, <1>10, <2>1, <2>4
  <2> QED
    BY <1>5, <2>2, <2>3, <2>4
<1> QED
  BY <1>2, <1>3, <1>4, <1>6, <1>7, <1>8, <1>9, <1>10, <1>11

(* The gain of an exit in its fields.                                       *)
LEMMA OwnGainSays ==
    ASSUME NEW x0
    PROVE  /\ OwnGain(x0) = ContractSize(Strategy(x0[1]))
                              * ((exits[x0].price - entries[OwnEntry(x0)].price) * exits[x0].filled)
           /\ entries' = entries =>
                OwnGain(x0)' = ContractSize(Strategy(x0[1]))
                                 * ((exits'[x0].price - entries[OwnEntry(x0)].price) * exits'[x0].filled)
<1>1. OwnGain(x0) = ContractSize(Strategy(x0[1]))
                      * ((exits[x0].price - entries[OwnEntry(x0)].price) * exits[x0].filled)
  BY DEF OwnGain, Shares, Gain
<1>2. OwnGain(x0)' = ContractSize(Strategy(x0[1]))
                       * ((exits'[x0].price - entries'[OwnEntry(x0)].price) * exits'[x0].filled)
  BY DEF OwnGain, Shares, Gain, OwnEntry
<1> QED
  BY <1>1, <1>2

LEMMA SaveExitSays ==
    ASSUME AccountTypes, NEW x0 \in ExitIds, NEW filled \in Nat, NEW price \in Nat,
           NEW open \in BOOLEAN, SaveExit(x0, filled, price, open)
    PROVE  exits'[x0].filled = filled /\ exits'[x0].price = price /\ entries' = entries
<1>1. exits'[x0] = Saved(filled, price, open)
  BY DEF SaveExit, AccountTypes
<1>2. entries' = entries
  BY DEF SaveExit
<1> QED
  BY <1>1, <1>2, SavedSays

(* The first fill of an exit.                                               *)
LEMMA ExitKeepsAccount ==
    ASSUME AccountingAssumption, Accounted, NEW o \in Owners, NEW p \in Prices, Exit(o, p)
    PROVE  Accounted'
<1>1. AccountTypes
  BY DEF Accounted
<1>2. HeldBy(o) > 0
  BY DEF Exit
<1>3. PICK n \in 1 .. HeldBy(o), j \in 1 .. 2, open \in BOOLEAN :
        /\ exits[<<o, current[o], j>>].filled = 0
        /\ open => n < HeldBy(o)
        /\ Sell(o, n, p)
        /\ SaveExit(<<o, current[o], j>>, n, p, open)
  BY DEF Exit
<1>4. PICK x0 : x0 = <<o, current[o], j>>
  OBVIOUS
<1>5. PICK size, paid : size = ContractSize(Strategy(o)) /\ paid = (cost[o] * n) \div HeldBy(o)
  OBVIOUS
<1>6. PICK gain, own : gain = size * (n * p - paid) /\ own = entries[<<o, current[o]>>].price
  OBVIOUS
<1>7. /\ current[o] > 0 /\ current[o] \in 1 .. Trades /\ HeldBy(o) \in 1 .. 2
      /\ p \in Nat /\ p % 2 = 0
      /\ paid \in Int /\ gain \in Int /\ size \in Int
      /\ cost' = [cost EXCEPT ![o] = @ - paid]
      /\ earned' = [earned EXCEPT ![o][day] = @ + gain]
      /\ own \in Nat
      /\ InOrder(o) => paid = own * n
  BY <1>2, <1>3, <1>5, <1>6, SoldIsPaid
<1>8. /\ x0 \in ExitIds /\ x0[1] = o /\ x0[2] = current[o]
      /\ OwnEntry(x0) = <<o, current[o]>>
  BY <1>4, <1>7 DEF ExitIds, OwnEntry
<1>9. n \in Nat \ {0} /\ (open => n = 1)
  BY <1>3, <1>7
<1>10. SaveExit(x0, n, p, open)
  BY <1>3, <1>4
<1>11. exits'[x0].filled = n /\ exits'[x0].price = p /\ entries' = entries /\ exits[x0].filled = 0
  <2>1. n \in Nat
    BY <1>9
  <2> QED
    BY <1>1, <1>3, <1>4, <1>7, <1>8, <1>10, <2>1, SaveExitSays
<1>12. ASSUME InOrder(o)
       PROVE  /\ paid = own * (n - 0)
              /\ gain = OwnGain(x0)' - OwnGain(x0)
  <2>1. PICK e : e = exits[x0].price - own
    OBVIOUS
  <2>2. e \in Int
    BY <1>1, <1>7, <1>8, <2>1, RowsAreTyped
  <2>3. OwnGain(x0) = size * (e * 0) /\ OwnGain(x0)' = size * ((p - own) * n)
    BY <1>5, <1>6, <1>8, <1>11, <2>1, OwnGainSays
  <2>4. OwnGain(x0) = 0
    BY <1>7, <2>2, <2>3
  <2>5. (p - own) * n = n * p - paid
    BY <1>7, <1>9, <1>12, Z3
  <2>6. OwnGain(x0)' = gain
    BY <1>6, <2>3, <2>5
  <2> QED
    BY <1>7, <1>9, <1>12, <2>4, <2>6
<1>13. ExitIsSaved(x0, n, p, open, paid, gain)
  <2>1. x0[2] <= current[x0[1]]
    BY <1>7, <1>8
  <2>2. InOrder(x0[1]) /\ InTurn(x0) =>
          /\ x0[2] = current[x0[1]]
          /\ paid = entries[OwnEntry(x0)].price * (n - exits[x0].filled)
          /\ gain = OwnGain(x0)' - OwnGain(x0)
    BY <1>6, <1>8, <1>11, <1>12
  <2>3. cost' = [cost EXCEPT ![x0[1]] = @ - paid] /\ earned' = [earned EXCEPT ![x0[1]][day] = @ + gain]
    BY <1>7, <1>8
  <2> QED
    BY <1>3, <1>7, <1>8, <1>9, <1>10, <2>1, <2>2, <2>3 DEF ExitIsSaved
<1> QED
  BY <1>13, SavedExitKeepsAccount

(* Its second fill: what it had sold was one part, and one is left.         *)
LEMMA FillExitKeepsAccount ==
    ASSUME AccountingAssumption, Accounted, NEW o \in Owners, NEW p \in Prices, FillExit(o, p)
    PROVE  Accounted'
<1>1. AccountTypes /\ OpenExits
  BY DEF Accounted
<1>2. HeldBy(o) > 0
  BY DEF FillExit
<1>3. PICK j \in 1 .. 2 :
        LET x == <<o, current[o], j>>
            row == exits[x]
        IN /\ row.open
           /\ Sell(o, 1, p)
           /\ SaveExit(x, row.filled + 1, (row.filled * row.price + p) \div (row.filled + 1), FALSE)
  BY DEF FillExit
<1>4. PICK x0 : x0 = <<o, current[o], j>>
  OBVIOUS
<1>5. PICK size, paid : size = ContractSize(Strategy(o)) /\ paid = (cost[o] * 1) \div HeldBy(o)
  OBVIOUS
<1>6. PICK gain, own : gain = size * (1 * p - paid) /\ own = entries[<<o, current[o]>>].price
  OBVIOUS
<1>7. /\ current[o] > 0 /\ current[o] \in 1 .. Trades /\ HeldBy(o) \in 1 .. 2
      /\ p \in Nat /\ p % 2 = 0
      /\ paid \in Int /\ gain \in Int /\ size \in Int
      /\ cost' = [cost EXCEPT ![o] = @ - paid]
      /\ earned' = [earned EXCEPT ![o][day] = @ + gain]
      /\ own \in Nat
      /\ InOrder(o) => paid = own * 1
  <2>1. HeldBy(o) \in Int
    <3>1. current[o] > 0
      BY <1>1, <1>2 DEF HeldBy, AccountTypes
    <3>2. PICK filled, sold : filled = entries[<<o, current[o]>>].filled /\ sold = Sold(o, current[o])
      OBVIOUS
    <3>3. HeldBy(o) = filled - sold /\ filled \in 1 .. 2 /\ sold \in Nat
      BY <3>1, <3>2, RunningTrade
    <3> QED
      BY <3>3
  <2>2. PICK n : n = 1
    OBVIOUS
  <2>3. n \in 1 .. HeldBy(o) /\ Sell(o, n, p)
    BY <1>2, <1>3, <2>1, <2>2
  <2>4. paid = (cost[o] * n) \div HeldBy(o) /\ gain = size * (n * p - paid)
    BY <1>5, <1>6, <2>2
  <2>5. /\ current[o] > 0 /\ current[o] \in 1 .. Trades /\ HeldBy(o) \in 1 .. 2
        /\ p \in Nat /\ p % 2 = 0
        /\ paid \in Int /\ gain \in Int /\ size \in Int
        /\ cost' = [cost EXCEPT ![o] = @ - paid]
        /\ earned' = [earned EXCEPT ![o][day] = @ + gain]
        /\ entries[<<o, current[o]>>].price \in Nat
        /\ InOrder(o) => paid = entries[<<o, current[o]>>].price * n
    BY <1>2, <1>5, <2>3, <2>4, SoldIsPaid
  <2> QED
    BY <1>6, <2>2, <2>5
<1>8. /\ x0 \in ExitIds /\ x0[1] = o /\ x0[2] = current[o]
      /\ OwnEntry(x0) = <<o, current[o]>>
  BY <1>4, <1>7 DEF ExitIds, OwnEntry
<1>9. PICK rp : rp = exits[x0].price
  OBVIOUS
<1>10. exits[x0].filled = 1 /\ rp \in Nat /\ rp % 2 = 0
  <2>1. exits[x0].open
    BY <1>3, <1>4
  <2> QED
    BY <1>1, <1>8, <1>9, <2>1, RowsAreTyped DEF OpenExits
<1>11. PICK new : new = (rp + p) \div 2
  OBVIOUS
<1>12. new \in Nat /\ new * 2 = rp + p
  BY <1>7, <1>10, <1>11
<1>13. PICK m : m = 2
  OBVIOUS
<1>14. SaveExit(x0, m, new, FALSE)
  <2>1. SaveExit(x0, 1 + 1, (1 * rp + p) \div (1 + 1), FALSE)
    BY <1>3, <1>4, <1>9, <1>10, Zenon
  <2>2. 1 + 1 = m /\ (1 * rp + p) \div (1 + 1) = new
    BY <1>7, <1>10, <1>11, <1>13
  <2> QED
    BY <2>1, <2>2
<1>15. exits'[x0].filled = m /\ exits'[x0].price = new /\ entries' = entries
  <2>1. m \in Nat /\ FALSE \in BOOLEAN
    BY <1>13
  <2> QED
    BY <1>1, <1>8, <1>12, <1>14, <2>1, SaveExitSays
<1>16. ASSUME InOrder(o)
       PROVE  /\ paid = own * (m - 1)
              /\ gain = OwnGain(x0)' - OwnGain(x0)
  <2>1. OwnGain(x0) = size * ((rp - own) * 1) /\ OwnGain(x0)' = size * ((new - own) * m)
    BY <1>5, <1>6, <1>8, <1>9, <1>10, <1>15, OwnGainSays
  <2>2. PICK a, b : a = (new - own) * m /\ b = (rp - own) * 1
    OBVIOUS
  <2>3. a \in Int /\ b \in Int /\ a - b = 1 * p - paid
    BY <1>7, <1>10, <1>12, <1>13, <1>16, <2>2
  <2>4. size * a - size * b = size * (a - b)
    BY <1>7, <2>3, Z3
  <2> QED
    BY <1>6, <1>7, <1>13, <1>16, <2>1, <2>2, <2>3, <2>4
<1>17. ExitIsSaved(x0, m, new, FALSE, paid, gain)
  <2>1. x0[2] <= current[x0[1]]
    BY <1>7, <1>8
  <2>2. InOrder(x0[1]) /\ InTurn(x0) =>
          /\ x0[2] = current[x0[1]]
          /\ paid = entries[OwnEntry(x0)].price * (m - exits[x0].filled)
          /\ gain = OwnGain(x0)' - OwnGain(x0)
    BY <1>6, <1>8, <1>10, <1>16
  <2>3. cost' = [cost EXCEPT ![x0[1]] = @ - paid] /\ earned' = [earned EXCEPT ![x0[1]][day] = @ + gain]
    BY <1>7, <1>8
  <2>4. m \in Nat \ {0} /\ FALSE \in BOOLEAN
    BY <1>13
  <2> QED
    BY <1>7, <1>8, <1>12, <1>14, <2>1, <2>2, <2>3, <2>4 DEF ExitIsSaved
<1> QED
  BY <1>17, SavedExitKeepsAccount

(* Its row is saved with what it has: nothing is sold.                      *)
LEMMA ExitAgainKeepsAccount ==
    ASSUME AccountingAssumption, Accounted, NEW x0 \in ExitIds, ExitAgain(x0)
    PROVE  Accounted'
<1>1. AccountTypes /\ OpenExits /\ ExitsAreSound /\ EntriesAreSound
  BY DEF Accounted
<1>2. PICK open \in BOOLEAN : SaveExit(x0, exits[x0].filled, exits[x0].price, open)
  BY DEF ExitAgain
<1>3. PICK filled, price : filled = exits[x0].filled /\ price = exits[x0].price
  OBVIOUS
<1>4. SaveExit(x0, filled, price, open) /\ cost' = cost /\ earned' = earned
  BY <1>2, <1>3 DEF ExitAgain
<1>5. filled = 1 /\ price \in Nat /\ price % 2 = 0
  BY <1>1, <1>3, RowsAreTyped DEF ExitAgain, OpenExits
<1>6. PICK o : o = x0[1]
  OBVIOUS
<1>7. o \in Owners /\ x0[2] \in Nat /\ OwnEntry(x0) \in EntryIds
      /\ OwnEntry(x0)[1] = o /\ OwnEntry(x0)[2] = x0[2]
  BY <1>6, TradeIds DEF OwnEntry
<1>8. x0[2] <= current[o]
  <2>1. x0 \in Exited
    <3>1. DOMAIN exits = ExitIds
      BY <1>1, RowsAreTyped
    <3>2. exits[x0].filled = 1
      BY <1>3, <1>5
    <3>3. exits[x0].filled > 0
      BY <3>2
    <3> QED
      BY <3>1, <3>3 DEF Exited
  <2>2. entries[OwnEntry(x0)].filled > 0
    BY <1>1, <2>1 DEF ExitsAreSound
  <2>3. OwnEntry(x0)[2] <= current[OwnEntry(x0)[1]]
    BY <1>1, <1>7, <2>2 DEF EntriesAreSound
  <2> QED
    BY <1>7, <2>3
<1>9. exits'[x0].filled = filled /\ exits'[x0].price = price /\ entries' = entries
  <2>1. filled \in Nat
    BY <1>5
  <2> QED
    BY <1>1, <1>2, <1>4, <1>5, <2>1, SaveExitSays
<1>10. cost' = [cost EXCEPT ![o] = @ - 0] /\ earned' = [earned EXCEPT ![o][day] = @ + 0]
  <2>1. cost[o] \in Int /\ earned[o][day] \in Int
    BY <1>1, <1>7 DEF AccountTypes
  <2>2. cost[o] - 0 = cost[o] /\ earned[o][day] + 0 = earned[o][day]
    BY <2>1
  <2>3. cost = [cost EXCEPT ![o] = cost[o]]
    BY <1>1, <1>7 DEF AccountTypes
  <2>4. earned = [earned EXCEPT ![o][day] = earned[o][day]]
    BY <1>1, <1>7 DEF AccountTypes
  <2> QED
    BY <1>4, <2>2, <2>3, <2>4
<1>11. OwnGain(x0)' = OwnGain(x0) /\ OwnGain(x0) \in Int
  <2>1. OwnGain(x0)' = OwnGain(x0)
    BY <1>3, <1>9, OwnGainSays
  <2> QED
    BY <1>1, <2>1, GainsAreInt
<1>12. PICK none : none = 0
  OBVIOUS
<1>13. ExitIsSaved(x0, filled, price, open, none, none)
  <2>1. InTurn(x0) => x0[2] = current[o]
    BY <1>3, <1>5, <1>6 DEF InTurn
  <2>2. none = entries[OwnEntry(x0)].price * (filled - exits[x0].filled)
    <3>1. entries[OwnEntry(x0)].price \in Nat
      BY <1>1, <1>7, RowsAreTyped
    <3> QED
      BY <1>3, <1>5, <1>12, <3>1
  <2>3. none = OwnGain(x0)' - OwnGain(x0)
    BY <1>11, <1>12
  <2>4. filled \in Nat \ {0} /\ none \in Int
    BY <1>5, <1>12
  <2>5. cost' = [cost EXCEPT ![x0[1]] = @ - none] /\ earned' = [earned EXCEPT ![x0[1]][day] = @ + none]
    BY <1>6, <1>10, <1>12
  <2> QED
    BY <1>4, <1>5, <1>6, <1>8, <2>1, <2>2, <2>3, <2>4, <2>5 DEF ExitIsSaved
<1> QED
  BY <1>13, SavedExitKeepsAccount

(* One step of a trader, of the broker or of the clock.                     *)
LEMMA NextKeepsAccount ==
    AccountingAssumption /\ Accounted /\ [AccountingNext]_accountingVars => Accounted'
<1> SUFFICES ASSUME AccountingAssumption, Accounted, [AccountingNext]_accountingVars
             PROVE  Accounted'
  OBVIOUS
<1>1. ASSUME NEW o \in Owners, NEW p \in Prices, Exit(o, p) \/ FillExit(o, p) PROVE Accounted'
  BY <1>1, ExitKeepsAccount, FillExitKeepsAccount
<1>2. ASSUME entries' = entries, exits' = exits, current' = current, now' = now, cost' = cost,
             earned' = earned, moved' = moved, day' \in 1 .. LastDay, day' \in {day, day + 1}
      PROVE  Accounted'
  <2>1. /\ AccountTypes /\ EntriesAreSound /\ ExitsAreSound /\ OpenExits
        /\ EntriesFollow /\ ExitsFollow /\ ExitsRest /\ CostIsKept /\ EarnedIsKept
    BY DEF Accounted
  <2>2. AccountTypes'
    BY <1>2, <2>1 DEF AccountTypes
  <2>3. Exited' = Exited /\ day \in Nat
    BY <1>2, <2>1 DEF Exited, AccountTypes
  <2>4. \A o \in Owners : InOrder(o)' <=> InOrder(o)
    BY <1>2, <2>3 DEF InOrder
  <2>5. EntriesAreSound'
    <3>1. \A e \in EntryIds : entries[e].day \in Nat
      BY <2>1, RowsAreTyped
    <3> QED
      BY <1>2, <2>1, <2>3, <3>1 DEF EntriesAreSound
  <2>6. ExitsAreSound'
    <3> SUFFICES ASSUME NEW x \in Exited
                 PROVE  /\ entries[OwnEntry(x)].filled > 0
                        /\ exits[x].at < now
                        /\ exits[x].day \in 1 .. day'
      BY <1>2, <2>3 DEF ExitsAreSound, OwnEntry
    <3> QED
      BY <1>2, <2>1, <2>3 DEF ExitsAreSound
  <2>7. OpenExits' /\ EntriesFollow' /\ ExitsFollow'
    BY <1>2, <2>1, <2>3 DEF OpenExits, EntriesFollow, ExitsFollow
  <2>10. ExitsRest'
    BY <1>2, <2>1, <2>3 DEF ExitsRest, InOrder
  <2>8. CostIsKept'
    BY <1>2, <2>1, <2>4 DEF CostIsKept, HeldBy, Bought, Sold
  <2>9. EarnedIsKept'
    <3> SUFFICES ASSUME NEW o \in Owners, InOrder(o)', NEW d \in 1 .. LastDay
                 PROVE  earned'[o][d] = GainOf(o, d)'
      BY DEF EarnedIsKept
    <3>1. earned[o][d] = GainOf(o, d)
      BY <2>1, <2>4 DEF EarnedIsKept
    <3>2. Left(o, d)' = Left(o, d)
      BY <1>2, <2>3 DEF Left
    <3>3. GainOf(o, d)' = GainOf(o, d)
      BY <1>2, <2>1, <2>2, <3>2, GainStays
    <3> QED
      BY <1>2, <3>1, <3>3
  <2> QED
    BY <2>2, <2>5, <2>6, <2>7, <2>8, <2>9, <2>10 DEF Accounted
<1>3. CASE NextDay
  <2>1. day \in 1 .. LastDay /\ LastDay \in Nat
    BY DEF Accounted, AccountTypes, AccountingAssumption
  <2>2. day' \in 1 .. LastDay /\ day' \in {day, day + 1}
    BY <1>3, <2>1 DEF NextDay
  <2> QED
    BY <1>2, <1>3, <2>2 DEF NextDay
<1>4. CASE UNCHANGED accountingVars
  <2>1. day \in 1 .. LastDay
    BY DEF Accounted, AccountTypes
  <2> QED
    BY <1>2, <1>4, <2>1 DEF accountingVars
<1>5. ASSUME NEW o \in Owners, NEW p \in Prices, Enter(o, p) PROVE Accounted'
  BY <1>5, EnterKeepsAccount
<1>6. ASSUME NEW o \in Owners, NEW p \in Prices, FillEntry(o, p) PROVE Accounted'
  BY <1>6, FillKeepsAccount
<1>7. ASSUME NEW o \in Owners, EndEntry(o) PROVE Accounted'
  BY <1>7, EndKeepsAccount
<1>8. ASSUME NEW x \in ExitIds, ExitAgain(x) PROVE Accounted'
  BY <1>8, ExitAgainKeepsAccount
<1> QED
  BY <1>1, <1>3, <1>4, <1>5, <1>6, <1>7, <1>8 DEF AccountingNext

LEMMA TradesAreAccounted == AccountingSpec => []Accounted
<1>1. AccountingInit => Accounted
  BY AccountingAssumption, InitIsAccounted
<1>2. Accounted /\ [AccountingNext]_accountingVars => Accounted'
  BY AccountingAssumption, NextKeepsAccount
<1> QED
  BY <1>1, <1>2, PTL DEF AccountingSpec

-----------------------------------------------------------------------------
(* What the queries read of the accounted trades.                          *)

(* The entries before an exit are rows of its owner.                        *)
LEMMA EntriesBeforeSay ==
    ASSUME AccountTypes, NEW x \in ExitIds, NEW e \in EntriesBefore(x)
    PROVE  /\ e \in EntryIds /\ e[1] = x[1] /\ entries[e].filled > 0
           /\ entries[e].at <= exits[x].at /\ entries[e].at \in Nat
  BY RowsAreTyped DEF EntriesBefore

(* The one saved last is found, since no two were saved at once.            *)
LEMMA LatestIs ==
    ASSUME Accounted, NEW x \in ExitIds, NEW found \in SUBSET EntriesBefore(x), NEW e \in found,
           \A f \in found : entries[f].at <= entries[e].at
    PROVE  Latest(found) = e
<1>1. AccountTypes /\ EntriesFollow
  BY DEF Accounted
<1>2. ASSUME NEW f \in found, \A g \in found : entries[g].at <= entries[f].at PROVE f = e
  <2>1. /\ e \in EntryIds /\ e[1] = x[1] /\ entries[e].filled > 0 /\ entries[e].at \in Nat
        /\ f \in EntryIds /\ f[1] = x[1] /\ entries[f].filled > 0 /\ entries[f].at \in Nat
    BY <1>1, EntriesBeforeSay
  <2>2. e[2] \in Nat /\ f[2] \in Nat /\ e = <<e[1], e[2]>> /\ f = <<f[1], f[2]>>
    BY <2>1, TradeIds
  <2>3. entries[e].at = entries[f].at
    BY <1>2, <2>1
  <2>4. ~(e[2] < f[2]) /\ ~(f[2] < e[2])
    BY <1>1, <2>1, <2>3 DEF EntriesFollow
  <2> QED
    BY <2>1, <2>2, <2>4
<1> QED
  BY <1>2 DEF Latest

LEMMA LatestExists ==
    ASSUME Accounted, NEW x \in ExitIds, NEW found \in SUBSET EntriesBefore(x), found # {}
    PROVE  /\ Latest(found) \in found
           /\ \A f \in found : entries[f].at <= entries[Latest(found)].at
<1>1. AccountTypes /\ EntriesAreSound
  BY DEF Accounted
<1>2. \A e \in found : entries[e].at \in Nat /\ entries[e].at < now
  BY <1>1, EntriesBeforeSay DEF EntriesAreSound
<1>3. now \in Nat
  BY <1>1 DEF AccountTypes
<1>4. PICK since : since = [e \in found |-> (entries[e].at + 1) .. now]
  OBVIOUS
<1>5. PICK F : F = {since[e] : e \in found}
  OBVIOUS
<1>6. \A e \in found : IsFiniteSet(since[e]) /\ Cardinality(since[e]) = now - entries[e].at
  <2> SUFFICES ASSUME NEW e \in found
               PROVE  IsFiniteSet(since[e]) /\ Cardinality(since[e]) = now - entries[e].at
    OBVIOUS
  <2>1. PICK a, b : a = entries[e].at + 1 /\ b = now
    OBVIOUS
  <2>2. a \in Int /\ b \in Int /\ ~(a > b) /\ b - a + 1 = now - entries[e].at
    BY <1>2, <1>3, <2>1
  <2>3. IsFiniteSet(a .. b) /\ Cardinality(a .. b) = b - a + 1
    BY <2>2, FS_Interval
  <2> QED
    BY <1>4, <2>1, <2>2, <2>3
<1>7. PICK T \in F : \A U \in F : Cardinality(T) <= Cardinality(U)
  <2>1. F # {} /\ \A U \in F : IsFiniteSet(U)
    BY <1>5, <1>6
  <2> QED
    BY <2>1, SmallestSet
<1>8. PICK e \in found : T = since[e]
  BY <1>5, <1>7
<1>9. \A f \in found : entries[f].at <= entries[e].at
  <2> SUFFICES ASSUME NEW f \in found PROVE entries[f].at <= entries[e].at
    OBVIOUS
  <2>1. since[f] \in F
    BY <1>5
  <2>2. now - entries[e].at <= now - entries[f].at
    BY <1>6, <1>7, <1>8, <2>1
  <2> QED
    BY <1>2, <1>3, <2>2
<1> QED
  BY <1>9 DEF Latest

(* For an owner in order that is the entry of the exit's own trade.         *)
LEMMA LatestIsOwn ==
    ASSUME Accounted, NEW x \in Exited, InOrder(x[1])
    PROVE  OwnEntry(x) \in EntriesBefore(x) /\ Latest(EntriesBefore(x)) = OwnEntry(x)
<1>1. AccountTypes /\ EntriesFollow /\ ExitsRest /\ ExitsAreSound
  BY DEF Accounted
<1>2. x \in ExitIds /\ OwnEntry(x) \in EntryIds /\ x[2] \in Nat
  BY <1>1, RowsAreTyped, TradeIds
<1>3. PICK own : own = OwnEntry(x)
  OBVIOUS
<1>4. own[1] = x[1] /\ own[2] = x[2] /\ own = <<x[1], x[2]>>
  BY <1>3 DEF OwnEntry
<1>5. entries[own].filled > 0 /\ entries[own].at <= exits[x].at
  <2>1. entries[own].filled > 0
    BY <1>1, <1>3 DEF ExitsAreSound
  <2> QED
    BY <1>1, <1>2, <1>3, <1>4, <2>1 DEF ExitsRest
<1>6. own \in EntriesBefore(x)
  BY <1>1, <1>2, <1>3, <1>4, <1>5, RowsAreTyped DEF EntriesBefore
<1>7. ASSUME NEW f \in EntriesBefore(x) PROVE entries[f].at <= entries[own].at
  <2>1. /\ f \in EntryIds /\ f[1] = x[1] /\ entries[f].filled > 0
        /\ entries[f].at <= exits[x].at /\ entries[f].at \in Nat
    BY <1>1, <1>2, EntriesBeforeSay
  <2>2. f[2] \in Nat /\ f = <<f[1], f[2]>>
    BY <2>1, TradeIds
  <2>3. exits[x].at \in Nat /\ entries[own].at \in Nat
    BY <1>1, <1>2, <1>3, RowsAreTyped
  <2>4. ~(x[2] < f[2])
    BY <1>1, <2>1, <2>3 DEF ExitsRest
  <2>5. CASE f[2] = x[2]
    BY <1>4, <2>1, <2>2, <2>5
  <2>6. CASE f[2] < x[2]
    BY <1>1, <1>2, <1>3, <1>4, <1>5, <2>1, <2>3, <2>6 DEF EntriesFollow
  <2> QED
    BY <1>2, <2>2, <2>4, <2>5, <2>6
<1> QED
  BY <1>2, <1>3, <1>6, <1>7, LatestIs

(* An entry of the same day is found before an exit whenever there is one.  *)
LEMMA SameDayIsLatest ==
    ASSUME Accounted, NEW x \in Exited, SameDay(x) # {}
    PROVE  EntriesBefore(x) # {} /\ Latest(SameDay(x)) = Latest(EntriesBefore(x))
<1>1. AccountTypes /\ EntriesFollow /\ ExitsFollow
  BY DEF Accounted
<1>2. x \in ExitIds
  BY <1>1, RowsAreTyped
<1>3. PICK s : s \in SameDay(x)
  OBVIOUS
<1>4. s \in EntriesBefore(x) /\ entries[s].day = exits[x].day /\ SameDay(x) \subseteq EntriesBefore(x)
  BY <1>3 DEF SameDay
<1>5. PICK e : e = Latest(EntriesBefore(x))
  OBVIOUS
<1>6. e \in EntriesBefore(x) /\ \A f \in EntriesBefore(x) : entries[f].at <= entries[e].at
  BY <1>2, <1>4, <1>5, LatestExists
<1>7. /\ e \in EntryIds /\ e[1] = x[1] /\ entries[e].filled > 0
      /\ entries[e].at <= exits[x].at /\ entries[e].at \in Nat
      /\ s \in EntryIds /\ s[1] = x[1] /\ entries[s].filled > 0 /\ entries[s].at \in Nat
  BY <1>1, <1>2, <1>4, <1>6, EntriesBeforeSay
<1>8. entries[e].day = exits[x].day
  <2>1. entries[e].day <= exits[x].day
    BY <1>1, <1>7 DEF ExitsFollow
  <2>2. entries[s].at <= entries[e].at
    BY <1>4, <1>6
  <2>3. e[2] \in Nat /\ s[2] \in Nat /\ e = <<e[1], e[2]>> /\ s = <<s[1], s[2]>>
    BY <1>7, TradeIds
  <2>4. entries[e].day \in Nat /\ entries[s].day \in Nat
    BY <1>1, <1>7, RowsAreTyped
  <2>5. ~(e[2] < s[2])
    BY <1>1, <1>7, <2>2 DEF EntriesFollow
  <2>6. CASE s[2] = e[2]
    BY <1>4, <1>7, <2>3, <2>6
  <2>7. CASE s[2] < e[2]
    <3>1. entries[s].day < entries[e].day
      BY <1>1, <1>7, <2>7 DEF EntriesFollow
    <3> QED
      BY <1>4, <2>1, <2>4, <3>1
  <2> QED
    BY <2>3, <2>5, <2>6, <2>7
<1>9. e \in SameDay(x)
  BY <1>6, <1>8 DEF SameDay
<1>10. Latest(SameDay(x)) = e
  BY <1>2, <1>4, <1>6, <1>9, LatestIs
<1> QED
  BY <1>4, <1>5, <1>10

(* What the query makes of an exit.                                         *)
LEMMA RealizedSays ==
    ASSUME AccountingAssumption, Accounted, NEW x \in Exited
    PROVE  /\ Realized(x) \in Int
           /\ InOrder(x[1]) => EntriesBefore(x) # {} /\ Realized(x) = OwnGain(x)
           /\ EntriesBefore(x) # {} => Realized(x) = Shares(x) * Gain(x, Latest(EntriesBefore(x)))
           /\ SameDay(x) # {} => /\ SameDayGain(x) \in Int
                                 /\ SameDayGain(x) = Gain(x, Latest(EntriesBefore(x)))
                                 /\ Realized(x) = Shares(x) * SameDayGain(x)
<1>1. AccountTypes
  BY DEF Accounted
<1>2. x \in ExitIds
  BY <1>1, RowsAreTyped
<1>3. PICK found, e : found = EntriesBefore(x) /\ e = Latest(found)
  OBVIOUS
<1>4. Shares(x) \in Int /\ exits[x].price \in Nat /\ exits[x].filled \in Nat
  BY <1>1, <1>2, GainsAreInt, RowsAreTyped
<1>5. CASE found = {}
  <2>1. Realized(x) = Shares(x) * (-(exits[x].price * exits[x].filled))
    BY <1>3, <1>5, Zenon DEF Realized
  <2>2. PICK s, g : s = Shares(x) /\ g = -(exits[x].price * exits[x].filled)
    OBVIOUS
  <2>3. s \in Int /\ g \in Int
    BY <1>4, <2>2
  <2>4. Realized(x) \in Int
    BY <2>1, <2>2, <2>3
  <2>5. ~InOrder(x[1])
    BY <1>3, <1>5, LatestIsOwn
  <2>6. SameDay(x) = {}
    BY <1>3, <1>5 DEF SameDay
  <2> QED
    BY <1>3, <1>5, <2>4, <2>5, <2>6
<1>6. CASE found # {}
  <2>1. e \in found
    BY <1>2, <1>3, <1>6, LatestExists
  <2>2. e \in EntryIds
    BY <1>1, <1>2, <1>3, <2>1, EntriesBeforeSay
  <2>3. PICK s, g : s = Shares(x) /\ g = Gain(x, e)
    OBVIOUS
  <2>4. s \in Int /\ g \in Int
    BY <1>1, <1>2, <2>2, <2>3, GainsAreInt
  <2>5. Realized(x) = s * g
    BY <1>3, <1>6, <2>3, Zenon DEF Realized
  <2>6. Realized(x) \in Int
    BY <2>4, <2>5
  <2>7. InOrder(x[1]) => Realized(x) = OwnGain(x)
    BY <1>3, <2>3, <2>5, LatestIsOwn DEF OwnGain
  <2>8. SameDay(x) # {} => SameDayGain(x) = g
    BY <1>3, <2>3, SameDayIsLatest DEF SameDayGain
  <2> QED
    BY <1>3, <1>6, <2>3, <2>4, <2>5, <2>6, <2>7, <2>8
<1> QED
  BY <1>5, <1>6

(* The realized result of some owners over some days is what they earned,  *)
(* when they are in order: the exits sorted by owner and day.              *)
LEMMA ReportIsEarned ==
    ASSUME AccountingAssumption, Accounted, NEW O \in SUBSET Owners, \A o \in O : InOrder(o),
           NEW D \in SUBSET (1 .. LastDay), IsFiniteSet(D),
           NEW S, S = {x \in ExitsOf(D) : x[1] \in O}
    PROVE  RealizedOver(S) = Earned(O, D)
<1>1. AccountTypes /\ EarnedIsKept
  BY DEF Accounted
<1>2. S \subseteq Exited /\ Exited \subseteq ExitIds /\ DOMAIN exits = ExitIds /\ IsFiniteSet(S)
  <2>1. S \subseteq Exited
    BY DEF ExitsOf
  <2> QED
    BY <1>1, <2>1, RowsAreTyped, GainsAreInt
<1>3. PICK K : K = O \X D
  OBVIOUS
<1>4. IsFiniteSet(K)
  <2>1. IsFiniteSet(O)
    BY FS_Subset DEF AccountingAssumption
  <2> QED
    BY <1>3, <2>1, FS_Product
<1>5. PICK w, v, key, sums : /\ w = [x \in ExitIds |-> Realized(x)]
                             /\ v = [x \in ExitIds |-> OwnGain(x)]
                             /\ key = [x \in ExitIds |-> <<x[1], exits[x].day>>]
                             /\ sums = [od \in K |-> earned[od[1]][od[2]]]
  OBVIOUS
<1>6. ASSUME NEW x \in S PROVE w[x] \in Int /\ w[x] = v[x] /\ key[x] \in K
  <2>1. x \in Exited /\ x[1] \in O /\ exits[x].day \in D /\ x \in ExitIds
    BY <1>2 DEF ExitsOf
  <2>2. Realized(x) \in Int /\ Realized(x) = OwnGain(x)
    BY <2>1, RealizedSays
  <2> QED
    BY <1>3, <1>5, <2>1, <2>2
<1>7. PICK parts : parts = [k \in K |-> SumFunctionOnSet(w, {x \in S : key[x] = k})]
  OBVIOUS
<1>8. SumFunctionOnSet(w, S) = SumFunctionOnSet(parts, K)
  BY <1>2, <1>4, <1>6, <1>7, SumByParts
<1>9. ASSUME NEW k \in K PROVE parts[k] \in Int /\ parts[k] = sums[k]
  <2>1. PICK o \in O, d \in D : k = <<o, d>> /\ k[1] = o /\ k[2] = d
    <3>1. k[1] \in O /\ k[2] \in D /\ k = <<k[1], k[2]>>
      BY <1>3
    <3> QED
      BY <3>1
  <2>2. PICK T : T = {x \in S : key[x] = k}
    OBVIOUS
  <2>3. T = Left(o, d)
    <3>1. ASSUME NEW x \in T PROVE x \in Left(o, d)
      BY <1>2, <1>5, <2>1, <2>2, <3>1 DEF Left
    <3>2. ASSUME NEW x \in Left(o, d) PROVE x \in T
      BY <1>2, <1>5, <2>1, <2>2, <3>2 DEF Left, ExitsOf
    <3> QED
      BY <3>1, <3>2
  <2>4. T \subseteq S /\ IsFiniteSet(T)
    BY <1>2, <2>2, FS_Subset
  <2>5. \A x \in T : w[x] \in Int /\ w[x] = v[x]
    BY <1>6, <2>4
  <2>6. SumFunctionOnSet(w, T) = SumFunctionOnSet(v, T) /\ SumFunctionOnSet(w, T) \in Int
    BY <2>4, <2>5, SumOfEquals, SumIsInt
  <2>7. SumFunctionOnSet(v, T) = earned[o][d]
    BY <1>1, <1>5, <2>3 DEF EarnedIsKept, GainOf
  <2> QED
    BY <1>5, <1>7, <2>1, <2>2, <2>6, <2>7
<1>10. SumFunctionOnSet(parts, K) = SumFunctionOnSet(sums, K)
  BY <1>4, <1>9, SumOfEquals
<1>11. Earned(O, D) = SumFunctionOnSet(sums, K)
  BY <1>3, <1>5 DEF Earned
<1>12. RealizedOver(S) = SumFunctionOnSet(w, S)
  BY <1>2, <1>5 DEF RealizedOver
<1> QED
  BY <1>8, <1>10, <1>11, <1>12

LEMMA DayIsEarned ==
    ASSUME AccountingAssumption, Accounted
    PROVE  DailyIsEarned
<1>1. DOMAIN current = Owners /\ AccountTypes /\ day \in 1 .. LastDay /\ LastDay \in Nat
  BY RowsAreTyped DEF Accounted, AccountTypes, AccountingAssumption
<1> SUFFICES ASSUME \A o \in Owners : InOrder(o), NEW d \in 1 .. day
             PROVE  RealizedOver(ExitsOf({d})) = Earned(Owners, {d})
  BY <1>1 DEF DailyIsEarned, daily_realized_pnl
<1>2. {d} \in SUBSET (1 .. LastDay) /\ IsFiniteSet({d})
  <2>1. IsFiniteSet({d})
    BY FS_Singleton
  <2>2. d \in 1 .. LastDay
    BY <1>1
  <2> QED
    BY <2>1, <2>2
<1>3. ExitsOf({d}) = {x \in ExitsOf({d}) : x[1] \in Owners}
  BY <1>1, RowsAreTyped, TradeIds DEF ExitsOf
<1> QED
  BY <1>2, <1>3, ReportIsEarned

LEMMA LifeIsEarned ==
    ASSUME AccountingAssumption, Accounted
    PROVE  LifetimeIsEarned
<1>1. DOMAIN current = Owners /\ AccountTypes /\ day \in 1 .. LastDay /\ LastDay \in Nat
  BY RowsAreTyped DEF Accounted, AccountTypes, AccountingAssumption
<1> SUFFICES ASSUME NEW s, \A o \in Of(s) : InOrder(o)
             PROVE  /\ lifetime_pnl_by_strategy(s) = Earned(Of(s), 1 .. day)
                    /\ LET counts == win_loss_counts_by_strategy(s)
                       IN counts[1] + counts[2] = Cardinality({x \in Exited : Strategy(x[1]) = s})
  BY DEF LifetimeIsEarned
<1>2. Of(s) \in SUBSET Owners
  BY <1>1 DEF Of
<1>3. \A x \in Exited : x \in ExitIds /\ x[1] \in Owners /\ exits[x].day \in 1 .. day
  BY <1>1, RowsAreTyped, TradeIds DEF Accounted, ExitsAreSound
<1>4. \A x \in Exited : Strategy(x[1]) = s => x[1] \in Of(s) /\ EntriesBefore(x) # {}
  <2> SUFFICES ASSUME NEW x \in Exited, Strategy(x[1]) = s
               PROVE  x[1] \in Of(s) /\ EntriesBefore(x) # {}
    OBVIOUS
  <2>1. x[1] \in Of(s)
    BY <1>1, <1>3 DEF Of
  <2> QED
    BY <2>1, RealizedSays
<1>5. Matched(s) = {x \in Exited : Strategy(x[1]) = s}
  BY <1>4 DEF Matched
<1>6. lifetime_pnl_by_strategy(s) = Earned(Of(s), 1 .. day)
  <2>1. Matched(s) = {x \in ExitsOf(1 .. day) : x[1] \in Of(s)}
    BY <1>3, <1>4, <1>5 DEF ExitsOf, Of
  <2>2. PICK D : D = 1 .. day
    OBVIOUS
  <2>3. D \in SUBSET (1 .. LastDay) /\ IsFiniteSet(D)
    <3>1. 1 \in Int /\ day \in Int
      BY <1>1
    <3> QED
      BY <1>1, <2>2, <3>1, FS_Interval
  <2> QED
    BY <1>2, <2>1, <2>2, <2>3, ReportIsEarned DEF lifetime_pnl_by_strategy
<1>7. LET counts == win_loss_counts_by_strategy(s)
      IN counts[1] + counts[2] = Cardinality(Matched(s))
  <2>1. PICK all, wins : /\ all = Matched(s)
                         /\ wins = {x \in Matched(s) : Gain(x, Latest(EntriesBefore(x))) > 0}
    OBVIOUS
  <2>2. win_loss_counts_by_strategy(s) = <<Cardinality(wins), Cardinality(all \ wins)>>
    BY <2>1 DEF win_loss_counts_by_strategy
  <2>3. IsFiniteSet(all) /\ wins \subseteq all
    <3>1. Matched(s) \in SUBSET Exited
      BY DEF Matched
    <3> QED
      BY <1>1, <2>1, <3>1, GainsAreInt
  <2>4. Cardinality(wins) + Cardinality(all \ wins) = Cardinality(all)
    BY <2>3, SplitCounts
  <2> QED
    BY <2>1, <2>2, <2>4
<1> QED
  BY <1>5, <1>6, <1>7

(* A report that lists a record for each exit adds up to the sum over them. *)
LEMMA RecordsSum ==
    ASSUME NEW S, IsFiniteSet(S), NEW w, \A x \in S : w[x] \in Int,
           NEW key, \A x \in S : key[x].exit = x /\ key[x].pnl = w[x],
           NEW R, R = {key[x] : x \in S}
    PROVE  Pnl(R) = SumFunctionOnSet(w, S)
<1>1. PICK v : v = [r \in R |-> r.pnl]
  OBVIOUS
<1>2. \A x, y \in S : key[x] = key[y] => x = y
  OBVIOUS
<1>3. \A x \in S : v[key[x]] = w[x]
  BY <1>1
<1>4. SumFunctionOnSet(v, {key[x] : x \in S}) = SumFunctionOnSet(w, S)
  BY <1>2, <1>3, SumOfImage
<1> QED
  BY <1>1, <1>4 DEF Pnl

(* The reports of one day, each the sum of the same trades.                 *)
LEMMA DayReportsAgree ==
    ASSUME AccountingAssumption, Accounted
    PROVE  ReportsAgree
<1>1. AccountTypes
  BY DEF Accounted
<1> SUFFICES ASSUME NEW d \in 1 .. day
             PROVE  LET mail == build_daily_summary(d)
                        symbols == daily_realized_pnl_by_symbol(d)
                        stocks == \A x \in ExitsOf({d}) : Strategy(x[1]) \notin OptionNames
                        whole == \A x \in ExitsOf({d}) : exits[x].filled % Parts = 0
                    IN /\ SumFunctionOnSet(symbols, DOMAIN symbols) = mail.total
                       /\ trailing_consecutive_losses(d) <= mail.losses
                       /\ mail.wins = 0 => trailing_consecutive_losses(d) = mail.trades
                       /\ (\A x \in ExitsOf({d}) : SameDay(x) # {}) =>
                            /\ Pnl(list_trade_pnl_by_strategy({d})) = mail.total
                            /\ load_metrics_snapshot(d) = mail.total
                            /\ stocks => /\ load_equity_chart_data(d) = mail.total
                                         /\ Pnl(list_closed_trade_records({d})) = mail.total
                            /\ stocks /\ whole => build_intraday_digest(d) = mail.total
  BY DEF ReportsAgree
<1>2. PICK S : S = ExitsOf({d})
  OBVIOUS
<1>3. S \subseteq Exited /\ S \subseteq ExitIds /\ DOMAIN exits = ExitIds /\ IsFiniteSet(S)
  <2>1. S \subseteq Exited
    BY <1>2 DEF ExitsOf
  <2> QED
    BY <1>1, <2>1, RowsAreTyped, GainsAreInt
<1>4. PICK w : w = [x \in ExitIds |-> Realized(x)]
  OBVIOUS
<1>5. \A x \in S : w[x] \in Int /\ w[x] = Realized(x)
  BY <1>3, <1>4, RealizedSays
<1>6. PICK total : total = SumFunctionOnSet(w, S)
  OBVIOUS
<1>7. build_daily_summary(d).total = total
  BY <1>2, <1>3, <1>4, <1>6 DEF build_daily_summary, daily_realized_pnl, RealizedOver
\* The symbols.
<1>8. LET symbols == daily_realized_pnl_by_symbol(d)
      IN SumFunctionOnSet(symbols, DOMAIN symbols) = total
  <2>1. PICK key : key = [x \in ExitIds |-> Symbol(x[1])]
    OBVIOUS
  <2>2. PICK K : K = {key[x] : x \in S}
    OBVIOUS
  <2>3. IsFiniteSet(K) /\ \A x \in S : key[x] \in K
    BY <1>3, <2>2, ImageIsFinite
  <2>4. PICK parts : parts = [k \in K |-> SumFunctionOnSet(w, {x \in S : key[x] = k})]
    OBVIOUS
  <2>5. SumFunctionOnSet(w, S) = SumFunctionOnSet(parts, K)
    BY <1>3, <1>5, <2>3, <2>4, SumByParts
  <2>6. K = {Symbol(x[1]) : x \in S}
    BY <1>3, <2>1, <2>2
  <2>7. \A sym : {x \in S : key[x] = sym} = {x \in S : Symbol(x[1]) = sym}
    BY <1>3, <2>1
  <2>8. daily_realized_pnl_by_symbol(d) = parts
    BY <1>2, <1>3, <1>4, <2>4, <2>6, <2>7 DEF daily_realized_pnl_by_symbol, RealizedOver
  <2>9. DOMAIN parts = K
    BY <2>4
  <2> QED
    BY <1>6, <2>5, <2>8, <2>9
\* The losing streak.
<1>9. /\ trailing_consecutive_losses(d) <= build_daily_summary(d).losses
      /\ build_daily_summary(d).wins = 0 => trailing_consecutive_losses(d) = build_daily_summary(d).trades
  <2>1. PICK trades, wins, trailing :
          /\ trades = list_closed_trades(d)
          /\ wins = {x \in trades : Won(x)}
          /\ trailing = {x \in trades : \A y \in trades : exits[y].at >= exits[x].at => ~Won(y)}
    OBVIOUS
  <2>2. trades \subseteq S
    BY <1>2, <2>1 DEF list_closed_trades
  <2>3. IsFiniteSet(trades) /\ wins \subseteq trades /\ IsFiniteSet(trades \ wins) /\ IsFiniteSet(wins)
    BY <1>3, <2>1, <2>2, FS_Subset
  <2>4. trailing \subseteq trades \ wins
    <3> SUFFICES ASSUME NEW x \in trailing PROVE x \in trades \ wins
      OBVIOUS
    <3>1. x \in trades /\ (exits[x].at >= exits[x].at => ~Won(x))
      BY <2>1
    <3>2. exits[x].at \in Nat
      BY <1>1, <1>3, <2>2, <3>1, RowsAreTyped
    <3> QED
      BY <2>1, <3>1, <3>2
  <2>5. Cardinality(trailing) <= Cardinality(trades \ wins)
    BY <2>3, <2>4, FS_Subset
  <2>6. Cardinality(wins) = 0 => trailing = trades
    <3> SUFFICES ASSUME Cardinality(wins) = 0 PROVE trailing = trades
      OBVIOUS
    <3>1. wins = {}
      BY <2>3, FS_EmptySet
    <3> QED
      BY <2>1, <3>1
  <2>7. /\ build_daily_summary(d).losses = Cardinality(trades \ wins)
        /\ build_daily_summary(d).wins = Cardinality(wins)
        /\ build_daily_summary(d).trades = Cardinality(trades)
    BY <2>1 DEF build_daily_summary
  <2>8. trailing_consecutive_losses(d) = Cardinality(trailing)
    BY <2>1 DEF trailing_consecutive_losses
  <2> QED
    BY <2>5, <2>6, <2>7, <2>8
\* The trades, none of them carried in.
<1>10. ASSUME \A x \in S : SameDay(x) # {}
       PROVE  /\ Pnl(list_trade_pnl_by_strategy({d})) = total
              /\ load_metrics_snapshot(d) = total
  <2>1. PICK key : key = [x \in ExitIds |->
                            [exit |-> x, strategy_name |-> Strategy(x[1]),
                             exit_date |-> exits[x].day, pnl |-> Shares(x) * SameDayGain(x)]]
    OBVIOUS
  <2>2. PICK R : R = {key[x] : x \in S}
    OBVIOUS
  <2>3. list_trade_pnl_by_strategy({d}) = R
    BY <1>2, <1>3, <1>10, <2>1, <2>2 DEF list_trade_pnl_by_strategy
  <2>4. \A x \in S : key[x].exit = x /\ key[x].pnl = w[x]
    BY <1>3, <1>5, <1>10, <2>1, RealizedSays
  <2>5. Pnl(R) = SumFunctionOnSet(w, S)
    BY <1>3, <1>5, <2>2, <2>4, RecordsSum
  <2>6. TradeRecordsOver(list_closed_trades(d)) = total
    <3>1. list_closed_trades(d) = S
      BY <1>2, <1>10 DEF list_closed_trades
    <3>2. PICK v : v = [x \in ExitIds |-> Shares(x) * SameDayGain(x)]
      OBVIOUS
    <3>3. \A x \in S : w[x] \in Int /\ w[x] = v[x]
      BY <1>3, <1>5, <1>10, <3>2, RealizedSays
    <3>4. SumFunctionOnSet(w, S) = SumFunctionOnSet(v, S)
      BY <1>3, <3>3, SumOfEquals
    <3> QED
      BY <1>3, <1>6, <3>1, <3>2, <3>4 DEF TradeRecordsOver
  <2> QED
    BY <1>6, <2>3, <2>5, <2>6 DEF load_metrics_snapshot
<1>11. ASSUME \A x \in S : SameDay(x) # {}, \A x \in S : Strategy(x[1]) \notin OptionNames
       PROVE  /\ load_equity_chart_data(d) = total
              /\ (\A x \in S : exits[x].filled % Parts = 0) => build_intraday_digest(d) = total
              /\ Pnl(list_closed_trade_records({d})) = total
  <2>1. ASSUME NEW x \in S
        PROVE  /\ SameDayGain(x) = w[x] /\ EntriesBefore(x) # {}
               /\ Gain(x, Latest(EntriesBefore(x))) = w[x]
    <3>1. Shares(x) = 1
      BY <1>11 DEF Shares, ContractSize
    <3>2. /\ SameDayGain(x) \in Int /\ Realized(x) = Shares(x) * SameDayGain(x)
          /\ SameDayGain(x) = Gain(x, Latest(EntriesBefore(x))) /\ EntriesBefore(x) # {}
      BY <1>3, <1>11, RealizedSays, SameDayIsLatest
    <3> QED
      BY <1>5, <3>1, <3>2
  <2>2. ASSUME \A x \in S : exits[x].filled % Parts = 0
        PROVE  PnlOver(list_closed_trades(d)) = total
    <3>1. list_closed_trades(d) = S
      BY <1>2, <1>11 DEF list_closed_trades
    <3>2. PICK v : v = [x \in ExitIds |-> trade_pnl(x)]
      OBVIOUS
    <3>3. ASSUME NEW x \in S PROVE w[x] \in Int /\ w[x] = v[x]
      <4>1. exits[x].filled \in Nat /\ exits[x].filled % Parts = 0 /\ Parts \in Nat \ {0}
        BY <1>1, <1>3, <2>2, RowsAreTyped DEF AccountingAssumption
      <4>2. Whole(exits[x].filled) = exits[x].filled
        BY <4>1 DEF Whole
      <4>3. trade_pnl(x) = SameDayGain(x)
        BY <4>2 DEF trade_pnl, SameDayGain, Gain
      <4> QED
        BY <1>3, <1>5, <2>1, <3>2, <4>3
    <3>4. SumFunctionOnSet(w, S) = SumFunctionOnSet(v, S)
      BY <1>3, <3>3, SumOfEquals
    <3> QED
      BY <1>3, <1>6, <3>1, <3>2, <3>4 DEF PnlOver
  <2>3. Pnl(list_trade_exits_in_range({d})) = total
    <3>1. PICK key : key = [x \in ExitIds |->
                              [exit |-> x, exit_time |-> exits[x].at,
                               pnl |-> Gain(x, Latest(EntriesBefore(x)))]]
      OBVIOUS
    <3>2. PICK R : R = {key[x] : x \in S}
      OBVIOUS
    <3>3. list_trade_exits_in_range({d}) = R
      BY <1>2, <1>3, <2>1, <3>1, <3>2 DEF list_trade_exits_in_range
    <3>4. \A x \in S : key[x].exit = x /\ key[x].pnl = w[x]
      BY <1>3, <2>1, <3>1
    <3>5. Pnl(R) = SumFunctionOnSet(w, S)
      BY <1>3, <1>5, <3>2, <3>4, RecordsSum
    <3> QED
      BY <1>6, <3>3, <3>5
  <2>4. Pnl(list_closed_trade_records({d})) = total
    <3>1. PICK key : key = [x \in ExitIds |-> [exit |-> x, pnl |-> SameDayGain(x)]]
      OBVIOUS
    <3>2. PICK R : R = {key[x] : x \in S}
      OBVIOUS
    <3>3. list_closed_trade_records({d}) = R
      BY <1>2, <1>3, <1>11, <3>1, <3>2 DEF list_closed_trade_records
    <3>4. \A x \in S : key[x].exit = x /\ key[x].pnl = w[x]
      BY <1>3, <2>1, <3>1
    <3>5. Pnl(R) = SumFunctionOnSet(w, S)
      BY <1>3, <1>5, <3>2, <3>4, RecordsSum
    <3> QED
      BY <1>6, <3>3, <3>5
  <2> QED
    BY <2>2, <2>3, <2>4 DEF build_intraday_digest, load_equity_chart_data
<1> QED
  BY <1>2, <1>7, <1>8, <1>9, <1>10, <1>11

(* While rows are saved in turn, what gates, weights and pages read of the *)
(* table is what was earned; and in any case the reports of a day agree as *)
(* far as ReportsAgree says: for any owners, prices, trades and days.      *)
THEOREM ReportsStayTrue == AccountingSpec => []ReportsAreTrue
<1>1. Accounted => ReportsAreTrue
  BY AccountingAssumption, DayIsEarned, LifeIsEarned, DayReportsAgree DEF ReportsAreTrue
<1> QED
  BY <1>1, TradesAreAccounted, PTL

-----------------------------------------------------------------------------
(***************************************************************************)
(* The exclusion of a losing strategy. Through the day its record, and so  *)
(* who is excluded, stays; who has no chance of a result today has none.   *)
(***************************************************************************)
Chanceless(s) ==
    /\ today[s] = "none" /\ held[s] # "today"
    /\ s \in Options => held[s] = "no"

StreaksInv ==
    /\ streak \in [Strategies -> Nat]
    /\ today \in [Strategies -> {"none", "won", "even", "lost"}]
    /\ held \in [Strategies -> {"no", "today", "carried"}]
    /\ \A s \in Streaks!Excluded \ chance : Chanceless(s)

(* No strategy starts with a losing day.                                    *)
LEMMA StreaksInitHolds ==
    ASSUME Streaks!Init
    PROVE  StreaksInv
<1>1. \A s \in Strategies : Chanceless(s)
  BY DEF Streaks!Init, Chanceless
<1> QED
  BY <1>1 DEF Streaks!Init, StreaksInv, Streaks!Excluded

(* Within a day only an entry or a sale touches a strategy, and one that is *)
(* excluded and has no chance is neither given an entry nor has an option.  *)
LEMMA DayKeepsStreaks ==
    ASSUME StreaksInv, NEW q \in Strategies, Streaks!Enter(q) \/ Streaks!Exit(q)
    PROVE  StreaksInv' /\ Streaks!Excluded' = Streaks!Excluded
<1>1. streak' = streak
  BY DEF Streaks!Enter, Streaks!Exit
<1>2. Streaks!Excluded' = Streaks!Excluded
  BY <1>1 DEF Streaks!Excluded
<1>3. /\ today' \in [Strategies -> {"none", "won", "even", "lost"}]
      /\ held' \in [Strategies -> {"no", "today", "carried"}]
  BY DEF StreaksInv, Streaks!Enter, Streaks!Exit
<1>4. ASSUME NEW s \in Streaks!Excluded \ chance' PROVE Chanceless(s)'
  <2>1. chance \subseteq chance' /\ s \in Strategies
    BY DEF Streaks!Enter, Streaks!Exit, Streaks!Excluded
  <2>2. Chanceless(s)
    BY <1>4, <2>1 DEF StreaksInv
  <2>3. CASE Streaks!Enter(q)
    <3>1. today' = today /\ held' = [held EXCEPT ![q] = "today"] /\ q \notin announced
      BY <2>3 DEF Streaks!Enter
    <3>2. s # q
      BY <1>4, <2>3, <3>1 DEF Streaks!Enter
    <3>3. held'[s] = held[s]
      BY <2>1, <3>1, <3>2 DEF StreaksInv
    <3> QED
      BY <2>2, <3>1, <3>3 DEF Chanceless
  <2>4. CASE Streaks!Exit(q)
    <3>1. CASE s # q
      <4>1. held'[s] = held[s] /\ today'[s] = today[s]
        BY <2>1, <2>4, <3>1 DEF Streaks!Exit, StreaksInv
      <4> QED
        BY <2>2, <4>1 DEF Chanceless
    <3>2. CASE s = q
      <4>1. held[s] = "carried" /\ s \notin Options
        BY <2>1, <2>2, <2>4, <3>2 DEF Streaks!Exit, StreaksInv, Chanceless
      <4>2. held'[s] = "no" /\ today' = today
        BY <2>1, <2>4, <3>2, <4>1 DEF Streaks!Exit, StreaksInv
      <4> QED
        BY <2>2, <4>2 DEF Chanceless
    <3> QED
      BY <3>1, <3>2
  <2> QED
    BY <2>3, <2>4
<1> QED
  BY <1>1, <1>2, <1>3, <1>4 DEF StreaksInv

(* A day ends: whoever still holds an option has a chance tomorrow.         *)
LEMMA NightKeepsStreaks ==
    ASSUME StreaksInv, Streaks!NextDay
    PROVE  StreaksInv'
<1>1. \A s \in Strategies : Streaks!StreakAfter(s) \in Nat
  BY DEF Streaks!StreakAfter, StreaksInv
<1>2. streak' \in [Strategies -> Nat]
  BY <1>1 DEF Streaks!NextDay
<1>3. /\ today' = [s \in Strategies |-> "none"]
      /\ held' = [s \in Strategies |-> IF held[s] = "no" THEN "no" ELSE "carried"]
      /\ chance' = {s \in Options : held[s] # "no"}
  BY DEF Streaks!NextDay
<1>4. ASSUME NEW s \in Strategies, s \notin chance' PROVE Chanceless(s)'
  BY <1>3, <1>4 DEF Chanceless
<1>5. Streaks!Excluded' \subseteq Strategies
  BY DEF Streaks!Excluded
<1> QED
  BY <1>2, <1>3, <1>4, <1>5 DEF StreaksInv

(* Cycles and restarts leave positions and results alone.                   *)
LEMMA StreaksKeepInv == StreaksInv /\ [Streaks!Next]_(Streaks!vars) => StreaksInv'
<1> SUFFICES ASSUME StreaksInv, [Streaks!Next]_(Streaks!vars) PROVE StreaksInv'
  OBVIOUS
<1>1. CASE UNCHANGED <<streak, today, held, chance>>
  <2>1. Streaks!Excluded' = Streaks!Excluded
    BY <1>1 DEF Streaks!Excluded
  <2> QED
    BY <1>1, <2>1 DEF StreaksInv, Chanceless
<1>2. CASE Streaks!Cycle \/ Streaks!Restart \/ UNCHANGED Streaks!vars
  BY <1>1, <1>2 DEF Streaks!Cycle, Streaks!Restart, Streaks!vars
<1>3. CASE Streaks!NextDay
  BY <1>3, NightKeepsStreaks
<1>4. ASSUME NEW s \in Strategies, Streaks!Enter(s) \/ Streaks!Exit(s) PROVE StreaksInv'
  BY <1>4, DayKeepsStreaks
<1> QED
  BY <1>2, <1>3, <1>4 DEF Streaks!Next

(* The exclusion of a strategy is for good, over days, restarts and the     *)
(* sale of a stock it had carried, for any strategies and length of streak: *)
(* the exceptions are an option held into the day and an entry in a cycle   *)
(* that overlooked the exclusion, its read having failed or the strategy    *)
(* not being weighed.                                                      *)
THEOREM ExclusionStays ==
    ASSUME LosingStreak \in Nat \ {0}
    PROVE  Streaks!Spec => Streaks!ExclusionIsForGood
<1>1. StreaksInv /\ [Streaks!Next]_(Streaks!vars)
        => [\A s \in Streaks!Excluded \ chance : s \in Streaks!Excluded']_(Streaks!vars)
  <2> SUFFICES ASSUME StreaksInv, Streaks!Next, NEW s \in Strategies, s \notin chance,
                      streak[s] >= LosingStreak, ~(streak'[s] >= LosingStreak)
               PROVE  FALSE
    BY DEF Streaks!Excluded
  <2>1. Streaks!NextDay
    BY DEF Streaks!Next, Streaks!Cycle, Streaks!Restart, Streaks!Enter, Streaks!Exit
  <2>2. streak'[s] = Streaks!StreakAfter(s)
    BY <2>1 DEF Streaks!NextDay
  <2>3. today[s] = "none"
    BY DEF StreaksInv, Chanceless, Streaks!Excluded
  <2> QED
    BY <2>2, <2>3 DEF Streaks!StreakAfter, StreaksInv
<1> QED
  BY <1>1, StreaksInitHolds, StreaksKeepInv, PTL DEF Streaks!Spec, Streaks!ExclusionIsForGood
=============================================================================
