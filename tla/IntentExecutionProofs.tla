------------------------ MODULE IntentExecutionProofs ------------------------
(***************************************************************************)
(* The execution of the intents for every number of shares, prices, bars,  *)
(* faults and crashes: its types, that no exit is unknown to the ledger,   *)
(* that no working one is canceled, and that no stop stays lost.  Without  *)
(* exits, faults and crashes: that the stop of a whole position only rises.*)
(***************************************************************************)
EXTENDS IntentExecution, FiniteSetTheorems, TLAPS

-----------------------------------------------------------------------------
(***************************************************************************)
(* Orders and their ids.                                                   *)
(***************************************************************************)
\* The kinds of orders are told apart by their ids.
LEMMA Kinds ==
    /\ StopIds \subseteq SellIds /\ ExitIds \subseteq SellIds /\ SellIds \subseteq OrderIds
    /\ StopIds \cap ExitIds = {} /\ Entry \notin SellIds /\ Entry \in OrderIds
    /\ SellIds = StopIds \cup ExitIds /\ OrderIds = {Entry} \cup SellIds
    /\ NoId \notin OrderIds
<1>1. \A c \in StopIds : c.k \in {"stop", "exit_failed_recovery", "startup_recovery", "replacement"}
  BY DEF StopIds, Stop, FailedExitStop, RecoveryStop, CycleStop, Replacement, Id
<1>2. \A c \in ExitIds : c.k \in {"startup_recovery_exit", "rejection_exit", "exit"}
  BY DEF ExitIds, RecoveryExit, RejectionExit, CycleExit, Id
<1>3. Entry.k = "entry" /\ NoId.k = "none"
  BY DEF Entry, NoId, Id
<1>4. StopIds \cap ExitIds = {}
  BY <1>1, <1>2
<1>5. Entry \notin StopIds \cup ExitIds
  BY <1>1, <1>2, <1>3
<1>6. NoId \notin StopIds \cup ExitIds \cup {Entry}
  BY <1>1, <1>2, <1>3
<1> QED
  BY <1>4, <1>5, <1>6 DEF SellIds, OrderIds

\* Which of them are stops, and which are exits.
LEMMA Ids ==
    /\ Stop \in StopIds /\ FailedExitStop \in StopIds /\ RecoveryStop \in StopIds
    /\ RecoveryExit \in ExitIds /\ RejectionExit \in ExitIds /\ StaleExit \in ExitIds
    /\ \A b \in 1 .. MaxBar : CycleStop(b) \in StopIds /\ CycleExit(b) \in ExitIds \ {StaleExit}
    /\ \A n \in 1 .. MaxReplaced : Replacement(n) \in StopIds
    /\ RecoveryExit # StaleExit /\ RejectionExit # StaleExit
<1>1. 0 \in 0 .. MaxBar /\ \A b \in 1 .. MaxBar : b \in 0 .. MaxBar /\ b # 0
  BY OpenPositionAssumption
<1> QED
  BY <1>1 DEF StopIds, ExitIds, Stop, FailedExitStop, RecoveryStop, RecoveryExit, RejectionExit,
              StaleExit, CycleStop, CycleExit, Replacement, Id

\* There are finitely many orders to sell.
LEMMA SellIdsAreFinite == IsFiniteSet(SellIds)
<1>1. \A n \in Nat : IsFiniteSet(0 .. n)
  BY FS_Interval
<1>2. ASSUME NEW k, NEW S, NEW n \in Nat, S \subseteq {Id(k, i) : i \in 0 .. n}
      PROVE  IsFiniteSet(S)
  <2> DEFINE f == [i \in 0 .. n |-> Id(k, i)]
             T == {Id(k, i) : i \in 0 .. n}
  <2>1. f \in Surjection(0 .. n, T)
    BY DEF Surjection
  <2>2. IsFiniteSet(T)
    BY <1>1, <2>1, FS_Surjection
  <2> QED
    BY <1>2, <2>2, FS_Subset
<1>3. MaxBar \in Nat /\ MaxReplaced \in Nat
  BY OpenPositionAssumption
<1>4. IsFiniteSet({CycleStop(b) : b \in 1 .. MaxBar})
  <2>1. {CycleStop(b) : b \in 1 .. MaxBar} \subseteq {Id("stop", i) : i \in 0 .. MaxBar}
    BY <1>3 DEF CycleStop
  <2> QED
    BY <1>2, <1>3, <2>1
<1>5. IsFiniteSet({Replacement(n) : n \in 1 .. MaxReplaced})
  <2>1. {Replacement(n) : n \in 1 .. MaxReplaced} \subseteq {Id("replacement", i) : i \in 0 .. MaxReplaced}
    BY <1>3 DEF Replacement
  <2> QED
    BY <1>2, <1>3, <2>1
<1>6. IsFiniteSet({CycleExit(b) : b \in 0 .. MaxBar})
  BY <1>2, <1>3 DEF CycleExit
<1>7. IsFiniteSet({Stop, FailedExitStop, RecoveryStop}) /\ IsFiniteSet({RecoveryExit, RejectionExit})
  <2>1. /\ {Stop, FailedExitStop, RecoveryStop} = ({Stop} \cup {FailedExitStop}) \cup {RecoveryStop}
        /\ {RecoveryExit, RejectionExit} = {RecoveryExit} \cup {RejectionExit}
    OBVIOUS
  <2>2. IsFiniteSet({Stop} \cup {FailedExitStop}) /\ IsFiniteSet({RecoveryExit} \cup {RejectionExit})
    BY FS_Singleton, FS_Union
  <2>3. IsFiniteSet(({Stop} \cup {FailedExitStop}) \cup {RecoveryStop})
    BY <2>2, FS_Singleton, FS_Union
  <2> QED
    BY <2>1, <2>2, <2>3
<1>8. IsFiniteSet(StopIds)
  BY <1>4, <1>5, <1>7, FS_Union DEF StopIds
<1>9. IsFiniteSet(ExitIds)
  BY <1>6, <1>7, FS_Union DEF ExitIds
<1> QED
  BY <1>8, <1>9, FS_Union DEF SellIds

\* A row of a stop names a stop of the broker, any other row its own order.
RowOf(c) ==
    {r \in OrderRow : IF c \in StopIds THEN r.bid \in StopIds \cup {NoId} ELSE r.bid \in {c, NoId}}
GoodRows(rs) == rs \in [OrderIds -> OrderRow] /\ \A c \in OrderIds : rs[c] \in RowOf(c)

\* A row that is written keeps that, and its fill.
LEMMA RowIsGood ==
    ASSUME NEW c \in OrderIds, NEW st \in RowStatus, NEW qty \in 0 .. Shares,
           NEW px \in 0 .. MaxPrice, NEW bid \in OrderIds \cup {NoId},
           IF c \in StopIds THEN bid \in StopIds \cup {NoId} ELSE bid \in {c, NoId},
           NEW r \in OrderRow
    PROVE  /\ Row(st, qty, px, bid) \in RowOf(c) /\ Saved(r, Row(st, qty, px, bid)) \in RowOf(c)
           /\ Row(st, qty, px, bid).st = st /\ Saved(r, Row(st, qty, px, bid)).st = st
  BY OpenPositionAssumption DEF RowOf, Row, Saved, OrderRow

\* The same for a row that is written as it was read.
LEMMA ReadRowIsGood ==
    ASSUME NEW c \in OrderIds, NEW old \in RowOf(c), NEW st \in RowStatus, NEW r \in OrderRow
    PROVE  /\ Saved(r, [old EXCEPT !.st = st]) \in RowOf(c) /\ [old EXCEPT !.st = st] \in RowOf(c)
           /\ Saved(r, [old EXCEPT !.st = st]).st = st /\ [old EXCEPT !.st = st].st = st
  BY DEF RowOf, Saved, OrderRow

\* Writing one row leaves the others.
LEMMA OneRowIsGood ==
    ASSUME NEW rs, GoodRows(rs), NEW c \in OrderIds, NEW r \in RowOf(c)
    PROVE  GoodRows([rs EXCEPT ![c] = r])
  BY DEF GoodRows, RowOf

-----------------------------------------------------------------------------
(***************************************************************************)
(* The broker.                                                             *)
(***************************************************************************)
\* What the open entry may still buy has room in the account.
EntryRoom == IsOpen(Entry) => held + (bo[Entry].qty - bo[Entry].filled) <= Shares

\* An order that has a fill was placed, and an exit whose end was announced is over.
FilledIsPlaced == \A c \in OrderIds : bo[c].filled > 0 => bo[c].st # "none"
EndsAreTrue ==
    \A i \in 1 .. Len(updates) :
        updates[i].id \in ExitIds /\ updates[i].st # "open" => bo[updates[i].id].st \notin {"open", "none"}

BrokerSound ==
    /\ bo \in [OrderIds -> BrokerOrder] /\ held \in 0 .. Shares /\ market \in Prices
    /\ replaced \in 0 .. MaxReplaced /\ updates \in Seq(TradeUpdate)
    /\ EntryRoom /\ FilledIsPlaced /\ EndsAreTrue

\* A step may place orders of cs only, and opens no other.
PlacesOnly(cs) ==
    \A c \in OrderIds \ cs : /\ bo[c].st = "none" => bo'[c].st = "none"
                             /\ bo'[c].st = "open" => bo[c].st = "open"

\* An update that is added to the others is a true one.
LEMMA UpdateIsAdded ==
    ASSUME BrokerSound, NEW c \in OrderIds, NEW st \in {"open", "filled", "canceled", "replaced", "expired"},
           NEW n \in 0 .. Shares, updates' = Append(updates, Update(c, st, n)),
           \A x \in ExitIds : bo[x].st \notin {"open", "none"} => bo'[x].st \notin {"open", "none"},
           c \in ExitIds /\ st # "open" => bo'[c].st \notin {"open", "none"}
    PROVE  updates' \in Seq(TradeUpdate) /\ EndsAreTrue'
<1>1. Update(c, st, n) \in TradeUpdate
  BY DEF Update, TradeUpdate
<1>2. updates \in Seq(TradeUpdate)
  BY DEF BrokerSound
<1>3. updates' \in Seq(TradeUpdate)
  BY <1>1, <1>2
<1>4. ASSUME NEW i \in 1 .. Len(updates'), updates'[i].id \in ExitIds, updates'[i].st # "open"
      PROVE  bo'[updates'[i].id].st \notin {"open", "none"}
  <2>1. CASE i \in 1 .. Len(updates)
    <3>1. updates'[i] = updates[i]
      BY <1>2, <2>1
    <3>2. updates[i] \in TradeUpdate
      BY <1>2, <2>1
    <3> QED
      BY <1>4, <2>1, <3>1, <3>2 DEF BrokerSound, EndsAreTrue, TradeUpdate
  <2>2. CASE i = Len(updates) + 1
    BY <1>2, <1>4, <2>2 DEF Update
  <2> QED
    BY <1>2, <2>1, <2>2
<1> QED
  BY <1>3, <1>4 DEF EndsAreTrue

\* A fill leaves the account in order.
LEMMA FillKeepsBroker ==
    ASSUME BrokerSound, NEW c \in OrderIds, IsOpen(c), NEW n \in 1 .. (bo[c].qty - bo[c].filled),
           Fills(c, n), held' \in 0 .. Shares, c = Entry => held' = held + n,
           c # Entry => held' <= held, market' \in Prices, replaced' \in 0 .. MaxReplaced
    PROVE  BrokerSound' /\ PlacesOnly({})
<1> DEFINE o == [bo[c] EXCEPT !.st = FillStatus(c, n), !.filled = @ + n]
<1>1. bo[c] \in BrokerOrder /\ bo \in [OrderIds -> BrokerOrder] /\ held \in 0 .. Shares
  BY DEF BrokerSound
<1>2. /\ bo[c].qty \in 0 .. Shares /\ bo[c].filled \in 0 .. Shares /\ bo[c].filled + n \in 1 .. bo[c].qty
      /\ bo[c].filled + n \in 0 .. Shares
  BY <1>1, OpenPositionAssumption DEF BrokerOrder
<1>3. FillStatus(c, n) \in {"open", "filled"}
  BY DEF FillStatus
<1>4. o \in BrokerOrder /\ o.st = FillStatus(c, n) /\ o.filled = bo[c].filled + n /\ o.qty = bo[c].qty
  BY <1>1, <1>2, <1>3 DEF BrokerOrder
<1>5. bo' = [bo EXCEPT ![c] = o]
  BY <1>1 DEF Fills
<1> HIDE DEF o
<1>6. bo' \in [OrderIds -> BrokerOrder] /\ bo'[c] = o /\ \A x \in OrderIds \ {c} : bo'[x] = bo[x]
  BY <1>1, <1>4, <1>5
<1>7. updates' \in Seq(TradeUpdate) /\ EndsAreTrue'
  <2>1. updates' = Append(updates, Update(c, FillStatus(c, n), bo[c].filled + n))
    BY DEF Fills
  <2>2. \A x \in ExitIds : bo[x].st \notin {"open", "none"} => bo'[x].st \notin {"open", "none"}
    BY <1>6, Kinds DEF IsOpen
  <2>3. FillStatus(c, n) # "open" => bo'[c].st \notin {"open", "none"}
    BY <1>3, <1>4, <1>6
  <2> QED
    BY <1>2, <1>3, <2>1, <2>2, <2>3, UpdateIsAdded
<1>8. EntryRoom'
  <2>1. CASE c = Entry
    BY <1>1, <1>2, <1>4, <1>6, <2>1 DEF BrokerSound, EntryRoom, IsOpen
  <2>2. CASE c # Entry
    <3>1. bo'[Entry] = bo[Entry] /\ bo[Entry].qty \in Int /\ bo[Entry].filled \in Int
      BY <1>1, <1>6, <2>2, Kinds DEF BrokerOrder
    <3>2. EntryRoom /\ held \in Int /\ held' \in Int /\ Shares \in Int /\ held' <= held
      BY <2>2, OpenPositionAssumption DEF BrokerSound
    <3> QED
      BY <3>1, <3>2 DEF EntryRoom, IsOpen
  <2> QED
    BY <2>1, <2>2
<1>9. FilledIsPlaced'
  BY <1>3, <1>4, <1>6 DEF BrokerSound, FilledIsPlaced
<1>10. PlacesOnly({})
  BY <1>3, <1>4, <1>6 DEF PlacesOnly, IsOpen
<1> QED
  BY <1>6, <1>7, <1>8, <1>9, <1>10 DEF BrokerSound

\* An order to sell that is placed is open, and not yet filled.
LEMMA NewOrderType ==
    ASSUME NEW qty \in 0 .. Shares, NEW px \in 0 .. MaxPrice
    PROVE  LET o == [NoOrder EXCEPT !.st = "open", !.qty = qty, !.px = px]
           IN  o \in BrokerOrder /\ o.st = "open" /\ o.filled = 0
<1>1. 0 \in 0 .. Shares /\ 0 \in 0 .. MaxPrice
  BY OpenPositionAssumption
<1>2. NoOrder \in BrokerOrder /\ NoOrder.filled = 0
  BY <1>1 DEF BrokerOrder, NoOrder
<1> QED
  BY <1>2 DEF BrokerOrder

\* So does a new order to sell; it is the only one that is new.
LEMMA PlaceKeepsBroker ==
    ASSUME BrokerSound, NEW c \in SellIds, NEW qty \in 0 .. Shares, NEW px \in 0 .. MaxPrice,
           Places(c, qty, px)
    PROVE  BrokerSound' /\ PlacesOnly({c}) /\ bo'[c].st = "open" /\ bo[c].st = "none"
<1> DEFINE o == [NoOrder EXCEPT !.st = "open", !.qty = qty, !.px = px]
<1>1. o \in BrokerOrder /\ o.st = "open" /\ o.filled = 0
  BY NewOrderType
<1>2. bo' = [bo EXCEPT ![c] = o] /\ bo[c].st = "none" /\ UNCHANGED <<held, market, replaced, updates>>
  BY DEF Places, Accepts
<1> HIDE DEF o
<1>3. /\ bo' \in [OrderIds -> BrokerOrder] /\ bo'[c] = o /\ \A x \in OrderIds \ {c} : bo'[x] = bo[x]
      /\ c \in OrderIds /\ c # Entry
  BY <1>1, <1>2, Kinds DEF BrokerSound
<1>4. EntryRoom'
  BY <1>2, <1>3, Kinds DEF BrokerSound, EntryRoom, IsOpen
<1>5. FilledIsPlaced'
  BY <1>1, <1>3 DEF BrokerSound, FilledIsPlaced
<1>6. EndsAreTrue'
  <2> SUFFICES ASSUME NEW i \in 1 .. Len(updates), updates[i].id \in ExitIds, updates[i].st # "open"
               PROVE  bo'[updates[i].id].st \notin {"open", "none"}
    BY <1>2 DEF EndsAreTrue
  <2>1. updates[i] \in TradeUpdate
    BY DEF BrokerSound
  <2> QED
    BY <1>2, <1>3, <2>1 DEF BrokerSound, EndsAreTrue, TradeUpdate
<1> QED
  BY <1>1, <1>2, <1>3, <1>4, <1>5, <1>6 DEF BrokerSound, PlacesOnly

\* A cancel, of one order or of all open ones to sell, opens none.
LEMMA CancelsKeepBroker ==
    ASSUME BrokerSound, NEW cs \in SUBSET OrderIds, \A c \in cs : IsOpen(c), Cancels(cs),
           updates' \in Seq(TradeUpdate), EndsAreTrue'
    PROVE  BrokerSound' /\ PlacesOnly({})
<1>1. /\ bo \in [OrderIds -> BrokerOrder] /\ bo' \in [OrderIds -> BrokerOrder]
      /\ \A x \in OrderIds : bo'[x].filled = bo[x].filled /\ bo'[x].qty = bo[x].qty
      /\ \A x \in OrderIds : x \notin cs => bo'[x] = bo[x]
      /\ \A x \in OrderIds : x \in cs => bo'[x].st = "canceled"
  BY DEF BrokerSound, Cancels, BrokerOrder
<1>2. PlacesOnly({})
  BY <1>1 DEF PlacesOnly, IsOpen
<1>3. EntryRoom'
  <2>1. IsOpen(Entry)' => IsOpen(Entry) /\ bo'[Entry] = bo[Entry]
    BY <1>1, Kinds DEF IsOpen
  <2> QED
    BY <2>1 DEF BrokerSound, Cancels, EntryRoom
<1>4. FilledIsPlaced'
  BY <1>1 DEF BrokerSound, FilledIsPlaced
<1> QED
  BY <1>1, <1>2, <1>3, <1>4 DEF BrokerSound, Cancels

\* The cancel of one order.
LEMMA CancelKeepsBroker ==
    ASSUME BrokerSound, NEW c \in OrderIds, Cancel(c)
    PROVE  /\ BrokerSound' /\ PlacesOnly({})
           /\ \A x \in OrderIds \ {c} : bo'[x] = bo[x]
<1>1. bo[c] \in BrokerOrder
  BY DEF BrokerSound
<1>2. /\ \A x \in OrderIds : x # c => bo'[x] = bo[x]
      /\ bo'[c].st = "canceled"
  BY <1>1 DEF Cancel, Cancels, BrokerOrder
<1>3. updates' \in Seq(TradeUpdate) /\ EndsAreTrue'
  <2>1. bo[c].filled \in 0 .. Shares
    BY <1>1 DEF BrokerOrder
  <2>2. \A x \in ExitIds : bo[x].st \notin {"open", "none"} => bo'[x].st \notin {"open", "none"}
    BY <1>2, Kinds
  <2> QED
    BY <1>2, <2>1, <2>2, UpdateIsAdded DEF Cancel
<1>4. BrokerSound' /\ PlacesOnly({})
  BY <1>3, CancelsKeepBroker DEF Cancel
<1> QED
  BY <1>2, <1>4

\* The cancel of open orders to sell: their updates are a sequence.
LEMMA BlockingKeepsBroker ==
    ASSUME BrokerSound, NEW cs \in SUBSET OpenSells, CancelsBlocking(cs)
    PROVE  BrokerSound' /\ PlacesOnly({})
<1> DEFINE S == {Update(c, "canceled", bo[c].filled) : c \in cs}
           s == SetToSeq(S)
<1>1. IsFiniteSet(S)
  <2>1. IsFiniteSet(OpenSells)
    BY SellIdsAreFinite, FS_Subset DEF OpenSells
  <2>a. IsFiniteSet(cs)
    BY <2>1, FS_Subset
  <2> DEFINE f == [c \in cs |-> Update(c, "canceled", bo[c].filled)]
  <2>2. f \in Surjection(cs, S)
    BY DEF Surjection
  <2> QED
    BY <2>a, <2>2, FS_Surjection
<1>2. S \subseteq TradeUpdate
  BY Kinds DEF OpenSells, Update, TradeUpdate, BrokerSound, BrokerOrder
<1>3. \A u \in S : bo'[u.id].st = "canceled"
  <2>1. \A c \in cs : bo'[c].st = "canceled"
    BY Kinds DEF CancelsBlocking, Cancels, OpenSells, BrokerSound, BrokerOrder
  <2> QED
    BY <2>1 DEF Update
<1> HIDE DEF S
<1>4. s \in Seq(S)
  <2>1. Cardinality(S) \in Nat /\ \E f \in [1 .. Cardinality(S) -> S] : IsInjective(f)
    BY <1>1, FS_CardinalityType DEF ExistsBijection, Bijection, Injection
  <2>2. s \in [1 .. Cardinality(S) -> S]
    BY <2>1 DEF SetToSeq
  <2> QED
    BY <2>1, <2>2
<1> HIDE DEF s
<1>5. updates' = updates \o s /\ updates \in Seq(TradeUpdate) /\ s \in Seq(TradeUpdate)
  BY <1>2, <1>4 DEF CancelsBlocking, S, s, BrokerSound
<1>6. updates' \in Seq(TradeUpdate)
  BY <1>5
<1>7. cs \in SUBSET OrderIds /\ (\A c \in cs : IsOpen(c)) /\ Cancels(cs)
  BY Kinds DEF OpenSells, CancelsBlocking
<1>8. EndsAreTrue'
  <2> SUFFICES ASSUME NEW i \in 1 .. Len(updates'), updates'[i].id \in ExitIds, updates'[i].st # "open"
               PROVE  bo'[updates'[i].id].st \notin {"open", "none"}
    BY DEF EndsAreTrue
  <2>1. CASE i \in 1 .. Len(updates)
    <3>1. updates'[i] = updates[i] /\ updates[i] \in TradeUpdate
      BY <1>5, <2>1
    <3>2. updates[i].id \in OrderIds
      BY <3>1 DEF TradeUpdate
    <3>3. bo[updates[i].id].st \notin {"open", "none"}
      BY <2>1, <3>1 DEF BrokerSound, EndsAreTrue
    <3>4. updates[i].id \notin cs
      BY <1>7, <3>3 DEF IsOpen
    <3> QED
      BY <1>7, <3>1, <3>2, <3>3, <3>4 DEF Cancels
  <2>2. CASE i \notin 1 .. Len(updates)
    <3>1. i - Len(updates) \in 1 .. Len(s) /\ updates'[i] = s[i - Len(updates)]
      BY <1>5, <2>2
    <3>2. updates'[i] \in S
      BY <1>4, <3>1
    <3> QED
      BY <1>3, <3>2
  <2> QED
    BY <2>1, <2>2
<1> QED
  BY <1>6, <1>7, <1>8, CancelsKeepBroker

\* Some of the open orders to sell are canceled, whether or not a cancel failed.
SharesFreed == \E cs \in SUBSET OpenSells : CancelsBlocking(cs)

LEMMA FreedAll == CancelFreesShares => SharesFreed /\ (Fault \/ UNCHANGED faults)
  BY DEF CancelFreesShares, SharesFreed

\* A replacement puts another stop in the place of an order.
LEMMA ReplaceKeepsBroker ==
    ASSUME BrokerSound, NEW c \in OrderIds, NEW qty \in 0 .. Shares, NEW px \in 0 .. MaxPrice,
           Replaces(c, qty, px)
    PROVE  /\ BrokerSound' /\ PlacesOnly(StopIds)
           /\ replaced' > 0 /\ Replacement(replaced') \in StopIds
           /\ \A x \in OrderIds \ StopIds : x # c => bo'[x] = bo[x]
<1> DEFINE n == Replacement(replaced')
           o == [NoOrder EXCEPT !.st = "open", !.qty = qty, !.px = px]
           p == [bo[c] EXCEPT !.st = "replaced"]
<1>1. replaced' \in 1 .. MaxReplaced /\ n \in StopIds /\ n \in OrderIds /\ n # Entry
  <2>1. replaced' \in 1 .. MaxReplaced
    BY OpenPositionAssumption DEF Replaces, CanReplace, BrokerSound
  <2> QED
    BY <2>1, Ids, Kinds
<1>2. o \in BrokerOrder /\ o.st = "open" /\ o.filled = 0
  BY NewOrderType
<1>3. bo[c] \in BrokerOrder /\ bo[c].st = "open" /\ bo[c].filled = 0
  BY DEF BrokerSound, Replaces, CanReplace, IsOpen
<1>4. p \in BrokerOrder /\ p.st = "replaced" /\ p.filled = 0
  BY <1>3 DEF BrokerOrder
<1>5. bo' = [bo EXCEPT ![c] = p, ![n] = o]
  BY DEF Replaces
<1> HIDE DEF n, o, p
<1>6. /\ bo' \in [OrderIds -> BrokerOrder] /\ bo'[n] = o
      /\ c # n => bo'[c] = p
      /\ \A x \in OrderIds \ {c, n} : bo'[x] = bo[x]
  BY <1>1, <1>2, <1>4, <1>5 DEF BrokerSound
<1>7. EntryRoom'
  BY <1>1, <1>2, <1>4, <1>6, Kinds DEF BrokerSound, EntryRoom, IsOpen, Replaces
<1>8. FilledIsPlaced'
  BY <1>2, <1>4, <1>6 DEF BrokerSound, FilledIsPlaced
<1>9. PlacesOnly(StopIds)
  BY <1>1, <1>3, <1>4, <1>6 DEF PlacesOnly
<1>10. updates' \in Seq(TradeUpdate) /\ EndsAreTrue'
  <2>1. updates' = Append(updates, Update(c, "replaced", 0)) /\ 0 \in 0 .. Shares
    BY OpenPositionAssumption DEF Replaces
  <2>2. \A x \in ExitIds : bo[x].st \notin {"open", "none"} => bo'[x].st \notin {"open", "none"}
    BY <1>1, <1>3, <1>4, <1>6, Kinds
  <2>3. c \in ExitIds => bo'[c].st \notin {"open", "none"}
    BY <1>1, <1>3, <1>4, <1>6, Kinds
  <2> QED
    BY <2>1, <2>2, <2>3, UpdateIsAdded
<1> QED
  BY <1>1, <1>6, <1>7, <1>8, <1>9, <1>10 DEF BrokerSound, Replaces, n

-----------------------------------------------------------------------------
(***************************************************************************)
(* The stream thread, the recovery and the dispatch.                       *)
(***************************************************************************)
LedgerSound == GoodRows(rows) /\ pos \in Position

\* A replacement under way is one of a stop that the broker has.
ResizeSound ==
    /\ resize \in Resize
    /\ resize.stage # "idle" => resize.row \in RowOf(Stop) /\ resize.row.bid # NoId
    /\ resize.stage = "save" => resize.ans \in StopIds /\ replaced > 0

DeskSound == BrokerSound /\ LedgerSound /\ ResizeSound /\ faults \in 0 .. MaxFaults

\* A step may not forget a row, and not end the row of an exit that is open.
RowsStay == \A c \in OrderIds : rows[c].st # "none" => rows'[c].st # "none"
ExitsStayActive == \A c \in ExitIds : IsOpen(c) /\ IsActive(rows[c]) => IsActive(rows[c])'

\* No work, no position and no replacement are of their types.
LEMMA Nothing ==
    /\ NoPosition \in Position /\ NoResize \in Resize /\ NoResize.stage = "idle"
    /\ 0 \in 0 .. Shares /\ 0 \in 0 .. MaxPrice /\ InitialStop \in 0 .. MaxPrice
    /\ 0 \in 0 .. MaxFaults
    /\ NoRow \in OrderRow /\ \A c \in OrderIds : NoRow \in RowOf(c)
<1>1. /\ 0 \in 0 .. Shares /\ 0 \in 0 .. MaxPrice /\ InitialStop \in 0 .. MaxPrice
      /\ 0 \in 0 .. MaxFaults
  BY OpenPositionAssumption DEF InitialStop
<1>2. NoRow \in OrderRow /\ NoRow.bid = NoId
  BY <1>1 DEF NoRow, OrderRow, RowStatus
<1> QED
  BY <1>1, <1>2 DEF NoPosition, Position, NoResize, Resize, RowOf

\* The row an update is about may have the id the update names.
LEMMA RowForIsGood ==
    ASSUME GoodRows(rows), NEW e \in TradeUpdate
    PROVE  /\ RowFor(e) \in OrderIds
           /\ IF RowFor(e) \in StopIds THEN e.id \in StopIds ELSE e.id = RowFor(e)
<1> DEFINE found == {c \in OrderIds : rows[c].st # "none" /\ rows[c].bid = e.id}
<1>1. e.id \in OrderIds
  BY DEF TradeUpdate
<1>2. RowFor(e) = e.id \/ RowFor(e) \in found
  BY DEF RowFor
<1>3. ASSUME NEW c \in found
      PROVE  IF c \in StopIds THEN e.id \in StopIds ELSE e.id = c
  <2>1. rows[c] \in RowOf(c)
    BY DEF GoodRows
  <2> QED
    BY <1>1, <1>3, <2>1, Kinds DEF RowOf
<1> QED
  BY <1>1, <1>2, <1>3

\* An update that is taken from the queue leaves the rest of it true.
LEMMA UpdateIsTaken ==
    ASSUME BrokerSound, updates # <<>>, updates' = Tail(updates),
           UNCHANGED <<bo, held, market, replaced>>
    PROVE  /\ BrokerSound' /\ PlacesOnly({}) /\ Head(updates) \in TradeUpdate
           /\ Head(updates).id \in ExitIds /\ Head(updates).st # "open" => ~IsOpen(Head(updates).id)
<1>1. /\ updates \in Seq(TradeUpdate) /\ Len(updates) > 0 /\ Head(updates) = updates[1]
      /\ updates' \in Seq(TradeUpdate) /\ Head(updates) \in TradeUpdate
      /\ Len(updates') = Len(updates) - 1
      /\ \A i \in 1 .. Len(updates') : updates'[i] = updates[i + 1]
  BY DEF BrokerSound
<1>2. EndsAreTrue'
  <2> SUFFICES ASSUME NEW i \in 1 .. Len(updates'), updates'[i].id \in ExitIds, updates'[i].st # "open"
               PROVE  bo'[updates'[i].id].st \notin {"open", "none"}
    BY DEF EndsAreTrue
  <2>1. i + 1 \in 1 .. Len(updates) /\ updates'[i] = updates[i + 1]
    BY <1>1
  <2> QED
    BY <2>1 DEF BrokerSound, EndsAreTrue
<1>3. Head(updates).id \in ExitIds /\ Head(updates).st # "open" => ~IsOpen(Head(updates).id)
  BY <1>1 DEF BrokerSound, EndsAreTrue, IsOpen
<1> QED
  BY <1>1, <1>2, <1>3 DEF BrokerSound, EntryRoom, FilledIsPlaced, PlacesOnly, IsOpen

\* A fill or an end of the entry: its position and its stop are saved.
LEMMA EntryPositionIsSound ==
    ASSUME DeskSound, NEW q \in 0 .. Shares, NEW rs, GoodRows(rs), SaveEntryPosition(q, rs),
           UNCHANGED replaced, resize.stage = "idle"
    PROVE  /\ LedgerSound' /\ ResizeSound'
           /\ rows' \in [OrderIds -> OrderRow]
           /\ \A c \in OrderIds \ {Stop} : rows'[c] = rs[c]
           /\ rs[Stop].st # "none" => rows'[Stop].st # "none"
<1>1. Stop \in OrderIds /\ Stop \in StopIds
  BY Ids, Kinds
<1>2. rows[Stop] \in RowOf(Stop) /\ rows[Stop] \in OrderRow /\ rs[Stop] \in RowOf(Stop)
      /\ rs \in [OrderIds -> OrderRow]
  BY <1>1 DEF DeskSound, LedgerSound, GoodRows
<1>3. pos' \in Position
  BY Nothing DEF SaveEntryPosition, Position
<1>4. PICK r \in RowOf(Stop) : rows' = [rs EXCEPT ![Stop] = r] /\ (rs[Stop].st # "none" => r.st # "none")
  <2>1. CASE rows[Stop].st \in EndedStop
    <3>1. rows' = [rs EXCEPT ![Stop] = Saved(rows[Stop], Row("pending_submit", q, InitialStop, NoId))]
      BY <2>1 DEF SaveEntryPosition, EndedStop
    <3>2. "pending_submit" \in RowStatus /\ NoId \in StopIds \cup {NoId} /\ NoId \in OrderIds \cup {NoId}
      BY DEF RowStatus
    <3>3. /\ Saved(rows[Stop], Row("pending_submit", q, InitialStop, NoId)) \in RowOf(Stop)
          /\ Saved(rows[Stop], Row("pending_submit", q, InitialStop, NoId)).st = "pending_submit"
      BY <1>1, <1>2, <3>2, RowIsGood, Nothing
    <3> QED
      BY <3>1, <3>3
  <2>2. CASE rows[Stop].st = "pending_submit"
    <3>1. rows' = [rs EXCEPT ![Stop].qty = q]
      BY <2>2 DEF SaveEntryPosition, EndedStop
    <3>2. [rs[Stop] EXCEPT !.qty = q] \in RowOf(Stop) /\ [rs[Stop] EXCEPT !.qty = q].st = rs[Stop].st
      BY <1>2 DEF RowOf, OrderRow
    <3>3. rows' = [rs EXCEPT ![Stop] = [rs[Stop] EXCEPT !.qty = q]]
      BY <1>1, <1>2, <3>1
    <3> QED
      BY <3>2, <3>3
  <2>3. CASE rows[Stop].st \notin EndedStop \cup {"pending_submit"}
    <3>1. rows' = rs
      BY <2>3 DEF SaveEntryPosition
    <3>2. rs = [rs EXCEPT ![Stop] = rs[Stop]]
      BY <1>1, <1>2
    <3> QED
      BY <1>2, <3>1, <3>2
  <2> QED
    BY <2>1, <2>2, <2>3
<1>5. GoodRows(rows')
  BY <1>1, <1>4, OneRowIsGood
<1>6. ResizeSound'
  <2>1. CASE resize' = resize
    BY <2>1 DEF DeskSound, ResizeSound
  <2>2. CASE /\ resize' = [stage |-> "call", qty |-> q, row |-> rows[Stop], ans |-> NoId]
             /\ rows[Stop].bid # NoId
    <3>1. NoId \in StopIds \cup {NoId}
      OBVIOUS
    <3> QED
      BY <1>2, <2>2, <3>1 DEF ResizeSound, Resize
  <2> QED
    BY <2>1, <2>2 DEF SaveEntryPosition
<1> QED
  BY <1>1, <1>2, <1>3, <1>4, <1>5, <1>6 DEF LedgerSound, GoodRows

\* An update of the broker is applied.
LEMMA ApplyUpdateIsSound ==
    ASSUME DeskSound, ApplyUpdate
    PROVE  DeskSound' /\ PlacesOnly({}) /\ RowsStay /\ ExitsStayActive
<1> DEFINE e == Head(updates)
           r == RowFor(e)
           new == [rows[r] EXCEPT !.st = RowStatusOf(e), !.bid = e.id,
                                  !.filled = IF e.filled > @ THEN e.filled ELSE @]
           rs == [rows EXCEPT ![r] = new]
<1>1. BrokerSound' /\ PlacesOnly({}) /\ e \in TradeUpdate
      /\ (e.id \in ExitIds /\ e.st # "open" => ~IsOpen(e.id))
  BY UpdateIsTaken DEF ApplyUpdate, DeskSound
<1>2. r \in OrderIds /\ (IF r \in StopIds THEN e.id \in StopIds ELSE e.id = r)
  BY <1>1, RowForIsGood DEF DeskSound, LedgerSound
<1>3. rows \in [OrderIds -> OrderRow] /\ rows[r] \in OrderRow /\ GoodRows(rows)
  BY <1>2 DEF DeskSound, LedgerSound, GoodRows
<1>4. RowStatusOf(e) \in RowStatus \ {"none"} /\ e.id \in OrderIds /\ e.filled \in 0 .. Shares
  BY <1>1 DEF RowStatusOf, RowStatus, TradeUpdate
<1>5. new \in RowOf(r) /\ new.st = RowStatusOf(e)
  BY <1>2, <1>3, <1>4 DEF RowOf, OrderRow
<1>6. [rows EXCEPT ![r].st = RowStatusOf(e), ![r].bid = e.id,
                   ![r].filled = IF e.filled > @ THEN e.filled ELSE @] = rs
  BY <1>2, <1>3
<1>7. /\ faults' = faults /\ replaced' = replaced /\ resize.stage = "idle"
      /\ \/ rows' = rows /\ pos' = pos /\ resize' = resize
         \/ r = Entry /\ SaveEntryPosition(e.filled, rs)
         \/ /\ r # Entry /\ rows' = rs /\ resize' = resize
            /\ pos' = (IF e.st \in {"filled", "open"} /\ e.filled > rows[r].filled
                       THEN AfterSell(e, r) ELSE pos)
  BY <1>6 DEF ApplyUpdate, ledger
<1> HIDE DEF e, r
<1>8. GoodRows(rs) /\ rs[r] = new /\ \A c \in OrderIds \ {r} : rs[c] = rows[c]
  BY <1>2, <1>3, <1>5, OneRowIsGood
<1> HIDE DEF new, rs
<1>9. CASE rows' = rows /\ pos' = pos /\ resize' = resize
  BY <1>1, <1>7, <1>9 DEF DeskSound, LedgerSound, ResizeSound, RowsStay, ExitsStayActive, IsActive
<1>10. CASE r = Entry /\ SaveEntryPosition(e.filled, rs)
  <2>1. /\ LedgerSound' /\ ResizeSound'
        /\ \A c \in OrderIds \ {Stop} : rows'[c] = rs[c]
        /\ rs[Stop].st # "none" => rows'[Stop].st # "none"
    BY <1>4, <1>7, <1>8, <1>10, EntryPositionIsSound
  <2>2. DeskSound'
    BY <1>1, <1>7, <2>1 DEF DeskSound
  <2>3. RowsStay
    BY <1>4, <1>5, <1>8, <2>1 DEF RowsStay
  <2>4. ExitsStayActive
    <3> SUFFICES ASSUME NEW c \in ExitIds PROVE rows'[c] = rows[c]
      BY DEF ExitsStayActive, IsActive
    <3>1. c \in OrderIds /\ c # Entry /\ c # Stop
      BY Kinds, Ids
    <3> QED
      BY <1>8, <1>10, <2>1, <3>1
  <2> QED
    BY <1>1, <2>2, <2>3, <2>4
<1>11. CASE /\ r # Entry /\ rows' = rs /\ resize' = resize
            /\ pos' = (IF e.st \in {"filled", "open"} /\ e.filled > rows[r].filled
                       THEN AfterSell(e, r) ELSE pos)
  <2>1. pos' \in Position
    <3>1. pos \in Position /\ rows[r].filled \in 0 .. Shares
      BY <1>3 DEF DeskSound, LedgerSound, OrderRow
    <3>2. CASE pos' = AfterSell(e, r) /\ e.filled > rows[r].filled
      <4> DEFINE left == pos.qty - (e.filled - rows[r].filled)
      <4>1. left > 0 => left \in 0 .. Shares
        BY <1>4, <3>1, <3>2, OpenPositionAssumption DEF Position
      <4>2. pos' = NoPosition \/ (left > 0 /\ pos' = [pos EXCEPT !.qty = left])
        BY <1>4, <3>1, <3>2 DEF AfterSell, Position
      <4> QED
        BY <3>1, <4>1, <4>2, Nothing DEF Position
    <3> QED
      BY <1>11, <3>1, <3>2
  <2>2. DeskSound'
    BY <1>1, <1>7, <1>8, <1>11, <2>1 DEF DeskSound, LedgerSound, ResizeSound
  <2>3. RowsStay
    BY <1>4, <1>5, <1>8, <1>11 DEF RowsStay
  <2>4. ExitsStayActive
    <3> SUFFICES ASSUME NEW c \in ExitIds, IsOpen(c), IsActive(rows[c]) PROVE IsActive(rows'[c])
      BY DEF ExitsStayActive, IsActive
    <3>1. CASE c = r
      <4>1. e.id = c
        BY <1>2, <3>1, Kinds
      <4>2. e.st = "open"
        BY <1>1, <4>1
      <4> QED
        BY <1>5, <1>8, <1>11, <3>1, <4>2 DEF RowStatusOf, IsActive, ActiveStatus
    <3>2. CASE c # r
      BY <1>8, <1>11, <3>2, Kinds
    <3> QED
      BY <3>1, <3>2
  <2> QED
    BY <1>1, <2>2, <2>3, <2>4
<1> QED
  BY <1>7, <1>9, <1>10, <1>11

\* A replacement under way stays sound beside the broker calls of others.
LEMMA ResizeStays ==
    ASSUME ResizeSound, UNCHANGED resize, replaced' = replaced \/ replaced' > 0
    PROVE  ResizeSound'
  BY DEF ResizeSound

\* The stream thread asks for the replacement, and saves its answer.
LEMMA ResizeStopIsSound ==
    ASSUME DeskSound, ResizeStop
    PROVE  DeskSound' /\ PlacesOnly(StopIds) /\ RowsStay /\ ExitsStayActive
<1> DEFINE c == resize.row.bid
<1>1. c \in StopIds /\ c \in OrderIds /\ resize.qty \in 0 .. Shares /\ resize \in Resize
  BY Ids, Kinds DEF ResizeStop, DeskSound, ResizeSound, Resize, RowOf
<1>2. bo[c] \in BrokerOrder
  BY <1>1 DEF DeskSound, BrokerSound
<1>3. bo[c].px \in 0 .. MaxPrice
  BY <1>2 DEF BrokerOrder
<1>4. UNCHANGED <<rows, pos, faults>> /\ resize.stage = "call"
  BY DEF ResizeStop, ledger
<1>5. RowsStay /\ ExitsStayActive /\ LedgerSound'
  BY <1>4 DEF RowsStay, ExitsStayActive, IsActive, DeskSound, LedgerSound
<1>6. CASE Replaces(c, resize.qty, bo[c].px) /\ resize' = [resize EXCEPT !.stage = "save", !.ans = Replacement(replaced')]
  <2>1. BrokerSound' /\ PlacesOnly(StopIds) /\ replaced' > 0
    BY <1>1, <1>3, <1>6, ReplaceKeepsBroker DEF DeskSound
  <2>a. replaced' \in 1 .. MaxReplaced
    BY <2>1, OpenPositionAssumption DEF BrokerSound
  <2>b. Replacement(replaced') \in StopIds
    BY <2>a, Ids, Kinds
  <2>c. PICK m \in StopIds : m = Replacement(replaced')
    BY <2>b
  <2>d. resize' = [resize EXCEPT !.stage = "save", !.ans = m]
    BY <1>6, <2>c
  <2>2. ResizeSound'
    BY <1>1, <1>4, <2>1, <2>d DEF DeskSound, ResizeSound, Resize
  <2> QED
    BY <1>4, <1>5, <2>1, <2>2 DEF DeskSound
<1>7. CASE resize' = NoResize /\ UNCHANGED broker
  <2>1. BrokerSound' /\ PlacesOnly(StopIds)
    BY <1>7 DEF DeskSound, BrokerSound, broker, EntryRoom, FilledIsPlaced, EndsAreTrue, PlacesOnly, IsOpen
  <2>2. ResizeSound'
    BY <1>7, Nothing DEF ResizeSound
  <2> QED
    BY <1>4, <1>5, <2>1, <2>2 DEF DeskSound
<1> QED
  BY <1>6, <1>7 DEF ResizeStop

\* A broker that does nothing stays in order.
LEMMA IdleBroker == UNCHANGED broker => (BrokerSound => BrokerSound') /\ PlacesOnly({})
  BY DEF BrokerSound, broker, EntryRoom, FilledIsPlaced, EndsAreTrue, PlacesOnly, IsOpen

\* The answer of the replacement is saved over the row it was asked for.
LEMMA SaveResizedIsSound ==
    ASSUME DeskSound, SaveResized
    PROVE  DeskSound' /\ PlacesOnly({}) /\ RowsStay /\ ExitsStayActive
<1> DEFINE new == Saved(rows[Stop], Row("accepted", resize.qty, resize.row.px, resize.ans))
<1>1. Stop \in StopIds /\ Stop \in OrderIds /\ Stop \notin ExitIds
  BY Ids, Kinds
<1>2. resize.ans \in StopIds /\ resize.ans \in OrderIds
  BY Kinds DEF SaveResized, DeskSound, ResizeSound
<1>3. rows[Stop] \in OrderRow /\ rows \in [OrderIds -> OrderRow] /\ GoodRows(rows)
  BY <1>1 DEF DeskSound, LedgerSound, GoodRows
<1>4. resize.qty \in 0 .. Shares /\ resize.row.px \in 0 .. MaxPrice
  BY DEF DeskSound, ResizeSound, Resize, OrderRow
<1>5. new \in RowOf(Stop) /\ new.st = "accepted"
  BY <1>1, <1>2, <1>3, <1>4, RowIsGood DEF RowStatus
<1>6. rows' = [rows EXCEPT ![Stop] = new] /\ UNCHANGED <<broker, pos, faults>> /\ resize' = NoResize
  BY DEF SaveResized
<1> HIDE DEF new
<1>7. GoodRows(rows') /\ rows'[Stop] = new /\ \A c \in OrderIds \ {Stop} : rows'[c] = rows[c]
  BY <1>1, <1>3, <1>5, <1>6, OneRowIsGood
<1>8. RowsStay /\ ExitsStayActive
  BY <1>1, <1>5, <1>7, Kinds DEF RowsStay, ExitsStayActive, IsActive
<1>9. ResizeSound'
  BY <1>6, Nothing DEF ResizeSound
<1> QED
  BY <1>6, <1>7, <1>8, <1>9, IdleBroker DEF DeskSound, LedgerSound

\* What the broker and the market do by themselves.
LEMMA MarketIsSound ==
    ASSUME DeskSound, Market
    PROVE  DeskSound' /\ PlacesOnly({}) /\ RowsStay /\ ExitsStayActive
<1>1. UNCHANGED <<rows, pos, resize, replaced, faults>>
  BY DEF Market, EntryFills, SellFills, MarketMoves, ledger
<1>2. LedgerSound' /\ RowsStay /\ ExitsStayActive /\ ResizeSound' /\ faults' \in 0 .. MaxFaults
  BY <1>1, ResizeStays DEF DeskSound, LedgerSound, RowsStay, ExitsStayActive, IsActive
<1>3. held \in 0 .. Shares /\ market \in Prices /\ replaced \in 0 .. MaxReplaced
  BY DEF DeskSound, BrokerSound
<1>4. CASE EntryFills
  <2>1. PICK n \in 1 .. (bo[Entry].qty - bo[Entry].filled) : Fills(Entry, n) /\ held' = held + n
    BY <1>4 DEF EntryFills
  <2>2. Entry \in OrderIds /\ bo[Entry] \in BrokerOrder /\ IsOpen(Entry)
    BY <1>4, Kinds DEF EntryFills, DeskSound, BrokerSound
  <2>3. held' \in 0 .. Shares
    BY <1>3, <2>1, <2>2, OpenPositionAssumption DEF DeskSound, BrokerSound, EntryRoom, BrokerOrder
  <2>4. market' = market
    BY <1>4 DEF EntryFills
  <2>5. BrokerSound' /\ PlacesOnly({})
    BY <1>1, <1>3, <2>1, <2>2, <2>3, <2>4, FillKeepsBroker DEF DeskSound
  <2> QED
    BY <1>2, <2>5 DEF DeskSound
<1>5. ASSUME NEW c \in SellIds, SellFills(c) PROVE BrokerSound' /\ PlacesOnly({})
  <2>1. PICK n \in 1 .. (bo[c].qty - bo[c].filled) : n <= held /\ Fills(c, n) /\ held' = held - n
    BY <1>5 DEF SellFills
  <2>2. c \in OrderIds /\ c # Entry /\ IsOpen(c) /\ bo[c] \in BrokerOrder
    BY <1>5, Kinds DEF SellFills, DeskSound, BrokerSound
  <2>3. held' \in 0 .. Shares /\ held' <= held
    BY <1>3, <2>1, <2>2, OpenPositionAssumption DEF BrokerOrder
  <2>4. market' = market
    BY <1>5 DEF SellFills
  <2> QED
    BY <1>1, <1>3, <2>1, <2>2, <2>3, <2>4, FillKeepsBroker DEF DeskSound
<1>6. CASE MarketMoves
  BY <1>2, <1>6 DEF MarketMoves, DeskSound, BrokerSound, EntryRoom, FilledIsPlaced, EndsAreTrue,
                    PlacesOnly, IsOpen
<1> QED
  BY <1>2, <1>4, <1>5, <1>6 DEF Market, DeskSound

\* What happens beside the supervisor places no exit, and ends no open one's row.
LEMMA OthersAreSound ==
    ASSUME DeskSound, Stream \/ Market
    PROVE  DeskSound' /\ PlacesOnly(StopIds) /\ RowsStay /\ ExitsStayActive
<1>1. PlacesOnly({}) => PlacesOnly(StopIds)
  BY DEF PlacesOnly
<1> QED
  BY <1>1, ApplyUpdateIsSound, ResizeStopIsSound, SaveResizedIsSound, MarketIsSound DEF Stream

\* A row after the recovery has looked at it.
LEMMA ReconciledRow ==
    ASSUME DeskSound, NEW r \in OrderIds
    PROVE  /\ Reconciled(r) \in RowOf(r)
           /\ rows[r].st # "none" => Reconciled(r).st # "none"
           /\ IsOpen(r) => Reconciled(r).bid = r /\ IsActive(Reconciled(r))
<1> DEFINE o == IF rows[r].bid = NoId THEN r ELSE rows[r].bid
           c == IF IsOpen(r) THEN r ELSE o
<1>1. rows[r] \in RowOf(r) /\ rows[r] \in OrderRow
  BY DEF DeskSound, LedgerSound, GoodRows
<1>2. /\ o \in OrderIds /\ c \in OrderIds
      /\ IF r \in StopIds THEN o \in StopIds ELSE o = r
      /\ IF r \in StopIds THEN c \in StopIds ELSE c = r
  BY <1>1, Kinds DEF RowOf, OrderRow
<1>3. bo[o] \in BrokerOrder /\ bo[c] \in BrokerOrder
  BY <1>2 DEF DeskSound, BrokerSound
<1>4. bo[o].filled > 0 => bo[o].st # "none"
  BY <1>2 DEF DeskSound, BrokerSound, FilledIsPlaced
<1> DEFINE st == IF bo[c].filled > 0 THEN "partially_filled" ELSE "accepted"
<1>5. /\ st \in RowStatus \ {"none"} /\ IsActive([st |-> st])
      /\ bo[c].qty \in 0 .. Shares /\ bo[c].px \in 0 .. MaxPrice
  BY <1>3 DEF RowStatus, IsActive, ActiveStatus, BrokerOrder
<1>6. /\ Saved(rows[r], Row(st, bo[c].qty, bo[c].px, c)) \in RowOf(r)
      /\ Saved(rows[r], Row(st, bo[c].qty, bo[c].px, c)).st = st
      /\ Saved(rows[r], Row(st, bo[c].qty, bo[c].px, c)).bid = c
  <2>1. Saved(rows[r], Row(st, bo[c].qty, bo[c].px, c)).bid = c
    BY DEF Saved, Row
  <2> QED
    BY <1>1, <1>2, <1>5, <2>1, RowIsGood
<1>7. CASE IsOpen(r) \/ (bo[o].st = "open" /\ IsActive(rows[r]))
  <2>1. Reconciled(r) = Saved(rows[r], Row(st, bo[c].qty, bo[c].px, c))
    BY <1>7 DEF Reconciled
  <2> HIDE DEF st
  <2> QED
    BY <1>5, <1>6, <2>1 DEF IsActive
<1>8. CASE ~(IsOpen(r) \/ (bo[o].st = "open" /\ IsActive(rows[r])))
  <2> HIDE DEF st, c
  <2>1. CASE bo[o].st # "open" /\ rows[r].st # "none" /\ bo[o].filled > 0
    <3>1. Reconciled(r) = [rows[r] EXCEPT !.st = bo[o].st, !.filled = bo[o].filled, !.bid = o]
      BY <1>8, <2>1 DEF Reconciled
    <3> QED
      BY <1>1, <1>2, <1>3, <1>4, <1>8, <2>1, <3>1 DEF RowOf, OrderRow, BrokerOrder, RowStatus
  <2>2. CASE Reconciled(r) = [rows[r] EXCEPT !.st = "pending_submit"]
    BY <1>1, <1>8, <2>2 DEF RowOf, OrderRow, RowStatus
  <2>3. CASE Reconciled(r) = [rows[r] EXCEPT !.st = "reconciled_missing"]
    BY <1>1, <1>8, <2>3 DEF RowOf, OrderRow, RowStatus
  <2>4. CASE Reconciled(r) = rows[r]
    BY <1>1, <1>8, <2>4
  <2>5. \/ bo[o].st # "open" /\ rows[r].st # "none" /\ bo[o].filled > 0
        \/ Reconciled(r) = [rows[r] EXCEPT !.st = "pending_submit"]
        \/ Reconciled(r) = [rows[r] EXCEPT !.st = "reconciled_missing"]
        \/ Reconciled(r) = rows[r]
    BY <1>8 DEF Reconciled
  <2> QED
    BY <2>1, <2>2, <2>3, <2>4, <2>5
<1> QED
  BY <1>7, <1>8

\* The recovery knows every order that is open under its own id.
LEMMA ReconcileIsSound ==
    ASSUME DeskSound, Reconcile
    PROVE  /\ DeskSound' /\ PlacesOnly({}) /\ RowsStay
           /\ \A c \in SellIds : IsOpen(c) => rows'[c].bid = c /\ IsActive(rows'[c])
<1> DEFINE rs == [r \in OrderIds |-> Reconciled(r)]
<1>1. /\ rs \in [OrderIds -> OrderRow] /\ GoodRows(rs)
      /\ \A c \in OrderIds : /\ rows[c].st # "none" => rs[c].st # "none"
                             /\ IsOpen(c) => rs[c].bid = c /\ IsActive(rs[c])
  BY ReconciledRow DEF GoodRows, RowOf
<1>2. held \in 0 .. Shares /\ StopPrice \in 0 .. MaxPrice
  BY Nothing DEF DeskSound, BrokerSound, LedgerSound, StopPrice, Position
<1>3. /\ rows' = WithCover(rs) /\ UNCHANGED <<broker, resize, faults>>
      /\ pos' = (IF held = 0 THEN NoPosition ELSE [qty |-> held, px |-> StopPrice])
  BY DEF Reconcile
<1>4. pos' \in Position
  BY <1>2, <1>3, Nothing DEF Position
<1> HIDE DEF rs
<1>5. /\ RecoveryExit \in OrderIds /\ RecoveryStop \in OrderIds
      /\ RecoveryExit \in SellIds /\ RecoveryStop \in SellIds
  BY Ids, Kinds
<1>6. PICK e \in RowOf(RecoveryExit), t \in RowOf(RecoveryStop) :
         /\ rows' = [rs EXCEPT ![RecoveryExit] = e, ![RecoveryStop] = t]
         /\ e = rs[RecoveryExit] \/ (e.st # "none" /\ OpenSells = {})
         /\ t = rs[RecoveryStop] \/ (t.st # "none" /\ OpenSells = {})
  <2>1. "pending_submit" \in RowStatus /\ 0 \in 0 .. MaxPrice
    BY Nothing DEF RowStatus
  <2> DEFINE newExit == Saved(rs[RecoveryExit], Row("pending_submit", held, 0, NoId))
             newStop == Saved(rs[RecoveryStop], Row("pending_submit", held, StopPrice, NoId))
             bare == held > 0 /\ OpenSells = {} /\ ActiveRows(StopIds) = {}
             alone == bare /\ ActiveRows(ExitIds) = {}
             e == IF alone /\ market <= StopPrice THEN newExit ELSE rs[RecoveryExit]
             t == IF \/ bare /\ pos.qty = 0
                     \/ alone /\ market > StopPrice /\ Renewable(rows[RecoveryStop])
                  THEN newStop ELSE rs[RecoveryStop]
  <2>2. rows' = [rs EXCEPT ![RecoveryExit] = e, ![RecoveryStop] = t]
    BY <1>3 DEF WithCover
  <2>3. newExit \in RowOf(RecoveryExit) /\ newExit.st # "none"
    BY <1>1, <1>2, <1>5, <2>1, RowIsGood
  <2>4. newStop \in RowOf(RecoveryStop) /\ newStop.st # "none"
    BY <1>1, <1>2, <1>5, <2>1, RowIsGood
  <2>5. rs[RecoveryExit] \in RowOf(RecoveryExit) /\ rs[RecoveryStop] \in RowOf(RecoveryStop)
    BY <1>1, <1>5 DEF GoodRows
  <2> HIDE DEF newExit, newStop
  <2>6. e \in RowOf(RecoveryExit) /\ (e = rs[RecoveryExit] \/ (e.st # "none" /\ OpenSells = {}))
    BY <2>3, <2>5
  <2>7. t \in RowOf(RecoveryStop) /\ (t = rs[RecoveryStop] \/ (t.st # "none" /\ OpenSells = {}))
    BY <2>4, <2>5
  <2> HIDE DEF e, t
  <2> QED
    BY <2>2, <2>6, <2>7
<1>7. /\ GoodRows(rows') /\ RowsStay
      /\ \A c \in SellIds : IsOpen(c) => rows'[c].bid = c /\ IsActive(rows'[c])
  <2>1. GoodRows(rows')
    <3>1. PICK q : q = [rs EXCEPT ![RecoveryExit] = e]
      OBVIOUS
    <3>2. GoodRows(q)
      BY <1>1, <1>5, <3>1, OneRowIsGood
    <3>3. rows' = [q EXCEPT ![RecoveryStop] = t]
      BY <1>6, <3>1
    <3> QED
      BY <1>5, <3>2, <3>3, OneRowIsGood
  <2>2. ASSUME NEW c \in OrderIds
        PROVE  rows'[c] = rs[c] \/ (rows'[c].st # "none" /\ OpenSells = {})
    <3>1. RecoveryExit # RecoveryStop
      BY Ids, Kinds
    <3>2. CASE c = RecoveryExit
      <4>1. rows'[c] = e
        BY <1>1, <1>5, <1>6, <3>1, <3>2
      <4> QED
        BY <1>6, <3>2, <4>1
    <3>3. CASE c = RecoveryStop
      <4>1. rows'[c] = t
        BY <1>1, <1>5, <1>6, <3>1, <3>3
      <4> QED
        BY <1>6, <3>3, <4>1
    <3>4. CASE c \notin {RecoveryExit, RecoveryStop}
      BY <1>1, <1>6, <3>4
    <3> QED
      BY <3>2, <3>3, <3>4
  <2>3. RowsStay
    BY <1>1, <2>2 DEF RowsStay
  <2>4. ASSUME NEW c \in SellIds, IsOpen(c) PROVE rows'[c].bid = c /\ IsActive(rows'[c])
    BY <1>1, <2>2, <2>4, Kinds DEF OpenSells
  <2> QED
    BY <2>1, <2>3, <2>4
<1> QED
  BY <1>3, <1>4, <1>7, IdleBroker DEF DeskSound, LedgerSound, ResizeSound, broker

\* The dispatch of a row places its order only.
LEMMA DispatchIsSound ==
    ASSUME DeskSound, NEW c \in SellIds, Dispatch(c)
    PROVE  DeskSound' /\ PlacesOnly({c}) /\ RowsStay /\ rows[c].st # "none"
<1>1. c \in OrderIds /\ c # Entry /\ rows[c] \in RowOf(c) /\ rows[c] \in OrderRow /\ GoodRows(rows)
      /\ rows \in [OrderIds -> OrderRow] /\ (c \in StopIds \/ c \in ExitIds)
  BY Kinds DEF DeskSound, LedgerSound, GoodRows
<1>2. rows[c].qty \in 0 .. Shares /\ rows[c].px \in 0 .. MaxPrice
  BY <1>1 DEF OrderRow
<1>3. rows[c].st = "pending_submit" /\ UNCHANGED <<pos, resize, faults>>
  BY DEF Dispatch
<1>4. CASE /\ Places(c, rows[c].qty, rows[c].px)
           /\ rows' = [rows EXCEPT ![c].st = "accepted", ![c].bid = c]
  <2> DEFINE new == [rows[c] EXCEPT !.st = "accepted", !.bid = c]
  <2>1. BrokerSound' /\ PlacesOnly({c})
    BY <1>2, <1>4, PlaceKeepsBroker DEF DeskSound
  <2>2. new \in RowOf(c) /\ new.st = "accepted"
    BY <1>1 DEF RowOf, OrderRow, RowStatus
  <2>3. rows' = [rows EXCEPT ![c] = new]
    BY <1>1, <1>4
  <2> HIDE DEF new
  <2>4. GoodRows(rows') /\ RowsStay
    BY <1>1, <2>2, <2>3, OneRowIsGood DEF RowsStay
  <2>5. replaced' = replaced
    BY <1>4 DEF Places
  <2> QED
    BY <1>3, <2>1, <2>4, <2>5, ResizeStays DEF DeskSound, LedgerSound
<1>5. CASE UNCHANGED broker /\ ~Accepts(c, rows[c].qty, rows[c].px)
  <2> DEFINE one == [rows[c] EXCEPT !.st = RefusedStatus(c)]
             rs == [rows EXCEPT ![c] = one]
             new == Saved(rs[RejectionExit], Row("pending_submit", rows[c].qty, 0, NoId))
  <2>1. RefusedStatus(c) \in {"canceled", "error"}
    BY DEF RefusedStatus
  <2>2. one \in RowOf(c) /\ one.st # "none"
    BY <1>1, <2>1 DEF RowOf, OrderRow, RowStatus
  <2>3. rs = [rows EXCEPT ![c].st = RefusedStatus(c)]
    BY <1>1
  <2> HIDE DEF one
  <2>4. GoodRows(rs) /\ (\A x \in OrderIds : rows[x].st # "none" => rs[x].st # "none")
        /\ rs \in [OrderIds -> OrderRow]
    BY <1>1, <2>2, OneRowIsGood DEF GoodRows
  <2>5. rows' = rs \/ rows' = [rs EXCEPT ![RejectionExit] = new]
    BY <1>3, <1>5, <2>3 DEF Dispatch, Places
  <2>6. RejectionExit \in OrderIds /\ rs[RejectionExit] \in OrderRow
    BY <2>4, Ids, Kinds
  <2> HIDE DEF rs
  <2>7. new \in RowOf(RejectionExit) /\ new.st = "pending_submit"
    BY <1>2, <2>6, RowIsGood, Nothing DEF RowStatus
  <2> HIDE DEF new
  <2>8. GoodRows(rows') /\ RowsStay
    BY <2>4, <2>5, <2>6, <2>7, OneRowIsGood DEF RowsStay
  <2>9. BrokerSound' /\ PlacesOnly({c}) /\ replaced' = replaced
    BY <1>5, IdleBroker DEF DeskSound, broker, PlacesOnly
  <2> QED
    BY <1>3, <2>8, <2>9, ResizeStays DEF DeskSound, LedgerSound
<1> QED
  BY <1>3, <1>4, <1>5 DEF Dispatch

\* The partly filled entry is canceled before its stop is dispatched.
LEMMA CancelEntryForStopIsSound ==
    ASSUME DeskSound, CancelEntryForStop
    PROVE  DeskSound' /\ PlacesOnly({}) /\ RowsStay /\ \A x \in SellIds : bo'[x] = bo[x]
<1> DEFINE one == [rows[Entry] EXCEPT !.st = "canceled"]
           two == [rows[Stop] EXCEPT !.qty = rows[Entry].filled]
<1>1. /\ Entry \in OrderIds /\ Stop \in OrderIds /\ Entry # Stop /\ Entry \notin SellIds
      /\ rows \in [OrderIds -> OrderRow] /\ GoodRows(rows)
      /\ rows[Entry] \in RowOf(Entry) /\ rows[Stop] \in RowOf(Stop)
      /\ rows[Entry] \in OrderRow /\ rows[Stop] \in OrderRow
  BY Kinds, Ids DEF DeskSound, LedgerSound, GoodRows
<1>2. one \in RowOf(Entry) /\ one.st = "canceled"
  BY <1>1 DEF RowOf, OrderRow, RowStatus
<1>3. two \in RowOf(Stop) /\ two.st = rows[Stop].st
  BY <1>1 DEF RowOf, OrderRow
<1>4. rows' = [[rows EXCEPT ![Entry] = one] EXCEPT ![Stop] = two]
  BY <1>1 DEF CancelEntryForStop
<1> HIDE DEF one, two
<1>5. GoodRows([rows EXCEPT ![Entry] = one])
  BY <1>1, <1>2, OneRowIsGood
<1>6. GoodRows(rows')
  BY <1>1, <1>3, <1>4, <1>5, OneRowIsGood
<1>7. RowsStay
  BY <1>1, <1>2, <1>3, <1>4 DEF RowsStay
<1>8. BrokerSound' /\ PlacesOnly({}) /\ \A x \in SellIds : bo'[x] = bo[x]
  BY <1>1, CancelKeepsBroker, Kinds DEF CancelEntryForStop, DeskSound
<1>9. UNCHANGED <<pos, resize, faults, replaced>>
  BY DEF CancelEntryForStop, Cancel, Cancels
<1> QED
  BY <1>6, <1>7, <1>8, <1>9, ResizeStays DEF DeskSound, LedgerSound

-----------------------------------------------------------------------------
(***************************************************************************)
(* The supervisor: what it reads and what it has in hand.                  *)
(***************************************************************************)
CycleSound ==
    /\ pc \in Locations /\ bar \in 1 .. MaxBar /\ latest \in bar .. MaxBar
    /\ quota \in 0 .. IntentsPerCycle /\ crashes \in 0 .. MaxCrashes
    /\ cache \in [qty : 0 .. Shares, px : 0 .. MaxPrice, read : BOOLEAN]
    /\ seen \in {"not_read", "held", "missing", "unknown"}

\* The intent in hand names stops where it moves or cancels stops, and the exit of
\* the session before where it cancels exits.
WorkSound ==
    /\ work \in Work /\ GoodRows(work.read) /\ work.canceled \subseteq StopIds
    /\ work.id \in StopIds \cup {NoId}
    /\ pc = "replace" => work.id \in StopIds /\ Target # NoId
    /\ pc = "save_stop" => work.ans \in StopIds
    /\ pc = "save_pending" => work.id \in StopIds
    /\ pc = "save_resync" => work.ans \in StopIds
    /\ pc \in {"stale_exit", "read_stops"} => work.todo \subseteq {StaleExit}
    /\ pc = "cancel_stops" => work.todo \subseteq StopIds

Sound == DeskSound /\ CycleSound /\ WorkSound

\* What the calls of a step may do at the broker: place orders of cs, and cancel no
\* exit of this session.
Calls(cs) ==
    /\ BrokerSound' /\ PlacesOnly(cs) /\ CancelsNoFreshExit
    /\ replaced' = replaced \/ replaced' > 0

\* A step that keeps all this, and knows what it knew.
Keeps(cs) == Sound' /\ RowsStay /\ PlacesOnly(cs) /\ CancelsNoFreshExit

\* A step that calls nothing.
LEMMA NoCall ==
    ASSUME BrokerSound, UNCHANGED broker, NEW cs
    PROVE  Calls(cs)
<1>1. BrokerSound' /\ PlacesOnly({})
  BY IdleBroker
<1> QED
  BY <1>1 DEF Calls, PlacesOnly, broker, CancelsNoFreshExit, IsOpen

\* An order to sell is placed.
LEMMA PlaceCall ==
    ASSUME BrokerSound, NEW c \in SellIds, NEW qty \in 0 .. Shares, NEW px \in 0 .. MaxPrice,
           Places(c, qty, px)
    PROVE  Calls({c})
<1>1. BrokerSound' /\ PlacesOnly({c}) /\ bo'[c].st = "open"
  BY PlaceKeepsBroker
<1>2. \A x \in OrderIds : x # c => bo'[x] = bo[x]
  BY DEF Places, BrokerSound
<1>3. CancelsNoFreshExit
  BY <1>1, <1>2, Kinds DEF CancelsNoFreshExit, IsOpen
<1> QED
  BY <1>1, <1>3 DEF Calls, Places

\* A stop is replaced; its replacement is a stop again.
LEMMA ReplaceCall ==
    ASSUME BrokerSound, NEW c \in StopIds, NEW qty \in 0 .. Shares, NEW px \in 0 .. MaxPrice,
           Replaces(c, qty, px)
    PROVE  Calls(StopIds) /\ replaced' > 0 /\ Replacement(replaced') \in StopIds
<1>1. /\ BrokerSound' /\ PlacesOnly(StopIds) /\ replaced' > 0
      /\ Replacement(replaced') \in StopIds
      /\ \A x \in OrderIds \ StopIds : x # c => bo'[x] = bo[x]
  BY ReplaceKeepsBroker, Kinds
<1>2. CancelsNoFreshExit
  BY <1>1, Kinds DEF CancelsNoFreshExit, IsOpen
<1> QED
  BY <1>1, <1>2 DEF Calls

\* An order is canceled that is no exit of this session.
LEMMA CancelCall ==
    ASSUME BrokerSound, NEW c \in OrderIds, c \notin ExitIds \/ c = StaleExit, Cancel(c), NEW cs
    PROVE  Calls(cs)
<1>1. BrokerSound' /\ PlacesOnly({}) /\ \A x \in OrderIds \ {c} : bo'[x] = bo[x]
  BY CancelKeepsBroker
<1>2. CancelsNoFreshExit
  BY <1>1, Kinds DEF CancelsNoFreshExit, IsOpen
<1> QED
  BY <1>1, <1>2 DEF Calls, PlacesOnly, Cancel, Cancels

\* A call that fails in transit is one of those there may be.
LEMMA FaultIsCounted == Fault /\ faults \in 0 .. MaxFaults => faults' \in 0 .. MaxFaults
  BY OpenPositionAssumption DEF Fault

\* The desk after a step of the supervisor.
LEMMA DeskAfterCalls ==
    ASSUME DeskSound, NEW cs, Calls(cs), GoodRows(rows'), pos' \in Position, UNCHANGED resize,
           faults' \in 0 .. MaxFaults
    PROVE  DeskSound'
  BY ResizeStays DEF DeskSound, Calls, LedgerSound

\* A step that leaves the desk alone.
LEMMA DeskIdle ==
    ASSUME DeskSound, UNCHANGED deskVars, NEW cs
    PROVE  DeskSound' /\ RowsStay /\ PlacesOnly(cs) /\ CancelsNoFreshExit
<1>1. UNCHANGED <<broker, rows, pos, resize, faults>>
  BY DEF deskVars, ledger
<1>2. Calls(cs)
  BY <1>1, NoCall DEF DeskSound
<1>3. DeskSound'
  BY <1>1, <1>2, DeskAfterCalls DEF DeskSound, LedgerSound
<1> QED
  BY <1>1, <1>2, <1>3 DEF Calls, RowsStay

\* A step that calls the broker and writes no row.
LEMMA DeskCalls ==
    ASSUME DeskSound, UNCHANGED <<ledger, resize>>, faults' \in 0 .. MaxFaults, NEW cs, Calls(cs)
    PROVE  DeskSound' /\ RowsStay /\ PlacesOnly(cs) /\ CancelsNoFreshExit
<1>1. UNCHANGED <<rows, pos, resize>>
  BY DEF ledger
<1>2. DeskSound'
  BY <1>1, DeskAfterCalls DEF DeskSound, LedgerSound
<1> QED
  BY <1>1, <1>2 DEF Calls, RowsStay

\* Nothing in hand.
LEMMA NoWorkIsSound ==
    /\ NoWork \in Work /\ GoodRows(NoWork.read) /\ NoWork.canceled = {} /\ NoWork.todo = {}
    /\ NoWork.id = NoId
<1>1. NoWork.read = [c \in OrderIds |-> NoRow] /\ NoWork.canceled = {} /\ NoWork.todo = {}
      /\ NoWork.id = NoId
  BY DEF NoWork
<1>2. GoodRows(NoWork.read)
  BY <1>1, Nothing DEF GoodRows
<1>3. NoWork \in Work
  BY <1>1, <1>2, Nothing DEF NoWork, Work, GoodRows
<1> QED
  BY <1>1, <1>2, <1>3

\* An intent that is over leaves nothing in hand.
LEMMA FinishIsSound == Finish => WorkSound'
  BY NoWorkIsSound DEF Finish, WorkSound

\* The locations by their names.
LEMMA LocationsAre ==
    Locations = {"recover", "intents", "dispatch", "replace", "save_stop", "save_pending", "submit_stop",
     "resync", "save_resync", "entry_before_stop", "entry_before_exit", "entry_canceled_for_stop",
     "entry_canceled_for_exit", "stale_exit", "read_stops", "cancel_stops", "reserve",
     "submit_exit", "exit_failed", "save_exit"}
  BY DEF Locations, BeforeStop, BeforeExit

\* A step that leaves what the cycle has read.
LEMMA CycleStays ==
    ASSUME CycleSound, UNCHANGED local, pc' \in Locations
    PROVE  CycleSound'
  BY DEF CycleSound, local

\* A step that keeps what is in hand, and begins nothing that needs more of it.
LEMMA WorkStays ==
    ASSUME WorkSound, UNCHANGED work,
           pc' = pc \/ pc' \notin {"replace", "save_stop", "save_pending", "save_resync", "stale_exit",
                                   "read_stops", "cancel_stops"}
    PROVE  WorkSound'
  BY DEF WorkSound, Target

\* A step that only calls the broker.
LEMMA CallIsSound ==
    ASSUME Sound, NEW cs, Calls(cs), UNCHANGED <<ledger, resize, local>>, faults' \in 0 .. MaxFaults,
           pc' \in Locations, WorkSound'
    PROVE  Keeps(cs)
  BY DeskCalls, CycleStays DEF Sound, Keeps

\* A step that only writes to the ledger.
LEMMA WriteIsSound ==
    ASSUME Sound, NEW cs, UNCHANGED <<broker, resize, faults>>, GoodRows(rows'), pos' \in Position,
           RowsStay, CycleSound', WorkSound'
    PROVE  Keeps(cs)
<1>1. Calls(cs) /\ faults' \in 0 .. MaxFaults
  BY NoCall DEF Sound, DeskSound
<1>2. DeskSound'
  BY <1>1, DeskAfterCalls DEF Sound
<1> QED
  BY <1>1, <1>2 DEF Sound, Keeps, Calls

\* A step that only reads.
LEMMA ReadIsSound ==
    ASSUME Sound, NEW cs, UNCHANGED <<broker, ledger, resize>>, faults' \in 0 .. MaxFaults,
           CycleSound', WorkSound'
    PROVE  Keeps(cs) /\ UNCHANGED <<bo, rows>>
<1>1. Calls(cs)
  BY NoCall DEF Sound, DeskSound
<1> QED
  BY <1>1, DeskCalls DEF Sound, Keeps, broker, ledger

-----------------------------------------------------------------------------
(***************************************************************************)
(* The steps of the cycle.                                                 *)
(***************************************************************************)
\* The recovery; it knows the orders that are open.
LEMMA RecoverIsSound ==
    ASSUME Sound, Recover
    PROVE  /\ Keeps({})
           /\ \A c \in SellIds : IsOpen(c) => rows'[c].bid = c /\ IsActive(rows'[c])
<1>1. DeskSound' /\ PlacesOnly({}) /\ RowsStay
      /\ \A c \in SellIds : IsOpen(c) => rows'[c].bid = c /\ IsActive(rows'[c])
  BY ReconcileIsSound DEF Sound, Recover
<1>2. CancelsNoFreshExit
  BY DEF Recover, Reconcile, broker, CancelsNoFreshExit, IsOpen
<1>3. CycleSound'
  <2>1. pc' = "intents" /\ quota' = 2 /\ cache' = NotRead /\ seen' = "not_read" /\ bar' = latest
        /\ UNCHANGED <<latest, crashes>>
    BY DEF Recover, Goto, IntentsPerCycle
  <2>2. NotRead \in [qty : 0 .. Shares, px : 0 .. MaxPrice, read : BOOLEAN]
    BY Nothing DEF NotRead
  <2>3. latest \in 1 .. MaxBar /\ latest \in latest .. MaxBar /\ crashes \in 0 .. MaxCrashes
    BY OpenPositionAssumption DEF Sound, CycleSound
  <2> QED
    BY <2>1, <2>2, <2>3, LocationsAre DEF CycleSound, IntentsPerCycle
<1>4. WorkSound'
  BY WorkStays DEF Sound, Recover, Goto
<1> QED
  BY <1>1, <1>2, <1>3, <1>4 DEF Keeps, Sound

\* A bar that comes, what is read once for the intents, and the end of them.
LEMMA NewBarIsSound == ASSUME Sound, NewBar PROVE Keeps(StopIds) /\ UNCHANGED <<bo, rows>>
<1>1. UNCHANGED <<broker, ledger, resize, faults, pc, bar, cache, seen, quota, crashes, work>>
      /\ latest = bar /\ bar < MaxBar /\ latest' = bar + 1
  BY DEF NewBar, deskVars
<1>2. CycleSound'
  BY <1>1, OpenPositionAssumption DEF Sound, CycleSound
<1>3. WorkSound' /\ faults' \in 0 .. MaxFaults
  BY <1>1, WorkStays DEF Sound, DeskSound
<1> QED
  BY <1>1, <1>2, <1>3, ReadIsSound

\* The cache takes the position as it is in the ledger.
LEMMA ReadPositionsIsSound ==
    ASSUME Sound, ReadPositions PROVE Keeps(StopIds) /\ UNCHANGED <<bo, rows>>
<1>1. UNCHANGED <<broker, ledger, resize, faults, pc, bar, latest, seen, quota, crashes, work>>
      /\ cache' = AsRead
  BY DEF ReadPositions, deskVars
<1>2. AsRead \in [qty : 0 .. Shares, px : 0 .. MaxPrice, read : BOOLEAN]
  BY DEF AsRead, Sound, DeskSound, LedgerSound, Position
<1>3. CycleSound'
  BY <1>1, <1>2 DEF Sound, CycleSound
<1>4. WorkSound' /\ faults' \in 0 .. MaxFaults
  BY <1>1, WorkStays DEF Sound, DeskSound
<1> QED
  BY <1>1, <1>3, <1>4, ReadIsSound

\* What the broker holds is read once, or not at all.
LEMMA ReadBrokerPositionsIsSound ==
    ASSUME Sound, ReadBrokerPositions PROVE Keeps(StopIds) /\ UNCHANGED <<bo, rows>>
<1>1. UNCHANGED <<broker, ledger, resize, pc, bar, latest, cache, quota, crashes, work>>
      /\ seen' \in {"held", "missing", "unknown"} /\ (Fault \/ faults' = faults)
  BY DEF ReadBrokerPositions
<1>2. CycleSound'
  BY <1>1 DEF Sound, CycleSound
<1>3. WorkSound' /\ faults' \in 0 .. MaxFaults
  BY <1>1, WorkStays, FaultIsCounted DEF Sound, DeskSound
<1> QED
  BY <1>1, <1>2, <1>3, ReadIsSound

\* After the intents comes the dispatch, and after it the next recovery.
LEMMA EndIntentsIsSound ==
    ASSUME Sound, EndIntents PROVE Keeps(StopIds) /\ UNCHANGED <<bo, rows>>
<1>1. UNCHANGED <<broker, ledger, resize, faults, bar, latest, cache, seen, crashes, work>>
      /\ quota' = 0 /\ pc' = "dispatch"
  BY DEF EndIntents, Goto, deskVars
<1>2. CycleSound'
  BY <1>1, LocationsAre DEF Sound, CycleSound, IntentsPerCycle
<1>3. WorkSound' /\ faults' \in 0 .. MaxFaults
  BY <1>1, WorkStays DEF Sound, DeskSound
<1> QED
  BY <1>1, <1>2, <1>3, ReadIsSound

LEMMA EndDispatchIsSound ==
    ASSUME Sound, EndDispatch PROVE Keeps(StopIds) /\ UNCHANGED <<bo, rows>>
<1>1. UNCHANGED <<broker, ledger, resize, faults, local, work>> /\ pc' = "recover"
  BY DEF EndDispatch, Goto, deskVars
<1>2. CycleSound'
  BY <1>1, LocationsAre, CycleStays DEF Sound
<1>3. WorkSound' /\ faults' \in 0 .. MaxFaults
  BY <1>1, WorkStays DEF Sound, DeskSound
<1> QED
  BY <1>1, <1>2, <1>3, ReadIsSound

\* A crash loses what the process had read, and the updates it had not handled.
LEMMA CrashIsSound == ASSUME Sound, Crash PROVE Keeps(StopIds) /\ UNCHANGED <<bo, rows>>
<1>1. UNCHANGED <<bo, held, market, replaced, rows, pos, faults, bar, latest>>
      /\ crashes < MaxCrashes /\ crashes' = crashes + 1 /\ updates' = <<>> /\ resize' = NoResize
      /\ pc' = "recover" /\ work' = NoWork /\ quota' = 0 /\ cache' = NotRead /\ seen' = "not_read"
  BY DEF Crash, ledger
<1>2. BrokerSound'
  <2>1. <<>> \in Seq(TradeUpdate) /\ Len(<<>>) = 0
    OBVIOUS
  <2> QED
    BY <1>1, <2>1 DEF Sound, DeskSound, BrokerSound, EntryRoom, FilledIsPlaced, EndsAreTrue, IsOpen
<1>3. DeskSound'
  BY <1>1, <1>2, Nothing DEF Sound, DeskSound, LedgerSound, ResizeSound
<1>4. NotRead \in [qty : 0 .. Shares, px : 0 .. MaxPrice, read : BOOLEAN]
  BY Nothing DEF NotRead
<1>5. crashes' \in 0 .. MaxCrashes
  BY <1>1, IntentAssumption DEF Sound, CycleSound
<1>6. CycleSound'
  BY <1>1, <1>4, <1>5, LocationsAre DEF Sound, CycleSound, IntentsPerCycle
<1>7. WorkSound'
  BY <1>1, NoWorkIsSound DEF WorkSound
<1>8. RowsStay /\ PlacesOnly(StopIds) /\ CancelsNoFreshExit
  BY <1>1 DEF RowsStay, PlacesOnly, CancelsNoFreshExit, IsOpen
<1> QED
  BY <1>1, <1>3, <1>6, <1>7, <1>8 DEF Keeps, Sound

\* What a step places at the broker it may have placed for a row it knows.
PlacesKnown == \A c \in ExitIds : bo[c].st = "none" /\ bo'[c].st # "none" => rows[c].st # "none"

\* The dispatch: a row that waits, or the entry that is canceled before it.
LEMMA DispatchRowIsSound ==
    ASSUME Sound, DispatchRow
    PROVE  Sound' /\ RowsStay /\ PlacesKnown /\ CancelsNoFreshExit /\ pc' = "dispatch"
<1>1. UNCHANGED <<pc, local, work>> /\ pc = "dispatch"
  BY DEF DispatchRow
<1>2. CycleSound' /\ WorkSound'
  BY <1>1, CycleStays, WorkStays, LocationsAre DEF Sound
<1>3. CASE CancelEntryForStop
  <2>1. DeskSound' /\ RowsStay /\ \A x \in SellIds : bo'[x] = bo[x]
    BY <1>3, CancelEntryForStopIsSound DEF Sound
  <2>2. PlacesKnown /\ CancelsNoFreshExit
    BY <2>1, Kinds DEF PlacesKnown, CancelsNoFreshExit, IsOpen
  <2> QED
    BY <1>1, <1>2, <2>1, <2>2 DEF Sound
<1>4. ASSUME NEW c \in SellIds, Dispatch(c)
      PROVE  DeskSound' /\ RowsStay /\ PlacesKnown /\ CancelsNoFreshExit
  <2>1. DeskSound' /\ PlacesOnly({c}) /\ RowsStay /\ rows[c].st # "none"
    BY <1>4, DispatchIsSound DEF Sound
  <2>2. PlacesKnown
    BY <2>1, Kinds DEF PlacesOnly, PlacesKnown
  <2>3. CancelsNoFreshExit
    <3>1. CASE UNCHANGED broker
      BY <3>1 DEF broker, CancelsNoFreshExit, IsOpen
    <3>2. CASE Places(c, rows[c].qty, rows[c].px)
      <4>1. rows[c] \in OrderRow
        BY Kinds DEF Sound, DeskSound, LedgerSound, GoodRows
      <4>2. rows[c].qty \in 0 .. Shares /\ rows[c].px \in 0 .. MaxPrice
        BY <4>1 DEF OrderRow
      <4> QED
        BY <3>2, <4>2, PlaceCall DEF Calls, Sound, DeskSound
    <3> QED
      BY <1>4, <3>1, <3>2 DEF Dispatch
  <2> QED
    BY <2>1, <2>2, <2>3
<1> QED
  BY <1>1, <1>2, <1>3, <1>4 DEF DispatchRow, Sound

-----------------------------------------------------------------------------
(***************************************************************************)
(* The steps of a stop update.                                             *)
(***************************************************************************)
\* The intent is taken up with a stop row that is active, or with none.
LEMMA UpdateStopIsSound == ASSUME Sound, UpdateStop PROVE Keeps(StopIds)
<1>1. UNCHANGED <<broker, ledger, resize, faults, bar, latest, cache, seen, crashes>>
      /\ quota > 0 /\ quota' = quota - 1 /\ pc = "intents"
  BY DEF UpdateStop, deskVars
<1>2. GoodRows(rows) /\ faults' \in 0 .. MaxFaults
  BY <1>1 DEF Sound, DeskSound, LedgerSound
<1>3. WorkSound' /\ pc' \in {"intents", "replace", "save_pending", "entry_before_stop"}
  <2>1. CASE UNCHANGED <<pc, work>>
    BY <1>1, <2>1, WorkStays DEF Sound
  <2>2. ASSUME NEW px \in Prices, NEW c \in LatestStop,
               \/ c # NoId /\ rows[c].bid # NoId /\ pc' = "replace"
               \/ c # NoId /\ rows[c].bid = NoId /\ pc' = "save_pending"
               \/ c = NoId /\ pc' = "entry_before_stop",
               work' = [NoWork EXCEPT !.id = c, !.read = rows, !.px = px, !.want = px]
        PROVE  WorkSound' /\ pc' \in {"intents", "replace", "save_pending", "entry_before_stop"}
    <3>1. c \in StopIds \cup {NoId} /\ c \in OrderIds \cup {NoId}
      BY Kinds DEF LatestStop, ActiveRows
    <3>2. px \in 0 .. MaxPrice /\ rows \in [OrderIds -> OrderRow]
      BY <1>2, OpenPositionAssumption DEF Prices, GoodRows
    <3>3. work' \in Work /\ work'.id = c /\ work'.read = rows /\ work'.canceled = NoWork.canceled
      BY <2>2, <3>1, <3>2, NoWorkIsSound DEF Work
    <3> QED
      BY <1>2, <2>2, <3>1, <3>3, NoWorkIsSound DEF WorkSound, Target
  <2> QED
    BY <2>1, <2>2 DEF UpdateStop, BeforeStop
<1>4. CycleSound'
  <2>1. quota' \in 0 .. IntentsPerCycle
    BY <1>1 DEF Sound, CycleSound, IntentsPerCycle
  <2> QED
    BY <1>1, <1>3, <2>1, LocationsAre DEF Sound, CycleSound
<1> QED
  BY <1>1, <1>2, <1>3, <1>4, ReadIsSound

\* The order to replace, and what it is replaced with, are ones the broker may have.
LEMMA TargetIsGood ==
    ASSUME Sound, pc = "replace"
    PROVE  /\ Target \in StopIds /\ bo[Target].qty \in 0 .. Shares /\ work.px \in 0 .. MaxPrice
           /\ work.id \in StopIds
<1>1. work.id \in StopIds /\ work.read[work.id] \in RowOf(work.id) /\ Target # NoId
  BY Kinds DEF Sound, WorkSound, GoodRows
<1>2. Target \in StopIds
  BY <1>1 DEF Target, RowOf
<1>3. bo[Target] \in BrokerOrder
  BY <1>2, Kinds DEF Sound, DeskSound, BrokerSound
<1>4. work.px \in 0 .. MaxPrice
  BY DEF Sound, WorkSound, Work
<1> QED
  BY <1>1, <1>2, <1>3, <1>4 DEF BrokerOrder

\* The answer of a replacement is kept with the work.
LEMMA AnswerIsKept ==
    ASSUME WorkSound, NEW a \in StopIds
    PROVE  LET w == [work EXCEPT !.ans = a] IN
           /\ w \in Work /\ w.ans = a /\ w.id = work.id /\ w.read = work.read
           /\ w.canceled = work.canceled
<1>1. work \in Work /\ a \in OrderIds \cup {NoId}
  BY Kinds DEF WorkSound
<1> QED
  BY <1>1 DEF Work

\* The broker replaces the stop, refuses to, or its answer is lost.
LEMMA StopIsReplacedIsSound == ASSUME Sound, StopIsReplaced PROVE Keeps(StopIds)
<1>1. /\ pc = "replace" /\ pc' = "save_stop" /\ Replaces(Target, bo[Target].qty, work.px)
      /\ work' = [work EXCEPT !.ans = Replacement(replaced')]
      /\ UNCHANGED <<ledger, resize, faults, local>>
  BY DEF StopIsReplaced, Goto
<1>2. /\ Target \in StopIds /\ bo[Target].qty \in 0 .. Shares /\ work.px \in 0 .. MaxPrice
      /\ work.id \in StopIds
  BY <1>1, TargetIsGood
<1>3. Calls(StopIds) /\ Replacement(replaced') \in StopIds
  BY <1>1, <1>2, ReplaceCall DEF Sound, DeskSound
<1>4. /\ work' \in Work /\ work'.ans \in StopIds /\ work'.id = work.id /\ work'.read = work.read
      /\ work'.canceled = work.canceled
  BY <1>1, <1>3, AnswerIsKept DEF Sound
<1>5. WorkSound'
  BY <1>1, <1>2, <1>4 DEF Sound, WorkSound
<1>6. faults' \in 0 .. MaxFaults
  BY <1>1 DEF Sound, DeskSound
<1> QED
  BY <1>1, <1>3, <1>5, <1>6, CallIsSound, LocationsAre

\* A call that is made once more, at a price that still improves the stop.
LEMMA RetryIsSound ==
    ASSUME Sound, RetryCapped, pc \in {"replace", "submit_stop"}
    PROVE  WorkSound' /\ pc' \in {"replace", "submit_stop", "intents"}
<1>1. CASE /\ StopImproves(cache, Capped) /\ work' = [work EXCEPT !.px = Capped] /\ UNCHANGED pc
  <2>1. Capped \in 0 .. MaxPrice
    BY OpenPositionAssumption DEF Capped, Sound, DeskSound, BrokerSound, Prices
  <2>2. /\ work' \in Work /\ work'.id = work.id /\ work'.read = work.read
        /\ work'.canceled = work.canceled
    BY <1>1, <2>1 DEF Sound, WorkSound, Work
  <2> QED
    BY <1>1, <2>2 DEF Sound, WorkSound, Target
<1>2. CASE Finish
  BY <1>2, FinishIsSound DEF Finish
<1> QED
  BY <1>1, <1>2 DEF RetryCapped

LEMMA ReplaceIsRefusedIsSound == ASSUME Sound, ReplaceIsRefused PROVE Keeps(StopIds)
<1>1. UNCHANGED <<broker, ledger, resize, faults, local>> /\ pc = "replace"
      /\ (RetryCapped \/ Finish)
  BY DEF ReplaceIsRefused, deskVars
<1>2. WorkSound' /\ pc' \in {"replace", "submit_stop", "intents"}
  BY <1>1, RetryIsSound, FinishIsSound DEF Finish
<1>3. CycleSound' /\ faults' \in 0 .. MaxFaults
  BY <1>1, <1>2, CycleStays, LocationsAre DEF Sound, DeskSound
<1> QED
  BY <1>1, <1>2, <1>3, ReadIsSound

LEMMA ReplaceIsLostIsSound == ASSUME Sound, ReplaceIsLost PROVE Keeps(StopIds)
<1>1. /\ pc = "replace" /\ Fault /\ Finish /\ UNCHANGED <<ledger, resize, local>>
      /\ UNCHANGED broker \/ Replaces(Target, bo[Target].qty, work.px)
  BY DEF ReplaceIsLost
<1>2. Calls(StopIds)
  BY <1>1, TargetIsGood, ReplaceCall, NoCall DEF Sound, DeskSound
<1>3. faults' \in 0 .. MaxFaults /\ pc' \in Locations /\ WorkSound'
  BY <1>1, FaultIsCounted, FinishIsSound, LocationsAre DEF Sound, DeskSound, Finish
<1> QED
  BY <1>1, <1>2, <1>3, CallIsSound

\* A call that fails changes nothing or was carried out.
LEMMA SubmitStopIsSound ==
    ASSUME Sound, SubmitStop PROVE Sound' /\ RowsStay /\ PlacesOnly(StopIds)
<1> DEFINE c == CycleStop(bar)
           Called == BrokerSound' /\ PlacesOnly(StopIds) /\ (replaced' = replaced \/ replaced' > 0)
<1>1. /\ c \in StopIds /\ c \in SellIds /\ cache.qty \in 0 .. Shares /\ work.px \in 0 .. MaxPrice
      /\ faults \in 0 .. MaxFaults /\ BrokerSound
  BY Ids, Kinds DEF Sound, DeskSound, CycleSound, WorkSound, Work
<1>2. pc = "submit_stop" /\ UNCHANGED <<rows, pos, resize, local>>
  BY DEF SubmitStop, ledger
<1>3. \/ /\ Places(c, cache.qty, work.px)
         /\ work' = [work EXCEPT !.ans = c] /\ pc' = "save_stop" /\ UNCHANGED faults
      \/ RetryCapped /\ UNCHANGED <<broker, faults>>
      \/ SharesFreed /\ Finish /\ (Fault \/ UNCHANGED faults)
      \/ Finish /\ UNCHANGED <<broker, faults>>
      \/ pc' = "resync" /\ UNCHANGED <<broker, faults, work>>
      \/ Fault /\ (UNCHANGED broker \/ Places(c, cache.qty, work.px)) /\ Finish
      \/ Fault /\ Places(c, cache.qty, work.px) /\ pc' = "resync" /\ UNCHANGED work
  BY FreedAll DEF SubmitStop
<1> HIDE DEF c
<1>4. Places(c, cache.qty, work.px) => Called
  BY <1>1, PlaceKeepsBroker DEF PlacesOnly, Places
<1>5. UNCHANGED broker => Called
  BY <1>1, IdleBroker DEF PlacesOnly, broker
<1>6. SharesFreed => Called
  BY <1>1, BlockingKeepsBroker DEF SharesFreed, PlacesOnly, CancelsBlocking, Cancels
<1>7. Called
  BY <1>3, <1>4, <1>5, <1>6
<1> HIDE DEF Called
<1>8. Finish => WorkSound' /\ pc' = "intents"
  BY FinishIsSound DEF Finish
<1>9. RetryCapped => WorkSound' /\ pc' \in {"replace", "submit_stop", "intents"}
  BY <1>2, RetryIsSound
<1>10. ASSUME work' = [work EXCEPT !.ans = c], pc' = "save_stop" PROVE WorkSound'
  <2>1. /\ work' \in Work /\ work'.ans \in StopIds /\ work'.id = work.id /\ work'.read = work.read
        /\ work'.canceled = work.canceled
    BY <1>1, <1>10, AnswerIsKept DEF Sound
  <2> QED
    BY <1>10, <2>1 DEF Sound, WorkSound
<1>11. WorkSound' /\ pc' \in {"save_stop", "resync", "replace", "submit_stop", "intents"}
  BY <1>3, <1>8, <1>9, <1>10, WorkStays DEF Sound
<1>12. faults' \in 0 .. MaxFaults
  BY <1>1, <1>3, FaultIsCounted
<1>13. CycleSound'
  BY <1>2, <1>11, CycleStays, LocationsAre DEF Sound
<1>14. DeskSound' /\ RowsStay
  BY <1>2, <1>7, <1>12, ResizeStays DEF Called, Sound, DeskSound, LedgerSound, RowsStay
<1> QED
  BY <1>7, <1>11, <1>13, <1>14 DEF Called, Sound

\* The broker has the order already: it is replaced.
LEMMA ResyncIsSound == ASSUME Sound, Resync PROVE Keeps(StopIds)
<1> DEFINE c == CycleStop(bar)
<1>1. /\ c \in StopIds /\ c \in OrderIds /\ work.px \in 0 .. MaxPrice /\ faults \in 0 .. MaxFaults
      /\ BrokerSound /\ bo[c] \in BrokerOrder
  BY Ids, Kinds DEF Sound, DeskSound, CycleSound, WorkSound, Work, BrokerSound
<1>2. bo[c].qty \in 0 .. Shares
  BY <1>1 DEF BrokerOrder
<1>3. UNCHANGED <<ledger, resize, local>> /\ pc = "resync"
  BY DEF Resync
<1>4. \/ /\ Replaces(c, bo[c].qty, work.px) /\ pc' = "save_resync" /\ UNCHANGED faults
         /\ work' = [work EXCEPT !.ans = Replacement(replaced'), !.qty = bo[c].qty]
      \/ Finish /\ UNCHANGED <<broker, faults>>
      \/ Fault /\ (UNCHANGED broker \/ Replaces(c, bo[c].qty, work.px)) /\ Finish
  BY DEF Resync
<1> HIDE DEF c
<1>5. Replaces(c, bo[c].qty, work.px) => Calls(StopIds) /\ Replacement(replaced') \in StopIds
  BY <1>1, <1>2, ReplaceCall
<1>6. Calls(StopIds)
  BY <1>1, <1>4, <1>5, NoCall
<1>7. faults' \in 0 .. MaxFaults
  BY <1>1, <1>4, FaultIsCounted
<1>8. WorkSound' /\ pc' \in {"save_resync", "intents"}
  <2>1. CASE Finish
    BY <2>1, FinishIsSound DEF Finish
  <2>2. CASE /\ Replaces(c, bo[c].qty, work.px) /\ pc' = "save_resync"
             /\ work' = [work EXCEPT !.ans = Replacement(replaced'), !.qty = bo[c].qty]
    <3>1. /\ work' \in Work /\ work'.ans \in StopIds /\ work'.id = work.id /\ work'.read = work.read
          /\ work'.canceled = work.canceled
      BY <1>2, <1>5, <2>2, Kinds DEF Sound, WorkSound, Work
    <3> QED
      BY <2>2, <3>1 DEF Sound, WorkSound
  <2> QED
    BY <1>4, <2>1, <2>2
<1> QED
  BY <1>3, <1>6, <1>7, <1>8, CallIsSound, LocationsAre

\* A row that is written from what was read of it.
LEMMA OldRowIsGood ==
    ASSUME Sound, NEW c \in OrderIds, NEW st \in RowStatus
    PROVE  OldRow(c, st) \in RowOf(c) /\ OldRow(c, st).st = st
<1>1. work.read[c] \in RowOf(c) /\ rows[c] \in OrderRow
  BY DEF Sound, DeskSound, LedgerSound, WorkSound, GoodRows
<1> QED
  BY <1>1, ReadRowIsGood DEF OldRow

\* The position as it is saved with a stop, and the cache after it.
LEMMA SavedPositionIsSound ==
    ASSUME Sound
    PROVE  /\ [qty |-> cache.qty, px |-> work.px] \in Position
           /\ [cache EXCEPT !.px = work.want] \in [qty : 0 .. Shares, px : 0 .. MaxPrice, read : BOOLEAN]
  BY DEF Sound, CycleSound, WorkSound, Work, Position

\* The new stop is saved, with the one it has replaced and the position.
LEMMA SaveStopIsSound == ASSUME Sound, SaveStop PROVE Keeps(StopIds)
<1>1. /\ pc = "save_stop" /\ Finish
      /\ UNCHANGED <<broker, resize, faults, bar, latest, seen, quota, crashes>>
  BY DEF SaveStop
<1>2. WorkSound' /\ pc' = "intents"
  BY <1>1, FinishIsSound DEF Finish
<1>3. CASE pos.qty = 0 /\ UNCHANGED <<ledger, cache>>
  <2>1. CycleSound'
    BY <1>1, <1>2, <1>3, CycleStays, LocationsAre DEF Sound, local
  <2>2. faults' \in 0 .. MaxFaults
    BY <1>1 DEF Sound, DeskSound
  <2> QED
    BY <1>1, <1>2, <1>3, <2>1, <2>2, ReadIsSound
<1>4. CASE /\ SavePosition /\ RememberStop
           /\ rows' = [c \in OrderIds |->
               CASE c = work.ans -> Saved(rows[c], Row("accepted",
                        IF work.id = NoId THEN cache.qty ELSE work.read[work.id].qty,
                        work.px, work.ans))
                 [] c = work.id /\ c # work.ans -> OldRow(c, "replaced")
                 [] OTHER -> rows[c]]
  <2> DEFINE q == IF work.id = NoId THEN cache.qty ELSE work.read[work.id].qty
             new(c) == Saved(rows[c], Row("accepted", q, work.px, work.ans))
  <2>1. /\ work.ans \in StopIds /\ work.px \in 0 .. MaxPrice /\ work.id \in StopIds \cup {NoId}
        /\ GoodRows(rows) /\ work.ans \in OrderIds /\ GoodRows(work.read)
        /\ work.ans \in StopIds \cup {NoId} /\ work.ans \in OrderIds \cup {NoId}
    BY <1>1, Kinds DEF Sound, WorkSound, DeskSound, LedgerSound, Work
  <2>2. q \in 0 .. Shares
    <3>1. CASE work.id = NoId
      BY <3>1 DEF Sound, CycleSound
    <3>2. CASE work.id \in StopIds /\ work.id # NoId
      <4>1. work.read[work.id] \in OrderRow
        BY <2>1, <3>2, Kinds DEF GoodRows
      <4> QED
        BY <3>2, <4>1 DEF OrderRow
    <3> QED
      BY <2>1, <3>1, <3>2
  <2>3. "accepted" \in RowStatus /\ "replaced" \in RowStatus
    BY DEF RowStatus
  <2>4. \A c \in OrderIds : \/ c = work.ans /\ rows'[c] = new(c)
                            \/ c # work.ans /\ rows'[c] = OldRow(c, "replaced")
                            \/ c # work.ans /\ rows'[c] = rows[c]
    BY <1>4
  <2>5. rows' = [c \in OrderIds |-> rows'[c]]
    BY <1>4
  <2>6. ASSUME NEW c \in OrderIds, c = work.ans PROVE new(c) \in RowOf(c) /\ new(c).st = "accepted"
    <3>1. rows[c] \in OrderRow
      BY <2>1 DEF GoodRows
    <3> HIDE DEF q
    <3> QED
      BY <2>1, <2>2, <2>3, <2>6, <3>1, RowIsGood
  <2> HIDE DEF q, new
  <2>7. \A c \in OrderIds : rows'[c] \in RowOf(c) /\ (rows[c].st # "none" => rows'[c].st # "none")
    <3> SUFFICES ASSUME NEW c \in OrderIds
                 PROVE  rows'[c] \in RowOf(c) /\ (rows[c].st # "none" => rows'[c].st # "none")
      OBVIOUS
    <3>1. OldRow(c, "replaced") \in RowOf(c) /\ OldRow(c, "replaced").st = "replaced"
      BY <2>3, OldRowIsGood
    <3>2. rows[c] \in RowOf(c)
      BY <2>1 DEF GoodRows
    <3> QED
      BY <2>4, <2>6, <3>1, <3>2
  <2>8. GoodRows(rows') /\ RowsStay
    BY <2>5, <2>7 DEF GoodRows, RowOf, RowsStay
  <2>9. pos' \in Position /\ cache' \in [qty : 0 .. Shares, px : 0 .. MaxPrice, read : BOOLEAN]
    BY <1>4, SavedPositionIsSound DEF SavePosition, RememberStop
  <2>10. CycleSound'
    BY <1>1, <1>2, <2>9, LocationsAre DEF Sound, CycleSound
  <2> QED
    BY <1>1, <1>2, <2>8, <2>9, <2>10, WriteIsSound
<1> QED
  BY <1>3, <1>4 DEF SaveStop

\* A stop that waits for its dispatch is changed in the ledger.
LEMMA SavePendingStopIsSound == ASSUME Sound, SavePendingStop PROVE Keeps(StopIds)
<1>1. /\ pc = "save_pending" /\ Finish
      /\ UNCHANGED <<broker, resize, faults, bar, latest, seen, quota, crashes>>
  BY DEF SavePendingStop
<1>2. WorkSound' /\ pc' = "intents"
  BY <1>1, FinishIsSound DEF Finish
<1>3. CASE pos.qty = 0 /\ UNCHANGED <<ledger, cache>>
  <2>1. CycleSound'
    BY <1>1, <1>2, <1>3, CycleStays, LocationsAre DEF Sound, local
  <2>2. faults' \in 0 .. MaxFaults
    BY <1>1 DEF Sound, DeskSound
  <2> QED
    BY <1>1, <1>2, <1>3, <2>1, <2>2, ReadIsSound
<1>4. CASE /\ SavePosition /\ RememberStop
           /\ rows' = [rows EXCEPT ![work.id] = Saved(@, Row("pending_submit",
                                       work.read[work.id].qty, work.px, NoId))]
  <2> DEFINE c == work.id
             new == Saved(rows[c], Row("pending_submit", work.read[c].qty, work.px, NoId))
  <2>1. /\ c \in StopIds /\ work.px \in 0 .. MaxPrice /\ c \in OrderIds
        /\ GoodRows(rows) /\ rows[c] \in OrderRow /\ work.read[c] \in OrderRow
        /\ NoId \in StopIds \cup {NoId} /\ NoId \in OrderIds \cup {NoId}
    BY <1>1, Kinds DEF Sound, WorkSound, DeskSound, LedgerSound, Work, GoodRows
  <2>2. work.read[c].qty \in 0 .. Shares /\ "pending_submit" \in RowStatus
    BY <2>1 DEF OrderRow, RowStatus
  <2>3. new \in RowOf(c) /\ new.st = "pending_submit"
    BY <2>1, <2>2, RowIsGood
  <2>4. rows' = [rows EXCEPT ![c] = new]
    BY <1>4
  <2> HIDE DEF c, new
  <2>5. GoodRows(rows') /\ RowsStay
    BY <2>1, <2>3, <2>4, OneRowIsGood DEF RowsStay, GoodRows
  <2>6. pos' \in Position /\ cache' \in [qty : 0 .. Shares, px : 0 .. MaxPrice, read : BOOLEAN]
    BY <1>4, SavedPositionIsSound DEF SavePosition, RememberStop
  <2>7. CycleSound'
    BY <1>1, <1>2, <2>6, LocationsAre DEF Sound, CycleSound
  <2> QED
    BY <1>1, <1>2, <2>5, <2>6, <2>7, WriteIsSound
<1> QED
  BY <1>3, <1>4 DEF SavePendingStop

\* The replaced order is saved under the id it was first submitted with.
LEMMA SaveResyncIsSound == ASSUME Sound, SaveResync PROVE Keeps(StopIds)
<1> DEFINE c == CycleStop(bar)
           new == Saved(rows[c], Row("accepted", work.qty, work.px, work.ans))
<1>1. /\ pc = "save_resync" /\ Finish /\ SavePosition /\ rows' = [rows EXCEPT ![c] = new]
      /\ UNCHANGED <<broker, resize, faults, local>>
  BY DEF SaveResync
<1>2. /\ c \in StopIds /\ work.px \in 0 .. MaxPrice /\ work.qty \in 0 .. Shares /\ c \in OrderIds
      /\ GoodRows(rows) /\ rows[c] \in OrderRow
      /\ work.ans \in StopIds \cup {NoId} /\ work.ans \in OrderIds \cup {NoId}
  BY <1>1, Ids, Kinds DEF Sound, CycleSound, WorkSound, DeskSound, LedgerSound, Work, GoodRows
<1>3. new \in RowOf(c) /\ new.st = "accepted"
  BY <1>2, RowIsGood DEF RowStatus
<1> HIDE DEF c, new
<1>4. GoodRows(rows') /\ RowsStay
  BY <1>1, <1>2, <1>3, OneRowIsGood DEF RowsStay, GoodRows
<1>5. pos' \in Position
  BY <1>1, SavedPositionIsSound DEF SavePosition
<1>6. WorkSound' /\ pc' = "intents"
  BY <1>1, FinishIsSound DEF Finish
<1>7. CycleSound'
  BY <1>1, <1>6, CycleStays, LocationsAre DEF Sound
<1> QED
  BY <1>1, <1>4, <1>5, <1>6, <1>7, WriteIsSound

-----------------------------------------------------------------------------
(***************************************************************************)
(* The entry that is canceled before a stop or an exit.                    *)
(***************************************************************************)
\* The entry is canceled, or left when it is not partly filled.
LEMMA CancelPartialEntryIsSound == ASSUME Sound, CancelPartialEntry PROVE Keeps(StopIds)
<1> DEFINE w == [work EXCEPT !.read[Entry] = rows[Entry]]
<1>1. /\ pc \in {"entry_before_stop", "entry_before_exit"}
      /\ pc' \in {"entry_canceled_for_stop", "entry_canceled_for_exit", "submit_stop", "reserve"}
      /\ UNCHANGED <<ledger, resize, local>>
      /\ UNCHANGED broker \/ Cancel(Entry)
      /\ Fault \/ UNCHANGED faults
      /\ work' = w \/ UNCHANGED work
  BY DEF CancelPartialEntry, BeforeStop, BeforeExit, AfterEntry, AfterCancel
<1>2. Calls(StopIds)
  BY <1>1, NoCall, CancelCall, Kinds DEF Sound, DeskSound
<1>3. WorkSound'
  <2>1. CASE work' = w
    <3>1. rows[Entry] \in RowOf(Entry) /\ GoodRows(work.read)
      BY Kinds DEF Sound, DeskSound, LedgerSound, GoodRows, WorkSound
    <3> DEFINE rd == [work.read EXCEPT ![Entry] = rows[Entry]]
    <3>2. GoodRows(rd) /\ rd \in [OrderIds -> OrderRow]
      BY <3>1, OneRowIsGood, Kinds DEF GoodRows
    <3>3. work \in Work
      BY DEF Sound, WorkSound
    <3>4. w = [work EXCEPT !.read = rd]
      BY <3>3 DEF Work
    <3> HIDE DEF rd
    <3>5. w \in Work /\ w.read = rd /\ w.canceled = work.canceled /\ w.id = work.id
      BY <3>2, <3>3, <3>4 DEF Work
    <3> HIDE DEF w
    <3> QED
      BY <1>1, <2>1, <3>2, <3>5 DEF Sound, WorkSound
  <2>2. CASE UNCHANGED work
    BY <1>1, <2>2, WorkStays DEF Sound
  <2> QED
    BY <1>1, <2>1, <2>2
<1>4. faults' \in 0 .. MaxFaults /\ pc' \in Locations
  BY <1>1, FaultIsCounted, LocationsAre DEF Sound, DeskSound
<1> QED
  BY <1>1, <1>2, <1>3, <1>4, CallIsSound

\* Its row goes back as it was read, but canceled.
LEMMA SaveCanceledEntryIsSound == ASSUME Sound, SaveCanceledEntry PROVE Keeps(StopIds)
<1> DEFINE new == [work.read[Entry] EXCEPT !.st = "canceled"]
<1>1. /\ pc \in {"entry_canceled_for_stop", "entry_canceled_for_exit"}
      /\ pc' \in {"submit_stop", "reserve"}
      /\ rows' = [rows EXCEPT ![Entry] = new]
      /\ UNCHANGED <<broker, pos, resize, faults, local, work>>
  BY DEF SaveCanceledEntry, AfterEntry
<1>2. /\ work.read[Entry] \in RowOf(Entry) /\ Entry \in OrderIds /\ GoodRows(rows)
      /\ rows[Entry] \in OrderRow
  BY Kinds DEF Sound, DeskSound, LedgerSound, GoodRows, WorkSound
<1>3. new \in RowOf(Entry) /\ new.st = "canceled"
  BY <1>2 DEF RowOf, OrderRow, RowStatus
<1> HIDE DEF new
<1>4. GoodRows(rows') /\ RowsStay
  BY <1>1, <1>2, <1>3, OneRowIsGood DEF RowsStay, GoodRows
<1>5. WorkSound' /\ CycleSound' /\ pos' \in Position
  BY <1>1, WorkStays, CycleStays, LocationsAre DEF Sound, DeskSound, LedgerSound
<1> QED
  BY <1>1, <1>4, <1>5, WriteIsSound

-----------------------------------------------------------------------------
(***************************************************************************)
(* The steps of an exit.                                                   *)
(***************************************************************************)
\* An exit is taken up when the ledger has no exit of this session at work.
LEMMA ExitIsSound ==
    ASSUME Sound, Exit
    PROVE  /\ Keeps(StopIds) /\ UNCHANGED <<bo, rows>>
           /\ pc' # "intents" => \A c \in ExitIds \ {StaleExit} : ~IsActive(rows[c])
<1>1. /\ UNCHANGED <<broker, ledger, resize, faults, bar, latest, cache, seen, crashes>>
      /\ pc = "intents" /\ quota' = 0
      /\ \/ /\ MayExit /\ pc' \in {"stale_exit", "read_stops"}
            /\ work' = [NoWork EXCEPT !.todo = StaleExits, !.read = rows]
         \/ UNCHANGED <<pc, work>>
  BY DEF Exit, deskVars
<1>2. StaleExits \subseteq {StaleExit} /\ StaleExits \in SUBSET SellIds
  BY Ids, Kinds DEF StaleExits
<1>3. MayExit => \A c \in ExitIds \ {StaleExit} : ~IsActive(rows[c])
  BY <1>2 DEF MayExit, ActiveRows
<1>4. WorkSound'
  <2>1. CASE /\ work' = [NoWork EXCEPT !.todo = StaleExits, !.read = rows]
             /\ pc' \in {"stale_exit", "read_stops"}
    <3>1. GoodRows(rows) /\ rows \in [OrderIds -> OrderRow]
      BY DEF Sound, DeskSound, LedgerSound, GoodRows
    <3>2. /\ work' \in Work /\ work'.todo = StaleExits /\ work'.read = rows
          /\ work'.canceled = NoWork.canceled /\ work'.id = NoWork.id
      BY <1>2, <2>1, <3>1, NoWorkIsSound DEF Work
    <3> QED
      BY <1>2, <2>1, <3>1, <3>2, NoWorkIsSound DEF WorkSound
  <2>2. CASE UNCHANGED <<pc, work>>
    BY <2>2, WorkStays DEF Sound
  <2> QED
    BY <1>1, <2>1, <2>2
<1>5. CycleSound' /\ faults' \in 0 .. MaxFaults
  BY <1>1, LocationsAre DEF Sound, CycleSound, IntentsPerCycle, DeskSound
<1> QED
  BY <1>1, <1>3, <1>4, <1>5, ReadIsSound

\* The exit of the session before is canceled; it is the only one.
LEMMA CancelStaleExitIsSound == ASSUME Sound, CancelStaleExit PROVE Keeps(StopIds)
<1>1. /\ pc = "stale_exit" /\ UNCHANGED <<ledger, resize, local>>
      /\ UNCHANGED broker \/ Cancel(StaleExit)
      /\ Fault \/ UNCHANGED faults
      /\ (pc' = "read_stops" /\ UNCHANGED work) \/ Finish
  BY DEF CancelStaleExit
<1>2. Calls(StopIds)
  BY <1>1, NoCall, CancelCall, Ids, Kinds DEF Sound, DeskSound
<1>3. WorkSound' /\ pc' \in {"read_stops", "intents"}
  <2>1. CASE pc' = "read_stops" /\ UNCHANGED work
    BY <1>1, <2>1 DEF Sound, WorkSound
  <2> QED
    BY <1>1, <2>1, FinishIsSound DEF Finish
<1>4. faults' \in 0 .. MaxFaults
  BY <1>1, FaultIsCounted DEF Sound, DeskSound
<1> QED
  BY <1>1, <1>2, <1>3, <1>4, CallIsSound, LocationsAre

\* The stops to cancel are read, and the old exit's row ended.
LEMMA ReadStopsIsSound == ASSUME Sound, ReadStops PROVE Keeps(StopIds)
<1>1. /\ pc = "read_stops" /\ pc' = "cancel_stops"
      /\ rows' = [c \in OrderIds |-> IF c \in work.todo THEN OldRow(c, "canceled") ELSE rows[c]]
      /\ work' = [work EXCEPT !.todo = ActiveRows(StopIds), !.read = rows]
      /\ UNCHANGED <<broker, pos, resize, faults, local>>
  BY DEF ReadStops, Goto
<1>2. GoodRows(rows) /\ rows \in [OrderIds -> OrderRow] /\ pos' \in Position
  BY <1>1 DEF Sound, DeskSound, LedgerSound, GoodRows
<1>3. \A c \in OrderIds : rows'[c] \in RowOf(c) /\ (rows[c].st # "none" => rows'[c].st # "none")
  <2> SUFFICES ASSUME NEW c \in OrderIds
               PROVE  rows'[c] \in RowOf(c) /\ (rows[c].st # "none" => rows'[c].st # "none")
    OBVIOUS
  <2>1. OldRow(c, "canceled") \in RowOf(c) /\ OldRow(c, "canceled").st = "canceled"
    BY OldRowIsGood DEF RowStatus
  <2>2. rows[c] \in RowOf(c)
    BY <1>2 DEF GoodRows
  <2>3. rows'[c] = OldRow(c, "canceled") \/ rows'[c] = rows[c]
    BY <1>1
  <2> QED
    BY <2>1, <2>2, <2>3
<1>4. GoodRows(rows') /\ RowsStay
  <2>1. rows' = [c \in OrderIds |-> rows'[c]]
    BY <1>1
  <2> QED
    BY <1>3, <2>1 DEF GoodRows, RowOf, RowsStay
<1>5. WorkSound'
  <2>1. ActiveRows(StopIds) \subseteq StopIds /\ ActiveRows(StopIds) \in SUBSET SellIds
    BY Kinds DEF ActiveRows
  <2>2. /\ work' \in Work /\ work'.todo = ActiveRows(StopIds) /\ work'.read = rows
        /\ work'.canceled = work.canceled /\ work'.id = work.id
    BY <1>1, <1>2, <2>1 DEF Sound, WorkSound, Work
  <2> QED
    BY <1>1, <1>2, <2>1, <2>2 DEF Sound, WorkSound
<1>6. CycleSound'
  BY <1>1, CycleStays, LocationsAre DEF Sound
<1> QED
  BY <1>1, <1>2, <1>4, <1>5, <1>6, WriteIsSound

\* The stops of an exit are canceled one after the other.
LEMMA CancelStopIsSound == ASSUME Sound, CancelStop PROVE Keeps(StopIds)
<1>1. pc = "cancel_stops" /\ UNCHANGED <<pc, ledger, resize, local>>
  BY DEF CancelStop
<1>2. PICK c \in work.todo :
        LET b == work.read[c].bid IN
         \/ b = NoId /\ Canceled(c, work.flag) /\ UNCHANGED <<broker, faults>>
         \/ b # NoId /\ Cancel(b) /\ Canceled(c, work.flag) /\ UNCHANGED faults
         \/ /\ b # NoId /\ ~IsOpen(b)
            /\ Canceled(c, IF IsGone(b) THEN "gone" ELSE work.flag)
            /\ UNCHANGED <<broker, faults>>
         \/ /\ b # NoId /\ Fault
            /\ UNCHANGED broker \/ Cancel(b)
            /\ work' = [work EXCEPT !.todo = @ \ {c}, !.flag = "hard"]
  BY DEF CancelStop
<1> DEFINE b == work.read[c].bid
<1>3. c \in StopIds /\ c \in OrderIds /\ work.todo \subseteq StopIds /\ work \in Work
  BY <1>1, Kinds DEF Sound, WorkSound
<1>4. b \in StopIds \cup {NoId}
  <2>1. work.read[c] \in RowOf(c)
    BY <1>3 DEF Sound, WorkSound, GoodRows
  <2> QED
    BY <1>3, <2>1 DEF RowOf
<1>5. /\ UNCHANGED broker \/ (b # NoId /\ Cancel(b))
      /\ Fault \/ UNCHANGED faults
  BY <1>2
<1>6. /\ \E f \in {"none", "hard", "gone", "retry"} :
           \/ work' = [work EXCEPT !.todo = @ \ {c}, !.canceled = @ \cup {c}, !.flag = f]
           \/ work' = [work EXCEPT !.todo = @ \ {c}, !.flag = f]
  <2>1. work.flag \in {"none", "hard", "gone", "retry"}
    BY <1>3 DEF Work
  <2>2. \A f \in {"none", "hard", "gone", "retry"} : Canceled(c, f) =>
          \E g \in {"none", "hard", "gone", "retry"} :
            work' = [work EXCEPT !.todo = @ \ {c}, !.canceled = @ \cup {c}, !.flag = g]
    BY <1>3 DEF Canceled, Work
  <2> QED
    BY <1>2, <2>1, <2>2
<1> HIDE DEF b
<1>7. Calls(StopIds)
  BY <1>4, <1>5, NoCall, CancelCall, Kinds DEF Sound, DeskSound
<1>8. WorkSound'
  <2>1. PICK f \in {"none", "hard", "gone", "retry"} :
           \/ work' = [work EXCEPT !.todo = @ \ {c}, !.canceled = @ \cup {c}, !.flag = f]
           \/ work' = [work EXCEPT !.todo = @ \ {c}, !.flag = f]
    BY <1>6
  <2>2. /\ work' \in Work /\ work'.todo \subseteq work.todo /\ work'.read = work.read
        /\ work'.canceled \subseteq work.canceled \cup {c} /\ work'.id = work.id
    <3>1. work.todo \ {c} \in SUBSET SellIds /\ work.canceled \cup {c} \in SUBSET SellIds
      BY <1>3, Kinds DEF Work
    <3>2. CASE work' = [work EXCEPT !.todo = @ \ {c}, !.canceled = @ \cup {c}, !.flag = f]
      BY <1>3, <3>1, <3>2 DEF Work
    <3>3. CASE work' = [work EXCEPT !.todo = @ \ {c}, !.flag = f]
      BY <1>3, <3>1, <3>3 DEF Work
    <3> QED
      BY <2>1, <3>2, <3>3
  <2> QED
    BY <1>1, <1>3, <2>2 DEF Sound, WorkSound
<1>9. faults' \in 0 .. MaxFaults /\ pc' \in Locations
  BY <1>1, <1>5, FaultIsCounted DEF Sound, DeskSound, CycleSound
<1> QED
  BY <1>1, <1>7, <1>8, <1>9, CallIsSound

\* The rows of the stops an exit has canceled.
LEMMA WithCanceledIsGood ==
    ASSUME Sound
    PROVE  /\ GoodRows(WithCanceled(rows)) /\ WithCanceled(rows) \in [OrderIds -> OrderRow]
           /\ \A c \in OrderIds : rows[c].st # "none" => WithCanceled(rows)[c].st # "none"
<1> DEFINE rs == WithCanceled(rows)
<1>1. GoodRows(rows)
  BY DEF Sound, DeskSound, LedgerSound
<1>2. rs = [c \in OrderIds |-> IF c \in work.canceled THEN OldRow(c, "canceled") ELSE rows[c]]
  BY DEF WithCanceled
<1> HIDE DEF rs
<1>3. \A c \in OrderIds : rs[c] \in RowOf(c) /\ (rows[c].st # "none" => rs[c].st # "none")
  <2> SUFFICES ASSUME NEW c \in OrderIds
               PROVE  rs[c] \in RowOf(c) /\ (rows[c].st # "none" => rs[c].st # "none")
    OBVIOUS
  <2>1. OldRow(c, "canceled") \in RowOf(c) /\ OldRow(c, "canceled").st = "canceled"
    BY OldRowIsGood DEF RowStatus
  <2>2. rows[c] \in RowOf(c)
    BY <1>1 DEF GoodRows
  <2>3. rs[c] = OldRow(c, "canceled") \/ rs[c] = rows[c]
    BY <1>2
  <2> QED
    BY <2>1, <2>2, <2>3
<1>4. rs \in [OrderIds -> OrderRow]
  BY <1>2, <1>3 DEF RowOf
<1> QED
  BY <1>3, <1>4 DEF GoodRows, rs

\* The exit is given up, or goes on with the position as it is by now.
LEMMA GiveUpExitIsSound == ASSUME Sound, GiveUpExit PROVE Keeps(StopIds)
<1>1. rows' = WithCanceled(rows) /\ Finish /\ UNCHANGED <<broker, pos, resize, faults, local>>
  BY DEF GiveUpExit
<1>2. GoodRows(rows') /\ RowsStay
  BY <1>1, WithCanceledIsGood DEF RowsStay
<1>3. WorkSound' /\ pc' = "intents"
  BY <1>1, FinishIsSound DEF Finish
<1>4. CycleSound' /\ pos' \in Position
  BY <1>1, <1>3, CycleStays, LocationsAre DEF Sound, DeskSound, LedgerSound
<1> QED
  BY <1>1, <1>2, <1>3, <1>4, WriteIsSound

LEMMA ReverifyIsSound == ASSUME Sound, Reverify PROVE Keeps(StopIds)
<1>1. /\ UNCHANGED <<broker, ledger, resize, faults, local>> /\ pc' = "entry_before_exit"
      /\ work' = [work EXCEPT !.qty = pos.qty, !.px = pos.px]
  BY DEF Reverify, Goto, BeforeExit, deskVars
<1>2. pos.qty \in 0 .. Shares /\ pos.px \in 0 .. MaxPrice
  BY DEF Sound, DeskSound, LedgerSound, Position
<1>3. /\ work' \in Work /\ work'.read = work.read /\ work'.canceled = work.canceled
      /\ work'.id = work.id
  BY <1>1, <1>2 DEF Sound, WorkSound, Work
<1>4. WorkSound'
  BY <1>1, <1>3 DEF Sound, WorkSound
<1>5. CycleSound' /\ faults' \in 0 .. MaxFaults
  BY <1>1, CycleStays, LocationsAre DEF Sound, DeskSound
<1> QED
  BY <1>1, <1>4, <1>5, ReadIsSound

\* The row of an exit is there before the exit is submitted.
LEMMA ReserveExitIsSound ==
    ASSUME Sound, ReserveExit PROVE Keeps(StopIds) /\ rows'[CycleExit(bar)].st # "none"
<1> DEFINE c == CycleExit(bar)
           new == Saved(rows[c], Row("submitting", work.qty, 0, NoId))
<1>1. /\ pc' = "submit_exit" /\ rows' = [rows EXCEPT ![c] = new]
      /\ UNCHANGED <<broker, pos, resize, faults, local, work>>
  BY DEF ReserveExit, Goto
<1>2. /\ c \in ExitIds /\ c \in OrderIds /\ work.qty \in 0 .. Shares /\ GoodRows(rows)
      /\ rows[c] \in OrderRow /\ NoId \in OrderIds \cup {NoId} /\ NoId \in StopIds \cup {NoId}
      /\ rows \in [OrderIds -> OrderRow]
  BY Ids, Kinds DEF Sound, CycleSound, WorkSound, Work, DeskSound, LedgerSound, GoodRows
<1>3. new \in RowOf(c) /\ new.st = "submitting"
  BY <1>2, RowIsGood, Nothing DEF RowStatus
<1> HIDE DEF new
<1>4. GoodRows(rows') /\ RowsStay /\ rows'[c].st # "none"
  BY <1>1, <1>2, <1>3, OneRowIsGood DEF RowsStay
<1> HIDE DEF c
<1>5. WorkSound' /\ CycleSound' /\ pos' \in Position
  BY <1>1, WorkStays, CycleStays, LocationsAre DEF Sound, DeskSound, LedgerSound
<1> QED
  BY <1>1, <1>4, <1>5, WriteIsSound DEF c

\* An exit is submitted; what it cancels for want of shares are open orders to sell.
LEMMA SubmitExitIsSound ==
    ASSUME Sound, SubmitExit
    PROVE  /\ Sound' /\ RowsStay /\ PlacesOnly({CycleExit(bar)}) /\ pc' # "intents"
           /\ pc' = "submit_exit" => PlacesOnly({})
           /\ SharesFreed \/ CancelsNoFreshExit
<1> DEFINE c == CycleExit(bar)
           Called == BrokerSound' /\ PlacesOnly({c}) /\ replaced' = replaced
<1>1. /\ c \in SellIds /\ work.qty \in 0 .. Shares /\ 0 \in 0 .. MaxPrice
      /\ faults \in 0 .. MaxFaults /\ BrokerSound
  BY Ids, Kinds, Nothing DEF Sound, DeskSound, CycleSound, WorkSound, Work
<1>2. pc = "submit_exit" /\ UNCHANGED <<rows, pos, resize, local>>
  BY DEF SubmitExit, ledger
<1>3. /\ Fault \/ UNCHANGED faults
      /\ \/ Places(c, work.qty, 0) /\ pc' \in {"save_exit", "exit_failed"} /\ UNCHANGED work
         \/ SharesFreed /\ work' = [work EXCEPT !.flag = "retry"] /\ pc' = pc
         \/ UNCHANGED broker /\ pc' = "exit_failed" /\ UNCHANGED work
  BY FreedAll DEF SubmitExit
<1> HIDE DEF c
<1>4. Places(c, work.qty, 0) => Called /\ CancelsNoFreshExit
  BY <1>1, PlaceKeepsBroker, PlaceCall DEF Places, Calls
<1>5. UNCHANGED broker => Called /\ CancelsNoFreshExit
  <2>1. UNCHANGED broker => Calls({c}) /\ replaced' = replaced
    BY <1>1, NoCall DEF broker
  <2> QED
    BY <2>1 DEF Calls
<1>6. SharesFreed => Called /\ PlacesOnly({})
  BY <1>1, BlockingKeepsBroker DEF SharesFreed, PlacesOnly, CancelsBlocking, Cancels
<1>7. /\ Called /\ (pc' = "submit_exit" => PlacesOnly({}))
      /\ SharesFreed \/ CancelsNoFreshExit
  BY <1>3, <1>4, <1>5, <1>6
<1> HIDE DEF Called
<1>8. WorkSound' /\ pc' \in {"save_exit", "exit_failed", "submit_exit"}
  <2>1. CASE work' = [work EXCEPT !.flag = "retry"] /\ pc' = pc
    <3>1. /\ work' \in Work /\ work'.read = work.read /\ work'.canceled = work.canceled
          /\ work'.id = work.id
      BY <2>1 DEF Sound, WorkSound, Work
    <3> QED
      BY <1>2, <2>1, <3>1 DEF Sound, WorkSound
  <2>2. CASE UNCHANGED work /\ pc' \in {"save_exit", "exit_failed"}
    BY <2>2, WorkStays DEF Sound
  <2> QED
    BY <1>3, <2>1, <2>2
<1>9. faults' \in 0 .. MaxFaults
  BY <1>1, <1>3, FaultIsCounted
<1>10. CycleSound'
  BY <1>2, <1>8, CycleStays, LocationsAre DEF Sound
<1>11. DeskSound' /\ RowsStay
  BY <1>2, <1>7, <1>9, ResizeStays DEF Called, Sound, DeskSound, LedgerSound, RowsStay
<1> QED
  BY <1>7, <1>8, <1>10, <1>11 DEF Called, Sound, c

\* After an exit that failed, a row stands for the stops it has canceled.
LEMMA SaveFailedExitIsSound ==
    ASSUME Sound, SaveFailedExit
    PROVE  Keeps(StopIds) /\ (NeedsFailedExitStop => rows'[FailedExitStop].st = "pending_submit")
<1> DEFINE c == CycleExit(bar)
           one == Saved(WithCanceled(rows)[c], Row("error", work.qty, 0, NoId))
           rs == [WithCanceled(rows) EXCEPT ![c] = one]
           two == Saved(rs[FailedExitStop], Row("pending_submit", work.qty, work.px, NoId))
<1>1. /\ Finish /\ UNCHANGED <<broker, pos, resize, faults, local>>
      /\ rows' = IF NeedsFailedExitStop THEN [rs EXCEPT ![FailedExitStop] = two] ELSE rs
  BY DEF SaveFailedExit
<1>2. /\ c \in ExitIds /\ c \in OrderIds /\ FailedExitStop \in OrderIds /\ FailedExitStop # c
      /\ FailedExitStop \in StopIds
      /\ work.qty \in 0 .. Shares /\ work.px \in 0 .. MaxPrice
      /\ NoId \in OrderIds \cup {NoId} /\ NoId \in StopIds \cup {NoId}
      /\ "error" \in RowStatus /\ "pending_submit" \in RowStatus
  BY Ids, Kinds DEF Sound, CycleSound, WorkSound, Work, RowStatus
<1>3. /\ GoodRows(WithCanceled(rows)) /\ WithCanceled(rows)[c] \in OrderRow
      /\ WithCanceled(rows) \in [OrderIds -> OrderRow]
      /\ \A x \in OrderIds : rows[x].st # "none" => WithCanceled(rows)[x].st # "none"
  BY <1>2, WithCanceledIsGood
<1>4. one \in RowOf(c) /\ one.st = "error"
  BY <1>2, <1>3, RowIsGood, Nothing
<1> HIDE DEF c, one
<1>5. /\ GoodRows(rs) /\ rs \in [OrderIds -> OrderRow] /\ rs[FailedExitStop] \in OrderRow
      /\ \A x \in OrderIds : rows[x].st # "none" => rs[x].st # "none"
  BY <1>2, <1>3, <1>4, OneRowIsGood DEF GoodRows
<1>6. two \in RowOf(FailedExitStop) /\ two.st = "pending_submit"
  <2> HIDE DEF rs
  <2> QED
    BY <1>2, <1>5, RowIsGood
<1> HIDE DEF rs, two
<1>7. /\ GoodRows(rows') /\ RowsStay
      /\ NeedsFailedExitStop => rows'[FailedExitStop].st = "pending_submit"
  BY <1>1, <1>2, <1>5, <1>6, OneRowIsGood DEF RowsStay
<1>8. WorkSound' /\ pc' = "intents"
  BY <1>1, FinishIsSound DEF Finish
<1>9. CycleSound' /\ pos' \in Position
  BY <1>1, <1>8, CycleStays, LocationsAre DEF Sound, DeskSound, LedgerSound
<1> QED
  BY <1>1, <1>7, <1>8, <1>9, WriteIsSound

\* The exit is accepted, and the canceled stops are saved with it.
LEMMA SaveExitIsSound == ASSUME Sound, SaveExit PROVE Keeps(StopIds)
<1> DEFINE c == CycleExit(bar)
           new == Saved(WithCanceled(rows)[c], Row("accepted", work.qty, 0, c))
<1>1. /\ Finish /\ UNCHANGED <<broker, pos, resize, faults, local>>
      /\ rows' = [WithCanceled(rows) EXCEPT ![c] = new]
  BY DEF SaveExit
<1>2. /\ c \in ExitIds /\ c \in OrderIds /\ c \notin StopIds /\ work.qty \in 0 .. Shares
      /\ c \in OrderIds \cup {NoId} /\ "accepted" \in RowStatus
  BY Ids, Kinds DEF Sound, CycleSound, WorkSound, Work, RowStatus
<1>3. /\ GoodRows(WithCanceled(rows)) /\ WithCanceled(rows)[c] \in OrderRow
      /\ WithCanceled(rows) \in [OrderIds -> OrderRow]
      /\ \A x \in OrderIds : rows[x].st # "none" => WithCanceled(rows)[x].st # "none"
  BY <1>2, WithCanceledIsGood
<1>4. new \in RowOf(c) /\ new.st = "accepted"
  BY <1>2, <1>3, RowIsGood, Nothing
<1> HIDE DEF c, new
<1>5. GoodRows(rows') /\ RowsStay
  BY <1>1, <1>2, <1>3, <1>4, OneRowIsGood DEF RowsStay
<1>6. WorkSound' /\ pc' = "intents"
  BY <1>1, FinishIsSound DEF Finish
<1>7. CycleSound' /\ pos' \in Position
  BY <1>1, <1>6, CycleStays, LocationsAre DEF Sound, DeskSound, LedgerSound
<1> QED
  BY <1>1, <1>5, <1>6, <1>7, WriteIsSound

-----------------------------------------------------------------------------
(***************************************************************************)
(* Every step of the system.                                               *)
(***************************************************************************)
\* A fill cancels no order, and the stream thread replaces stops only.
LEMMA OthersCancelNoExit == ASSUME DeskSound, Stream \/ Market PROVE CancelsNoFreshExit
<1>1. CASE ApplyUpdate \/ SaveResized \/ MarketMoves
  BY <1>1 DEF ApplyUpdate, SaveResized, MarketMoves, broker, CancelsNoFreshExit, IsOpen
<1>2. CASE ResizeStop
  <2> DEFINE c == resize.row.bid
  <2>1. c \in StopIds /\ c \in OrderIds /\ resize.qty \in 0 .. Shares /\ bo[c] \in BrokerOrder
    BY <1>2, Ids, Kinds DEF ResizeStop, DeskSound, ResizeSound, Resize, RowOf, BrokerSound
  <2>2. bo[c].px \in 0 .. MaxPrice
    BY <2>1 DEF BrokerOrder
  <2>3. Replaces(c, resize.qty, bo[c].px) \/ UNCHANGED broker
    BY <1>2 DEF ResizeStop
  <2> HIDE DEF c
  <2> QED
    BY <2>1, <2>2, <2>3, ReplaceCall, NoCall DEF DeskSound, Calls
<1>3. ASSUME NEW c \in OrderIds, NEW n, Fills(c, n) PROVE CancelsNoFreshExit
  <2>1. bo' = [bo EXCEPT ![c].st = FillStatus(c, n), ![c].filled = @ + n]
        /\ FillStatus(c, n) \in {"open", "filled"} /\ bo \in [OrderIds -> BrokerOrder]
    BY <1>3 DEF Fills, FillStatus, DeskSound, BrokerSound
  <2>2. \A x \in OrderIds : bo'[x].st = bo[x].st \/ bo'[x].st = FillStatus(c, n)
    BY <2>1 DEF BrokerOrder
  <2> QED
    BY <2>1, <2>2, Kinds DEF CancelsNoFreshExit, IsOpen
<1>4. CASE EntryFills \/ \E c \in SellIds : SellFills(c)
  BY <1>3, <1>4, Kinds DEF EntryFills, SellFills
<1> QED
  BY <1>1, <1>2, <1>4 DEF Stream, Market

\* So what happens beside the supervisor keeps all of it.
LEMMA BesideIsSound ==
    ASSUME Sound, Stream \/ Market, UNCHANGED <<pc, local, work>>
    PROVE  Keeps(StopIds) /\ ExitsStayActive
<1>1. pc' \in Locations /\ CycleSound' /\ WorkSound'
  BY CycleStays, WorkStays DEF Sound, CycleSound
<1> QED
  BY <1>1, OthersAreSound, OthersCancelNoExit DEF Sound, Keeps

\* The steps that call no broker but for a stop, and cancel no exit of this session.
PlainStep ==
    \/ Recover \/ ReadPositions \/ ReadBrokerPositions \/ EndIntents \/ EndDispatch
    \/ UpdateStop \/ StopIsReplaced \/ ReplaceIsRefused \/ ReplaceIsLost
    \/ Resync \/ SaveStop \/ SavePendingStop \/ SaveResync
    \/ CancelPartialEntry \/ SaveCanceledEntry
    \/ Exit \/ CancelStaleExit \/ ReadStops \/ CancelStop \/ GiveUpExit \/ Reverify
    \/ ReserveExit \/ SaveFailedExit \/ SaveExit

\* All of them keep what is sound.
LEMMA PlainStepIsSound == ASSUME Sound, PlainStep PROVE Keeps(StopIds)
<1>1. Keeps({}) => Keeps(StopIds)
  BY DEF Keeps, PlacesOnly
<1>2. CASE Recover \/ ReadPositions \/ ReadBrokerPositions \/ EndIntents \/ EndDispatch
  BY <1>1, <1>2, RecoverIsSound, ReadPositionsIsSound, ReadBrokerPositionsIsSound,
     EndIntentsIsSound, EndDispatchIsSound
<1>3. CASE UpdateStop \/ StopIsReplaced \/ ReplaceIsRefused \/ ReplaceIsLost
  BY <1>3, UpdateStopIsSound, StopIsReplacedIsSound, ReplaceIsRefusedIsSound, ReplaceIsLostIsSound
<1>4. CASE Resync \/ SaveStop \/ SavePendingStop \/ SaveResync
  BY <1>4, ResyncIsSound, SaveStopIsSound, SavePendingStopIsSound, SaveResyncIsSound
<1>5. CASE CancelPartialEntry \/ SaveCanceledEntry \/ Exit \/ CancelStaleExit
  BY <1>5, CancelPartialEntryIsSound, SaveCanceledEntryIsSound, ExitIsSound, CancelStaleExitIsSound
<1>6. CASE ReadStops \/ CancelStop \/ GiveUpExit \/ Reverify
  BY <1>6, ReadStopsIsSound, CancelStopIsSound, GiveUpExitIsSound, ReverifyIsSound
<1>7. CASE ReserveExit \/ SaveFailedExit \/ SaveExit
  BY <1>7, ReserveExitIsSound, SaveFailedExitIsSound, SaveExitIsSound
<1> QED
  BY <1>2, <1>3, <1>4, <1>5, <1>6, <1>7 DEF PlainStep

\* The kinds of steps there are.
LEMMA StepsAre ==
    Next => \/ PlainStep \/ DispatchRow \/ SubmitStop \/ SubmitExit
            \/ (Stream \/ Market) /\ UNCHANGED <<pc, local, work>>
            \/ NewBar \/ Crash
  BY DEF Next, Supervisor, PlainStep

\* A step keeps what is sound, forgets no row, and places no exit without one.
LEMMA NextIsSound ==
    ASSUME Sound, [Next]_vars
    PROVE  Sound' /\ RowsStay
<1>1. CASE UNCHANGED vars
  <2>1. UNCHANGED <<deskVars, pc, local, work>>
    BY <1>1 DEF vars
  <2>2. CycleSound' /\ WorkSound'
    BY <2>1, CycleStays, WorkStays DEF Sound, CycleSound
  <2> QED
    BY <2>1, <2>2, DeskIdle DEF Sound
<1>2. CASE Next
  BY <1>2, StepsAre, PlainStepIsSound, DispatchRowIsSound, SubmitStopIsSound, SubmitExitIsSound,
     BesideIsSound, NewBarIsSound, CrashIsSound DEF Keeps
<1> QED
  BY <1>1, <1>2

-----------------------------------------------------------------------------
(***************************************************************************)
(* The situations a behaviour begins in.                                   *)
(***************************************************************************)
\* Orders and rows as they are at the start.
LEMMA StartRows ==
    /\ 1 \in 0 .. Shares /\ Shares \in 0 .. Shares /\ 0 \in 0 .. Shares /\ InitialStop \in 0 .. MaxPrice
    /\ NoOrder \in BrokerOrder
    /\ \A q, f \in 0 .. Shares, px \in 0 .. MaxPrice :
         /\ OpenOrder(q, f, px) \in BrokerOrder
         /\ \A st \in {"open", "filled", "canceled", "expired"} :
              [OpenOrder(q, f, px) EXCEPT !.st = st] \in BrokerOrder
    /\ \A c \in OrderIds, q, f \in 0 .. Shares, px \in 0 .. MaxPrice :
         /\ RestingRow(q, px, c) \in RowOf(c)
         /\ \A st \in {"filled", "canceled", "partially_filled"} :
              [RestingRow(q, px, c) EXCEPT !.st = st, !.filled = f] \in RowOf(c)
<1>1. /\ 1 \in 0 .. Shares /\ Shares \in 0 .. Shares /\ 0 \in 0 .. Shares
      /\ 0 \in 0 .. MaxPrice /\ InitialStop \in 0 .. MaxPrice
  BY OpenPositionAssumption DEF InitialStop
<1>2. NoOrder \in BrokerOrder
  BY <1>1 DEF NoOrder, BrokerOrder
<1>3. ASSUME NEW q \in 0 .. Shares, NEW f \in 0 .. Shares, NEW px \in 0 .. MaxPrice
      PROVE  /\ OpenOrder(q, f, px) \in BrokerOrder
             /\ \A st \in {"open", "filled", "canceled", "expired"} :
                  [OpenOrder(q, f, px) EXCEPT !.st = st] \in BrokerOrder
  BY DEF OpenOrder, BrokerOrder
<1>4. ASSUME NEW c \in OrderIds, NEW q \in 0 .. Shares, NEW f \in 0 .. Shares, NEW px \in 0 .. MaxPrice
      PROVE  /\ RestingRow(q, px, c) \in RowOf(c)
             /\ \A st \in {"filled", "canceled", "partially_filled"} :
                  [RestingRow(q, px, c) EXCEPT !.st = st, !.filled = f] \in RowOf(c)
  <2>1. "accepted" \in RowStatus /\ c \in OrderIds \cup {NoId}
        /\ \A st \in {"filled", "canceled", "partially_filled"} : st \in RowStatus
    BY DEF RowStatus
  <2>2. RestingRow(q, px, c) \in OrderRow /\ RestingRow(q, px, c).bid = c
    BY <1>1, <2>1 DEF RestingRow, Row, OrderRow
  <2> QED
    BY <2>1, <2>2 DEF RowOf, OrderRow
<1> QED
  BY <1>1, <1>2, <1>3, <1>4

\* A broker with at most one order open at the start is in order, and so are the rows.
LEMMA StartIsSound ==
    ASSUME bo \in [OrderIds -> BrokerOrder], held \in 0 .. Shares, market = MaxPrice, replaced = 0,
           resize = NoResize, faults = 0, GoodRows(rows), pos \in Position,
           EntryRoom, FilledIsPlaced, updates \in Seq(TradeUpdate), EndsAreTrue
    PROVE  DeskSound
<1>1. market \in Prices /\ replaced \in 0 .. MaxReplaced
  BY OpenPositionAssumption DEF Prices
<1> QED
  BY <1>1, Nothing DEF DeskSound, BrokerSound, LedgerSound, ResizeSound

\* Every exit order of the broker has its row.
ExitsOfStart == \A c \in ExitIds : bo[c].st # "none" => rows[c].st # "none"

\* Each of the four starts.
LEMMA ProtectedIsSound ==
    ASSUME Protected, market = MaxPrice, replaced = 0, resize = NoResize, faults = 0
    PROVE  DeskSound /\ ExitsOfStart
<1> DEFINE e == [OpenOrder(Shares, Shares, 0) EXCEPT !.st = "filled"]
           s == OpenOrder(Shares, 0, InitialStop)
           re == [RestingRow(Shares, 0, Entry) EXCEPT !.st = "filled", !.filled = Shares]
           rs == RestingRow(Shares, InitialStop, Stop)
<1>1. /\ bo = [c \in OrderIds |-> CASE c = Entry -> e [] c = Stop -> s [] OTHER -> NoOrder]
      /\ rows = [c \in OrderIds |-> CASE c = Entry -> re [] c = Stop -> rs [] OTHER -> NoRow]
      /\ held = Shares /\ pos = [qty |-> Shares, px |-> InitialStop] /\ updates = <<>>
  BY DEF Protected
<1>2. /\ Entry \in OrderIds /\ Stop \in OrderIds /\ Entry # Stop /\ Stop \notin ExitIds
      /\ Entry \notin ExitIds /\ ExitIds \subseteq OrderIds
  BY Ids, Kinds
<1>3. /\ e \in BrokerOrder /\ s \in BrokerOrder /\ NoOrder \in BrokerOrder
      /\ re \in RowOf(Entry) /\ rs \in RowOf(Stop)
  BY <1>2, StartRows, Nothing
<1>4. e.st = "filled" /\ s.st = "open" /\ s.filled = 0 /\ NoOrder.filled = 0 /\ NoOrder.st = "none"
  BY DEF OpenOrder, NoOrder
<1> HIDE DEF e, s, re, rs
<1>5. bo \in [OrderIds -> BrokerOrder] /\ bo[Entry] = e /\ bo[Stop] = s
      /\ \A c \in OrderIds \ {Entry, Stop} : bo[c] = NoOrder
  BY <1>1, <1>2, <1>3
<1>6. GoodRows(rows)
  <2>1. rows[Entry] = re /\ rows[Stop] = rs /\ \A c \in OrderIds \ {Entry, Stop} : rows[c] = NoRow
    BY <1>1, <1>2
  <2>2. \A c \in OrderIds : rows[c] \in RowOf(c)
    BY <1>3, <2>1, Nothing
  <2> QED
    BY <1>1, <2>2 DEF GoodRows, RowOf
<1>7. EntryRoom /\ FilledIsPlaced
  BY <1>2, <1>4, <1>5 DEF EntryRoom, FilledIsPlaced, IsOpen
<1>8. updates \in Seq(TradeUpdate) /\ EndsAreTrue
  BY <1>1 DEF EndsAreTrue
<1>9. held \in 0 .. Shares /\ pos \in Position
  BY <1>1, StartRows DEF Position
<1>10. ExitsOfStart
  BY <1>2, <1>4, <1>5 DEF ExitsOfStart
<1> QED
  BY <1>5, <1>6, <1>7, <1>8, <1>9, <1>10, StartIsSound

LEMMA LateEntryFillIsSound ==
    ASSUME LateEntryFill, market = MaxPrice, replaced = 0, resize = NoResize, faults = 0
    PROVE  DeskSound /\ ExitsOfStart
<1> DEFINE e == [OpenOrder(Shares, Shares, 0) EXCEPT !.st = "canceled"]
           s == OpenOrder(1, 0, InitialStop)
           re == [RestingRow(Shares, 0, Entry) EXCEPT !.st = "canceled", !.filled = 1]
           rs == RestingRow(1, InitialStop, Stop)
<1>1. /\ bo = [c \in OrderIds |-> CASE c = Entry -> e [] c = Stop -> s [] OTHER -> NoOrder]
      /\ rows = [c \in OrderIds |-> CASE c = Entry -> re [] c = Stop -> rs [] OTHER -> NoRow]
      /\ held = Shares /\ pos = [qty |-> 1, px |-> InitialStop]
      /\ updates = <<Update(Entry, "canceled", Shares)>>
  BY DEF LateEntryFill
<1>2. /\ Entry \in OrderIds /\ Stop \in OrderIds /\ Entry # Stop /\ Stop \notin ExitIds
      /\ Entry \notin ExitIds /\ ExitIds \subseteq OrderIds
  BY Ids, Kinds
<1>3. /\ e \in BrokerOrder /\ s \in BrokerOrder /\ NoOrder \in BrokerOrder
      /\ re \in RowOf(Entry) /\ rs \in RowOf(Stop)
  BY <1>2, StartRows, Nothing
<1>4. e.st = "canceled" /\ s.st = "open" /\ s.filled = 0 /\ NoOrder.filled = 0 /\ NoOrder.st = "none"
  BY DEF OpenOrder, NoOrder
<1> HIDE DEF e, s, re, rs
<1>5. bo \in [OrderIds -> BrokerOrder] /\ bo[Entry] = e /\ bo[Stop] = s
      /\ \A c \in OrderIds \ {Entry, Stop} : bo[c] = NoOrder
  BY <1>1, <1>2, <1>3
<1>6. GoodRows(rows)
  <2>1. rows[Entry] = re /\ rows[Stop] = rs /\ \A c \in OrderIds \ {Entry, Stop} : rows[c] = NoRow
    BY <1>1, <1>2
  <2>2. \A c \in OrderIds : rows[c] \in RowOf(c)
    BY <1>3, <2>1, Nothing
  <2> QED
    BY <1>1, <2>2 DEF GoodRows, RowOf
<1>7. EntryRoom /\ FilledIsPlaced
  BY <1>2, <1>4, <1>5 DEF EntryRoom, FilledIsPlaced, IsOpen
<1>8. updates \in Seq(TradeUpdate) /\ EndsAreTrue
  <2>1. Update(Entry, "canceled", Shares) \in TradeUpdate /\ Update(Entry, "canceled", Shares).id = Entry
    BY <1>2, StartRows DEF Update, TradeUpdate
  <2> QED
    BY <1>1, <1>2, <2>1 DEF EndsAreTrue
<1>9. held \in 0 .. Shares /\ pos \in Position
  BY <1>1, StartRows DEF Position
<1>10. ExitsOfStart
  BY <1>2, <1>4, <1>5 DEF ExitsOfStart
<1> QED
  BY <1>5, <1>6, <1>7, <1>8, <1>9, <1>10, StartIsSound

LEMMA PartialEntryIsSound ==
    ASSUME PartialEntry, market = MaxPrice, replaced = 0, resize = NoResize, faults = 0
    PROVE  DeskSound /\ ExitsOfStart
<1> DEFINE e == OpenOrder(Shares, 1, 0)
           re == [RestingRow(Shares, 0, Entry) EXCEPT !.st = "partially_filled", !.filled = 1]
           rs == Row("pending_submit", 1, InitialStop, NoId)
<1>1. /\ bo = [c \in OrderIds |-> IF c = Entry THEN e ELSE NoOrder]
      /\ rows = [c \in OrderIds |-> CASE c = Entry -> re [] c = Stop -> rs [] OTHER -> NoRow]
      /\ held = 1 /\ pos = [qty |-> 1, px |-> InitialStop] /\ updates = <<>>
  BY DEF PartialEntry
<1>2. /\ Entry \in OrderIds /\ Stop \in OrderIds /\ Entry # Stop
      /\ Entry \notin ExitIds /\ ExitIds \subseteq OrderIds
  BY Ids, Kinds
<1>3. e \in BrokerOrder /\ NoOrder \in BrokerOrder /\ re \in RowOf(Entry) /\ rs \in RowOf(Stop)
  <2>1. NoId \in OrderIds \cup {NoId} /\ NoId \in StopIds \cup {NoId} /\ "pending_submit" \in RowStatus
    BY DEF RowStatus
  <2>2. rs \in RowOf(Stop)
    BY <1>2, <2>1, Ids, StartRows, RowIsGood, Nothing
  <2> HIDE DEF rs
  <2> QED
    BY <1>2, <2>2, StartRows, Nothing
<1>4. /\ e.st = "open" /\ e.qty = Shares /\ e.filled = 1
      /\ NoOrder.filled = 0 /\ NoOrder.st = "none"
  BY DEF OpenOrder, NoOrder
<1> HIDE DEF e, re, rs
<1>5. bo \in [OrderIds -> BrokerOrder] /\ bo[Entry] = e /\ \A c \in OrderIds \ {Entry} : bo[c] = NoOrder
  BY <1>1, <1>2, <1>3
<1>6. GoodRows(rows)
  <2>1. rows[Entry] = re /\ rows[Stop] = rs /\ \A c \in OrderIds \ {Entry, Stop} : rows[c] = NoRow
    BY <1>1, <1>2
  <2>2. \A c \in OrderIds : rows[c] \in RowOf(c)
    BY <1>3, <2>1, Nothing
  <2> QED
    BY <1>1, <2>2 DEF GoodRows, RowOf
<1>7. EntryRoom /\ FilledIsPlaced
  BY <1>1, <1>2, <1>4, <1>5, OpenPositionAssumption DEF EntryRoom, FilledIsPlaced, IsOpen
<1>8. updates \in Seq(TradeUpdate) /\ EndsAreTrue
  BY <1>1 DEF EndsAreTrue
<1>9. held \in 0 .. Shares /\ pos \in Position
  BY <1>1, StartRows DEF Position
<1>10. ExitsOfStart
  BY <1>2, <1>4, <1>5 DEF ExitsOfStart
<1> QED
  BY <1>5, <1>6, <1>7, <1>8, <1>9, <1>10, StartIsSound

LEMMA StaleExitLeftIsSound ==
    ASSUME StaleExitLeft, market = MaxPrice, replaced = 0, resize = NoResize, faults = 0
    PROVE  DeskSound /\ ExitsOfStart
<1> DEFINE e == [OpenOrder(Shares, Shares, 0) EXCEPT !.st = "filled"]
           s(st) == [OpenOrder(Shares, 0, 0) EXCEPT !.st = st]
           re == [RestingRow(Shares, 0, Entry) EXCEPT !.st = "filled", !.filled = Shares]
           rs == RestingRow(Shares, 0, StaleExit)
<1>1. PICK st \in {"open", "expired"} :
         bo = [c \in OrderIds |-> CASE c = Entry -> e [] c = StaleExit -> s(st) [] OTHER -> NoOrder]
  BY DEF StaleExitLeft
<1>2. /\ rows = [c \in OrderIds |-> CASE c = Entry -> re [] c = StaleExit -> rs [] OTHER -> NoRow]
      /\ held = Shares /\ pos = [qty |-> Shares, px |-> InitialStop] /\ updates = <<>>
  BY DEF StaleExitLeft
<1>3. /\ Entry \in OrderIds /\ StaleExit \in OrderIds /\ Entry # StaleExit
      /\ Entry \notin ExitIds /\ ExitIds \subseteq OrderIds
  BY Ids, Kinds
<1>4. /\ e \in BrokerOrder /\ s(st) \in BrokerOrder /\ NoOrder \in BrokerOrder
      /\ re \in RowOf(Entry) /\ rs \in RowOf(StaleExit)
  BY <1>3, StartRows, Nothing
<1>5. /\ e.st = "filled" /\ s(st).st = st /\ s(st).filled = 0 /\ NoOrder.filled = 0
      /\ NoOrder.st = "none" /\ rs.st = "accepted"
  BY DEF OpenOrder, NoOrder, RestingRow, Row
<1> HIDE DEF e, s, re, rs
<1>6. bo \in [OrderIds -> BrokerOrder] /\ bo[Entry] = e /\ bo[StaleExit] = s(st)
      /\ \A c \in OrderIds \ {Entry, StaleExit} : bo[c] = NoOrder
  BY <1>1, <1>3, <1>4
<1>7. rows[Entry] = re /\ rows[StaleExit] = rs /\ \A c \in OrderIds \ {Entry, StaleExit} : rows[c] = NoRow
  BY <1>2, <1>3
<1>8. GoodRows(rows)
  <2>1. \A c \in OrderIds : rows[c] \in RowOf(c)
    BY <1>4, <1>7, Nothing
  <2> QED
    BY <1>2, <2>1 DEF GoodRows, RowOf
<1>9. EntryRoom /\ FilledIsPlaced
  BY <1>3, <1>5, <1>6 DEF EntryRoom, FilledIsPlaced, IsOpen
<1>10. updates \in Seq(TradeUpdate) /\ EndsAreTrue
  BY <1>2 DEF EndsAreTrue
<1>11. held \in 0 .. Shares /\ pos \in Position
  BY <1>2, StartRows DEF Position
<1>12. ExitsOfStart
  BY <1>3, <1>5, <1>6, <1>7 DEF ExitsOfStart
<1> QED
  BY <1>6, <1>8, <1>9, <1>10, <1>11, <1>12, StartIsSound

\* The system begins sound, with nothing in hand.
LEMMA InitIsSound == Init => Sound /\ ExitsOfStart /\ pc = "recover" /\ quota = 0
<1> SUFFICES ASSUME Init PROVE Sound /\ ExitsOfStart /\ pc = "recover" /\ quota = 0
  OBVIOUS
<1>1. market = MaxPrice /\ replaced = 0 /\ resize = NoResize /\ faults = 0
  BY DEF Init
<1>2. DeskSound /\ ExitsOfStart
  BY <1>1, ProtectedIsSound, LateEntryFillIsSound, PartialEntryIsSound, StaleExitLeftIsSound DEF Init
<1>3. CycleSound
  <2>1. NotRead \in [qty : 0 .. Shares, px : 0 .. MaxPrice, read : BOOLEAN]
    BY Nothing DEF NotRead
  <2>2. 1 \in 1 .. MaxBar /\ 0 \in 0 .. MaxCrashes
    BY OpenPositionAssumption, IntentAssumption
  <2> QED
    BY <2>1, <2>2, LocationsAre DEF Init, CycleSound, IntentsPerCycle
<1>4. WorkSound
  BY NoWorkIsSound DEF Init, WorkSound
<1> QED
  BY <1>2, <1>3, <1>4 DEF Init, Sound

\* All variables keep their types, whatever the sizes, the starts and the intents.
THEOREM TypeCorrect == Spec => []TypeOK
<1>1. Init => Sound
  BY InitIsSound
<1>2. Sound /\ [Next]_vars => Sound'
  BY NextIsSound
<1>3. Sound => TypeOK
  BY DEF Sound, DeskSound, BrokerSound, LedgerSound, ResizeSound, GoodRows, CycleSound, WorkSound,
         TypeOK, DeskTypeOK
<1> QED
  BY <1>1, <1>2, <1>3, PTL DEF Spec

-----------------------------------------------------------------------------
(***************************************************************************)
(* The exits.                                                              *)
(***************************************************************************)
\* The row of an exit stands before the exit is submitted.
Reserved == pc = "submit_exit" => rows[CycleExit(bar)].st # "none"

\* A step that is not the submission of an exit places none without a row.
LEMMA PlacesAreKnown ==
    ASSUME Sound, Reserved, Next PROVE PlacesKnown
<1>1. PlacesOnly(StopIds) => PlacesKnown
  BY Kinds DEF PlacesOnly, PlacesKnown
<1>2. CASE SubmitExit
  <2>1. pc = "submit_exit" /\ PlacesOnly({CycleExit(bar)})
    BY <1>2, SubmitExitIsSound DEF SubmitExit
  <2> QED
    BY <2>1, Kinds DEF Reserved, PlacesOnly, PlacesKnown
<1>3. CASE PlainStep \/ SubmitStop \/ NewBar \/ Crash \/ ((Stream \/ Market) /\ UNCHANGED <<pc, local, work>>)
  BY <1>1, <1>3, PlainStepIsSound, SubmitStopIsSound, NewBarIsSound, CrashIsSound, BesideIsSound
     DEF Keeps
<1>4. CASE DispatchRow
  BY <1>4, DispatchRowIsSound
<1> QED
  BY <1>2, <1>3, <1>4, StepsAre

\* Only the reservation goes on to the submission.
LEMMA OnlyReserved ==
    ASSUME Sound, Next, pc' = "submit_exit"
    PROVE  bar' = bar /\ (pc = "submit_exit" \/ ReserveExit)
<1>1. CASE Recover \/ ReadPositions \/ ReadBrokerPositions \/ EndIntents \/ EndDispatch \/ DispatchRow
  BY <1>1 DEF Recover, ReadPositions, ReadBrokerPositions, EndIntents, EndDispatch, DispatchRow, Goto,
              local
<1>2. CASE UpdateStop \/ StopIsReplaced \/ ReplaceIsRefused \/ ReplaceIsLost \/ SubmitStop \/ Resync
  BY <1>2 DEF UpdateStop, StopIsReplaced, ReplaceIsRefused, ReplaceIsLost, SubmitStop, Resync, Goto,
              Finish, RetryCapped, BeforeStop
<1>3. CASE SaveStop \/ SavePendingStop \/ SaveResync \/ CancelPartialEntry \/ SaveCanceledEntry
  BY <1>3 DEF SaveStop, SavePendingStop, SaveResync, CancelPartialEntry, SaveCanceledEntry, Finish,
              AfterEntry, AfterCancel
<1>4. CASE Exit \/ CancelStaleExit \/ ReadStops \/ CancelStop \/ GiveUpExit \/ Reverify
  BY <1>4 DEF Exit, CancelStaleExit, ReadStops, CancelStop, GiveUpExit, Reverify, Goto, Finish,
              BeforeExit
<1>5. CASE ReserveExit \/ SubmitExit \/ SaveFailedExit \/ SaveExit
  BY <1>5 DEF ReserveExit, SubmitExit, SaveFailedExit, SaveExit, Finish, local
<1>6. CASE NewBar \/ Crash \/ ((Stream \/ Market) /\ UNCHANGED <<pc, local, work>>)
  BY <1>6 DEF NewBar, Crash, local
<1> QED
  BY <1>1, <1>2, <1>3, <1>4, <1>5, <1>6 DEF Next, Supervisor

\* An exit order is at the broker only with a row in the ledger.
THEOREM NoExitIsUnknown == Spec => []ExitsAreKnown
<1> DEFINE Inv == Sound /\ Reserved /\ ExitsAreKnown
<1>1. Init => Inv
  BY InitIsSound DEF Reserved, ExitsAreKnown, ExitsOfStart
<1>2. Inv /\ [Next]_vars => Inv'
  <2> SUFFICES ASSUME Inv, [Next]_vars PROVE Inv'
    OBVIOUS
  <2>1. Sound' /\ RowsStay
    BY NextIsSound
  <2>2. CASE UNCHANGED vars
    BY <2>1, <2>2 DEF vars, deskVars, broker, ledger, local, Reserved, ExitsAreKnown
  <2>3. CASE Next
    <3>1. Reserved'
      <4> SUFFICES ASSUME pc' = "submit_exit" PROVE rows'[CycleExit(bar)'].st # "none"
        BY DEF Reserved
      <4>1. bar' = bar /\ CycleExit(bar)' = CycleExit(bar) /\ CycleExit(bar) \in OrderIds
        <5>1. bar' = bar /\ CycleExit(bar) \in OrderIds
          BY <2>3, OnlyReserved, Ids, Kinds DEF Sound, CycleSound
        <5> QED
          BY <5>1 DEF CycleExit
      <4>2. CASE pc = "submit_exit"
        BY <2>1, <4>1, <4>2 DEF Reserved, RowsStay
      <4>3. CASE ReserveExit
        BY <4>1, <4>3, ReserveExitIsSound
      <4> QED
        BY <2>3, <4>2, <4>3, OnlyReserved
    <3>2. ExitsAreKnown'
      BY <2>1, <2>3, PlacesAreKnown, Kinds DEF ExitsAreKnown, RowsStay, PlacesKnown
    <3> QED
      BY <2>1, <3>1, <3>2
  <2> QED
    BY <2>2, <2>3
<1> QED
  BY <1>1, <1>2, PTL DEF Spec

\* Where an exit is on its way that no other exit of this session works for.
Exiting == {"stale_exit", "read_stops", "cancel_stops", "entry_before_exit",
            "entry_canceled_for_exit", "reserve", "submit_exit"}
NoneOpen == pc \in Exiting => \A c \in ExitIds \ {StaleExit} : ~IsOpen(c)

\* Before the first intent of a cycle the exits that are open are active in the ledger.
FirstIntent == pc = "intents" /\ quota = IntentsPerCycle
OpenIsActive == FirstIntent => \A c \in ExitIds \ {StaleExit} : IsOpen(c) => IsActive(rows[c])
QuotaIsUsed == pc # "intents" => quota # IntentsPerCycle

\* Where the steps of the supervisor lead.
Moves ==
    /\ QuotaIsUsed' /\ (pc' \in Exiting => pc \in Exiting)
    /\ FirstIntent' => FirstIntent /\ UNCHANGED <<bo, rows>>

\* A step in the middle of an intent.
LEMMA IntentMoves ==
    ASSUME QuotaIsUsed, UNCHANGED quota, pc # "intents", pc' \in Exiting => pc \in Exiting
    PROVE  Moves
  BY DEF Moves, QuotaIsUsed, FirstIntent

\* All steps of the supervisor but the recovery and the beginning of an exit.
LEMMA StepMoves ==
    ASSUME Sound, QuotaIsUsed, PlainStep \/ DispatchRow \/ SubmitStop \/ SubmitExit \/ NewBar \/ Crash
    PROVE  Recover \/ Exit \/ Moves
<1>1. CASE ReadPositions \/ ReadBrokerPositions \/ NewBar
  <2>1. UNCHANGED <<pc, quota, bo, rows>>
    BY <1>1 DEF ReadPositions, ReadBrokerPositions, NewBar, deskVars, broker, ledger
  <2> QED
    BY <2>1 DEF Moves, QuotaIsUsed, FirstIntent
<1>2. CASE EndIntents \/ Crash
  BY <1>2 DEF EndIntents, Crash, Goto, Moves, QuotaIsUsed, FirstIntent, Exiting, IntentsPerCycle
<1>3. CASE UpdateStop
  <2>1. quota' # IntentsPerCycle /\ pc' \notin Exiting
    BY <1>3 DEF UpdateStop, Sound, CycleSound, IntentsPerCycle, Exiting, BeforeStop
  <2> QED
    BY <2>1 DEF Moves, QuotaIsUsed, FirstIntent
<1>4. CASE DispatchRow \/ EndDispatch \/ StopIsReplaced \/ ReplaceIsRefused \/ ReplaceIsLost
  <2>1. UNCHANGED quota /\ pc # "intents" /\ pc' \notin Exiting
    BY <1>4 DEF DispatchRow, EndDispatch, StopIsReplaced, ReplaceIsRefused, ReplaceIsLost, RetryCapped,
                Goto, Finish, Exiting, local
  <2> QED
    BY <2>1, IntentMoves
<1>5. CASE SubmitStop \/ Resync \/ SaveStop \/ SavePendingStop \/ SaveResync
  <2>1. UNCHANGED quota /\ pc # "intents" /\ pc' \notin Exiting
    BY <1>5 DEF SubmitStop, Resync, SaveStop, SavePendingStop, SaveResync, RetryCapped, Finish,
                Exiting, local
  <2> QED
    BY <2>1, IntentMoves
<1>6. CASE CancelPartialEntry \/ SaveCanceledEntry
  <2>1. UNCHANGED quota /\ pc # "intents" /\ (pc' \in Exiting => pc \in Exiting)
    BY <1>6 DEF CancelPartialEntry, SaveCanceledEntry, BeforeStop, BeforeExit, AfterEntry, AfterCancel,
                Exiting, local
  <2> QED
    BY <2>1, IntentMoves
<1>7. CASE CancelStaleExit \/ ReadStops \/ CancelStop \/ GiveUpExit \/ Reverify \/ ReserveExit
  <2>1. UNCHANGED quota /\ pc # "intents" /\ pc \in Exiting
    BY <1>7 DEF CancelStaleExit, ReadStops, CancelStop, GiveUpExit, Reverify, ReserveExit, Goto, Exiting,
                local
  <2> QED
    BY <2>1, IntentMoves
<1>8. CASE SubmitExit \/ SaveFailedExit \/ SaveExit
  <2>1. UNCHANGED quota /\ pc # "intents" /\ (pc' \in Exiting => pc \in Exiting)
    BY <1>8 DEF SubmitExit, SaveFailedExit, SaveExit, Finish, Exiting, local
  <2> QED
    BY <2>1, IntentMoves
<1> QED
  BY <1>1, <1>2, <1>3, <1>4, <1>5, <1>6, <1>7, <1>8 DEF PlainStep

\* What an exit in hand rests on: no other one is open.
ExitSound == Sound /\ QuotaIsUsed /\ OpenIsActive /\ NoneOpen

\* That is inductive.
LEMMA ExitStaysSound ==
    ASSUME ExitSound, Next PROVE ExitSound'
<1>1. Sound' /\ QuotaIsUsed
  BY NextIsSound DEF ExitSound
<1>2. CASE Recover
  <2>1. /\ \A c \in SellIds : IsOpen(c) => IsActive(rows'[c])
        /\ \A c \in OrderIds : bo'[c].st = "open" => bo[c].st = "open"
        /\ pc' = "intents"
    BY <1>2, RecoverIsSound DEF ExitSound, Keeps, PlacesOnly, Recover, Goto
  <2> QED
    BY <1>1, <2>1, Kinds DEF ExitSound, QuotaIsUsed, OpenIsActive, NoneOpen, Exiting, IsOpen, IsActive
<1>3. CASE Exit
  <2>1. /\ UNCHANGED <<bo, rows>>
        /\ pc' # "intents" => \A c \in ExitIds \ {StaleExit} : ~IsActive(rows[c])
    BY <1>3, ExitIsSound DEF ExitSound
  <2>2. FirstIntent /\ quota' # IntentsPerCycle
    BY <1>3 DEF Exit, FirstIntent, IntentsPerCycle
  <2>3. NoneOpen'
    BY <2>1, <2>2 DEF ExitSound, OpenIsActive, NoneOpen, Exiting, IsOpen
  <2>4. QuotaIsUsed' /\ OpenIsActive'
    BY <2>2 DEF QuotaIsUsed, OpenIsActive, FirstIntent
  <2> QED
    BY <1>1, <2>3, <2>4 DEF ExitSound
<1>4. CASE (Stream \/ Market) /\ UNCHANGED <<pc, local, work>>
  <2>1. PlacesOnly(StopIds) /\ ExitsStayActive /\ UNCHANGED <<pc, quota>>
    BY <1>4, BesideIsSound DEF ExitSound, Keeps, local
  <2>2. \A c \in ExitIds : IsOpen(c)' => IsOpen(c)
    BY <2>1, Kinds DEF PlacesOnly, IsOpen
  <2> QED
    BY <1>1, <2>1, <2>2 DEF ExitSound, QuotaIsUsed, OpenIsActive, FirstIntent, NoneOpen,
                            ExitsStayActive, IsActive
<1>5. CASE Moves /\ (PlainStep \/ DispatchRow \/ SubmitStop \/ SubmitExit \/ NewBar \/ Crash)
  <2>1. QuotaIsUsed' /\ OpenIsActive'
    BY <1>5 DEF Moves, ExitSound, OpenIsActive, IsOpen, IsActive
  <2>2. pc' \in Exiting => \A c \in ExitIds : IsOpen(c)' => IsOpen(c)
    <3>1. CASE PlainStep \/ SubmitStop \/ NewBar \/ Crash
      <4>1. PlacesOnly(StopIds)
        BY <3>1, PlainStepIsSound, SubmitStopIsSound, NewBarIsSound, CrashIsSound DEF ExitSound, Keeps
      <4> QED
        BY <4>1, Kinds DEF PlacesOnly, IsOpen
    <3>2. CASE DispatchRow
      BY <3>2 DEF DispatchRow, Exiting
    <3>3. CASE SubmitExit
      <4>1. pc' \in Exiting => pc' = "submit_exit"
        BY <3>3 DEF SubmitExit, Exiting
      <4>2. pc' = "submit_exit" => PlacesOnly({})
        BY <3>3, SubmitExitIsSound DEF ExitSound
      <4> QED
        BY <4>1, <4>2, Kinds DEF PlacesOnly, IsOpen
    <3> QED
      BY <1>5, <3>1, <3>2, <3>3
  <2>3. NoneOpen'
    BY <1>5, <2>2 DEF Moves, ExitSound, NoneOpen
  <2> QED
    BY <1>1, <2>1, <2>3 DEF ExitSound
<1> QED
  BY <1>1, <1>2, <1>3, <1>4, <1>5, StepsAre, StepMoves DEF ExitSound

\* With that, no step but the submission of a stop cancels an exit of this session.
LEMMA WorkingExitStays ==
    ASSUME ExitSound, Next, pc # "submit_stop" PROVE CancelsNoFreshExit
<1>1. CASE SubmitExit
  <2>1. pc = "submit_exit"
    BY <1>1 DEF SubmitExit
  <2> QED
    BY <2>1 DEF ExitSound, NoneOpen, Exiting, CancelsNoFreshExit
<1>2. CASE PlainStep \/ DispatchRow \/ NewBar \/ Crash \/ ((Stream \/ Market) /\ UNCHANGED <<pc, local, work>>)
  BY <1>2, PlainStepIsSound, DispatchRowIsSound, NewBarIsSound, CrashIsSound, BesideIsSound
     DEF ExitSound, Keeps
<1>3. ~SubmitStop
  BY DEF SubmitStop
<1> QED
  BY <1>1, <1>2, <1>3, StepsAre

\* An exit of this session that works at the broker is not canceled for another one.
THEOREM NoWorkingExitIsCanceled == Spec => WorkingExitIsKept
<1>1. Init => ExitSound
  BY InitIsSound DEF ExitSound, QuotaIsUsed, OpenIsActive, FirstIntent, NoneOpen, Exiting, IntentsPerCycle
<1>2. ExitSound /\ [Next]_vars => ExitSound'
  <2>1. ExitSound /\ Next => ExitSound'
    BY ExitStaysSound
  <2>2. ExitSound /\ UNCHANGED vars => ExitSound'
    <3> SUFFICES ASSUME ExitSound, UNCHANGED vars PROVE ExitSound'
      OBVIOUS
    <3>1. Sound'
      BY NextIsSound DEF ExitSound
    <3> QED
      BY <3>1 DEF ExitSound, vars, deskVars, broker, ledger, local, QuotaIsUsed, OpenIsActive,
                  FirstIntent, NoneOpen, IsOpen, IsActive
  <2> QED
    BY <2>1, <2>2
<1>3. ExitSound /\ [Next]_vars => [pc # "submit_stop" => CancelsNoFreshExit]_vars
  BY WorkingExitStays
<1> QED
  BY <1>1, <1>2, <1>3, PTL DEF Spec, WorkingExitIsKept

-----------------------------------------------------------------------------
(***************************************************************************)
(* A stop that only rises: sessions that begin with the stop of a whole    *)
(* position, give no exits and lose neither calls nor the process.  While  *)
(* the stop has no fill its price is known to the ledger and to the cycle  *)
(* (Known), but for the moment between a replacement and its record; after *)
(* its first fill the broker replaces it no more.                          *)
(***************************************************************************)
OnlyStopUpdates ==
    Starts \subseteq {"protected"} /\ Intents \subseteq {"update_stop"} /\ MaxFaults = 0 /\ MaxCrashes = 0

\* The orders to sell there have been: the initial stop and its replacements.
Made == {Stop} \cup {Replacement(n) : n \in 1 .. replaced}
OnlyMade == \A c \in SellIds \ Made : bo[c].st = "none" /\ rows[c].st = "none"

\* Every order has been sent, under its own id.
OwnRows(rs) ==
    \A c \in OrderIds : rs[c].st # "none" => rs[c].bid = c /\ rs[c].st \notin {"pending_submit", "submitting"}

\* An update tells a fill or an end that was.
UpdatesAgree ==
    \A i \in 1 .. Len(updates) :
        /\ updates[i].id \in SellIds
        /\ updates[i].filled <= bo[updates[i].id].filled
        /\ updates[i].st # "open" => bo[updates[i].id].st \notin {"open", "none"}

DeskIsQuiet ==
    /\ resize.stage = "idle" /\ bo[Entry].st = "filled" /\ rows[Entry].st = "filled"
    /\ OwnRows(rows) /\ OnlyMade /\ UpdatesAgree

\* A stop that is moved is one of them, and rises above what the cycle has read; without
\* a stop the position is gone.
StopPcs == {"recover", "intents", "dispatch", "replace", "save_stop", "entry_before_stop", "submit_stop"}
MoveIsUp ==
    /\ work.id \in Made /\ OwnRows(work.read) /\ work.read[work.id].st # "none"
    /\ cache.read /\ cache.px < work.px /\ work.px <= work.want
MoveIsRecorded ==
    /\ replaced > 0 /\ work.ans = Replacement(replaced) /\ rows[work.ans].st = "none"
    /\ bo[work.id].st = "replaced"
NothingLeft == OpenSells = {} /\ cache.qty > 0
StopInHand ==
    /\ pc \in StopPcs
    /\ pc \in {"replace", "save_stop"} => MoveIsUp
    /\ pc = "save_stop" => MoveIsRecorded
    /\ pc \in {"entry_before_stop", "submit_stop"} => NothingLeft

\* Order c is the one stop of the position; as long as nothing of it is filled, ledger and
\* cycle know the position, and no higher price.
Known(c) ==
    /\ pos.qty = Shares /\ (cache.read => cache.qty = Shares)
    /\ IF pc = "save_stop" THEN bo[c].px = work.px
       ELSE bo[c].px <= pos.px /\ (cache.read => bo[c].px <= cache.px)
Guards(c) ==
    /\ OpenSells = {c} /\ bo[c].qty = Shares /\ held = Shares - bo[c].filled /\ held > 0
    /\ \A d \in SellIds \ {c} : bo[d].filled = 0
    /\ IF pc = "save_stop" THEN c = work.ans /\ pos.qty > 0 ELSE IsActive(rows[c])
    /\ bo[c].filled = 0 => Known(c)
Sold == held = 0 /\ OpenSells = {}

StopInv == Sound /\ DeskIsQuiet /\ StopInHand /\ (Sold \/ \E c \in StopIds : Guards(c))

\* What is made is a stop, the next replacement is none of them, and no bar
\* has a stop of its own.
LEMMA MadeStops ==
    ASSUME replaced \in 0 .. MaxReplaced
    PROVE  /\ Made \subseteq StopIds /\ Replacement(replaced + 1) \notin Made
           /\ Replacement(replaced + 1) # Entry
           /\ Made \cup {Replacement(replaced + 1)} = {Stop} \cup {Replacement(n) : n \in 1 .. replaced + 1}
           /\ \A b \in 1 .. MaxBar : CycleStop(b) \in SellIds \ Made
<1>1. replaced \in Nat /\ 1 .. replaced \subseteq 1 .. MaxReplaced
  BY OpenPositionAssumption
<1>2. Made \subseteq StopIds
  BY <1>1, Ids DEF Made
<1>3. Replacement(replaced + 1) \notin Made /\ Replacement(replaced + 1) # Entry
  <2>1. PICK m \in Nat : m = replaced + 1
    BY <1>1
  <2>2. Replacement(m).k = "replacement" /\ Replacement(m).n = m /\ Stop.k = "stop" /\ Entry.k = "entry"
    BY DEF Replacement, Stop, Entry, Id
  <2>3. \A n \in 1 .. replaced : n # m /\ Replacement(n).n = n
    BY <1>1, <2>1 DEF Replacement, Id
  <2>4. Replacement(m) \notin Made
    BY <2>2, <2>3 DEF Made
  <2> QED
    BY <2>1, <2>2, <2>4
<1>4. 1 .. replaced + 1 = (1 .. replaced) \cup {replaced + 1}
  BY <1>1
<1>5. Made \cup {Replacement(replaced + 1)} = {Stop} \cup {Replacement(n) : n \in 1 .. replaced + 1}
  BY <1>4 DEF Made
<1>6. \A b \in 1 .. MaxBar : CycleStop(b) \in SellIds \ Made
  <2>1. \A b \in 1 .. MaxBar : b # 0 /\ CycleStop(b).k = "stop" /\ CycleStop(b).n = b
    BY DEF CycleStop, Id
  <2>2. Stop.n = 0 /\ \A n \in 1 .. replaced : Replacement(n).k = "replacement"
    BY DEF Stop, Replacement, Id
  <2>3. \A b \in 1 .. MaxBar : CycleStop(b) \notin Made
    BY <2>1, <2>2 DEF Made
  <2> QED
    BY <2>3, Ids, Kinds
<1> QED
  BY <1>2, <1>3, <1>5, <1>6

\* A step that leaves orders, rows and position alone, and records no move.
LEMMA StopStays ==
    ASSUME StopInv, Sound', UNCHANGED <<bo, held, replaced, updates, rows, pos, resize>>,
           pc # "save_stop", pc' \in StopPcs \ {"save_stop"},
           cache' = cache \/ cache' = AsRead \/ ~cache'.read,
           pc' = "replace" => MoveIsUp',
           pc' \in {"entry_before_stop", "submit_stop"} => OpenSells = {} /\ cache'.qty > 0
    PROVE  StopInv'
<1>1. DeskIsQuiet'
  BY DEF StopInv, DeskIsQuiet, OwnRows, OnlyMade, Made, UpdatesAgree
<1>2. OpenSells' = OpenSells
  BY DEF OpenSells, IsOpen
<1>3. StopInHand'
  BY <1>2 DEF StopInHand, NothingLeft
<1>4. CASE Sold
  BY <1>1, <1>2, <1>3, <1>4 DEF StopInv, Sold
<1>5. ASSUME NEW c \in StopIds, Guards(c) PROVE Guards(c)'
  <2>1. bo[c].filled = 0 => Known(c)'
    BY <1>5 DEF Guards, Known, AsRead
  <2>2. IsActive(rows[c])'
    BY <1>5 DEF Guards, IsActive
  <2> QED
    BY <1>2, <1>5, <2>1, <2>2 DEF Guards
<1> QED
  BY <1>1, <1>3, <1>4, <1>5 DEF StopInv

\* A step that changes nothing of all this.
LEMMA StopFrame ==
    ASSUME StopInv, Sound', UNCHANGED <<bo, held, replaced, updates, rows, pos, resize, pc, work, cache>>
    PROVE  StopInv'
<1>1. DeskIsQuiet' /\ OpenSells' = OpenSells
  BY DEF StopInv, DeskIsQuiet, OwnRows, OnlyMade, Made, UpdatesAgree, OpenSells, IsOpen
<1>2. StopInHand'
  BY <1>1 DEF StopInv, StopInHand, MoveIsUp, MoveIsRecorded, NothingLeft, OwnRows, Made
<1>3. ASSUME NEW c \in StopIds, Guards(c) PROVE Guards(c)'
  BY <1>1, <1>3 DEF Guards, Known, IsActive
<1> QED
  BY <1>1, <1>2, <1>3 DEF StopInv, Sold

\* What the cycle reads, and the bars.
LEMMA StopIsRead ==
    ASSUME StopInv, Sound', ReadPositions \/ ReadBrokerPositions \/ EndIntents \/ EndDispatch \/ NewBar
    PROVE  StopInv'
<1>1. CASE ReadPositions
  BY <1>1, StopStays DEF ReadPositions, deskVars, broker, ledger, StopPcs
<1>2. CASE ReadBrokerPositions
  BY <1>2, StopFrame DEF ReadBrokerPositions, broker, ledger
<1>3. CASE EndIntents
  BY <1>3, StopStays DEF EndIntents, Goto, deskVars, broker, ledger, StopPcs
<1>4. CASE EndDispatch
  BY <1>4, StopStays DEF EndDispatch, Goto, deskVars, broker, ledger, local, StopPcs
<1>5. CASE NewBar
  BY <1>5, StopFrame DEF NewBar, deskVars, broker, ledger
<1> QED
  BY <1>1, <1>2, <1>3, <1>4, <1>5

\* An update is begun for a stop that is there, and upwards.
LEMMA UpdateBegins ==
    ASSUME StopInv, Sound', UpdateStop
    PROVE  StopInv'
<1>1. pc = "intents" /\ cache.read /\ UNCHANGED <<deskVars, cache>>
  BY DEF UpdateStop
<1>2. PICK px \in Prices, c \in LatestStop :
         \/ /\ cache.qty > 0 /\ StopImproves(cache, px)
            /\ \/ c # NoId /\ rows[c].bid # NoId /\ pc' = "replace"
               \/ c # NoId /\ rows[c].bid = NoId /\ pc' = "save_pending"
               \/ c = NoId /\ pc' = "entry_before_stop"
            /\ work' = [NoWork EXCEPT !.id = c, !.read = rows, !.px = px, !.want = px]
         \/ UNCHANGED <<pc, work>>
  BY DEF UpdateStop
<1>3. CASE UNCHANGED <<pc, work>>
  BY <1>1, <1>3, StopFrame DEF deskVars, broker, ledger
<1>4. ASSUME ~UNCHANGED <<pc, work>> PROVE StopInv'
  <2>1. /\ cache.qty > 0 /\ StopImproves(cache, px)
        /\ \/ c # NoId /\ rows[c].bid # NoId /\ pc' = "replace"
           \/ c # NoId /\ rows[c].bid = NoId /\ pc' = "save_pending"
           \/ c = NoId /\ pc' = "entry_before_stop"
        /\ work' = [NoWork EXCEPT !.id = c, !.read = rows, !.px = px, !.want = px]
    BY <1>2, <1>4
  <2>2. work'.id = c /\ work'.read = rows /\ work'.px = px /\ work'.want = px
    BY <2>1 DEF NoWork
  <2>3. c # NoId => c \in StopIds /\ IsActive(rows[c]) /\ rows[c].bid # NoId /\ pc' = "replace"
    BY <2>1, Kinds DEF LatestStop, ActiveRows, StopInv, DeskIsQuiet, OwnRows, IsActive, ActiveStatus
  <2>4. c # NoId => MoveIsUp'
    <3>1. c # NoId => c \in Made /\ rows[c].st # "none"
      BY <2>3, Kinds DEF StopInv, DeskIsQuiet, OnlyMade, IsActive, ActiveStatus
    <3>2. Made' = Made /\ OwnRows(work.read)'
      BY <1>1, <2>2 DEF deskVars, broker, Made, StopInv, DeskIsQuiet, OwnRows
    <3>3. cache.px < px /\ px <= px
      BY <2>1, <1>2 DEF StopImproves, Prices
    <3> QED
      BY <1>1, <2>2, <3>1, <3>2, <3>3 DEF MoveIsUp
  <2>5. c = NoId => OpenSells = {}
    <3>1. c = NoId => ActiveRows(StopIds) = {}
      BY Kinds DEF LatestStop, ActiveRows
    <3> QED
      BY <1>1, <3>1 DEF StopInv, Guards, Sold, ActiveRows
  <2> QED
    BY <1>1, <2>1, <2>3, <2>4, <2>5, StopStays DEF deskVars, broker, ledger, StopPcs
<1> QED
  BY <1>3, <1>4

\* A move that is refused is made again at a lower price, or given up.
LEMMA RefusalIsTaken ==
    ASSUME StopInv, Sound', ReplaceIsRefused
    PROVE  StopInv'
<1>1. pc = "replace" /\ UNCHANGED <<deskVars, local>>
  BY DEF ReplaceIsRefused
<1>2. CASE Finish
  BY <1>1, <1>2, StopStays DEF Finish, deskVars, broker, ledger, local, StopPcs
<1>3. CASE ~Finish
  <2>1. /\ work.px >= market /\ work.px = work.want /\ StopImproves(cache, Capped)
        /\ work' = [work EXCEPT !.px = Capped] /\ UNCHANGED pc
    BY <1>3 DEF ReplaceIsRefused, RetryCapped
  <2>2. work \in Work /\ market \in Nat /\ cache.px \in Nat /\ work.px \in Nat
    <3>1. work \in Work /\ market \in 1 .. MaxPrice /\ cache.px \in 0 .. MaxPrice
      BY DEF StopInv, Sound, WorkSound, DeskSound, BrokerSound, CycleSound, Prices
    <3> QED
      BY <3>1, OpenPositionAssumption DEF Work
  <2>3. work'.px = market - 1 /\ UNCHANGED <<work.id, work.read, work.want>>
    BY <2>1, <2>2 DEF Work, Capped
  <2>4. MoveIsUp'
    BY <1>1, <2>1, <2>2, <2>3
       DEF StopInv, StopInHand, MoveIsUp, Made, OwnRows, StopImproves, Capped, deskVars, broker, local
  <2> QED
    BY <1>1, <2>1, <2>4, StopStays DEF deskVars, broker, ledger, local, StopPcs
<1> QED
  BY <1>2, <1>3

\* The entry is filled, so that none is canceled for a stop.
LEMMA EntryIsLeft ==
    ASSUME StopInv, Sound', CancelPartialEntry
    PROVE  StopInv'
<1>1. rows[Entry].st # "partially_filled" /\ pc \in StopPcs
  BY DEF StopInv, DeskIsQuiet, StopInHand
<1>2. pc = "entry_before_stop" /\ pc' = "submit_stop" /\ UNCHANGED <<broker, ledger, resize, local, work>>
  BY <1>1 DEF CancelPartialEntry, AfterEntry, BeforeStop, BeforeExit, StopPcs
<1>3. OpenSells = {} /\ cache.qty > 0
  BY <1>2 DEF StopInv, StopInHand, NothingLeft
<1> QED
  BY <1>2, <1>3, StopStays DEF broker, ledger, local, StopPcs

\* What cannot be: nothing is queued or doubled, no call is lost, no exit is
\* given and the entry is filled.
LEMMA StopHasNo ==
    ASSUME StopInv, OnlyStopUpdates
    PROVE  /\ ~DispatchRow /\ ~Fault /\ ~Resync /\ ~SavePendingStop /\ ~SaveResync /\ ~SaveCanceledEntry
           /\ ~Exit /\ ~CancelStaleExit /\ ~ReadStops /\ ~CancelStop /\ ~GiveUpExit /\ ~Reverify
           /\ ~ReserveExit /\ ~SubmitExit /\ ~SaveFailedExit /\ ~SaveExit
           /\ ~ResizeStop /\ ~SaveResized /\ ~EntryFills /\ ~Crash
<1>1. pc \in StopPcs
  BY DEF StopInv, StopInHand
<1>2. /\ ~Resync /\ ~SavePendingStop /\ ~SaveResync /\ ~SaveCanceledEntry
      /\ ~CancelStaleExit /\ ~ReadStops /\ ~CancelStop /\ ~GiveUpExit
      /\ ~ReserveExit /\ ~SubmitExit /\ ~SaveFailedExit /\ ~SaveExit
  BY <1>1 DEF StopPcs, Resync, SavePendingStop, SaveResync, SaveCanceledEntry, CancelStaleExit,
              ReadStops, CancelStop, GiveUpExit, ReserveExit, SubmitExit, SaveFailedExit, SaveExit, Goto
<1>3. ~Reverify
  BY <1>1 DEF StopPcs, Reverify, Goto
<1>4. ~Exit
  BY DEF Exit, OnlyStopUpdates
<1>5. ~Fault /\ ~Crash
  BY DEF Fault, Crash, OnlyStopUpdates, StopInv, Sound, DeskSound, CycleSound
<1>6. ~ResizeStop /\ ~SaveResized /\ ~EntryFills
  BY DEF ResizeStop, SaveResized, EntryFills, IsOpen, StopInv, DeskIsQuiet
<1>7. ~DispatchRow
  BY Ids, Kinds DEF DispatchRow, CancelEntryForStop, Dispatch, StopInv, DeskIsQuiet, OwnRows
<1> QED
  BY <1>2, <1>3, <1>4, <1>5, <1>6, <1>7

\* Without an order to sell none is free of claims: with nothing held there
\* is nothing free.
LEMMA NothingFree ==
    ASSUME StopInv, OpenSells = {}
    PROVE  Free({}) = held /\ held = 0
<1> DEFINE claims(S) == MapThenSumSet(LAMBDA c : bo[c].qty - bo[c].filled, S)
<1>1. held = 0
  BY DEF StopInv, Guards, Sold
<1>2. OpenSells \ {} = {}
  OBVIOUS
<1>3. claims({}) = 0
  BY DEF MapThenSumSet, MapThenFoldSet
<1>4. Free({}) = held - claims(OpenSells \ {})
  BY DEF Free
<1> HIDE DEF claims
<1> QED
  BY <1>1, <1>2, <1>3, <1>4

\* Where no order to sell is open, none is canceled to free shares.
LEMMA NothingBlocks ==
    ASSUME BrokerSound, OpenSells = {}, NEW cs \in SUBSET OpenSells, CancelsBlocking(cs)
    PROVE  UNCHANGED broker
<1> DEFINE S == {Update(c, "canceled", bo[c].filled) : c \in cs}
<1>1. S = {}
  OBVIOUS
<1>2. UNCHANGED <<bo, held, market, replaced>>
  BY DEF CancelsBlocking, Cancels, BrokerSound
<1>3. updates' = updates \o SetToSeq(S) /\ updates \in Seq(TradeUpdate)
  BY DEF CancelsBlocking, BrokerSound
<1> HIDE DEF S
<1>4. SetToSeq(S) = <<>>
  <2>1. Cardinality(S) = 0 /\ 1 .. 0 = {}
    BY <1>1, FS_EmptySet
  <2>2. PICK f \in [1 .. 0 -> {}] : IsInjective(f)
    <3>1. [x \in {} |-> x] \in [1 .. 0 -> {}] /\ IsInjective([x \in {} |-> x])
      BY <2>1 DEF IsInjective
    <3> QED
      BY <3>1
  <2>3. SetToSeq(S) \in [1 .. 0 -> {}]
    BY <1>1, <2>1, <2>2 DEF SetToSeq
  <2> QED
    BY <2>1, <2>3
<1>5. updates' = updates
  BY <1>3, <1>4
<1> QED
  BY <1>2, <1>5 DEF broker

\* A stop is submitted only where the position is gone: there are no shares
\* for it.
LEMMA NoStopIsSubmitted ==
    ASSUME StopInv, OnlyStopUpdates, Sound', SubmitStop
    PROVE  StopInv'
<1>1. pc = "submit_stop" /\ OpenSells = {} /\ cache.qty > 0 /\ UNCHANGED <<ledger, resize, local>>
  BY DEF SubmitStop, StopInv, StopInHand, NothingLeft
<1>2. bo[CycleStop(bar)].st = "none"
  <2>1. bar \in 1 .. MaxBar /\ replaced \in 0 .. MaxReplaced
    BY DEF StopInv, Sound, CycleSound, DeskSound, BrokerSound
  <2> QED
    BY <2>1, MadeStops DEF StopInv, DeskIsQuiet, OnlyMade
<1>3. ~(cache.qty <= Free({}))
  <2>1. cache.qty \in 0 .. Shares /\ Shares \in Nat
    BY OpenPositionAssumption DEF StopInv, Sound, CycleSound
  <2> QED
    BY <1>1, <2>1, NothingFree
<1>4. ~IsOpen(Entry) /\ ~Fault
  BY StopHasNo DEF StopInv, DeskIsQuiet, IsOpen
<1>5. SharesFreed /\ Finish
  BY <1>1, <1>2, <1>3, <1>4, FreedAll DEF SubmitStop, Places, Accepts
<1>6. UNCHANGED broker
  BY <1>1, <1>5, NothingBlocks DEF SharesFreed, StopInv, Sound, DeskSound
<1> QED
  BY <1>1, <1>5, <1>6, StopStays DEF Finish, broker, ledger, local, StopPcs

\* The recovery leaves a row its order, and records nothing anew.
LEMMA OwnRowReconciled ==
    ASSUME StopInv, NEW r \in OrderIds
    PROVE  /\ Reconciled(r).st # "none" => /\ Reconciled(r).bid = r
                                           /\ Reconciled(r).st \notin {"pending_submit", "submitting"}
           /\ rows[r].st = "none" /\ bo[r].st = "none" => Reconciled(r).st = "none"
           /\ r = Entry => Reconciled(r).st = "filled"
<1> DEFINE new == Saved(rows[r], Row(IF bo[r].filled > 0 THEN "partially_filled" ELSE "accepted",
                                     bo[r].qty, bo[r].px, r))
<1>1. /\ rows[r] \in OrderRow /\ bo[r] \in BrokerOrder
      /\ rows[r].st # "none" => rows[r].bid = r /\ rows[r].st \notin {"pending_submit", "submitting"}
      /\ IsActive(rows[r]) => rows[r].st # "none"
      /\ r # NoId /\ rows[Entry].st = "filled" /\ bo[Entry].st = "filled" /\ ~IsActive(rows[Entry])
  BY Kinds DEF StopInv, Sound, DeskSound, LedgerSound, GoodRows, BrokerSound, DeskIsQuiet, OwnRows,
               IsActive, ActiveStatus
<1>2. new.bid = r /\ new.st \in {"accepted", "partially_filled"}
  BY DEF Saved, Row
<1>3. CASE IsOpen(r)
  <2>1. Reconciled(r) = new
    BY <1>3 DEF Reconciled
  <2> HIDE DEF new
  <2> QED
    BY <1>1, <1>2, <1>3, <2>1 DEF IsOpen
<1>4. CASE ~IsOpen(r) /\ rows[r].st = "none"
  <2>1. Reconciled(r) = rows[r]
    BY <1>1, <1>4 DEF Reconciled
  <2> QED
    BY <1>1, <1>4, <2>1
<1>5. CASE ~IsOpen(r) /\ rows[r].st # "none"
  <2>1. \/ bo[r].filled > 0
           /\ Reconciled(r) = [rows[r] EXCEPT !.st = bo[r].st, !.filled = bo[r].filled, !.bid = r]
        \/ IsActive(rows[r]) /\ Reconciled(r) = [rows[r] EXCEPT !.st = "reconciled_missing"]
        \/ Reconciled(r) = rows[r]
    <3>1. bo[r].filled \in Nat
      BY <1>1, OpenPositionAssumption DEF BrokerOrder
    <3>2. (IF rows[r].bid = NoId THEN r ELSE rows[r].bid) = r /\ bo[r].st # "open"
      BY <1>1, <1>5 DEF IsOpen
    <3>3. CASE bo[r].filled > 0
      <4>1. bo[r].filled # 0
        BY <3>1, <3>3
      <4> QED
        BY <1>5, <3>2, <3>3, <4>1 DEF Reconciled
    <3>4. CASE bo[r].filled = 0 /\ IsActive(rows[r])
      <4>1. ~(bo[r].filled > 0) /\ rows[r].st # "submitting" /\ rows[r].bid # NoId
        BY <1>1, <3>1, <3>4
      <4> QED
        BY <1>5, <3>2, <3>4, <4>1 DEF Reconciled
    <3>5. CASE bo[r].filled = 0 /\ ~IsActive(rows[r])
      BY <1>1, <1>5, <3>2, <3>5 DEF Reconciled
    <3> QED
      BY <3>1, <3>3, <3>4, <3>5
  <2>2. bo[r].st \notin {"pending_submit", "submitting"}
    BY <1>1 DEF BrokerOrder
  <2> QED
    BY <1>1, <1>5, <2>1, <2>2 DEF OrderRow
<1> QED
  BY <1>3, <1>4, <1>5

\* So the recovery keeps the stop known.
LEMMA StopIsRecovered ==
    ASSUME StopInv, Sound', Recover
    PROVE  StopInv'
<1>1. /\ pc' = "intents" /\ cache' = NotRead /\ UNCHANGED <<broker, resize>>
      /\ pos' = (IF held = 0 THEN NoPosition ELSE [qty |-> held, px |-> StopPrice])
      /\ rows' = WithCover([r \in OrderIds |-> Reconciled(r)])
      /\ pc = "recover"
  BY DEF Recover, Goto, Reconcile
<1>2. rows' = [r \in OrderIds |-> Reconciled(r)]
  <2>1. ~(held > 0 /\ OpenSells = {})
    <3>1. Sold \/ \E c \in StopIds : OpenSells = {c}
      BY DEF StopInv, Guards
    <3>2. Sold => ~(held > 0)
      BY DEF Sold
    <3> QED
      BY <3>1, <3>2
  <2> QED
    <3>1. PICK rs : rs = [r \in OrderIds |-> Reconciled(r)]
      OBVIOUS
    <3>2. rs = [rs EXCEPT ![RecoveryExit] = rs[RecoveryExit], ![RecoveryStop] = rs[RecoveryStop]]
      BY <3>1
    <3>3. rows' = [rs EXCEPT ![RecoveryExit] = rs[RecoveryExit], ![RecoveryStop] = rs[RecoveryStop]]
      BY <1>1, <2>1, <3>1 DEF WithCover
    <3> QED
      BY <3>1, <3>2, <3>3
<1>3. UNCHANGED <<bo, held, replaced, updates>> /\ OpenSells' = OpenSells
  BY <1>1 DEF broker, OpenSells, IsOpen
<1>4. DeskIsQuiet'
  <2>1. OwnRows(rows') /\ rows'[Entry].st = "filled"
    BY <1>2, OwnRowReconciled, Kinds DEF OwnRows
  <2>2. OnlyMade'
    BY <1>2, <1>3, OwnRowReconciled, Kinds DEF OnlyMade, Made, StopInv, DeskIsQuiet
  <2> QED
    BY <1>1, <1>3, <2>1, <2>2 DEF StopInv, DeskIsQuiet, UpdatesAgree
<1>5. StopInHand'
  BY <1>1 DEF StopInHand, StopPcs
<1>6. ASSUME NEW c \in StopIds, Guards(c) PROVE Guards(c)'
  <2>1. IsOpen(c) /\ c \in SellIds
    BY <1>6 DEF Guards, OpenSells
  <2>2. IsActive(rows'[c])
    BY <2>1, RecoverIsSound, Recover DEF StopInv
  <2>3. bo[c].filled = 0 => Known(c)'
    <3> SUFFICES ASSUME bo[c].filled = 0 PROVE Known(c)'
      OBVIOUS
    <3>1. Known(c) /\ held = Shares /\ pos.qty = Shares /\ Shares > 0
      BY <1>6, OpenPositionAssumption DEF Guards, Known
    <3>2. pos' = [qty |-> Shares, px |-> pos.px]
      BY <1>1, <3>1, OpenPositionAssumption DEF StopPrice
    <3> QED
      BY <1>1, <1>3, <3>1, <3>2 DEF Known, NotRead
  <2> QED
    BY <1>1, <1>3, <1>6, <2>2, <2>3 DEF Guards
<1> QED
  BY <1>3, <1>4, <1>5, <1>6 DEF StopInv, Sold

\* The broker takes the move: the replacement is the stop from then on, at
\* a higher price.
LEMMA StopIsMoved ==
    ASSUME StopInv, Sound', StopIsReplaced
    PROVE  /\ StopInv'
           /\ \A c \in StopIds : IsOpen(c) => bo'[Replacement(replaced')].px >= bo[c].px
<1>a. PICK c : c = work.id
  OBVIOUS
<1>b. PICK m : m = replaced'
  OBVIOUS
<1>c. PICK n : n = Replacement(m)
  OBVIOUS
<1> DEFINE o == [NoOrder EXCEPT !.st = "open", !.qty = bo[c].qty, !.px = work.px]
           p == [bo[c] EXCEPT !.st = "replaced"]
<1>1. /\ pc = "replace" /\ pc' = "save_stop" /\ Replaces(Target, bo[Target].qty, work.px)
      /\ work' = [work EXCEPT !.ans = n] /\ UNCHANGED <<rows, pos, resize, cache>>
  BY <1>b, <1>c DEF StopIsReplaced, Goto, ledger, local
<1>2. MoveIsUp /\ DeskIsQuiet
  BY <1>1 DEF StopInv, StopInHand
<1>3. replaced \in 0 .. MaxReplaced /\ bo \in [OrderIds -> BrokerOrder] /\ updates \in Seq(TradeUpdate)
      /\ work \in Work /\ FilledIsPlaced
  BY DEF StopInv, Sound, DeskSound, BrokerSound, WorkSound
<1>4. c \in Made /\ c \in StopIds /\ c \in SellIds /\ c \in OrderIds /\ Target = c
  BY <1>a, <1>2, <1>3, MadeStops, Kinds DEF MoveIsUp, OwnRows, Target
<1>5. /\ IsOpen(c) /\ bo[c].filled = 0 /\ replaced < MaxReplaced /\ m = replaced + 1
      /\ bo' = [bo EXCEPT ![c] = p, ![n] = o] /\ updates' = Append(updates, Update(c, "replaced", 0))
      /\ UNCHANGED held
  BY <1>1, <1>4, <1>b, <1>c DEF Replaces, CanReplace
<1>6. /\ n \notin Made /\ n # Entry /\ n \in StopIds /\ n \in SellIds /\ n \in OrderIds /\ n # c
      /\ Made' = Made \cup {n} /\ c # Entry
  <2>1. Made' = {Stop} \cup {Replacement(i) : i \in 1 .. replaced + 1}
    BY <1>5, <1>b DEF Made
  <2>2. m \in 1 .. MaxReplaced
    BY <1>3, <1>5, OpenPositionAssumption
  <2>3. n \in StopIds
    BY <2>2, <1>c, Ids
  <2> QED
    BY <1>3, <1>4, <1>5, <1>c, <2>1, <2>3, MadeStops, Kinds
<1>7. bo[n].st = "none" /\ bo[n].filled = 0 /\ rows[n].st = "none"
  <2>1. bo[n].st = "none" /\ rows[n].st = "none"
    BY <1>2, <1>6 DEF DeskIsQuiet, OnlyMade
  <2>2. bo[n].filled \in Nat
    BY <1>3, <1>6, OpenPositionAssumption DEF BrokerOrder
  <2> QED
    BY <1>3, <1>6, <2>1, <2>2 DEF FilledIsPlaced
<1>8. /\ o.st = "open" /\ o.qty = bo[c].qty /\ o.px = work.px /\ o.filled = 0
      /\ p.st = "replaced" /\ p.filled = 0
  <2>1. bo[c] \in BrokerOrder
    BY <1>3, <1>4
  <2> QED
    BY <1>5, <2>1 DEF NoOrder, BrokerOrder
<1>9. Guards(c) /\ OpenSells = {c}
  BY <1>4, <1>5 DEF StopInv, Sold, Guards, OpenSells
<1>10. work'.ans = n /\ UNCHANGED <<work.id, work.px, work.want, work.read>>
  BY <1>1, <1>3 DEF Work
<1> HIDE DEF o, p
<1>11. bo'[n] = o /\ bo'[c] = p /\ \A x \in OrderIds \ {c, n} : bo'[x] = bo[x]
  BY <1>3, <1>4, <1>5, <1>6
<1>12. /\ \A x \in SellIds : bo'[x].filled = bo[x].filled
       /\ OpenSells' = {n}
  <2>1. bo[c].filled = 0 /\ bo[n].filled = 0 /\ p.filled = 0 /\ o.filled = 0
    BY <1>5, <1>7, <1>8
  <2>2. \A x \in SellIds : bo'[x].filled = bo[x].filled
    BY <1>11, <2>1, Kinds
  <2>3. \A x \in SellIds : bo'[x].st = "open" <=> x = n
    <3>1. \A x \in SellIds \ {c} : bo[x].st # "open"
      BY <1>9 DEF OpenSells, IsOpen
    <3> QED
      BY <1>6, <1>8, <1>11, <3>1, Kinds
  <2> QED
    BY <1>6, <2>2, <2>3 DEF OpenSells, IsOpen
<1>13. UpdatesAgree'
  <2> SUFFICES ASSUME NEW i \in 1 .. Len(updates')
               PROVE  /\ updates'[i].id \in SellIds
                      /\ updates'[i].filled <= bo'[updates'[i].id].filled
                      /\ updates'[i].st # "open" => bo'[updates'[i].id].st \notin {"open", "none"}
    BY DEF UpdatesAgree
  <2>1. CASE i \in 1 .. Len(updates)
    <3>1. updates'[i] = updates[i]
      BY <1>3, <1>5, <2>1
    <3>2. /\ updates[i].id \in SellIds /\ updates[i].filled <= bo[updates[i].id].filled
          /\ updates[i].st # "open" => bo[updates[i].id].st \notin {"open", "none"}
      BY <1>2, <2>1 DEF DeskIsQuiet, UpdatesAgree
    <3>3. updates[i].st # "open" => updates[i].id \in OrderIds \ {c, n}
      BY <1>5, <1>7, <3>2, Kinds DEF IsOpen
    <3> QED
      BY <1>11, <1>12, <3>1, <3>2, <3>3
  <2>2. CASE i = Len(updates) + 1
    <3>1. updates'[i] = Update(c, "replaced", 0)
      BY <1>3, <1>5, <2>2
    <3> QED
      BY <1>4, <1>8, <1>11, <3>1 DEF Update
  <2> QED
    BY <1>3, <1>5, <2>1, <2>2
<1>14. DeskIsQuiet'
  <2>1. bo'[Entry].st = "filled" /\ rows'[Entry].st = "filled" /\ OwnRows(rows')
    BY <1>1, <1>2, <1>6, <1>11, Kinds DEF DeskIsQuiet
  <2>2. OnlyMade'
    BY <1>1, <1>2, <1>4, <1>6, <1>11, Kinds DEF DeskIsQuiet, OnlyMade
  <2> QED
    BY <1>1, <1>2, <1>13, <2>1, <2>2 DEF DeskIsQuiet
<1>15. StopInHand'
  <2>1. MoveIsUp'
    BY <1>1, <1>2, <1>6, <1>10 DEF MoveIsUp, OwnRows
  <2>2. MoveIsRecorded'
    <3>1. replaced' > 0 /\ work'.ans = Replacement(replaced') /\ rows'[work'.ans].st = "none"
      BY <1>1, <1>3, <1>5, <1>7, <1>10, <1>b, <1>c
    <3>2. bo'[work'.id].st = "replaced"
      BY <1>8, <1>10, <1>11, <1>a
    <3> QED
      BY <3>1, <3>2 DEF MoveIsRecorded
  <2> QED
    BY <1>1, <2>1, <2>2 DEF StopInHand, StopPcs
<1>16. Known(c) /\ bo[c].px <= cache.px
  BY <1>1, <1>2, <1>5, <1>9 DEF Guards, Known, MoveIsUp
<1>17. Guards(n)'
  <2>1. Known(n)'
    BY <1>1, <1>8, <1>10, <1>11, <1>16 DEF Known
  <2>2. \A d \in SellIds \ {n} : bo'[d].filled = 0
    BY <1>5, <1>9, <1>12 DEF Guards
  <2>3. held' = Shares - bo'[n].filled /\ held' > 0 /\ bo'[n].qty = Shares /\ pos'.qty > 0
    <3>1. bo[c].qty = Shares /\ held = Shares - bo[c].filled /\ bo[c].filled = 0 /\ pos.qty = Shares
      BY <1>5, <1>9, <1>16 DEF Guards, Known
    <3>2. bo'[n].filled = 0 /\ bo'[n].qty = Shares
      BY <1>8, <1>11, <3>1
    <3> QED
      BY <1>1, <1>5, <3>1, <3>2, OpenPositionAssumption
  <2> QED
    BY <1>1, <1>10, <1>12, <2>1, <2>2, <2>3 DEF Guards
<1>18. StopInv'
  BY <1>6, <1>14, <1>15, <1>17 DEF StopInv
<1>19. bo'[n].px >= bo[c].px
  <2>1. bo[c].px \in Nat /\ cache.px \in Nat /\ work.px \in Nat
    <3>1. bo[c] \in BrokerOrder /\ cache.px \in 0 .. MaxPrice
      BY <1>3, <1>4 DEF StopInv, Sound, CycleSound
    <3> QED
      BY <1>3, <3>1, OpenPositionAssumption DEF BrokerOrder, Work
  <2> QED
    BY <1>2, <1>8, <1>11, <1>16, <2>1 DEF MoveIsUp
<1>20. \A x \in StopIds : IsOpen(x) => x = c
  BY <1>9, Kinds DEF OpenSells
<1> QED
  BY <1>18, <1>19, <1>20, <1>b, <1>c

\* The move is recorded: row, position and cycle have the price that the
\* broker took, and the row of the stop before it is done with.
LEMMA StopIsSaved ==
    ASSUME StopInv, Sound', SaveStop
    PROVE  StopInv' /\ (pos.qty = 0 => pos' = pos)
<1>a. PICK n : n = work.ans
  OBVIOUS
<1>b. PICK d : d = work.id
  OBVIOUS
<1>1. pc = "save_stop" /\ pc' = "intents" /\ UNCHANGED <<bo, held, replaced, updates, resize>>
  BY DEF SaveStop, Finish, broker
<1>2. DeskIsQuiet /\ MoveIsUp /\ MoveIsRecorded
  BY <1>1 DEF StopInv, StopInHand
<1>3. replaced \in 0 .. MaxReplaced /\ rows \in [OrderIds -> OrderRow] /\ pos \in Position /\ work \in Work
      /\ cache \in [qty : 0 .. Shares, px : 0 .. MaxPrice, read : BOOLEAN]
      /\ work.read \in [OrderIds -> OrderRow]
  BY DEF StopInv, Sound, DeskSound, BrokerSound, LedgerSound, GoodRows, WorkSound, CycleSound
<1>4. OpenSells' = OpenSells /\ Made' = Made
  BY <1>1 DEF OpenSells, IsOpen, Made
<1>5. StopInHand'
  BY <1>1 DEF StopInHand, StopPcs
<1>6. CASE pos.qty = 0
  <2>1. UNCHANGED <<rows, pos, cache>>
    BY <1>6 DEF SaveStop, ledger
  <2>2. Sold
    BY <1>1, <1>6 DEF StopInv, Guards
  <2> QED
    BY <1>1, <1>2, <1>4, <1>5, <2>1, <2>2
       DEF StopInv, Sold, DeskIsQuiet, OwnRows, OnlyMade, UpdatesAgree
<1>7. CASE pos.qty # 0
  <2> DEFINE new == Saved(rows[n], Row("accepted", work.read[d].qty, work.px, n))
             old == Saved(rows[d], [work.read[d] EXCEPT !.st = "replaced"])
  <2>1. /\ n \in Made /\ d \in Made /\ n \in SellIds /\ d \in SellIds /\ d # NoId
        /\ Made \subseteq StopIds /\ n # Entry /\ d # Entry /\ n \in OrderIds /\ d \in OrderIds
    <3>1. Made \subseteq StopIds /\ d \in Made
      BY <1>2, <1>3, <1>b, MadeStops DEF MoveIsUp
    <3>2. n \in Made
      <4>1. replaced \in 1 .. replaced
        BY <1>2, <1>3, OpenPositionAssumption DEF MoveIsRecorded
      <4> QED
        BY <1>2, <1>a, <4>1 DEF MoveIsRecorded, Made
    <3> QED
      BY <3>1, <3>2, Kinds
  <2>2. /\ pos' = [qty |-> cache.qty, px |-> work.px] /\ cache' = [cache EXCEPT !.px = work.want]
        /\ rows' = [c \in OrderIds |-> IF c = n THEN new ELSE IF c = d THEN old ELSE rows[c]]
    <3>1. pos' = [qty |-> cache.qty, px |-> work.px] /\ cache' = [cache EXCEPT !.px = work.want]
      BY <1>7 DEF SaveStop, SavePosition, RememberStop
    <3>2. rows' = [c \in OrderIds |->
                     CASE c = n -> new [] c = d /\ c # n -> old [] OTHER -> rows[c]]
      BY <1>7, <1>a, <1>b, <2>1 DEF SaveStop, OldRow
    <3> QED
      BY <3>1, <3>2
  <2>3. new.st = "accepted" /\ new.bid = n /\ old.st = "replaced" /\ old.bid = d
    <3>1. work.read[d] \in OrderRow /\ work.read[d].bid = d
      BY <1>2, <1>3, <1>b, <2>1 DEF MoveIsUp, OwnRows
    <3> QED
      BY <3>1 DEF Saved, Row, OrderRow
  <2> HIDE DEF new, old
  <2>4. rows'[n] = new /\ (d # n => rows'[d] = old) /\ \A c \in OrderIds \ {n, d} : rows'[c] = rows[c]
    BY <2>1, <2>2
  <2>5. OwnRows(rows') /\ rows'[Entry].st = "filled"
    BY <1>2, <2>1, <2>3, <2>4, Kinds DEF DeskIsQuiet, OwnRows
  <2>6. OnlyMade'
    BY <1>1, <1>2, <1>4, <2>1, <2>4, Kinds DEF DeskIsQuiet, OnlyMade
  <2>7. DeskIsQuiet'
    BY <1>1, <1>2, <2>5, <2>6 DEF DeskIsQuiet, UpdatesAgree
  <2>8. ASSUME NEW c \in StopIds, Guards(c) PROVE Guards(c)'
    <3>1. c = n /\ IsActive(rows'[c])
      BY <1>1, <1>a, <2>3, <2>4, <2>8 DEF Guards, IsActive, ActiveStatus
    <3>2. bo[c].filled = 0 => Known(c)'
      <4> SUFFICES ASSUME bo[c].filled = 0 PROVE Known(c)'
        OBVIOUS
      <4>1. Known(c)
        BY <2>8 DEF Guards
      <4>2. cache.qty = Shares /\ bo[c].px = work.px
        BY <1>1, <1>2, <4>1 DEF Known, MoveIsUp
      <4>3. pos'.qty = Shares /\ pos'.px = work.px /\ cache'.qty = Shares /\ cache'.px = work.want
        BY <1>3, <2>2, <4>2
      <4>4. work.px <= work.px /\ work.px <= work.want
        BY <1>2, <1>3, OpenPositionAssumption DEF MoveIsUp, Work
      <4> QED
        BY <1>1, <4>2, <4>3, <4>4 DEF Known
    <3> QED
      BY <1>1, <1>4, <2>8, <3>1, <3>2 DEF Guards
  <2> QED
    BY <1>1, <1>4, <1>5, <1>7, <2>7, <2>8 DEF StopInv, Sold
<1> QED
  BY <1>6, <1>7

\* The next update is about the order it names, and agrees with it.
LEMMA UpdateOfOwn ==
    ASSUME StopInv, updates # <<>>, NEW e, e = Head(updates)
    PROVE  /\ e.id \in SellIds /\ RowFor(e) = e.id /\ e.filled <= bo[e.id].filled
           /\ e.st # "open" => bo[e.id].st \notin {"open", "none"}
           /\ e \in TradeUpdate
<1>1. updates \in Seq(TradeUpdate) /\ DeskIsQuiet
  BY DEF StopInv, Sound, DeskSound, BrokerSound
<1>2. 1 \in 1 .. Len(updates) /\ e = updates[1] /\ e \in TradeUpdate
  BY <1>1
<1>3. /\ e.id \in SellIds /\ e.filled <= bo[e.id].filled
      /\ e.st # "open" => bo[e.id].st \notin {"open", "none"}
  BY <1>1, <1>2 DEF DeskIsQuiet, UpdatesAgree
<1>4. {c \in OrderIds : rows[c].st # "none" /\ rows[c].bid = e.id} \subseteq {e.id}
  BY <1>1 DEF DeskIsQuiet, OwnRows
<1>5. RowFor(e) = e.id
  <2>1. CASE rows[e.id].st # "none"
    BY <2>1 DEF RowFor
  <2>2. CASE rows[e.id].st = "none"
    <3>1. {c \in OrderIds : rows[c].st # "none" /\ rows[c].bid = e.id} = {}
      BY <1>4, <2>2
    <3> QED
      BY <3>1 DEF RowFor
  <2> QED
    BY <2>1, <2>2
<1> QED
  BY <1>2, <1>3, <1>5

\* Taking it leaves the others in agreement.
LEMMA UpdatesStillAgree ==
    ASSUME StopInv, updates # <<>>, updates' = Tail(updates), UNCHANGED bo
    PROVE  UpdatesAgree'
<1>1. updates \in Seq(TradeUpdate) /\ UpdatesAgree
  BY DEF StopInv, Sound, DeskSound, BrokerSound, DeskIsQuiet
<1>2. \A i \in 1 .. Len(updates') : i + 1 \in 1 .. Len(updates) /\ updates'[i] = updates[i + 1]
  BY <1>1
<1> QED
  BY <1>1, <1>2 DEF UpdatesAgree

\* The stream thread writes what was: the stop that is open stays active,
\* and without a fill of it the position stays as it is.
LEMMA StopIsTold ==
    ASSUME StopInv, Sound', ApplyUpdate, UNCHANGED <<pc, local, work>>
    PROVE  StopInv'
<1>1. PICK e : e = Head(updates)
  OBVIOUS
<1>2. updates # <<>> /\ updates' = Tail(updates) /\ UNCHANGED <<bo, held, replaced, cache, pc, work>>
  BY DEF ApplyUpdate, local
<1>3. PICK r : r = e.id
  OBVIOUS
<1>4. /\ r \in SellIds /\ RowFor(e) = r /\ e.filled <= bo[r].filled /\ e \in TradeUpdate
      /\ e.st # "open" => bo[r].st \notin {"open", "none"}
  BY <1>1, <1>2, <1>3, UpdateOfOwn
<1>5. /\ DeskIsQuiet /\ rows \in [OrderIds -> OrderRow] /\ bo \in [OrderIds -> BrokerOrder]
      /\ r \in OrderIds /\ r # Entry /\ rows[r] \in OrderRow /\ bo[r] \in BrokerOrder
  BY <1>4, Kinds DEF StopInv, Sound, DeskSound, LedgerSound, GoodRows, BrokerSound
<1> DEFINE new == [rows[r] EXCEPT !.st = RowStatusOf(e), !.bid = r,
                                  !.filled = IF e.filled > @ THEN e.filled ELSE @]
<1>6. /\ UNCHANGED resize
      /\ \/ UNCHANGED <<rows, pos>>
         \/ /\ rows[r].st \notin {"none", "filled"} /\ rows' = [rows EXCEPT ![r] = new]
            /\ pos' = pos \/ e.filled > rows[r].filled
  <2>1. \/ UNCHANGED <<ledger, resize>>
        \/ /\ rows[r].st \notin {"none", "filled"} /\ UNCHANGED resize
           /\ rows' = [rows EXCEPT ![r].st = RowStatusOf(e), ![r].bid = e.id,
                                   ![r].filled = IF e.filled > @ THEN e.filled ELSE @]
           /\ pos' = IF e.st \in {"filled", "open"} /\ e.filled > rows[r].filled
                     THEN AfterSell(e, r) ELSE pos
    BY <1>1, <1>4, <1>5 DEF ApplyUpdate
  <2>2. [rows EXCEPT ![r].st = RowStatusOf(e), ![r].bid = e.id,
                     ![r].filled = IF e.filled > @ THEN e.filled ELSE @] = [rows EXCEPT ![r] = new]
    BY <1>3, <1>5
  <2> HIDE DEF new
  <2> QED
    BY <2>1, <2>2 DEF ledger
<1>7. /\ new.bid = r /\ new.st = RowStatusOf(e)
      /\ RowStatusOf(e) \in {"partially_filled", "filled", "canceled", "replaced", "expired"}
      /\ e.st = "open" => RowStatusOf(e) = "partially_filled"
  BY <1>4, <1>5 DEF OrderRow, RowStatusOf, TradeUpdate
<1> HIDE DEF new
<1>8. /\ OpenSells' = OpenSells /\ Made' = Made /\ UpdatesAgree'
  BY <1>2, UpdatesStillAgree DEF OpenSells, IsOpen, Made
<1>9. CASE UNCHANGED <<rows, pos>>
  <2>1. DeskIsQuiet'
    BY <1>2, <1>5, <1>6, <1>8, <1>9 DEF DeskIsQuiet, OwnRows, OnlyMade
  <2>2. StopInHand'
    BY <1>2, <1>8, <1>9 DEF StopInv, StopInHand, MoveIsUp, MoveIsRecorded, NothingLeft, OwnRows
  <2>3. ASSUME NEW c \in StopIds, Guards(c) PROVE Guards(c)'
    BY <1>2, <1>8, <1>9, <2>3 DEF Guards, Known, IsActive
  <2> QED
    BY <1>2, <1>8, <2>1, <2>2, <2>3 DEF StopInv, Sold
<1>10. CASE ~UNCHANGED <<rows, pos>>
  <2>1. /\ rows[r].st \notin {"none", "filled"} /\ rows' = [rows EXCEPT ![r] = new]
        /\ pos' = pos \/ e.filled > rows[r].filled
    BY <1>6, <1>10
  <2>2. rows'[r] = new /\ \A c \in OrderIds \ {r} : rows'[c] = rows[c]
    BY <1>5, <2>1
  <2>3. OwnRows(rows') /\ rows'[Entry].st = "filled"
    BY <1>5, <1>7, <2>2, Kinds DEF DeskIsQuiet, OwnRows
  <2>4. OnlyMade'
    BY <1>2, <1>4, <1>5, <1>8, <2>1, <2>2, Kinds DEF DeskIsQuiet, OnlyMade
  <2>5. DeskIsQuiet'
    BY <1>2, <1>5, <1>6, <1>8, <2>3, <2>4 DEF DeskIsQuiet
  <2>6. pc = "save_stop" => work.ans # r /\ rows'[work.ans] = rows[work.ans]
    <3>1. pc = "save_stop" => rows[work.ans].st = "none" /\ work.ans \in StopIds
      BY DEF StopInv, StopInHand, MoveIsRecorded, Sound, WorkSound
    <3> QED
      BY <2>1, <2>2, <3>1, Kinds
  <2>7. StopInHand'
    BY <1>2, <1>8, <2>6 DEF StopInv, StopInHand, MoveIsUp, MoveIsRecorded, NothingLeft, OwnRows
  <2>8. ASSUME NEW c \in StopIds, Guards(c) PROVE Guards(c)'
    <3>1. c \in SellIds /\ bo[c].st = "open"
      BY <2>8 DEF Guards, OpenSells, IsOpen
    <3>2. IsActive(rows[c]) => IsActive(rows'[c])
      <4>1. CASE c = r
        <5>1. RowStatusOf(e) = "partially_filled"
          BY <1>4, <1>7, <3>1, <4>1
        <5> QED
          BY <1>7, <2>2, <4>1, <5>1 DEF IsActive, ActiveStatus
      <4>2. CASE c # r
        BY <2>2, <3>1, <4>2, Kinds
      <4> QED
        BY <4>1, <4>2
    <3>3. r # c \/ bo[c].filled = 0 => pos' = pos
      <4> SUFFICES ASSUME r # c \/ bo[c].filled = 0 PROVE pos' = pos
        OBVIOUS
      <4>1. bo[r].filled = 0
        BY <1>4, <2>8 DEF Guards
      <4>2. e.filled \in 0 .. Shares /\ rows[r].filled \in 0 .. Shares
        BY <1>4, <1>5 DEF TradeUpdate, OrderRow
      <4>3. ~(e.filled > rows[r].filled)
        BY <1>4, <4>1, <4>2, OpenPositionAssumption
      <4> QED
        BY <2>1, <4>3
    <3>4. bo[c].filled = 0 => Known(c)'
      BY <1>2, <2>8, <3>3 DEF Guards, Known
    <3>5. IF pc = "save_stop" THEN c = work.ans /\ pos'.qty > 0 ELSE IsActive(rows'[c])
      BY <2>6, <2>8, <3>2, <3>3 DEF Guards
    <3> QED
      BY <1>2, <1>8, <2>8, <3>4, <3>5 DEF Guards
  <2> QED
    BY <1>2, <1>8, <2>5, <2>7, <2>8 DEF StopInv, Sold
<1> QED
  BY <1>9, <1>10

\* A fill of the stop leaves it the one stop of what is left, or leaves
\* nothing.
LEMMA StopIsFilled ==
    ASSUME StopInv, Sound', NEW c \in SellIds, SellFills(c), UNCHANGED <<pc, local, work>>
    PROVE  StopInv'
<1>1. Guards(c) /\ OpenSells = {c} /\ c \in StopIds /\ bo[c].st = "open"
  BY DEF StopInv, Sold, Guards, OpenSells, SellFills, IsOpen
<1>2. PICK k \in 1 .. (bo[c].qty - bo[c].filled) : k <= held /\ Fills(c, k) /\ held' = held - k
  BY DEF SellFills
<1>3. UNCHANGED <<replaced, rows, pos, resize, pc, cache, work>>
  BY DEF SellFills, ledger, local
<1>4. /\ DeskIsQuiet /\ bo \in [OrderIds -> BrokerOrder] /\ updates \in Seq(TradeUpdate)
      /\ c \in OrderIds /\ c # Entry /\ bo[c] \in BrokerOrder
  BY Kinds DEF StopInv, Sound, DeskSound, BrokerSound
<1>5. /\ bo[c].filled \in Nat /\ k \in Nat /\ k > 0 /\ Shares \in Nat /\ bo[c].qty = Shares
      /\ bo[c].filled + k <= Shares /\ held = Shares - bo[c].filled
  <2>1. bo[c].filled \in Nat /\ Shares \in Nat /\ bo[c].qty = Shares /\ held = Shares - bo[c].filled
    BY <1>1, <1>4, OpenPositionAssumption DEF BrokerOrder, Guards
  <2> QED
    BY <1>2, <2>1
<1> DEFINE o == [bo[c] EXCEPT !.st = FillStatus(c, k), !.filled = @ + k]
<1>6. /\ o.st = FillStatus(c, k) /\ o.filled = bo[c].filled + k /\ o.qty = bo[c].qty
      /\ FillStatus(c, k) = IF bo[c].filled + k = Shares THEN "filled" ELSE "open"
  BY <1>4, <1>5 DEF BrokerOrder, FillStatus
<1>7. bo' = [bo EXCEPT ![c] = o] /\ updates' = Append(updates, Update(c, FillStatus(c, k), bo[c].filled + k))
  BY <1>2, <1>4 DEF Fills
<1> HIDE DEF o
<1>8. bo'[c] = o /\ \A x \in OrderIds \ {c} : bo'[x] = bo[x]
  BY <1>4, <1>7
<1>9. UpdatesAgree'
  <2> SUFFICES ASSUME NEW i \in 1 .. Len(updates')
               PROVE  /\ updates'[i].id \in SellIds
                      /\ updates'[i].filled <= bo'[updates'[i].id].filled
                      /\ updates'[i].st # "open" => bo'[updates'[i].id].st \notin {"open", "none"}
    BY DEF UpdatesAgree
  <2>1. CASE i \in 1 .. Len(updates)
    <3>1. updates'[i] = updates[i] /\ updates[i] \in TradeUpdate
      BY <1>4, <1>7, <2>1
    <3>2. /\ updates[i].id \in SellIds /\ updates[i].filled <= bo[updates[i].id].filled
          /\ updates[i].st # "open" => bo[updates[i].id].st \notin {"open", "none"}
      BY <1>4, <2>1 DEF DeskIsQuiet, UpdatesAgree
    <3>3. updates[i].filled \in Nat
      BY <3>1, OpenPositionAssumption DEF TradeUpdate
    <3>4. CASE updates[i].id = c
      BY <1>1, <1>5, <1>6, <1>8, <3>1, <3>2, <3>3, <3>4
    <3>5. CASE updates[i].id # c
      BY <1>8, <3>1, <3>2, <3>5, Kinds
    <3> QED
      BY <3>4, <3>5
  <2>2. CASE i = Len(updates) + 1
    <3>1. updates'[i] = Update(c, FillStatus(c, k), bo[c].filled + k)
      BY <1>4, <1>7, <2>2
    <3> QED
      BY <1>5, <1>6, <1>8, <3>1 DEF Update
  <2> QED
    BY <1>4, <1>7, <2>1, <2>2
<1>10. DeskIsQuiet'
  <2>1. bo'[Entry].st = "filled" /\ Made' = Made
    BY <1>3, <1>4, <1>8, Kinds DEF DeskIsQuiet, Made
  <2>2. OnlyMade'
    <3>1. c \in Made
      BY <1>1, <1>4 DEF DeskIsQuiet, OnlyMade
    <3> QED
      BY <1>3, <1>4, <1>8, <2>1, <3>1, Kinds DEF DeskIsQuiet, OnlyMade
  <2> QED
    BY <1>3, <1>4, <1>9, <2>1, <2>2 DEF DeskIsQuiet, OwnRows
<1>11. StopInHand'
  <2>1. pc \in {"replace", "save_stop"} => MoveIsUp'
    BY <1>3 DEF StopInv, StopInHand, MoveIsUp, OwnRows, Made
  <2>2. pc = "save_stop" => MoveIsRecorded'
    <3>1. pc = "save_stop" => MoveIsRecorded /\ work.id \in OrderIds
      <4>1. pc = "save_stop" => work.id \in Made /\ MoveIsRecorded
        BY DEF StopInv, StopInHand, MoveIsUp
      <4> QED
        BY <4>1, MadeStops, Kinds DEF StopInv, Sound, DeskSound, BrokerSound
    <3> QED
      BY <1>1, <1>3, <1>8, <3>1 DEF MoveIsRecorded
  <2>3. pc \notin {"entry_before_stop", "submit_stop"}
    BY <1>1 DEF StopInv, StopInHand, NothingLeft
  <2> QED
    BY <1>3, <2>1, <2>2, <2>3 DEF StopInv, StopInHand
<1>12. CASE bo[c].filled + k = Shares
  <2>1. bo'[c].st = "filled"
    BY <1>6, <1>8, <1>12
  <2>2. OpenSells' = {}
    BY <1>1, <1>8, <2>1, Kinds DEF OpenSells, IsOpen
  <2>3. held' = 0
    BY <1>2, <1>5, <1>12
  <2> QED
    BY <1>10, <1>11, <2>2, <2>3 DEF StopInv, Sold
<1>13. CASE bo[c].filled + k # Shares
  <2>1. /\ bo'[c].st = "open" /\ bo'[c].filled = bo[c].filled + k /\ bo'[c].qty = Shares
    BY <1>5, <1>6, <1>8, <1>13
  <2>2. OpenSells' = {c}
    BY <1>1, <1>8, <2>1, Kinds DEF OpenSells, IsOpen
  <2>3. held' = Shares - bo'[c].filled /\ held' > 0 /\ bo'[c].filled # 0
    BY <1>2, <1>5, <1>13, <2>1
  <2>4. \A d \in SellIds \ {c} : bo'[d].filled = 0
    BY <1>1, <1>8, Kinds DEF Guards
  <2>5. Guards(c)'
    BY <1>1, <1>3, <2>1, <2>2, <2>3, <2>4 DEF Guards, IsActive
  <2> QED
    BY <1>1, <1>10, <1>11, <2>5 DEF StopInv
<1> QED
  BY <1>12, <1>13

\* A step keeps all of it, moves no stop down, and brings no position back.
LEMMA StopGoesOn ==
    ASSUME StopInv, OnlyStopUpdates, [Next]_vars
    PROVE  StopInv' /\ StopStaysUp /\ StepKeepsSold
<1>1. Sound'
  BY NextIsSound DEF StopInv
<1>2. UNCHANGED bo => StopStaysUp
  BY DEF StopStaysUp, IsOpen
<1>3. UNCHANGED pos => StepKeepsSold
  BY DEF StepKeepsSold
<1>4. CASE UNCHANGED vars
  <2>1. UNCHANGED <<bo, held, replaced, updates, rows, pos, resize, pc, work, cache>>
    BY <1>4 DEF vars, deskVars, broker, ledger, local
  <2> QED
    BY <1>1, <1>2, <1>3, <2>1, StopFrame
<1>5. CASE ReadPositions \/ ReadBrokerPositions \/ EndIntents \/ EndDispatch \/ NewBar
  <2>1. UNCHANGED <<bo, pos>>
    BY <1>5 DEF ReadPositions, ReadBrokerPositions, EndIntents, EndDispatch, NewBar, deskVars, broker, ledger
  <2> QED
    BY <1>1, <1>2, <1>3, <1>5, <2>1, StopIsRead
<1>6. CASE UpdateStop \/ ReplaceIsRefused
  <2>1. UNCHANGED <<bo, pos>>
    BY <1>6 DEF UpdateStop, ReplaceIsRefused, deskVars, broker, ledger
  <2> QED
    BY <1>1, <1>2, <1>3, <1>6, <2>1, UpdateBegins, RefusalIsTaken
<1>7. CASE Recover
  <2>1. UNCHANGED bo /\ pc = "recover"
    BY <1>7 DEF Recover, Goto, Reconcile, broker
  <2> QED
    BY <1>1, <1>2, <1>7, <2>1, StopIsRecovered DEF StepKeepsSold
<1>8. CASE StopIsReplaced
  <2>1. UNCHANGED pos
    BY <1>8 DEF StopIsReplaced, ledger
  <2> QED
    BY <1>1, <1>3, <1>8, <2>1, StopIsMoved DEF StopStaysUp
<1>9. CASE SubmitStop
  <2>1. UNCHANGED pos /\ pc = "submit_stop"
    BY <1>9 DEF SubmitStop, ledger
  <2>2. StopStaysUp
    BY <2>1 DEF StopStaysUp
  <2> QED
    BY <1>1, <1>3, <1>9, <2>1, <2>2, NoStopIsSubmitted
<1>10. CASE CancelPartialEntry
  <2>1. UNCHANGED pos /\ pc \in {"entry_before_stop", "entry_before_exit"}
    BY <1>10 DEF CancelPartialEntry, ledger, BeforeStop, BeforeExit
  <2>2. StopStaysUp
    BY <2>1 DEF StopStaysUp
  <2> QED
    BY <1>1, <1>3, <1>10, <2>1, <2>2, EntryIsLeft
<1>11. CASE SaveStop
  <2>1. pos.qty = 0 => pos' = pos
    BY <1>1, <1>11, StopIsSaved
  <2>2. UNCHANGED bo
    BY <1>11 DEF SaveStop, broker
  <2> QED
    BY <1>1, <1>2, <1>11, <2>1, <2>2, StopIsSaved DEF StepKeepsSold
<1>12. CASE ApplyUpdate /\ UNCHANGED <<pc, local, work>>
  <2>1. UNCHANGED bo
    BY <1>12 DEF ApplyUpdate
  <2>2. updates' # updates
    <3>1. updates \in Seq(TradeUpdate) /\ updates # <<>> /\ updates' = Tail(updates)
      BY <1>12 DEF ApplyUpdate, StopInv, Sound, DeskSound, BrokerSound
    <3>2. Len(updates) \in Nat /\ Len(updates') = Len(updates) - 1
      BY <3>1
    <3> QED
      BY <3>2
  <2> QED
    BY <1>1, <1>2, <1>12, <2>1, <2>2, StopIsTold DEF StepKeepsSold
<1>13. CASE MarketMoves /\ UNCHANGED <<pc, local, work>>
  <2>1. UNCHANGED <<bo, held, replaced, updates, rows, pos, resize, pc, work, cache>>
    BY <1>13 DEF MarketMoves, ledger, local
  <2> QED
    BY <1>1, <1>2, <1>3, <2>1, StopFrame
<1>14. ASSUME NEW c \in SellIds, SellFills(c), UNCHANGED <<pc, local, work>>
       PROVE  StopInv' /\ StopStaysUp /\ StepKeepsSold
  <2>1. UNCHANGED pos /\ \A x \in StopIds : bo'[x].st = bo[x].st \/ bo'[x].st \in {"filled", "open"}
    <3>1. bo \in [OrderIds -> BrokerOrder] /\ c \in OrderIds /\ bo[c] \in BrokerOrder
      BY Kinds DEF StopInv, Sound, DeskSound, BrokerSound
    <3>2. PICK k : bo' = [bo EXCEPT ![c].st = FillStatus(c, k), ![c].filled = @ + k]
      BY <1>14 DEF SellFills, Fills
    <3>3. bo'[c].st = FillStatus(c, k) /\ \A x \in OrderIds \ {c} : bo'[x] = bo[x]
      BY <3>1, <3>2 DEF BrokerOrder
    <3> QED
      BY <1>14, <3>3, Kinds DEF SellFills, ledger, FillStatus
  <2>2. StopStaysUp
    BY <2>1 DEF StopStaysUp, IsOpen
  <2> QED
    BY <1>1, <1>3, <1>14, <2>1, <2>2, StopIsFilled
<1>15. ~ReplaceIsLost
  BY StopHasNo DEF ReplaceIsLost
<1> QED
  BY <1>4, <1>5, <1>6, <1>7, <1>8, <1>9, <1>10, <1>11, <1>12, <1>13, <1>14, <1>15, StopHasNo
     DEF Next, Supervisor, Stream, Market

\* It begins with the whole position and its stop.
LEMMA StopBegins == ASSUME OnlyStopUpdates, Init PROVE StopInv
<1>1. Protected /\ replaced = 0 /\ resize = NoResize /\ pc = "recover" /\ cache = NotRead
  BY DEF Init, OnlyStopUpdates
<1>2. /\ bo = [c \in OrderIds |->
                 CASE c = Entry -> [OpenOrder(Shares, Shares, 0) EXCEPT !.st = "filled"]
                   [] c = Stop -> OpenOrder(Shares, 0, InitialStop)
                   [] OTHER -> NoOrder]
      /\ rows = [c \in OrderIds |->
                   CASE c = Entry -> [RestingRow(Shares, 0, Entry) EXCEPT !.st = "filled",
                                                                         !.filled = Shares]
                     [] c = Stop -> RestingRow(Shares, InitialStop, Stop)
                     [] OTHER -> NoRow]
      /\ held = Shares /\ pos = [qty |-> Shares, px |-> InitialStop] /\ updates = <<>>
  BY <1>1 DEF Protected
<1>3. Entry # Stop /\ Entry \in OrderIds /\ Stop \in OrderIds /\ Stop \in StopIds /\ Stop \in SellIds /\ Entry \notin SellIds
  BY Ids, Kinds
<1>4. /\ bo[Entry].st = "filled" /\ bo[Stop] = OpenOrder(Shares, 0, InitialStop)
      /\ rows[Entry].st = "filled" /\ rows[Entry].bid = Entry /\ rows[Stop] = RestingRow(Shares, InitialStop, Stop)
      /\ \A c \in OrderIds \ {Entry, Stop} : bo[c] = NoOrder /\ rows[c] = NoRow
  BY <1>2, <1>3 DEF OpenOrder, RestingRow, Row
<1>5. /\ bo[Stop].st = "open" /\ bo[Stop].qty = Shares /\ bo[Stop].filled = 0 /\ bo[Stop].px = InitialStop
      /\ rows[Stop].st = "accepted" /\ rows[Stop].bid = Stop
      /\ NoOrder.st = "none" /\ NoOrder.filled = 0 /\ NoRow.st = "none"
  BY <1>4 DEF OpenOrder, RestingRow, Row, NoOrder, NoRow
<1>6. DeskIsQuiet
  <2>1. OwnRows(rows)
    BY <1>3, <1>4, <1>5 DEF OwnRows
  <2>2. OnlyMade
    BY <1>3, <1>4, <1>5, Kinds DEF OnlyMade, Made
  <2>3. UpdatesAgree
    BY <1>2 DEF UpdatesAgree
  <2> QED
    BY <1>1, <1>4, <2>1, <2>2, <2>3, Nothing DEF DeskIsQuiet
<1>7. StopInHand
  BY <1>1 DEF StopInHand, StopPcs
<1>8. Guards(Stop)
  <2>1. OpenSells = {Stop} /\ \A d \in SellIds \ {Stop} : bo[d].filled = 0
    BY <1>3, <1>4, <1>5, Kinds DEF OpenSells, IsOpen
  <2>2. held = Shares - bo[Stop].filled /\ held > 0
    BY <1>2, <1>5, OpenPositionAssumption
  <2>3. Known(Stop)
    BY <1>1, <1>2, <1>5 DEF Known, NotRead, InitialStop
  <2> QED
    BY <1>1, <1>5, <2>1, <2>2, <2>3 DEF Guards, IsActive, ActiveStatus
<1> QED
  BY <1>3, <1>6, <1>7, <1>8, InitIsSound DEF StopInv

\* "The stop can only rise": where the position has its stop and only stops
\* are moved, no replacement puts one below it, whatever the market, the
\* fills and the refusals, and however old the cycle's prices.
THEOREM StopsRise == ASSUME OnlyStopUpdates PROVE Spec => StopOnlyRises
<1>1. Init => StopInv
  BY StopBegins
<1>2. StopInv /\ [Next]_vars => StopInv'
  BY StopGoesOn
<1>3. StopInv /\ [Next]_vars => [StopStaysUp]_vars
  BY StopGoesOn
<1> QED
  BY <1>1, <1>2, <1>3, PTL DEF Spec, StopOnlyRises

\* There a position that is sold is not saved again by the record of a move
\* that was under way: only the recovery opens a position.
THEOREM SoldIsNotSavedAgain == ASSUME OnlyStopUpdates PROVE Spec => [][StepKeepsSold]_vars
<1>1. Init => StopInv
  BY StopBegins
<1>2. StopInv /\ [Next]_vars => StopInv'
  BY StopGoesOn
<1>3. StopInv /\ [Next]_vars => [StepKeepsSold]_vars
  BY StopGoesOn
<1> QED
  BY <1>1, <1>2, <1>3, PTL DEF Spec
=============================================================================
