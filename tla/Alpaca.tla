------------------------------- MODULE Alpaca -------------------------------
(***************************************************************************)
(* The Alpaca account as the trading runtime uses it (external to the      *)
(* repository): the orders it holds, the shares of the one symbol, whether *)
(* the market trades at or below the protective stop price, and the FIFO   *)
(* websocket of trade updates.  Every order is identified by the client    *)
(* order id under which it was accepted; `stop.replaced' is the order the  *)
(* broker creates, under an id of its own, when the protective stop is     *)
(* replaced.                                                               *)
(***************************************************************************)
EXTENDS Integers, Sequences, FiniteSetsExt

CONSTANTS
    EntryQty,    \* shares asked for by the entry order
    MaxFaults,   \* broker calls that fail in transit, over a behaviour
    MaxLapses    \* day orders the broker expires by itself, over a behaviour

ASSUME EntryQtyAssumption == EntryQty \in Nat \ {0}
ASSUME BrokerBoundsAssumption == MaxFaults \in Nat /\ MaxLapses \in Nat

VARIABLES
    bo,          \* the broker's orders
    held,        \* shares of the symbol in the account
    low,         \* TRUE while the market is at or below the stop price
    updates,     \* trade updates not yet handled, oldest first
    streamUp,    \* TRUE while the websocket is connected
    faults,      \* faults so far (bounded by MaxFaults)
    lapses       \* lapses so far (bounded by MaxLapses)

account == <<bo, held, low>>
channel == <<updates, streamUp>>
brokerVars == <<account, channel, faults, lapses>>

Entry == "entry"
Stop == "stop"
Replacement == "stop.replaced"
RecoveryStop == "recovery.stop"
RecoveryExit == "recovery.exit"
RejectionExit == "rejection.exit"

StopIds == {Stop, Replacement, RecoveryStop}
ExitIds == {RecoveryExit, RejectionExit}
SellIds == StopIds \cup ExitIds
OrderIds == {Entry} \cup SellIds

BrokerStatus ==
    {"none", "accepted", "partially_filled", "filled", "canceled", "expired", "replaced"}
BrokerOrder == [st : BrokerStatus, qty : Nat, filled : Nat]
TradeUpdate == [id : OrderIds, st : BrokerStatus \ {"none"}, filled : Nat]

NoBrokerOrder == [st |-> "none", qty |-> 0, filled |-> 0]
IsOpen(o) == o.st \in {"accepted", "partially_filled"}
OpenSells == {c \in SellIds : IsOpen(bo[c])}

\* Shares the open sell orders already claim.
Reserved(except) ==
    MapThenSumSet(LAMBDA c : bo[c].qty - bo[c].filled, OpenSells \ except)

\* The websocket after the updates in `es' were published.
Published(es) == IF streamUp THEN updates \o es ELSE updates

Update(id, st, filled) == [id |-> id, st |-> st, filled |-> filled]

-----------------------------------------------------------------------------
(***************************************************************************)
(* What the broker does by itself.                                         *)
(***************************************************************************)

FillStatus(o, n) == IF o.filled + n = o.qty THEN "filled" ELSE "partially_filled"

AfterFill(c, n) ==
    [bo EXCEPT ![c].st = FillStatus(bo[c], n), ![c].filled = @ + n]

EntryFills ==
    /\ IsOpen(bo[Entry])
    /\ \E n \in 1 .. (bo[Entry].qty - bo[Entry].filled) :
         /\ bo' = AfterFill(Entry, n)
         /\ held' = held + n
         /\ updates' = Published(<<Update(Entry, FillStatus(bo[Entry], n), bo[Entry].filled + n)>>)
    /\ UNCHANGED <<low, streamUp, faults, lapses>>

\* A stop fires only while the market is at or below its price; an exit is a
\* market order and fills at any time.
SellFills(c) ==
    /\ IsOpen(bo[c])
    /\ c \in StopIds => low
    /\ \E n \in 1 .. (bo[c].qty - bo[c].filled) :
         /\ n <= held
         /\ bo' = AfterFill(c, n)
         /\ held' = held - n
         /\ updates' = Published(<<Update(c, FillStatus(bo[c], n), bo[c].filled + n)>>)
    /\ UNCHANGED <<low, streamUp, faults, lapses>>

\* An order that rests at the broker ends there without being canceled by the bot.
OrderLapses(c) ==
    /\ IsOpen(bo[c])
    /\ lapses < MaxLapses
    /\ lapses' = lapses + 1
    /\ bo' = [bo EXCEPT ![c].st = "expired"]
    /\ updates' = Published(<<Update(c, "expired", bo[c].filled)>>)
    /\ UNCHANGED <<held, low, streamUp, faults>>

PriceMoves ==
    /\ low' = ~low
    /\ UNCHANGED <<bo, held, channel, faults, lapses>>

BrokerStep ==
    \/ EntryFills
    \/ \E c \in SellIds : SellFills(c)
    \/ \E c \in {Entry} \cup StopIds : OrderLapses(c)
    \/ PriceMoves

-----------------------------------------------------------------------------
(***************************************************************************)
(* The calls the bot makes.  A refusal changes nothing at the broker.      *)
(***************************************************************************)

IsDuplicate(c) == bo[c].st # "none"
IsWashTrade(c) == c \in SellIds /\ IsOpen(bo[Entry])
IsUncovered(c, q) == c \in SellIds /\ q > held - Reserved({})
IsAboveMarket(c) == c \in StopIds /\ low

Accepts(c, q) ==
    ~IsDuplicate(c) /\ ~IsWashTrade(c) /\ ~IsUncovered(c, q) /\ ~IsAboveMarket(c)

\* submit_order reaches the broker and is accepted.
PlaceOrder(c, q) ==
    /\ Accepts(c, q)
    /\ bo' = [bo EXCEPT ![c] = [st |-> "accepted", qty |-> q, filled |-> 0]]
    /\ updates' = Published(<<Update(c, "accepted", 0)>>)
    /\ UNCHANGED <<held, low, streamUp, lapses>>

\* cancel_order on an open order.
CancelOrder(c) ==
    /\ IsOpen(bo[c])
    /\ bo' = [bo EXCEPT ![c].st = "canceled"]
    /\ updates' = Published(<<Update(c, "canceled", bo[c].filled)>>)
    /\ UNCHANGED <<held, low, streamUp, lapses>>

\* replace_order on the protective stop; one replacement per behaviour.
CanReplace(c, q) ==
    /\ c = Stop
    /\ bo[Stop].st = "accepted"
    /\ bo[Replacement].st = "none"
    /\ q <= held - Reserved({Stop})

ReplaceOrder(c, q) ==
    /\ CanReplace(c, q)
    /\ bo' = [bo EXCEPT ![Stop].st = "replaced",
                        ![Replacement] = [st |-> "accepted", qty |-> q, filled |-> 0]]
    /\ updates' = Published(<<Update(Stop, "replaced", 0), Update(Replacement, "accepted", 0)>>)
    /\ UNCHANGED <<held, low, streamUp, lapses>>

\* A call the network loses, before or after the broker acted on it.
Fault == faults < MaxFaults /\ faults' = faults + 1

BrokerTypeOK ==
    /\ bo \in [OrderIds -> BrokerOrder]
    /\ held \in Nat
    /\ low \in BOOLEAN
    /\ updates \in Seq(TradeUpdate)
    /\ streamUp \in BOOLEAN
    /\ faults \in 0 .. MaxFaults
    /\ lapses \in 0 .. MaxLapses

BrokerInit ==
    /\ bo = [c \in OrderIds |-> NoBrokerOrder]
    /\ held = 0
    /\ low = FALSE
    /\ updates = <<>>
    /\ streamUp = TRUE
    /\ faults = 0
    /\ lapses = 0
=============================================================================
