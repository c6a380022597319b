---------------------------- MODULE PaperGateway ----------------------------
(***************************************************************************)
(* PaperExecutionGateway (execution/gateway.py): a simulated broker whose  *)
(* coroutines run on one event loop.  submit_order, cancel_order, connect  *)
(* and disconnect check their preconditions, sleep for the configured      *)
(* latency, and then act; everything between two awaits is one step, and   *)
(* set_market_price never awaits.                                          *)
(*                                                                         *)
(* Every Order object a client builds is an attempt; two attempts with the *)
(* same client order id are a retry.  Prices are whole ticks; a rate of    *)
(* one basis point is 1/Unit (Unit is 10000 in the code), so that a price  *)
(* with slippage is kept in 1/Unit ticks and money in 1/Unit^2.            *)
(***************************************************************************)
EXTENDS OrderStateMachine, IdempotencyRouter, SequencesExt

CONSTANTS
  Attempts,        \* the Order objects that clients may submit
  OrderOf,         \* attempt -> [clOrdId, symbol, side, type, quantity, price]
  Symbols,
  PaperPrices,          \* the market prices that may be set
  InitialBalance,  \* in 1/Unit^2
  Unit, FeeBps, SlippageBps,
  None

ASSUME RatesAssumption ==
  /\ Unit \in Nat \ {0} /\ FeeBps \in 0..Unit /\ SlippageBps \in 0..Unit
  /\ InitialBalance \in Nat
  /\ PaperPrices \subseteq Nat \ {0} /\ None \notin PaperPrices

(* What the constructor of Order lets through.                             *)
ASSUME AttemptsAssumption ==
  /\ IsFiniteSet(Attempts)
  /\ \A a \in Attempts :
       /\ OrderOf[a].symbol \in Symbols
       /\ OrderOf[a].side \in {"BUY", "SELL"} /\ OrderOf[a].type \in {"MARKET", "LIMIT"}
       /\ OrderOf[a].quantity \in Nat \ {0}
       /\ OrderOf[a].type = "LIMIT" => OrderOf[a].price \in Nat \ {0}

VARIABLES
  connected,   \* _is_connected
  linkOps,     \* the connect and disconnect calls in their sleep
  submitting,  \* attempts whose submit_order is in its sleep
  cancelling,  \* ids whose cancel_order is in its sleep
  object,      \* the mutable part of each Order object
  registry,    \* _orders, in the insertion order of the dict
  router,      \* the IdempotencyRouter
  price,       \* _market_prices, None where never set
  cash,        \* _cash
  position     \* _positions

link    == <<connected, linkOps>>
paperAccount == <<cash, position>>
paperVars == <<link, submitting, cancelling, object, registry, router, price, paperAccount>>

Id(a) == OrderOf[a].clOrdId
Ids   == {Id(a) : a \in Attempts}

NewOrder(a) ==
  [clOrdId |-> Id(a), state |-> "PENDING_NEW", quantity |-> OrderOf[a].quantity,
   filled |-> 0, quote |-> 0, fees |-> 0]

PaperInit ==
  /\ connected = FALSE
  /\ linkOps = {}
  /\ submitting = {}
  /\ cancelling = {}
  /\ object = [a \in Attempts |-> NewOrder(a)]
  /\ registry = <<>>
  /\ router = EmptyRouter
  /\ price = [s \in Symbols |-> None]
  /\ cash = InitialBalance
  /\ position = [s \in Symbols |-> 0]

-----------------------------------------------------------------------------
(* The dict of orders by id: an existing key keeps its place.              *)
Registered(a) == \E k \in DOMAIN registry : registry[k] = a

Store(reg, a) ==
  IF \E k \in DOMAIN reg : Id(reg[k]) = Id(a)
  THEN [k \in DOMAIN reg |-> IF Id(reg[k]) = Id(a) THEN a ELSE reg[k]]
  ELSE Append(reg, a)

Pop(reg, id) ==
  IF \E k \in DOMAIN reg : Id(reg[k]) = id
  THEN RemoveAt(reg, CHOOSE k \in DOMAIN reg : Id(reg[k]) = id)
  ELSE reg

IsBuy(a)    == OrderOf[a].side = "BUY"
IsMarket(a) == OrderOf[a].type = "MARKET"
Market(a)   == price[OrderOf[a].symbol]

(* Does the limit of the order cross the price p?                          *)
Crosses(a, p) ==
  IF IsBuy(a) THEN OrderOf[a].price >= p ELSE OrderOf[a].price <= p

Marketable(a) ==
  \/ IsMarket(a)
  \/ ~IsMarket(a) /\ Market(a) # None /\ Crosses(a, Market(a))

Limit(a) == OrderOf[a].price * Unit

(* The price of an immediate fill: slipped against the order, but never    *)
(* beyond its limit.                                                       *)
FillPrice(a) ==
  LET slipped == Market(a) * (IF IsBuy(a) THEN Unit + SlippageBps ELSE Unit - SlippageBps)
  IN  CASE IsMarket(a) -> slipped
        [] ~IsMarket(a) /\ IsBuy(a) -> Min({Limit(a), slipped})
        [] OTHER -> Max({Limit(a), slipped})

(* Faulty variant: the estimate forgets the fee.                           *)
RequiredPowerNoFee(a) ==
  LET estimate == IF Marketable(a) THEN FillPrice(a) ELSE Limit(a)
  IN  estimate * OrderOf[a].quantity * Unit

(* The margin check's estimate for a BUY.                                  *)
RequiredPower(a) ==
  LET estimate == IF Marketable(a) THEN FillPrice(a) ELSE Limit(a)
  IN  estimate * OrderOf[a].quantity * (Unit + FeeBps)

FillReport(a, p) ==
  LET notional == p * OrderOf[a].quantity
  IN  [clOrdId |-> Id(a), execType |-> "FILLED", cum |-> OrderOf[a].quantity,
       quote |-> notional, fee |-> notional * FeeBps]

(* What a complete fill at price p adds to the cash and to the position.   *)
CashFlow(a, p) ==
  LET notional == p * OrderOf[a].quantity
  IN  IF IsBuy(a) THEN -(notional * (Unit + FeeBps)) ELSE notional * (Unit - FeeBps)

SignedQuantity(a) == IF IsBuy(a) THEN OrderOf[a].quantity ELSE -OrderOf[a].quantity

-----------------------------------------------------------------------------
(* connect and disconnect: sleep, then set the flag.                       *)
CallLink(op) ==
  /\ op \notin linkOps
  /\ linkOps' = linkOps \cup {op}
  /\ UNCHANGED <<connected, submitting, cancelling, object, registry, router, price,
                 paperAccount>>

LandLink(op) ==
  /\ op \in linkOps
  /\ linkOps' = linkOps \ {op}
  /\ connected' = (op = "connect")
  /\ UNCHANGED <<submitting, cancelling, object, registry, router, price, paperAccount>>

-----------------------------------------------------------------------------
(* submit_order up to the sleep.                                           *)
CallSubmit(a) ==
  /\ connected
  /\ a \notin submitting
  /\ object[a].state = "PENDING_NEW"
  /\ submitting' = submitting \cup {a}
  /\ UNCHANGED <<link, cancelling, object, registry, router, price, paperAccount>>

Landing(a) ==
  /\ a \in submitting
  /\ submitting' = submitting \ {a}
  /\ UNCHANGED <<link, cancelling, price>>

IsRefused(a) == IsDuplicate(router, Id(a))

(* No price for a market BUY, or too little cash for a BUY.                *)
MarginFails(a) ==
  /\ IsBuy(a)
  /\ \/ IsMarket(a) /\ Market(a) = None
     \/ ~(IsMarket(a) /\ Market(a) = None) /\ RequiredPower(a) > cash

SubmitDuplicate(a) ==
  /\ Landing(a)
  /\ IsRefused(a)
  /\ UNCHANGED <<object, registry, router, paperAccount>>

(* The id is registered and closed at once: it stays burnt in the history. *)
Rollback(a) ==
  /\ router' = Deregister(Register(router, Id(a)), Id(a))
  /\ registry' = Pop(Store(registry, a), Id(a))
  /\ UNCHANGED paperAccount

SubmitMarginFailure(a) ==
  /\ Landing(a)
  /\ ~IsRefused(a)
  /\ MarginFails(a)
  /\ Rollback(a)
  /\ UNCHANGED object

(* A market SELL without a price is rolled back after its acknowledgement. *)
SubmitUnpricedSell(a) ==
  /\ Landing(a)
  /\ ~IsRefused(a)
  /\ ~MarginFails(a)
  /\ IsMarket(a) /\ Market(a) = None
  /\ Rollback(a)
  /\ object' = [object EXCEPT ![a] = Transition(@, "NEW")]

SubmitFill(a) ==
  /\ Landing(a)
  /\ ~IsRefused(a)
  /\ ~MarginFails(a)
  /\ Market(a) # None /\ Marketable(a)
  /\ object' = [object EXCEPT ![a] =
                  ApplyExecutionReport(Transition(@, "NEW"), FillReport(a, FillPrice(a)))]
  /\ cash' = cash + CashFlow(a, FillPrice(a))
  /\ position' = [position EXCEPT ![OrderOf[a].symbol] = @ + SignedQuantity(a)]
  /\ registry' = Store(registry, a)
  /\ router' = Deregister(Register(router, Id(a)), Id(a))

SubmitRest(a) ==
  /\ Landing(a)
  /\ ~IsRefused(a)
  /\ ~MarginFails(a)
  /\ ~Marketable(a)
  /\ object' = [object EXCEPT ![a] = Transition(@, "NEW")]
  /\ registry' = Store(registry, a)
  /\ router' = Register(router, Id(a))
  /\ UNCHANGED paperAccount

-----------------------------------------------------------------------------
(* cancel_order up to the sleep, and after it.                             *)
CallCancel(id) ==
  /\ connected
  /\ id \notin cancelling
  /\ cancelling' = cancelling \cup {id}
  /\ UNCHANGED <<link, submitting, object, registry, router, price, paperAccount>>

CancelReport(a) ==
  [clOrdId |-> Id(a), execType |-> "CANCELLED", cum |-> object[a].filled,
   quote |-> object[a].quote, fee |-> 0]

Cancellable(id) ==
  {a \in Attempts : Id(a) = id /\ Registered(a) /\ ~IsTerminal(object[a])}

LandCancel(id) ==
  /\ id \in cancelling
  /\ cancelling' = cancelling \ {id}
  /\ \E a \in Cancellable(id) :
       object' = [object EXCEPT ![a] = ApplyExecutionReport(@, CancelReport(a))]
  /\ router' = Deregister(router, id)
  /\ UNCHANGED <<link, submitting, registry, price, paperAccount>>

(* Unknown id, or an order that is terminal by now: the call raises.       *)
CancelTooLate(id) ==
  /\ id \in cancelling
  /\ cancelling' = cancelling \ {id}
  /\ Cancellable(id) = {}
  /\ UNCHANGED <<link, submitting, object, registry, router, price, paperAccount>>

-----------------------------------------------------------------------------
(* The resting orders a tick fills.                                        *)
TickMatched(s, p) ==
  {a \in Attempts : /\ Registered(a) /\ OrderOf[a].symbol = s
                    /\ IsActive(object[a]) /\ ~IsMarket(a) /\ Crosses(a, p)}

(* set_market_price: every matched order fills completely at the tick, in  *)
(* the order of the registry, with no check of the cash or the connection. *)
SetMarketPrice(s, p) ==
  LET m    == TickMatched(s, p)
      tick == p * Unit
  IN  /\ price' = [price EXCEPT ![s] = p]
      /\ object' = [a \in Attempts |->
           IF a \in m THEN ApplyExecutionReport(object[a], FillReport(a, tick))
           ELSE object[a]]
      /\ cash' = cash + SumFunctionOnSet([a \in Attempts |-> CashFlow(a, tick)], m)
      /\ position' = [position EXCEPT ![s] =
           @ + SumFunctionOnSet([a \in Attempts |-> SignedQuantity(a)], m)]
      /\ router' = FoldLeft(LAMBDA rt, a : IF a \in m THEN Deregister(rt, Id(a)) ELSE rt,
                            router, registry)
      /\ UNCHANGED <<link, submitting, cancelling, registry>>

-----------------------------------------------------------------------------
PaperNext ==
  \/ \E op \in {"connect", "disconnect"} : CallLink(op) \/ LandLink(op)
  \/ \E a \in Attempts :
       \/ CallSubmit(a)
       \/ SubmitDuplicate(a) \/ SubmitMarginFailure(a) \/ SubmitUnpricedSell(a)
       \/ SubmitFill(a) \/ SubmitRest(a)
  \/ \E id \in Ids : CallCancel(id) \/ LandCancel(id) \/ CancelTooLate(id)
  \/ \E s \in Symbols, p \in PaperPrices : SetMarketPrice(s, p)

PaperSpec == PaperInit /\ [][PaperNext]_paperVars

-----------------------------------------------------------------------------
PaperTypeOK ==
  /\ connected \in BOOLEAN
  /\ linkOps \subseteq {"connect", "disconnect"}
  /\ submitting \subseteq Attempts
  /\ cancelling \subseteq Ids
  /\ \A a \in Attempts : /\ object[a].state \in OrderStates
                         /\ object[a].filled \in 0..OrderOf[a].quantity
  /\ registry \in Seq(Attempts)
  /\ router.active \subseteq Ids /\ router.hist \subseteq Ids
  /\ price \in [Symbols -> PaperPrices \cup {None}]
  /\ cash \in Int
  /\ position \in [Symbols -> Int]

(* The three books about live orders agree at every await: the ids active  *)
(* in the router are the ids whose registered order is live, and every     *)
(* limit order that was acknowledged and is not terminal is registered, so *)
(* that get_open_orders and cancel_order can find it.                      *)
RegistryCoherent ==
  /\ router.active = {Id(a) : a \in {b \in Attempts : Registered(b) /\ IsActive(object[b])}}
  /\ \A a \in Attempts :
       object[a].state = "NEW" /\ ~IsMarket(a) => Registered(a)

FilledAttempts == {a \in Attempts : object[a].state = "FILLED"}

(* What the order records say its fills brought in or cost.                *)
Proceeds(a) ==
  (IF IsBuy(a) THEN -object[a].quote ELSE object[a].quote) * Unit - object[a].fees

(* INV-GW-003: cash and positions are explained, to the last unit, by the  *)
(* orders that are FILLED: no fill is booked twice, lost, or booked for an *)
(* order that then ends differently.                                       *)
BooksBalance ==
  /\ cash = InitialBalance + SumFunctionOnSet([a \in Attempts |-> Proceeds(a)], FilledAttempts)
  /\ \A s \in Symbols :
       position[s] = SumFunctionOnSet([a \in Attempts |-> SignedQuantity(a)],
                                      {a \in FilledAttempts : OrderOf[a].symbol = s})

(* The gateway took this attempt on: it rests, or it was filled or         *)
(* cancelled there.                                                        *)
TakenOn(a) ==
  \/ object[a].state \in {"FILLED", "CANCELLED"}
  \/ object[a].state = "NEW" /\ Registered(a)

(* INV-GW-002: as long as no id has been forgotten, a retry never executes *)
(* beside the original, even when both sleep in submit_order at once.      *)
NoDoubleExecution ==
  \A a, b \in Attempts : TakenOn(a) /\ TakenOn(b) /\ Id(a) = Id(b) => a = b

(* A BUY never pays more, and a SELL never receives less, than its limit,  *)
(* whether it fills on submission, after slippage, or from the book.       *)
LimitsRespected ==
  \A a \in FilledAttempts :
    ~IsMarket(a) => IF IsBuy(a) THEN object[a].quote <= Limit(a) * OrderOf[a].quantity
                    ELSE object[a].quote >= Limit(a) * OrderOf[a].quantity

(* An order that fills on submission is paid for in full: the estimate of  *)
(* the margin check is what the fill then costs.  (Resting orders reserve  *)
(* nothing, so a tick may overdraw the account.)                           *)
ImmediateFillsFunded ==
  [][submitting' # submitting /\ cash' < cash => cash' >= 0]_paperVars

(* The paper account is sound at every await: its books about live orders  *)
(* agree, cash and positions are those of the filled orders, fills respect *)
(* their limits, and what fills on submission is paid for.                 *)
PaperAccountSound ==
  /\ []PaperTypeOK
  /\ []RegistryCoherent
  /\ []BooksBalance
  /\ []LimitsRespected
  /\ ImmediateFillsFunded
=============================================================================
