--------------------------- MODULE OrderLifecycle ---------------------------
(***************************************************************************)
(* A client-side order driven by the execution reports of a broker over a  *)
(* transport that may lose, repeat and reorder them.  The client applies   *)
(* each report with the state machine of fsm.py; broker and transport are  *)
(* the environment.                                                        *)
(***************************************************************************)
EXTENDS OrderStateMachine

CONSTANTS
  Orders,    \* client order ids
  Quantity,  \* lots of every order
  MaxDups    \* bound: deliveries that leave a copy on the wire

ASSUME QuantityAssumption == Quantity \in Nat \ {0}

ASSUME MaxDupsAssumption == MaxDups \in Nat

VARIABLES
  order,   \* the client's Order objects
  broker,  \* the broker's true state, filled lots and fees of each order
  wire,    \* reports sent and not yet (or to be again) delivered
  dups     \* deliveries so far that left a copy on the wire

vars == <<order, broker, wire, dups>>

NewOrder(i) ==
  [clOrdId |-> i, state |-> "PENDING_NEW", quantity |-> Quantity,
   filled |-> 0, quote |-> 0, fees |-> 0]

Init ==
  /\ order = [i \in Orders |-> NewOrder(i)]
  /\ broker = [i \in Orders |-> [state |-> "PENDING_NEW", cum |-> 0, fees |-> 0]]
  /\ wire = {}
  /\ dups = 0

-----------------------------------------------------------------------------
(* The broker: each change of an order's true state sends one report.  A   *)
(* lot costs one unit and carries a fee of one.                            *)
Send(i, s, q) ==
  LET cum == broker[i].cum + q
  IN  /\ broker' = [broker EXCEPT ![i] = [state |-> s, cum |-> cum,
                                          fees |-> @.fees + q]]
      /\ wire' = wire \cup
           {[clOrdId |-> i, execType |-> s, cum |-> cum, quote |-> cum, fee |-> q]}
      /\ UNCHANGED <<order, dups>>

BrokerLive(i) == broker[i].state \in {"NEW", "PARTIALLY_FILLED"}

BrokerAck(i) == broker[i].state = "PENDING_NEW" /\ Send(i, "NEW", 0)

BrokerReject(i) == broker[i].state = "PENDING_NEW" /\ Send(i, "REJECTED", 0)

BrokerFill(i, q) ==
  /\ BrokerLive(i)
  /\ broker[i].cum + q <= Quantity
  /\ Send(i, IF broker[i].cum + q = Quantity THEN "FILLED" ELSE "PARTIALLY_FILLED", q)

BrokerCancel(i) == BrokerLive(i) /\ Send(i, "CANCELLED", 0)

BrokerExpire(i) ==
  /\ BrokerLive(i) \/ broker[i].state = "PENDING_NEW"
  /\ Send(i, "EXPIRED", 0)

-----------------------------------------------------------------------------
(* The client.                                                             *)
Update(i, o) == order' = [order EXCEPT ![i] = o]

RequestCancel(i) ==
  /\ CanTransition(order[i].state, "PENDING_CANCEL")
  /\ Update(i, Transition(order[i], "PENDING_CANCEL"))
  /\ UNCHANGED <<broker, wire, dups>>

Deliver(r) ==
  /\ ReportAccepted(order[r.clOrdId], r)
  /\ Update(r.clOrdId, ApplyExecutionReport(order[r.clOrdId], r))
  /\ wire' = wire \ {r}
  /\ UNCHANGED <<broker, dups>>

Redeliver(r) ==
  /\ dups < MaxDups
  /\ ReportAccepted(order[r.clOrdId], r)
  /\ Update(r.clOrdId, ApplyExecutionReport(order[r.clOrdId], r))
  /\ dups' = dups + 1
  /\ UNCHANGED <<broker, wire>>

(* apply_execution_report raises; nobody tries again with that report.     *)
Refuse(r) ==
  /\ ~ReportAccepted(order[r.clOrdId], r)
  /\ Update(r.clOrdId, ApplyExecutionReport(order[r.clOrdId], r))
  /\ wire' = wire \ {r}
  /\ UNCHANGED <<broker, dups>>

Lose(r) ==
  /\ wire' = wire \ {r}
  /\ UNCHANGED <<order, broker, dups>>

-----------------------------------------------------------------------------
BrokerNext ==
  \E i \in Orders :
    \/ BrokerAck(i) \/ BrokerReject(i) \/ BrokerCancel(i) \/ BrokerExpire(i)
    \/ \E q \in 1..Quantity : BrokerFill(i, q)

(* No report is lost, and a refused one comes again.                       *)
ReliableNext ==
  \/ BrokerNext
  \/ \E i \in Orders : RequestCancel(i)
  \/ \E r \in wire : Deliver(r) \/ Redeliver(r)

Next ==
  \/ ReliableNext
  \/ \E r \in wire : Refuse(r) \/ Lose(r)

Spec == Init /\ [][Next]_vars

Reports ==
  [clOrdId : Orders, execType : OrderStates, cum : 0..Quantity,
   quote : 0..Quantity, fee : 0..Quantity]

DeliverKind(i, s) ==
  \E r \in wire : r.clOrdId = i /\ r.execType = s /\ Deliver(r)

(* At-least-once transport: a report that stays acceptable is eventually   *)
(* delivered.                                                              *)
TransportFairness ==
  \A i \in Orders, s \in OrderStates : WF_vars(DeliverKind(i, s))

ReliableSpec == Init /\ [][ReliableNext]_vars /\ TransportFairness

-----------------------------------------------------------------------------
(* Types; fees may be counted once per delivery.                           *)
TypeOK ==
  /\ order \in [Orders -> [clOrdId : Orders, state : OrderStates,
                           quantity : {Quantity}, filled : 0..Quantity,
                           quote : 0..Quantity, fees : Nat]]
  /\ broker \in [Orders -> [state : OrderStates, cum : 0..Quantity, fees : Nat]]
  /\ wire \subseteq Reports
  /\ dups \in 0..MaxDups

(* The client never believes more was filled than the broker executed,     *)
(* whatever is lost, repeated or reordered (INV-GW-003).                   *)
NeverAheadOfBroker ==
  \A i \in Orders : order[i].filled <= broker[i].cum

(* An order the client considers terminal ended the same way, and with the *)
(* same filled quantity, at the broker: apply_execution_report locks the   *)
(* order on the first terminal report, and later fills cannot be missing.  *)
TerminalAgreement ==
  \A i \in Orders :
    IsTerminal(order[i]) => /\ order[i].state = broker[i].state
                            /\ order[i].filled = broker[i].cum

(* The client's order follows the broker's: never ahead of it while it     *)
(* lives, and equal to it once it is terminal.                             *)
ClientFollowsBroker ==
  /\ TypeOK
  /\ NeverAheadOfBroker
  /\ TerminalAgreement

(* The cumulative quantity of an order never decreases and a terminal order*)
(* is never touched again, by any report in any order (INV-GW-001, the     *)
(* monotonicity check and terminal lockout of apply_execution_report).     *)
MonotoneUntilTerminal ==
  [][\A i \in Orders :
       /\ order'[i].filled >= order[i].filled
       /\ IsTerminal(order[i]) => order'[i] = order[i]]_vars

(* Once the broker is done with an order, the client's order ends too if   *)
(* the transport is reliable; the one exception is an order that expires   *)
(* while its cancel is pending, which the transition matrix refuses.       *)
Converges ==
  \A i \in Orders :
    (broker[i].state \in TerminalStates)
      ~> \/ IsTerminal(order[i])
         \/ order[i].state = "PENDING_CANCEL" /\ broker[i].state = "EXPIRED"

(* "fees_paid: Cumulative transaction fees incurred" (models.py): the fees *)
(* booked on an order never exceed what the broker charged.                *)
FeesWithinIncurred ==
  \A i \in Orders : order[i].fees <= broker[i].fees
=============================================================================
