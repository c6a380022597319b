--------------------------- MODULE AlpacaGateway ---------------------------
(***************************************************************************)
(* AlpacaExecutionGateway (execution/alpaca_gateway.py) and the broker     *)
(* behind its HTTP calls.  Requests and answers travel; either can be      *)
(* lost, which the gateway sees as one and the same network failure.  The  *)
(* broker (external) knows an order by its client id, takes it once and    *)
(* answers at its own pace: a cancel it has acknowledged is pending, and   *)
(* the order can still fill.                                               *)
(***************************************************************************)
EXTENDS Naturals, FiniteSetsExt

CONSTANTS
  AlpacaOrders,     \* cl_ord_ids
  OrderLots,        \* quantity of each order
  MaxSubmits,       \* bound: submit_order calls of an order
  MaxAlpacaFaults   \* bound: lost messages, errors, refusals, outages

ASSUME AlpacaAssumption ==
  OrderLots \in Nat \ {0} /\ MaxSubmits \in Nat /\ MaxAlpacaFaults \in Nat

NoReport == [state |-> "none", cum |-> 0]

VARIABLES
  isConnected,   \* _is_connected with an open client
  posting,    \* submit_order of each order: idle, posted, or its answer
  withdrawing,    \* cancel_order of each order: idle, sent, or its answer
  submits,       \* submit_order calls made of each order
  report,        \* the last thing the caller was told of each order
  metadata,      \* _order_metadata
  status,        \* the broker's status of each order
  filled,        \* the broker's filled quantity
  answer         \* what the last get_open_orders returned; "none" before it

(* History.                                                                *)
VARIABLES
  alpacaFaults,
  overtook,      \* orders whose cancel reached the broker before their submit
  blind          \* orders a submit of which failed without an answer

alpacaHistory == <<alpacaFaults, overtook, blind>>
alpacaVars == <<isConnected, posting, withdrawing, submits, report, metadata, status, filled,
                answer, alpacaHistory>>

Working == {"new", "partially_filled", "pending_cancel"}
MayFail == alpacaFaults < MaxAlpacaFaults
Fails == MayFail /\ alpacaFaults' = alpacaFaults + 1

AlpacaInit ==
  /\ isConnected = FALSE
  /\ posting = [o \in AlpacaOrders |-> "idle"]
  /\ withdrawing = [o \in AlpacaOrders |-> "idle"]
  /\ submits = [o \in AlpacaOrders |-> 0]
  /\ report = [o \in AlpacaOrders |-> NoReport]
  /\ metadata = {}
  /\ status = [o \in AlpacaOrders |-> "none"]
  /\ filled = [o \in AlpacaOrders |-> 0]
  /\ answer = "none"
  /\ alpacaFaults = 0 /\ overtook = {} /\ blind = {}

----------------------------------------------------------------------------
(* connect: the account answers 200, or the gateway is (again) down.       *)
Connect ==
  /\ ~isConnected /\ isConnected' = TRUE
  /\ UNCHANGED <<posting, withdrawing, submits, report, metadata, status, filled, answer,
                 alpacaHistory>>

ConnectFails ==
  /\ Fails /\ isConnected' = FALSE
  /\ UNCHANGED <<posting, withdrawing, submits, report, metadata, status, filled, answer,
                 overtook, blind>>

(* disconnect closes the client: what is under way fails without an answer. *)
Disconnect ==
  /\ isConnected /\ Fails /\ isConnected' = FALSE
  /\ blind' = blind \cup {o \in AlpacaOrders : posting[o] # "idle"}
  /\ posting' = [o \in AlpacaOrders |-> IF posting[o] = "posted" THEN "orphan" ELSE "idle"]
  /\ withdrawing' = [o \in AlpacaOrders |-> IF withdrawing[o] = "sent" THEN "orphan" ELSE "idle"]
  /\ report' = [o \in AlpacaOrders |-> IF posting[o] # "idle"
                                       THEN [state |-> "unknown", cum |-> 0] ELSE report[o]]
  /\ UNCHANGED <<submits, metadata, status, filled, answer, overtook>>

----------------------------------------------------------------------------
(* _map_alpaca_status_to_state *)
StateOf(s) ==
  CASE s = "new" -> "NEW"
    [] s = "partially_filled" -> "PARTIALLY_FILLED"
    [] s = "filled" -> "FILLED"
    [] s \in {"canceled", "pending_cancel"} -> "CANCELLED"
    [] s = "expired" -> "EXPIRED"
    [] s = "rejected" -> "REJECTED"
    [] OTHER -> "NEW"

(* Called once for an order, and again after a call that got no answer.    *)
SubmitPost(o) ==
  /\ isConnected /\ posting[o] = "idle" /\ submits[o] < MaxSubmits
  /\ report[o].state \in {"none", "unknown"}
  /\ posting' = [posting EXCEPT ![o] = "posted"]
  /\ submits' = [submits EXCEPT ![o] = @ + 1]
  /\ UNCHANGED <<isConnected, withdrawing, report, metadata, status, filled, answer,
                 alpacaHistory>>

(* The broker receives the order: it takes one it does not know (201), or  *)
(* refuses it (403, and 422 for an id it knows), or cannot serve it (429). *)
BrokerTakes(o) ==
  /\ posting[o] \in {"posted", "orphan"} /\ status[o] = "none"
  /\ status' = [status EXCEPT ![o] = "new"]
  /\ posting' = [posting EXCEPT ![o] = IF @ = "posted" THEN "201" ELSE "idle"]
  /\ UNCHANGED <<isConnected, withdrawing, submits, report, metadata, filled, answer,
                 alpacaHistory>>

BrokerRefuses(o) ==
  /\ posting[o] \in {"posted", "orphan"}
  /\ \/ status[o] # "none" /\ UNCHANGED alpacaFaults
     \/ status[o] = "none" /\ Fails
  /\ posting' = [posting EXCEPT ![o] = IF @ = "posted" THEN "422" ELSE "idle"]
  /\ UNCHANGED <<isConnected, withdrawing, submits, report, metadata, status, filled, answer,
                 overtook, blind>>

(* The answer arrives: the report has the status and filled_qty the order  *)
(* had when the broker answered or later; a refusal raises.                *)
SubmitAnswered(o) ==
  /\ posting[o] \in {"201", "422"}
  /\ posting' = [posting EXCEPT ![o] = "idle"]
  /\ IF posting[o] = "201"
     THEN /\ report' = [report EXCEPT ![o] = [state |-> StateOf(status[o]), cum |-> filled[o]]]
          /\ metadata' = metadata \cup {o}
     ELSE /\ report' = [report EXCEPT ![o] = [state |-> "REFUSED", cum |-> 0]]
          /\ UNCHANGED metadata
  /\ UNCHANGED <<isConnected, withdrawing, submits, status, filled, answer, alpacaHistory>>

(* A variant: a network failure is reported as a refusal.                  *)
SubmitLostAsRefused(o) ==
  /\ posting[o] \in {"posted", "201", "422"} /\ Fails
  /\ posting' = [posting EXCEPT ![o] = IF @ = "posted" THEN "orphan" ELSE "idle"]
  /\ report' = [report EXCEPT ![o] = [state |-> "REFUSED", cum |-> 0]]
  /\ blind' = blind \cup {o}
  /\ UNCHANGED <<isConnected, withdrawing, submits, metadata, status, filled, answer, overtook>>

(* RequestError: the request or its answer was lost.                       *)
SubmitLost(o) ==
  /\ posting[o] \in {"posted", "201", "422"} /\ Fails
  /\ \/ posting' = [posting EXCEPT ![o] = "idle"]
     \/ posting[o] = "posted" /\ posting' = [posting EXCEPT ![o] = "orphan"]
  /\ report' = [report EXCEPT ![o] = [state |-> "unknown", cum |-> 0]]
  /\ blind' = blind \cup {o}
  /\ UNCHANGED <<isConnected, withdrawing, submits, metadata, status, filled, answer, overtook>>

----------------------------------------------------------------------------
CancelSend(o) ==
  /\ isConnected /\ withdrawing[o] = "idle" /\ submits[o] > 0 /\ report[o].state # "CANCELLED"
  /\ withdrawing' = [withdrawing EXCEPT ![o] = "sent"]
  /\ UNCHANGED <<isConnected, posting, submits, report, metadata, status, filled, answer,
                 alpacaHistory>>

(* 204: the cancel is pending.  404: the broker has no such order (yet).   *)
(* 422: it is already closed.                                              *)
BrokerCancels(o) ==
  /\ withdrawing[o] \in {"sent", "orphan"}
  /\ LET code == IF status[o] = "none" THEN "404" ELSE IF status[o] \in Working THEN "204" ELSE "422"
     IN  /\ withdrawing' = [withdrawing EXCEPT ![o] = IF @ = "sent" THEN code ELSE "idle"]
         /\ status' = [status EXCEPT ![o] = IF code = "204" THEN "pending_cancel" ELSE @]
         /\ overtook' = IF code = "404" THEN overtook \cup {o} ELSE overtook
  /\ UNCHANGED <<isConnected, posting, submits, report, metadata, filled, answer,
                 alpacaFaults, blind>>

(* 404 counts as cancelled, and every quantity of the report is zero.      *)
CancelAnswered(o) ==
  /\ withdrawing[o] \in {"204", "404", "422"}
  /\ withdrawing' = [withdrawing EXCEPT ![o] = "idle"]
  /\ report' = IF withdrawing[o] = "422" THEN report
               ELSE [report EXCEPT ![o] = [state |-> "CANCELLED", cum |-> 0]]
  /\ UNCHANGED <<isConnected, posting, submits, metadata, status, filled, answer,
                 alpacaHistory>>

CancelLost(o) ==
  /\ withdrawing[o] \in {"sent", "204", "404", "422"} /\ Fails
  /\ withdrawing' = [withdrawing EXCEPT ![o] = "idle"]
  /\ UNCHANGED <<isConnected, posting, submits, report, metadata, status, filled, answer,
                 overtook, blind>>

----------------------------------------------------------------------------
(* get_open_orders (get_positions and get_order treat errors alike): any   *)
(* failure is an empty answer.                                             *)
GetOpenOrders ==
  /\ isConnected
  /\ \/ answer' = {o \in AlpacaOrders : status[o] \in Working} /\ UNCHANGED alpacaFaults
     \/ answer' = {} /\ Fails
  /\ UNCHANGED <<isConnected, posting, withdrawing, submits, report, metadata, status,
                 filled, overtook, blind>>

(* The broker, on its own.                                                 *)
BrokerFills(o) ==
  /\ status[o] \in Working
  /\ filled' = [filled EXCEPT ![o] = @ + 1]
  /\ status' = [status EXCEPT ![o] = IF filled[o] + 1 = OrderLots THEN "filled"
                                     ELSE IF @ = "pending_cancel" THEN @ ELSE "partially_filled"]
  /\ UNCHANGED <<isConnected, posting, withdrawing, submits, report, metadata, answer,
                 alpacaHistory>>

BrokerCloses(o) ==
  /\ \/ status[o] = "pending_cancel" /\ status' = [status EXCEPT ![o] = "canceled"]
     \/ status[o] \in Working /\ status' = [status EXCEPT ![o] = "expired"]
  /\ UNCHANGED <<isConnected, posting, withdrawing, submits, report, metadata, filled,
                 answer, alpacaHistory>>

AlpacaNext ==
  \/ Connect \/ ConnectFails \/ Disconnect \/ GetOpenOrders
  \/ \E o \in AlpacaOrders :
       \/ SubmitPost(o) \/ BrokerTakes(o) \/ BrokerRefuses(o) \/ SubmitAnswered(o) \/ SubmitLost(o)
       \/ CancelSend(o) \/ BrokerCancels(o) \/ CancelAnswered(o) \/ CancelLost(o)
       \/ BrokerFills(o) \/ BrokerCloses(o)

AlpacaSpec == AlpacaInit /\ [][AlpacaNext]_alpacaVars

----------------------------------------------------------------------------
(* Properties                                                              *)

(* What the gateway reports as filled has been filled, through retries,    *)
(* lost answers and late cancels (later fills are never reported).         *)
NoOverstatement == \A o \in AlpacaOrders : report[o].cum <= filled[o]

(* An order reported CANCELLED works no more, except while its cancel is   *)
(* pending or where the cancel reached the broker before the order did:    *)
(* 404 is read as cancelled, and the order comes to life afterwards.       *)
CancelledIsSettled ==
  \A o \in AlpacaOrders :
    report[o].state = "CANCELLED" /\ status[o] \in Working =>
      status[o] = "pending_cancel" \/ o \in overtook

(* An order whose submission raised as refused is not working at the       *)
(* broker, except one submitted again after a submission that got no       *)
(* answer: the refusal is then of the duplicate.                           *)
RefusedIsNotWorking ==
  \A o \in AlpacaOrders :
    report[o].state = "REFUSED" /\ status[o] \in Working => o \in blind /\ submits[o] > 1

(* What the gateway reports of an order (filled, cancelled, refused) is so *)
(* at the broker, but for the lost and overtaken answers the parts name.   *)
ReportsAreTrue ==
  /\ NoOverstatement
  /\ CancelledIsSettled
  /\ RefusedIsNotWorking
=============================================================================
