-------------------------- MODULE OrderStateMachine --------------------------
(***************************************************************************)
(* The order entity of execution/models.py and the state machine of        *)
(* execution/fsm.py, as operators on order records.                        *)
(*                                                                         *)
(* An order is a record with (at least) the fields                         *)
(*   clOrdId   client order id          state     one of OrderStates       *)
(*   quantity  ordered lots             filled    cumulative filled lots   *)
(*   quote     cumulative consideration fees      cumulative fees          *)
(* and an execution report a record with the fields                        *)
(*   clOrdId, execType, cum, quote, fee.                                   *)
(* Quantities are whole lots, so the 1e-7 tolerances of the code disappear.*)
(***************************************************************************)
EXTENDS Integers

OrderStates ==
  {"PENDING_NEW", "NEW", "PARTIALLY_FILLED", "PENDING_CANCEL",
   "FILLED", "CANCELLED", "REJECTED", "EXPIRED"}

TerminalStates == {"FILLED", "CANCELLED", "REJECTED", "EXPIRED"}

ActiveStates == {"PENDING_NEW", "NEW", "PARTIALLY_FILLED", "PENDING_CANCEL"}

IsTerminal(o) == o.state \in TerminalStates

IsActive(o) == o.state \in ActiveStates

-----------------------------------------------------------------------------
(* The transition matrix of INV-GW-001.                                    *)
ValidTransitions ==
  [s \in OrderStates |->
     CASE s = "PENDING_NEW" ->
            {"NEW", "PARTIALLY_FILLED", "FILLED", "REJECTED", "EXPIRED"}
       [] s = "NEW" ->
            {"PARTIALLY_FILLED", "FILLED", "PENDING_CANCEL", "CANCELLED", "EXPIRED"}
       [] s = "PARTIALLY_FILLED" ->
            {"PARTIALLY_FILLED", "FILLED", "PENDING_CANCEL", "CANCELLED", "EXPIRED"}
       [] s = "PENDING_CANCEL" -> {"CANCELLED", "FILLED", "PARTIALLY_FILLED"}
       [] OTHER -> {}]

CanTransition(s, t) == t \in ValidTransitions[s]

(* A fill that overtakes the acknowledgement first acknowledges the order  *)
(* (INV-GW-004).                                                           *)
Acknowledged(o, t) ==
  IF o.state = "PENDING_NEW" /\ t \in {"PARTIALLY_FILLED", "FILLED"}
  THEN [o EXCEPT !.state = "NEW"]
  ELSE o

(* transition(order, next_state) without a report; a refused transition    *)
(* raises, and leaves behind what was written before the raise.            *)
Transition(o, t) ==
  IF IsTerminal(o) THEN o
  ELSE LET a == Acknowledged(o, t)
       IN  IF CanTransition(a.state, t) THEN [a EXCEPT !.state = t] ELSE a

(* Faulty variants of the checks: no monotonicity check; a report with an  *)
(* unchanged cumulative quantity taken for a duplicate.                    *)
ReportAdmissibleStale(o, r) ==
  /\ o.clOrdId = r.clOrdId
  /\ ~IsTerminal(o)
  /\ r.cum <= o.quantity

ReportAdmissibleStrict(o, r) ==
  /\ o.clOrdId = r.clOrdId
  /\ ~IsTerminal(o)
  /\ r.cum <= o.quantity
  /\ r.cum > o.filled

(* The checks of apply_execution_report that precede any write.            *)
ReportAdmissible(o, r) ==
  /\ o.clOrdId = r.clOrdId
  /\ ~IsTerminal(o)
  /\ r.cum <= o.quantity
  /\ r.cum >= o.filled

(* TRUE iff apply_execution_report returns instead of raising.             *)
ReportAccepted(o, r) ==
  /\ ReportAdmissible(o, r)
  /\ CanTransition(Acknowledged(o, r.execType).state, r.execType)

(* Faulty variant: only fills update the cumulative quantity.              *)
ApplyExecutionReportFillsOnly(o, r) ==
  IF ~ReportAccepted(o, r) THEN o
  ELSE [o EXCEPT !.filled = IF r.execType \in {"PARTIALLY_FILLED", "FILLED"} THEN r.cum ELSE @,
                 !.quote = r.quote, !.fees = @ + r.fee, !.state = r.execType]

(* Cumulative fields are overwritten by the report's; the fee is added.    *)
ApplyExecutionReport(o, r) ==
  IF ~ReportAdmissible(o, r) THEN o
  ELSE LET a == Acknowledged(o, r.execType)
       IN  IF ~CanTransition(a.state, r.execType) THEN a
           ELSE [a EXCEPT !.filled = r.cum,
                          !.quote  = r.quote,
                          !.fees   = @ + r.fee,
                          !.state  = r.execType]
=============================================================================
