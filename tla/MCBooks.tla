----------------------------- MODULE MCBooks -----------------------------
(* Where money and positions are written down: the two gateways, the smart *)
(* router, the risk ledger, the tax-lot ledger and the position sizer.     *)
(* A behaviour moves one unit, which never changes.                        *)
EXTENDS PaperGateway, AlpacaGateway, SmartRouter, MCRiskLedger, LedgerService, PositionSizer

(* Attempts at the paper gateway, on one symbol: a resting BUY and its     *)
(* retry under the same id, a larger BUY that only rests affordably alone, *)
(* a SELL limit, and market orders of both sides.                          *)
CONSTANTS buy, retry, big, sell, mktbuy, mktsell

Def(id, side, type, quantity, limit) ==
  [clOrdId |-> id, symbol |-> "X", side |-> side, type |-> type,
   quantity |-> quantity, price |-> limit]

MCOrderOf ==
  [a \in Attempts |->
     CASE a \in {buy, retry} -> Def(1, "BUY", "LIMIT", 1, 2)
       [] a = big     -> Def(2, "BUY", "LIMIT", 2, 2)
       [] a = sell    -> Def(3, "SELL", "LIMIT", 1, 3)
       [] a = mktbuy  -> Def(4, "BUY", "MARKET", 1, None)
       [] a = mktsell -> Def(5, "SELL", "MARKET", 1, None)]

(* Venues: a dark pool that takes blocks, and two lit ones, the cheaper    *)
(* of which is the slower.                                                 *)
MCTakerFee == <<1, 3, 2>>
MCLatency == <<1, 1, 2>>
MCFillProbability == <<1, 1, 1>>
MCMinOrderSize == <<3, 1, 1>>

(* Fills: two BUYs booked out of the order of their times, one of them     *)
(* closing shorts newest first, and a SELL that may flip the position.     *)
MCFill(side, quantity, at, time, lifo) ==
  [side |-> side, quantity |-> quantity, price |-> at, time |-> time, lifo |-> lifo]
MCFills ==
  {MCFill(1, 2, 1, 2, FALSE), MCFill(1, 1, 3, 1, TRUE), MCFill(-1, 2, 2, 3, FALSE)}

(* Assets two of which have the same shortfall; the candidates take every  *)
(* way through the projection: the first guess, a second one, the fallback.*)
MCCvar == <<1, 1, 2>>
MCHoldings == {-4, 0, 1, 3, 6}

VARIABLE unit

booksVars == <<unit, paperVars, alpacaVars, routerVars, riskVars, ledgerVars, sizerVars>>

BooksInit ==
  /\ unit \in {"paper", "alpaca", "router", "risk", "ledger", "sizer"}
  /\ PaperInit /\ AlpacaInit /\ RouterInit /\ RiskInit /\ LedgerInit /\ SizerInit
  /\ unit # "ledger" => shorting

BooksNext ==
  /\ UNCHANGED unit
  /\ \/ /\ unit = "paper" /\ PaperNext
        /\ UNCHANGED <<alpacaVars, routerVars, riskVars, ledgerVars, sizerVars>>
     \/ /\ unit = "alpaca" /\ AlpacaNext
        /\ UNCHANGED <<paperVars, routerVars, riskVars, ledgerVars, sizerVars>>
     \/ /\ unit = "router" /\ RouterNext
        /\ UNCHANGED <<paperVars, alpacaVars, riskVars, ledgerVars, sizerVars>>
     \/ /\ unit = "risk" /\ RiskNext
        /\ UNCHANGED <<paperVars, alpacaVars, routerVars, ledgerVars, sizerVars>>
     \/ /\ unit = "ledger" /\ LedgerNext
        /\ UNCHANGED <<paperVars, alpacaVars, routerVars, riskVars, sizerVars>>
     \/ /\ unit = "sizer" /\ SizerNext
        /\ UNCHANGED <<paperVars, alpacaVars, routerVars, riskVars, ledgerVars>>

BooksSpec == BooksInit /\ [][BooksNext]_booksVars
=============================================================================
