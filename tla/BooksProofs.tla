----------------------------- MODULE BooksProofs -----------------------------
(***************************************************************************)
(* Proofs about what is believed of the venues: the reports of the Alpaca  *)
(* gateway, for any orders, quantities and number of failures, the books   *)
(* of the risk ledger, for any orders and limits, the book and cost        *)
(* attribution of a parent order, for any fills and prices, and the routing*)
(* of its slices over the venues, for any venues, fees and depths.         *)
(***************************************************************************)
EXTENDS AlpacaGateway, RiskLedger, ParentOrder, SmartRouter, SumTheorems, TLAPS

-----------------------------------------------------------------------------
(* The gateway's reports.                                                  *)

BrokerStates ==
  {"none", "new", "partially_filled", "pending_cancel", "filled", "canceled", "expired"}
ReportStates ==
  {"none", "unknown", "REFUSED", "NEW", "PARTIALLY_FILLED", "FILLED", "CANCELLED", "EXPIRED"}

AlpacaTypeOK ==
  /\ posting \in [AlpacaOrders -> {"idle", "posted", "orphan", "201", "422"}]
  /\ withdrawing \in [AlpacaOrders -> {"idle", "sent", "orphan", "204", "404", "422"}]
  /\ submits \in [AlpacaOrders -> Nat]
  /\ report \in [AlpacaOrders -> [state : ReportStates, cum : Nat]]
  /\ status \in [AlpacaOrders -> BrokerStates]
  /\ filled \in [AlpacaOrders -> Nat]

(* What _map_alpaca_status_to_state can say of an order the broker has.    *)
LEMMA StateOfBroker ==
  ASSUME NEW s \in BrokerStates
  PROVE  /\ StateOf(s) \in ReportStates \ {"none", "unknown", "REFUSED"}
         /\ StateOf(s) = "CANCELLED" => s \in {"canceled", "pending_cancel"}
<1>1. CASE s = "none"
  BY <1>1 DEF StateOf, ReportStates
<1>2. CASE s = "new"
  BY <1>2 DEF StateOf, ReportStates
<1>3. CASE s = "partially_filled"
  BY <1>3 DEF StateOf, ReportStates
<1>4. CASE s = "pending_cancel"
  BY <1>4 DEF StateOf, ReportStates
<1>5. CASE s = "filled"
  BY <1>5 DEF StateOf, ReportStates
<1>6. CASE s = "canceled"
  BY <1>6 DEF StateOf, ReportStates
<1>7. CASE s = "expired"
  BY <1>7 DEF StateOf, ReportStates
<1> QED
  BY <1>1, <1>2, <1>3, <1>4, <1>5, <1>6, <1>7 DEF BrokerStates

(* A cancel the broker took, and one it had no order for, stay what they   *)
(* were until they are reported and after.                                 *)
CancelsKept ==
  \A o \in AlpacaOrders :
    /\ withdrawing[o] = "204" => status[o] \notin {"none", "new", "partially_filled"}
    /\ withdrawing[o] = "404" => o \in overtook
    /\ report[o].state = "CANCELLED" /\ o \notin overtook =>
         status[o] \notin {"none", "new", "partially_filled"}

(* How an order can be at the broker while its submission is refused: it   *)
(* was posted before, and that submission went blind.                      *)
PostsKept ==
  \A o \in AlpacaOrders :
    /\ submits[o] = 0 => posting[o] = "idle" /\ status[o] = "none"
    /\ report[o].state = "none" /\ posting[o] = "idle" => status[o] = "none"
    /\ report[o].state = "unknown" => o \in blind
    /\ posting[o] = "orphan" => o \in blind /\ report[o].state # "none"
    /\ posting[o] \in {"posted", "422"} /\ status[o] # "none" => o \in blind /\ submits[o] > 1
    /\ report[o].state = "REFUSED" =>
         /\ posting[o] = "idle"
         /\ status[o] # "none" => o \in blind /\ submits[o] > 1

AlpacaInvariant == AlpacaTypeOK /\ NoOverstatement /\ CancelsKept /\ PostsKept

LEMMA AlpacaInvariantInit == AlpacaInit => AlpacaInvariant
  BY DEF AlpacaInit, AlpacaInvariant, AlpacaTypeOK, NoOverstatement, CancelsKept, PostsKept,
         NoReport, ReportStates, BrokerStates

LEMMA AlpacaInvariantStep == AlpacaInvariant /\ [AlpacaNext]_alpacaVars => AlpacaInvariant'
<1> SUFFICES ASSUME AlpacaInvariant, [AlpacaNext]_alpacaVars PROVE AlpacaInvariant'
  OBVIOUS
<1> USE DEF AlpacaInvariant, AlpacaTypeOK, NoOverstatement, CancelsKept, PostsKept,
            alpacaHistory, Fails, MayFail
<1>1. CASE Connect \/ ConnectFails \/ GetOpenOrders
  BY <1>1 DEF Connect, ConnectFails, GetOpenOrders
<1>2. CASE Disconnect
  BY <1>2 DEF Disconnect, ReportStates
<1>3. ASSUME NEW o \in AlpacaOrders, SubmitPost(o) PROVE AlpacaInvariant'
  BY <1>3 DEF SubmitPost
<1>4. ASSUME NEW o \in AlpacaOrders, BrokerTakes(o) PROVE AlpacaInvariant'
  BY <1>4 DEF BrokerTakes, BrokerStates
<1>5. ASSUME NEW o \in AlpacaOrders, BrokerRefuses(o) PROVE AlpacaInvariant'
  BY <1>5 DEF BrokerRefuses
<1>6. ASSUME NEW o \in AlpacaOrders, SubmitAnswered(o) PROVE AlpacaInvariant'
  <2>1. /\ StateOf(status[o]) \in ReportStates \ {"none", "unknown", "REFUSED"}
        /\ StateOf(status[o]) = "CANCELLED" => status[o] \in {"canceled", "pending_cancel"}
    BY StateOfBroker
  <2>2. CASE posting[o] = "201"
    <3> DEFINE told == StateOf(status[o])
    <3> HIDE DEF told
    <3>1. report' = [report EXCEPT ![o] = [state |-> told, cum |-> filled[o]]]
      BY <1>6, <2>2 DEF SubmitAnswered, told
    <3>2. /\ told \in ReportStates \ {"none", "unknown", "REFUSED"}
          /\ told = "CANCELLED" => status[o] \in {"canceled", "pending_cancel"}
      BY <2>1 DEF told
    <3>3. posting' = [posting EXCEPT ![o] = "idle"]
      BY <1>6 DEF SubmitAnswered
    <3>4. UNCHANGED <<withdrawing, submits, status, filled, overtook, blind>>
      BY <1>6 DEF SubmitAnswered
    <3> QED
      BY <3>1, <3>2, <3>3, <3>4
  <2>3. CASE posting[o] = "422"
    <3>1. report' = [report EXCEPT ![o] = [state |-> "REFUSED", cum |-> 0]]
      BY <1>6, <2>3 DEF SubmitAnswered
    <3>2. /\ posting' = [posting EXCEPT ![o] = "idle"]
          /\ UNCHANGED <<withdrawing, submits, status, filled, overtook, blind>>
      BY <1>6 DEF SubmitAnswered
    <3> QED
      BY <2>3, <3>1, <3>2 DEF ReportStates
  <2> QED
    BY <1>6, <2>2, <2>3 DEF SubmitAnswered
<1>7. ASSUME NEW o \in AlpacaOrders, SubmitLost(o) PROVE AlpacaInvariant'
  BY <1>7 DEF SubmitLost, ReportStates
<1>8. ASSUME NEW o \in AlpacaOrders, CancelSend(o) PROVE AlpacaInvariant'
  BY <1>8 DEF CancelSend
<1>9. ASSUME NEW o \in AlpacaOrders, BrokerCancels(o) PROVE AlpacaInvariant'
  BY <1>9 DEF BrokerCancels, Working, BrokerStates
<1>10. ASSUME NEW o \in AlpacaOrders, CancelAnswered(o) PROVE AlpacaInvariant'
  BY <1>10 DEF CancelAnswered, ReportStates
<1>11. ASSUME NEW o \in AlpacaOrders, CancelLost(o) PROVE AlpacaInvariant'
  BY <1>11 DEF CancelLost
<1>12. ASSUME NEW o \in AlpacaOrders, BrokerFills(o) PROVE AlpacaInvariant'
  BY <1>12 DEF BrokerFills, Working, BrokerStates
<1>13. ASSUME NEW o \in AlpacaOrders, BrokerCloses(o) PROVE AlpacaInvariant'
  BY <1>13 DEF BrokerCloses, Working, BrokerStates
<1>14. CASE UNCHANGED alpacaVars
  BY <1>14 DEF alpacaVars
<1> QED
  BY <1>1, <1>2, <1>3, <1>4, <1>5, <1>6, <1>7, <1>8, <1>9, <1>10, <1>11, <1>12, <1>13, <1>14
     DEF AlpacaNext

(* What the gateway reports is so at the broker, through retries, lost     *)
(* answers, late cancels and disconnections: nothing is overstated, what is*)
(* reported cancelled or refused does not work, but for a cancel that is   *)
(* pending or overtook its order and for the refusal of a duplicate.       *)
THEOREM ReportsAreTrueHolds == AlpacaSpec => []ReportsAreTrue
<1>1. AlpacaInvariant => ReportsAreTrue
  BY DEF AlpacaInvariant, CancelsKept, PostsKept, ReportsAreTrue, CancelledIsSettled,
         RefusedIsNotWorking, Working
<1> QED
  BY <1>1, AlpacaInvariantInit, AlpacaInvariantStep, PTL DEF AlpacaSpec

-----------------------------------------------------------------------------
(* The books of the risk ledger.                                           *)

(* Executions are booked, or known to be missing from the books.           *)
LedgerInvariant ==
  /\ RiskTypeOK
  /\ open \in [Orders -> Nat]
  /\ BooksExplained

LEMMA SignedLots ==
  ASSUME NEW o \in Orders
  PROVE  /\ OrderQuantity[o] \in Nat \ {0} /\ SideOf[o] \in {1, -1}
         /\ Signed(o) \in Int
         /\ \A k \in Int : SideOf[o] * k \in Int
<1>1. OrderQuantity[o] \in Nat \ {0} /\ SideOf[o] \in {1, -1}
  BY RiskAssumption
<1>2. ASSUME NEW k \in Int PROVE SideOf[o] * k \in Int
  <2>1. CASE SideOf[o] = 1
    BY <2>1
  <2>2. CASE SideOf[o] = -1
    BY <2>2
  <2> QED
    BY <1>1, <2>1, <2>2
<1>3. OrderQuantity[o] \in Int
  BY <1>1
<1> QED
  BY <1>1, <1>2, <1>3 DEF Signed

LEMMA LedgerInvariantInit == RiskInit => LedgerInvariant
<1> SUFFICES ASSUME RiskInit PROVE LedgerInvariant
  OBVIOUS
<1>1. \A o \in Orders : open[o] \in 0..OrderQuantity[o]
  BY SignedLots DEF RiskInit
<1> QED
  BY <1>1, RiskAssumption DEF RiskInit, LedgerInvariant, RiskTypeOK, BooksExplained, Equity

(* The books of an execution of n signed lots, booked with its price.      *)
LEMMA FillBooked ==
  ASSUME LedgerInvariant, NEW n \in Int,
         riskCash' = riskCash - n, riskPosition' = riskPosition + n, holding' = holding + n,
         UNCHANGED <<unbooked, unpaid>>
  PROVE  BooksExplained' /\ {riskCash', riskPosition', holding'} \subseteq Int
BY DEF LedgerInvariant, RiskTypeOK, BooksExplained, Equity

LEMMA LedgerInvariantStep == LedgerInvariant /\ [RiskNext]_riskVars => LedgerInvariant'
<1> SUFFICES ASSUME LedgerInvariant, [RiskNext]_riskVars PROVE LedgerInvariant'
  OBVIOUS
<1> USE DEF ledger, history
<1>0. /\ calls \in [Orders -> {"idle", "routing", "done"}]
      /\ riskCash \in Int /\ riskPosition \in Int /\ leaves \in Int /\ holding \in Int
      /\ unbooked \in Int /\ unpaid \in Int /\ peak \in Nat /\ escaped \in Nat
      /\ open \in [Orders -> Nat] /\ \A o \in Orders : open[o] \in 0..OrderQuantity[o]
      /\ BooksExplained
  BY DEF LedgerInvariant, RiskTypeOK
<1>1. ASSUME NEW e \in Int PROVE Larger(peak, e) \in Nat
  BY <1>0 DEF Larger
<1>2. ASSUME NEW s \in {1, -1}, NEW k \in Nat PROVE LeavesAfterFill(s, k) \in Int
  BY <1>0 DEF LeavesAfterFill, Pos
<1>3. ASSUME NEW o \in Orders, NEW left \in 0..OrderQuantity[o], open' = [open EXCEPT ![o] = left]
      PROVE  open' \in [Orders -> Nat] /\ \A p \in Orders : open'[p] \in 0..OrderQuantity[p]
  BY <1>0, <1>3, SignedLots
<1>4. ASSUME NEW o \in Orders, Route(o) \/ Refuse(o) PROVE LedgerInvariant'
  <2>1. PeakSeen \in Nat /\ Signed(o) \in Int
    BY <1>0, <1>1, SignedLots DEF PeakSeen, Equity
  <2> QED
    BY <1>0, <1>4, <2>1 DEF Route, Refuse, LedgerInvariant, RiskTypeOK, BooksExplained, Equity
<1>5. ASSUME NEW o \in Orders, ReturnNew(o) \/ ReturnRejected(o) PROVE LedgerInvariant'
  <2>1. Signed(o) \in Int /\ OrderQuantity[o] \in 0..OrderQuantity[o]
    BY SignedLots
  <2>2. open' \in [Orders -> Nat] /\ \A p \in Orders : open'[p] \in 0..OrderQuantity[p]
    BY <1>0, <1>3, <1>5, <2>1 DEF ReturnNew, ReturnRejected
  <2>3. calls' \in [Orders -> {"idle", "routing", "done"}]
    BY <1>0, <1>5 DEF ReturnNew, ReturnRejected, Return
  <2>4. /\ leaves' \in Int
        /\ UNCHANGED <<riskCash, riskPosition, peak, holding, unbooked, escaped, unpaid>>
    BY <1>0, <1>5, <2>1 DEF ReturnNew, ReturnRejected
  <2> HIDE DEF ledger, history
  <2> QED
    BY <1>0, <2>2, <2>3, <2>4 DEF LedgerInvariant, RiskTypeOK, BooksExplained, Equity
<1>6. ASSUME NEW o \in Orders, NEW k \in 1..OrderQuantity[o], ReturnFill(o, k) PROVE LedgerInvariant'
  <2> DEFINE n == SideOf[o] * k
  <2>1. /\ n \in Int /\ k \in Nat /\ SideOf[o] \in {1, -1}
        /\ OrderQuantity[o] - k \in 0..OrderQuantity[o]
    <3>1. OrderQuantity[o] \in Nat /\ SideOf[o] \in {1, -1}
      BY SignedLots
    <3>2. k \in Nat /\ OrderQuantity[o] - k \in 0..OrderQuantity[o]
      BY <3>1
    <3>3. n \in Int
      BY <3>2, SignedLots
    <3> QED
      BY <3>1, <3>2, <3>3
  <2>2. /\ riskCash' = riskCash - n /\ riskPosition' = riskPosition + n /\ holding' = holding + n
        /\ leaves' = LeavesAfterFill(SideOf[o], k) /\ peak' = Larger(peak, riskCash' + riskPosition')
        /\ open' = [open EXCEPT ![o] = OrderQuantity[o] - k]
        /\ UNCHANGED <<unbooked, escaped, unpaid>> /\ calls' = [calls EXCEPT ![o] = "done"]
    BY <1>6 DEF ReturnFill, UpdateFill, Return
  <2> HIDE DEF n
  <2>3. BooksExplained' /\ {riskCash', riskPosition', holding'} \subseteq Int
    BY <2>1, <2>2, FillBooked
  <2>4. leaves' \in Int /\ peak' \in Nat
    BY <1>1, <1>2, <2>1, <2>2, <2>3
  <2>5. open' \in [Orders -> Nat] /\ \A p \in Orders : open'[p] \in 0..OrderQuantity[p]
    BY <1>3, <2>1, <2>2
  <2> QED
    BY <1>0, <2>2, <2>3, <2>4, <2>5 DEF LedgerInvariant, RiskTypeOK
<1>7. ASSUME NEW o \in Orders, NEW k \in 0..OrderQuantity[o], NEW w \in 0..OrderQuantity[o],
             ReturnSliced(o, k, w)
      PROVE  LedgerInvariant'
  <2> DEFINE n == SideOf[o] * k
             rest == SideOf[o] * (OrderQuantity[o] - k)
  <2>1. n \in Int /\ rest \in Int /\ k \in Nat /\ w \in Nat /\ SideOf[o] \in {1, -1}
    BY SignedLots
  <2>2. /\ riskCash' = riskCash - n /\ riskPosition' = riskPosition + n /\ holding' = holding + n
        /\ leaves' = LeavesAfterFill(SideOf[o], k) - rest
        /\ peak' \in {peak, Larger(peak, riskCash' + riskPosition')}
        /\ open' = [open EXCEPT ![o] = w]
        /\ escaped' = escaped + w
        /\ UNCHANGED <<unbooked, unpaid>> /\ calls' = [calls EXCEPT ![o] = "done"]
    BY <1>7 DEF ReturnSliced, Return
  <2> HIDE DEF n, rest
  <2>3. BooksExplained' /\ {riskCash', riskPosition', holding'} \subseteq Int
    BY <2>1, <2>2, FillBooked
  <2>4. leaves' \in Int /\ peak' \in Nat /\ escaped' \in Nat
    BY <1>0, <1>1, <1>2, <2>1, <2>2, <2>3
  <2>5. open' \in [Orders -> Nat] /\ \A p \in Orders : open'[p] \in 0..OrderQuantity[p]
    BY <1>3, <2>2
  <2> QED
    BY <1>0, <2>2, <2>3, <2>4, <2>5 DEF LedgerInvariant, RiskTypeOK
<1>8. ASSUME NEW o \in Orders, NEW k \in 0..OrderQuantity[o], NEW w \in 0..OrderQuantity[o],
             ReturnLost(o, k, w) \/ TaskCancelled(o, k, w)
      PROVE  LedgerInvariant'
  <2> DEFINE n == SideOf[o] * k
  <2>1. n \in Int /\ k \in Nat /\ w \in Nat /\ Signed(o) \in Int
    BY SignedLots
  <2>2. /\ holding' = holding + n /\ unbooked' = unbooked + n
        /\ leaves' \in {leaves, leaves - Signed(o)} /\ escaped' \in {escaped, escaped + k + w}
        /\ open' = [open EXCEPT ![o] = w] /\ calls' = [calls EXCEPT ![o] = "done"]
        /\ UNCHANGED <<riskCash, riskPosition, peak, unpaid>>
    BY <1>8 DEF ReturnLost, TaskCancelled, Return
  <2> HIDE DEF n
  <2>3. leaves' \in Int /\ escaped' \in Nat /\ holding' \in Int /\ unbooked' \in Int
    BY <1>0, <2>1, <2>2
  <2>4. BooksExplained'
    BY <1>0, <2>1, <2>2 DEF BooksExplained, Equity
  <2>5. open' \in [Orders -> Nat] /\ \A p \in Orders : open'[p] \in 0..OrderQuantity[p]
    BY <1>3, <2>2
  <2> QED
    BY <1>0, <2>2, <2>3, <2>4, <2>5 DEF LedgerInvariant, RiskTypeOK
<1>9. ASSUME NEW o \in Orders, WatchedFill(o) \/ SilentFill(o) PROVE LedgerInvariant'
  <2> DEFINE n == SideOf[o] * open[o]
  <2>1. n \in Int /\ open[o] \in Nat /\ SideOf[o] \in {1, -1} /\ 0 \in 0..OrderQuantity[o]
    BY <1>0, SignedLots
  <2>2. /\ holding' = holding + n /\ open' = [open EXCEPT ![o] = 0]
        /\ UNCHANGED <<calls, escaped, riskCash>>
    BY <1>9 DEF WatchedFill, SilentFill, VenueFill, Reconcile
  <2>3. open' \in [Orders -> Nat] /\ \A p \in Orders : open'[p] \in 0..OrderQuantity[p]
    BY <1>3, <2>1, <2>2
  <2>4. CASE WatchedFill(o)
    <3>1. /\ riskPosition' = riskPosition + n /\ unpaid' = unpaid + n /\ unbooked' = unbooked
          /\ leaves' = SideOf[o] * Pos(SideOf[o] * leaves - open[o]) /\ peak' = PeakSeen
      BY <2>4 DEF WatchedFill, Reconcile
    <3>2. leaves' \in Int
      <4>1. CASE SideOf[o] = 1
        BY <1>0, <2>1, <3>1, <4>1 DEF Pos
      <4>2. CASE SideOf[o] = -1
        BY <1>0, <2>1, <3>1, <4>2 DEF Pos
      <4> QED
        BY <2>1, <4>1, <4>2
    <3>3. peak' \in Nat
      BY <1>0, <1>1, <3>1 DEF PeakSeen, Equity
    <3> HIDE DEF n
    <3>4. n \in Int /\ holding' = holding + n /\ riskCash' = riskCash
      BY <2>1, <2>2
    <3>5. BooksExplained' /\ {riskPosition', holding', unpaid'} \subseteq Int
      BY <1>0, <3>1, <3>4, RiskAssumption DEF BooksExplained, Equity
    <3> QED
      BY <1>0, <2>2, <2>3, <3>1, <3>2, <3>3, <3>5 DEF LedgerInvariant, RiskTypeOK
  <2>5. CASE SilentFill(o)
    <3>1. unbooked' = unbooked + n /\ UNCHANGED <<riskPosition, leaves, peak, unpaid>>
      BY <2>5 DEF SilentFill
    <3> HIDE DEF n
    <3>2. BooksExplained' /\ {holding', unbooked'} \subseteq Int
      BY <1>0, <2>1, <2>2, <3>1 DEF BooksExplained, Equity
    <3> QED
      BY <1>0, <2>2, <2>3, <3>1, <3>2 DEF LedgerInvariant, RiskTypeOK
  <2> QED
    BY <1>9, <2>4, <2>5
<1>10. ASSUME NEW o \in Orders, RestingCancel(o) PROVE LedgerInvariant'
  <2>1. open' \in [Orders -> Nat] /\ \A p \in Orders : open'[p] \in 0..OrderQuantity[p]
    BY <1>0, <1>3, <1>10, SignedLots DEF RestingCancel
  <2> QED
    BY <1>0, <1>10, <2>1 DEF RestingCancel, LedgerInvariant, RiskTypeOK, BooksExplained, Equity
<1>11. CASE UNCHANGED riskVars
  BY <1>0, <1>11 DEF riskVars, LedgerInvariant, RiskTypeOK, BooksExplained, Equity
<1> QED
  BY <1>4, <1>5, <1>6, <1>7, <1>8, <1>9, <1>10, <1>11 DEF RiskNext

-----------------------------------------------------------------------------
(* Lots of each order that may still be traded.                            *)
CommittedLots == [o \in Orders |-> Committed(o)]

(* What the orders of a one-sided flow may still trade, as a sum over all  *)
(* of them.                                                                *)
LEMMA ToTradeIsSum ==
  ASSUME LedgerInvariant, NEW s, OneWayFlow(s)
  PROVE  ToTrade(s) = SumOver(CommittedLots, Orders)
<1> DEFINE AddsCommitted(g) ==
             g = [t \in SUBSET Orders |->
                    IF t = {} THEN 0 ELSE Committed(Chosen(t)) + g[t \ {Chosen(t)}]]
<1>1. IsFiniteSet(Orders) /\ \A o \in Orders : CommittedLots[o] \in Int
  BY RiskAssumption, SignedLots DEF CommittedLots, Committed, LedgerInvariant
<1>2. PICK g \in [SUBSET Orders -> Int] :
        AddsUp(g, CommittedLots, Orders) /\ SumOver(CommittedLots, Orders) = g[Orders]
  BY <1>1, SumIs
<1>3. ASSUME NEW h PROVE AddsCommitted(h) <=> AddsUp(h, CommittedLots, Orders)
  <2>1. \A t \in SUBSET Orders : t # {} => CommittedLots[Chosen(t)] = Committed(Chosen(t))
    BY ChosenIn DEF CommittedLots
  <2>2. [t \in SUBSET Orders |-> IF t = {} THEN 0 ELSE Committed(Chosen(t)) + h[t \ {Chosen(t)}]]
        = [t \in SUBSET Orders |-> IF t = {} THEN 0 ELSE CommittedLots[Chosen(t)] + h[t \ {Chosen(t)}]]
    BY <2>1
  <2> QED BY <2>2 DEF AddsUp
<1>4. ToTrade(s) = (CHOOSE h : AddsCommitted(h))[Orders]
  <2>1. {o \in Orders : SideOf[o] = s} = Orders
    BY DEF OneWayFlow
  <2>2. MapThenSumSet(Committed, Orders) = (CHOOSE h : AddsCommitted(h))[Orders]
    BY DEF MapThenSumSet, MapThenFoldSet, Chosen
  <2> QED BY <2>1, <2>2 DEF ToTrade
<1>5. AddsUp(CHOOSE h : AddsCommitted(h), CommittedLots, Orders)
  <2>1. \E h : AddsCommitted(h)
    BY <1>2, <1>3
  <2> HIDE DEF AddsCommitted
  <2>2. AddsCommitted(CHOOSE h : AddsCommitted(h))
    BY <2>1
  <2> QED BY <2>2, <1>3
<1> HIDE DEF AddsCommitted
<1>6. (CHOOSE h : AddsCommitted(h))[Orders] = g[Orders]
  BY <1>1, <1>2, <1>5, SumUnique
<1> QED BY <1>2, <1>4, <1>6

(* Lots that the orders, under way or working, may still trade.            *)
Outstanding == SumOver(CommittedLots, Orders)

(* What the venue holds and may still trade on side s, but for escaped     *)
(* lots, and what the ledger says of it.                                   *)
Exposed(s) == s * holding + Outstanding - escaped
Believed(s) == s * (riskPosition + leaves)

(* Only an order whose call has returned works at the venue; a one-sided   *)
(* flow is covered by the ledger but for what escaped it, within the limit.*)
Covered ==
  /\ \A o \in Orders : calls[o] # "done" => open[o] = 0
  /\ \A s \in {1, -1} : OneWayFlow(s) =>
       /\ Exposed(s) <= Believed(s)
       /\ 100 * Exposed(s) <= MaxConcentration * (InitialCash + Pos(unpaid))
       /\ s * unpaid >= 0

(* Multiplying by a side.                                                  *)
LEMMA OnSide ==
  ASSUME NEW s \in {1, -1}, NEW x \in Int
  PROVE  /\ s * x \in Int
         /\ s = 1 => s * x = x
         /\ s = -1 => s * x = 0 - x
<1>1. CASE s = 1
  BY <1>1
<1>2. CASE s = -1
  BY <1>2
<1> QED BY <1>1, <1>2

(* A larger equity allows a larger exposure.                               *)
LEMMA GrowsWith ==
  ASSUME NEW m \in Nat, NEW x \in Int, NEW y \in Int, x <= y
  PROVE  m * x \in Int /\ m * y \in Int /\ m * x <= m * y
OBVIOUS

(* What was booked without its price only grows, on the side of the flow.  *)
LEMMA OwedGrows ==
  ASSUME NEW s \in {1, -1}, NEW u \in Int, NEW v \in Int, s * u >= 0, s * v >= s * u
  PROVE  Pos(u) \in Int /\ Pos(v) \in Int /\ Pos(u) <= Pos(v) /\ s * v >= 0
<1>1. CASE s = 1
  <2>1. s * u = u /\ s * v = v
    BY <1>1
  <2> QED BY <2>1 DEF Pos
<1>2. CASE s = -1
  <2>1. s * u = 0 - u /\ s * v = 0 - v
    BY <1>2
  <2> QED BY <2>1 DEF Pos
<1> QED BY <1>1, <1>2

LEMMA CommittedTyped ==
  ASSUME LedgerInvariant
  PROVE  /\ \A o \in Orders : CommittedLots[o] = Committed(o) /\ Committed(o) \in Nat
         /\ Outstanding \in Int
<1>1. \A o \in Orders : CommittedLots[o] = Committed(o) /\ Committed(o) \in Nat
  BY SignedLots DEF CommittedLots, Committed, LedgerInvariant
<1>2. Outstanding \in Int
  BY <1>1, RiskAssumption, SumInt DEF Outstanding
<1> QED BY <1>1, <1>2

(* A step of one order changes the sum by the change of its own lots.      *)
LEMMA OutstandingChange ==
  ASSUME LedgerInvariant, LedgerInvariant', NEW o \in Orders,
         \A p \in Orders : p # o => calls'[p] = calls[p] /\ open'[p] = open[p]
  PROVE  Outstanding' = Outstanding - Committed(o) + Committed(o)'
<1>1. /\ \A p \in Orders : CommittedLots[p] = Committed(p) /\ Committed(p) \in Nat
      /\ \A p \in Orders : CommittedLots'[p] = Committed(p)' /\ Committed(p)' \in Nat
  <2>1. \A p \in Orders : CommittedLots'[p] = Committed(p)' /\ Committed(p)' \in Nat
    BY SignedLots DEF CommittedLots, Committed, LedgerInvariant
  <2> QED BY <2>1, CommittedTyped
<1>2. \A p \in Orders : p # o => CommittedLots'[p] = CommittedLots[p]
  BY DEF CommittedLots, Committed
<1>3. ASSUME NEW f, NEW k, \A p \in Orders : f[p] \in Int, k[o] \in Int,
             \A p \in Orders \ {o} : k[p] = f[p]
      PROVE  SumOver(k, Orders) = SumOver(f, Orders) - f[o] + k[o]
  <2>1. IsFiniteSet(Orders)
    BY RiskAssumption
  <2> QED BY <2>1, <1>3, SumChange
<1>4. SumOver(CommittedLots', Orders) = SumOver(CommittedLots, Orders) - CommittedLots[o] + CommittedLots'[o]
  BY <1>1, <1>2, <1>3
<1> QED BY <1>1, <1>4 DEF Outstanding

LEMMA CoveredInit == RiskInit => Covered
<1> SUFFICES ASSUME RiskInit PROVE Covered
  OBVIOUS
<1>1. \A o \in Orders : CommittedLots[o] = 0
  BY DEF RiskInit, CommittedLots, Committed
<1>2. Outstanding = 0
  BY <1>1, RiskAssumption, SumZero DEF Outstanding
<1>3. \A s \in {1, -1} : s * 0 = 0 /\ Exposed(s) = 0 /\ Believed(s) = 0
  <2>1. \A s \in {1, -1} : s * 0 = 0
    BY OnSide
  <2> QED BY <1>2, <2>1 DEF RiskInit, Exposed, Believed
<1>4. MaxConcentration * (InitialCash + Pos(unpaid)) \in Nat
  BY RiskAssumption DEF RiskInit, Pos
<1> QED BY <1>3, <1>4 DEF RiskInit, Covered

(* Neither what is exposed grows, nor the part the ledger misses.          *)
LEMMA CoveredKept ==
  ASSUME LedgerInvariant, LedgerInvariant', Covered,
         \A o \in Orders : calls'[o] # "done" => open'[o] = 0,
         \A s \in {1, -1} : OneWayFlow(s) =>
           /\ Exposed(s)' <= Exposed(s)
           /\ Exposed(s)' - Believed(s)' <= Exposed(s) - Believed(s)
           /\ s * unpaid' >= s * unpaid
  PROVE  Covered'
<1> SUFFICES ASSUME NEW s \in {1, -1}, OneWayFlow(s)
             PROVE  /\ Exposed(s)' <= Believed(s)'
                    /\ 100 * Exposed(s)' <= MaxConcentration * (InitialCash + Pos(unpaid'))
                    /\ s * unpaid' >= 0
  BY DEF Covered, OneWayFlow
<1>1. /\ unpaid \in Int /\ unpaid' \in Int /\ MaxConcentration \in Nat /\ InitialCash \in Nat
      /\ holding \in Int /\ holding' \in Int /\ escaped \in Int /\ escaped' \in Int
      /\ riskPosition + leaves \in Int /\ riskPosition' + leaves' \in Int
  BY RiskAssumption DEF LedgerInvariant, RiskTypeOK
<1>2. /\ s * holding \in Int /\ (s * holding)' \in Int /\ Believed(s) \in Int /\ Believed(s)' \in Int
  BY <1>1, OnSide DEF Believed
<1>3. Outstanding \in Int /\ Outstanding' \in Int
  <2>1. \A p \in Orders : CommittedLots'[p] \in Int
    BY SignedLots DEF CommittedLots, Committed, LedgerInvariant
  <2>2. Outstanding' \in Int
    BY <2>1, RiskAssumption, SumInt DEF Outstanding
  <2> QED BY <2>2, CommittedTyped
<1>4. Exposed(s) \in Int /\ Exposed(s)' \in Int
  BY <1>1, <1>2, <1>3 DEF Exposed
<1>5. /\ Exposed(s) <= Believed(s) /\ 100 * Exposed(s) <= MaxConcentration * (InitialCash + Pos(unpaid))
      /\ s * unpaid >= 0
      /\ Exposed(s)' <= Exposed(s) /\ s * unpaid' >= s * unpaid
      /\ Exposed(s)' - Believed(s)' <= Exposed(s) - Believed(s)
  BY DEF Covered
<1>6. Pos(unpaid) \in Int /\ Pos(unpaid') \in Int /\ Pos(unpaid) <= Pos(unpaid') /\ s * unpaid' >= 0
  BY <1>1, <1>5, OwedGrows
<1>7. /\ MaxConcentration * (InitialCash + Pos(unpaid)) \in Int
      /\ MaxConcentration * (InitialCash + Pos(unpaid')) \in Int
      /\ MaxConcentration * (InitialCash + Pos(unpaid)) <= MaxConcentration * (InitialCash + Pos(unpaid'))
  BY <1>1, <1>6, GrowsWith
<1> QED BY <1>2, <1>4, <1>5, <1>6, <1>7

(* Lots of a side added to a signed amount.                                *)
LEMMA SideSums ==
  ASSUME NEW s \in {1, -1}, NEW x \in Int, NEW y \in Int
  PROVE  s * (x + s * y) = s * x + y /\ s * x \in Int /\ s * (s * y) = y
<1>1. CASE s = 1
  BY <1>1
<1>2. CASE s = -1
  <2>1. s * y = 0 - y /\ s * x = 0 - x
    BY <1>2
  <2>2. s * (x - y) = 0 - (x - y) /\ s * (0 - y) = y
    BY <1>2
  <2> QED BY <2>1, <2>2
<1> QED BY <1>1, <1>2

(* A step of order o that ends its call or takes its lots off the venue,   *)
(* by which dh lots executed, de escaped, db more are believed to be       *)
(* covered, and du were booked without their price.                        *)
Moves(o, dh, de, db, du) ==
  /\ \A p \in Orders : p # o => calls'[p] = calls[p] /\ open'[p] = open[p]
  /\ calls'[o] = "done" \/ open'[o] = 0
  /\ holding' = holding + SideOf[o] * dh
  /\ escaped' = escaped + de
  /\ riskPosition' + leaves' = riskPosition + leaves + SideOf[o] * db
  /\ unpaid' = unpaid + SideOf[o] * du
  /\ dh + Committed(o)' - Committed(o) - de <= 0
  /\ dh + Committed(o)' - Committed(o) - de <= db

(* A step that exposes no more, and no more than it adds to the ledger,    *)
(* keeps the ledger covering the venue.                                    *)
LEMMA CallCovered ==
  ASSUME LedgerInvariant, LedgerInvariant', Covered, NEW o \in Orders,
         NEW dh \in Int, NEW de \in Int, NEW db \in Int, NEW du \in Nat,
         Moves(o, dh, de, db, du)
  PROVE  Covered'
<1>0. /\ \A p \in Orders : p # o => calls'[p] = calls[p] /\ open'[p] = open[p]
      /\ calls'[o] = "done" \/ open'[o] = 0
      /\ holding' = holding + SideOf[o] * dh
      /\ escaped' = escaped + de
      /\ riskPosition' + leaves' = riskPosition + leaves + SideOf[o] * db
      /\ unpaid' = unpaid + SideOf[o] * du
      /\ dh + Committed(o)' - Committed(o) - de <= 0
      /\ dh + Committed(o)' - Committed(o) - de <= db
  BY DEF Moves
<1>1. \A p \in Orders : calls'[p] # "done" => open'[p] = 0
  BY <1>0 DEF Covered
<1>2. Outstanding' = Outstanding - Committed(o) + Committed(o)'
  BY <1>0, OutstandingChange
<1>3. /\ Outstanding \in Int /\ Committed(o) \in Nat /\ Committed(o)' \in Nat
      /\ holding \in Int /\ escaped \in Int /\ unpaid \in Int /\ riskPosition + leaves \in Int
  <2>1. Committed(o)' \in Nat
    BY SignedLots DEF Committed, LedgerInvariant
  <2> QED BY <2>1, CommittedTyped DEF LedgerInvariant, RiskTypeOK
<1>4. ASSUME NEW s \in {1, -1}, OneWayFlow(s)
      PROVE  /\ Exposed(s)' <= Exposed(s)
             /\ Exposed(s)' - Believed(s)' <= Exposed(s) - Believed(s)
             /\ s * unpaid' >= s * unpaid
  <2>1. SideOf[o] = s
    BY <1>4 DEF OneWayFlow
  <2>2. /\ s * holding' = s * holding + dh /\ s * holding \in Int
        /\ s * (riskPosition' + leaves') = s * (riskPosition + leaves) + db
        /\ s * (riskPosition + leaves) \in Int
        /\ s * unpaid' = s * unpaid + du /\ s * unpaid \in Int
    <3> DEFINE x == riskPosition + leaves
    <3>1. s * (holding + s * dh) = s * holding + dh /\ s * holding \in Int
      BY <1>3, SideSums
    <3>2. x \in Int /\ riskPosition' + leaves' = x + s * db
      BY <2>1, <1>0, <1>3
    <3> HIDE DEF x
    <3>3. s * (x + s * db) = s * x + db /\ s * x \in Int
      BY <3>2, SideSums
    <3>4. s * (unpaid + s * du) = s * unpaid + du /\ s * unpaid \in Int
      BY <1>3, SideSums
    <3> QED BY <2>1, <1>0, <3>1, <3>2, <3>3, <3>4 DEF x
  <2>3. Exposed(s) \in Int /\ Exposed(s)' = Exposed(s) + (dh + Committed(o)' - Committed(o) - de)
    BY <2>2, <1>0, <1>2, <1>3 DEF Exposed
  <2>4. Believed(s) \in Int /\ Believed(s)' = Believed(s) + db
    BY <2>2 DEF Believed
  <2> DEFINE d == dh + Committed(o)' - Committed(o) - de
  <2>5. d \in Int /\ d <= 0 /\ d <= db
    BY <1>0, <1>3
  <2> HIDE DEF d
  <2>6. Exposed(s)' <= Exposed(s) /\ Exposed(s)' - Believed(s)' <= Exposed(s) - Believed(s)
    BY <2>3, <2>4, <2>5 DEF d
  <2> QED BY <2>2, <2>6
<1> QED BY <1>1, <1>4, CoveredKept

(* The reservation after a fill of k lots is at most k lots smaller.       *)
LEMMA LeavesKept ==
  ASSUME LedgerInvariant, NEW s \in {1, -1}, NEW k \in Nat
  PROVE  /\ LeavesAfterFill(s, k) - leaves \in Int
         /\ s * (LeavesAfterFill(s, k) - leaves) \in Int
         /\ s * (LeavesAfterFill(s, k) - leaves) >= 0 - k
<1>1. leaves \in Int
  BY DEF LedgerInvariant, RiskTypeOK
<1>2. CASE s = 1
  BY <1>1, <1>2 DEF LeavesAfterFill, Pos
<1>3. CASE s = -1
  <2>1. LeavesAfterFill(s, k) - leaves \in Int /\ LeavesAfterFill(s, k) - leaves <= k
    BY <1>1, <1>3 DEF LeavesAfterFill, Pos
  <2> QED BY <2>1, <1>3
<1> QED BY <1>2, <1>3

(* An order the firewall lets through reserves its lots, within the limit. *)
LEMMA RouteCovered ==
  ASSUME LedgerInvariant, LedgerInvariant', Covered, NEW o \in Orders, Route(o)
  PROVE  Covered'
<1>1. /\ calls[o] = "idle" /\ calls' = [calls EXCEPT ![o] = "routing"] /\ FirewallPasses(o)
      /\ leaves' = leaves + Signed(o) /\ UNCHANGED <<riskPosition, open, holding, unpaid, escaped>>
  BY DEF Route, history
<1>2. /\ calls \in [Orders -> {"idle", "routing", "done"}]
      /\ riskCash \in Int /\ riskPosition \in Int /\ leaves \in Int /\ holding \in Int
      /\ unpaid \in Int /\ escaped \in Int /\ Equity = InitialCash + unpaid
  BY DEF LedgerInvariant, RiskTypeOK, BooksExplained
<1>3. OrderQuantity[o] \in Nat /\ SideOf[o] \in {1, -1} /\ Signed(o) \in Int
  BY SignedLots
<1>4. calls'[o] = "routing" /\ \A p \in Orders : p # o => calls'[p] = calls[p]
  BY <1>1, <1>2
<1>5. \A p \in Orders : calls'[p] # "done" => open'[p] = 0
  BY <1>1, <1>4 DEF Covered
<1>6. Committed(o) = 0 /\ Committed(o)' = OrderQuantity[o]
  BY <1>1, <1>4 DEF Committed, Covered
<1>7. Outstanding \in Int /\ Outstanding' = Outstanding + OrderQuantity[o]
  <2>1. Outstanding' = Outstanding - Committed(o) + Committed(o)'
    BY <1>1, <1>4, OutstandingChange
  <2>2. Outstanding \in Int
    BY CommittedTyped
  <2> QED BY <2>1, <2>2, <1>3, <1>6
<1>8. ASSUME NEW s \in {1, -1}, OneWayFlow(s)
      PROVE  /\ Exposed(s)' <= Believed(s)'
             /\ 100 * Exposed(s)' <= MaxConcentration * (InitialCash + Pos(unpaid'))
             /\ s * unpaid' >= 0
  <2> DEFINE q == OrderQuantity[o]
             total == riskPosition + leaves + Signed(o)
             cap == MaxConcentration * Equity
             room == MaxConcentration * (InitialCash + Pos(unpaid))
  <2>1. Signed(o) = s * q /\ q \in Nat
    BY <1>3, <1>8 DEF OneWayFlow, Signed
  <2>2. s * total = s * (riskPosition + leaves) + q /\ s * (riskPosition + leaves) \in Int
    <3> DEFINE x == riskPosition + leaves
    <3>1. x \in Int /\ total = x + s * q
      BY <1>2, <1>3, <2>1
    <3> HIDE DEF x, q, total
    <3>2. s * total = s * x + q /\ s * x \in Int
      BY <2>1, <3>1, SideSums
    <3> QED BY <3>2 DEF x
  <2>3. Exposed(s) \in Int /\ Exposed(s)' = Exposed(s) + q
    BY <1>1, <1>2, <1>7, <2>1, SideSums DEF Exposed
  <2>4. Believed(s)' = s * total /\ Believed(s) = s * (riskPosition + leaves)
    BY <1>1, <1>2, <1>3 DEF Believed
  <2>5. Exposed(s)' <= Believed(s)'
    BY <2>1, <2>2, <2>3, <2>4, <1>8 DEF Covered
  <2>6. total \in Int /\ Abs(total) \in Nat /\ s * total \in Int /\ s * total <= Abs(total)
    <3>1. total \in Int
      BY <1>2, <1>3
    <3>2. CASE s = 1
      BY <3>1, <3>2 DEF Abs
    <3>3. CASE s = -1
      <4>1. s * total = 0 - total
        BY <3>1, <3>3
      <4> QED BY <3>1, <4>1 DEF Abs
    <3> QED BY <3>2, <3>3, <3>1
  <2>7. Exposure(o) \in Int /\ Abs(total) <= Exposure(o)
    BY <1>2, <1>3 DEF Exposure, Larger, Abs
  <2>8. 100 * Exposure(o) <= cap
    BY <1>1 DEF FirewallPasses
  <2>9. cap \in Int /\ room \in Int /\ cap <= room
    <3>1. /\ Equity \in Int /\ InitialCash + Pos(unpaid) \in Int /\ Equity <= InitialCash + Pos(unpaid)
          /\ MaxConcentration \in Nat
      BY <1>2, RiskAssumption DEF Pos
    <3> QED BY <3>1, GrowsWith
  <2>10. unpaid' = unpaid /\ s * unpaid >= 0
    BY <1>1, <1>8 DEF Covered
  <2> HIDE DEF total, cap, room, q
  <2>11. 100 * Exposed(s)' <= room
    BY <2>1, <2>3, <2>4, <2>5, <2>6, <2>7, <2>8, <2>9
  <2> QED BY <2>5, <2>10, <2>11 DEF room
<1> QED BY <1>5, <1>8 DEF Covered, OneWayFlow

(* Lots on side s, times the side: they add up as lots do.                 *)
LEMMA SideLinear ==
  ASSUME NEW s \in {1, -1}, NEW x \in Int, NEW y \in Int
  PROVE  /\ s * (x + y) = s * x + s * y
         /\ s * (x - y) = s * x - s * y
         /\ s * (0 - x) = 0 - s * x
<1>1. CASE s = 1
  BY <1>1
<1>2. CASE s = -1
  <2>1. s * x = 0 - x /\ s * y = 0 - y /\ s * (0 - x) = x
    BY <1>2
  <2>2. s * (x + y) = 0 - (x + y) /\ s * (x - y) = 0 - (x - y)
    BY <1>2
  <2> QED BY <2>1, <2>2
<1> QED BY <1>1, <1>2

(* The reservation after a reconciled fill of k lots.                      *)
LEMMA ReconciledLeaves ==
  ASSUME NEW s \in {1, -1}, NEW l \in Int, NEW k \in Nat
  PROVE  /\ s * Pos(s * l - k) - l \in Int
         /\ s * (s * Pos(s * l - k) - l) \in Int
         /\ s * (s * Pos(s * l - k) - l) >= 0 - k
<1> DEFINE x == s * l
           y == Pos(x - k)
<1>1. x \in Int /\ s * x = l
  <2>1. CASE s = 1
    BY <2>1
  <2>2. CASE s = -1
    <3>1. x = 0 - l
      BY <2>2
    <3> QED BY <3>1, <2>2
  <2> QED BY <2>1, <2>2
<1>2. y \in Int /\ y >= x - k
  BY <1>1 DEF Pos
<1> HIDE DEF x, y
<1>3. s * y \in Int /\ s * (s * y) = y
  BY <1>2, SideSums
<1>4. s * (s * y - l) = y - x
  <2>1. s * (s * y - l) = s * (s * y) - s * l
    BY <1>3, SideLinear
  <2> QED BY <2>1, <1>3 DEF x
<1>5. s * y - l \in Int /\ s * (s * y - l) \in Int /\ s * (s * y - l) >= 0 - k
  BY <1>1, <1>2, <1>3, <1>4
<1> QED BY <1>5 DEF x, y

LEMMA CoveredStep == LedgerInvariant /\ Covered /\ [RiskNext]_riskVars => Covered'
<1> SUFFICES ASSUME LedgerInvariant, Covered, [RiskNext]_riskVars PROVE Covered'
  OBVIOUS
<1>0. /\ calls \in [Orders -> {"idle", "routing", "done"}]
      /\ riskPosition \in Int /\ leaves \in Int /\ holding \in Int
      /\ unpaid \in Int /\ escaped \in Int
      /\ open \in [Orders -> Nat] /\ \A o \in Orders : open[o] \in 0..OrderQuantity[o]
      /\ LedgerInvariant'
  BY LedgerInvariantStep DEF LedgerInvariant, RiskTypeOK
<1>inv. LedgerInvariant /\ LedgerInvariant' /\ Covered
  BY <1>0
<1>1. ASSUME UNCHANGED <<calls, riskPosition, leaves, open, holding, escaped, unpaid>> PROVE Covered'
  BY <1>1 DEF Covered, Exposed, Believed, Outstanding, CommittedLots, Committed, OneWayFlow
<1>2. ASSUME NEW o \in Orders, Route(o) PROVE Covered'
  BY <1>0, <1>2, RouteCovered
<1>3. ASSUME NEW o \in Orders, Refuse(o) PROVE Covered'
  BY <1>1, <1>3 DEF Refuse, history
(* A call that returns leaves the order done and m lots of it working.     *)
<1>4. ASSUME NEW o \in Orders, Return(o), NEW m \in Nat, open' = [open EXCEPT ![o] = m]
      PROVE  /\ \A p \in Orders : p # o => calls'[p] = calls[p] /\ open'[p] = open[p]
             /\ calls'[o] = "done"
             /\ Committed(o) = OrderQuantity[o] /\ Committed(o)' = m
             /\ OrderQuantity[o] \in Nat /\ SideOf[o] \in {1, -1}
  BY <1>0, <1>4, SignedLots DEF Return, Committed
<1>5. ASSUME NEW o \in Orders, ReturnNew(o) PROVE Covered'
  <2>1. /\ Return(o) /\ open' = [open EXCEPT ![o] = OrderQuantity[o]]
        /\ UNCHANGED <<riskPosition, leaves, holding, escaped, unpaid>>
    BY <1>5 DEF ReturnNew, ledger, history
  <2>2. OrderQuantity[o] \in Nat /\ SideOf[o] * 0 = 0
    BY SignedLots
  <2>3. /\ holding' = holding + SideOf[o] * 0 /\ escaped' = escaped + 0
        /\ riskPosition' + leaves' = riskPosition + leaves + SideOf[o] * 0
        /\ unpaid' = unpaid + SideOf[o] * 0
    BY <1>0, <2>1, <2>2
  <2>4. Moves(o, 0, 0, 0, 0)
    <3>1. /\ \A p \in Orders : p # o => calls'[p] = calls[p] /\ open'[p] = open[p]
          /\ calls'[o] = "done"
          /\ Committed(o) = OrderQuantity[o] /\ Committed(o)' = OrderQuantity[o]
      BY <1>4, <2>1, <2>2
    <3> QED BY <2>2, <2>3, <3>1 DEF Moves
  <2>5. 0 \in Int /\ 0 \in Int /\ 0 \in Int /\ 0 \in Nat
    BY <1>0, <2>1, <2>2, <2>3
  <2> QED BY <1>inv, <2>4, <2>5, CallCovered
<1>6. ASSUME NEW o \in Orders, ReturnRejected(o) PROVE Covered'
  <2>1. /\ Return(o) /\ leaves' = leaves - Signed(o)
        /\ UNCHANGED <<riskPosition, open, holding, escaped, unpaid>>
    BY <1>6 DEF ReturnRejected, history
  <2>2. OrderQuantity[o] \in Nat /\ SideOf[o] \in {1, -1} /\ calls[o] = "routing"
    BY <2>1, SignedLots DEF Return
  <2>3. open[o] = 0
    BY <2>2 DEF Covered
  <2>4. open' = [open EXCEPT ![o] = 0]
    BY <1>0, <2>1, <2>3
  <2>5. SideOf[o] * (0 - OrderQuantity[o]) = 0 - Signed(o) /\ Signed(o) \in Int /\ SideOf[o] * 0 = 0
    <3>1. \A x \in Int : SideOf[o] * (0 - x) = 0 - SideOf[o] * x
      BY <2>2, SideLinear
    <3>2. Signed(o) \in Int /\ SideOf[o] * 0 = 0
      BY SignedLots
    <3>3. SideOf[o] * (0 - OrderQuantity[o]) = 0 - SideOf[o] * OrderQuantity[o]
      BY <2>2, <3>1
    <3> QED BY <3>2, <3>3 DEF Signed
  <2> DEFINE db == 0 - OrderQuantity[o]
  <2>6. /\ holding' = holding + SideOf[o] * 0 /\ escaped' = escaped + 0
        /\ riskPosition' + leaves' = riskPosition + leaves + SideOf[o] * db
        /\ unpaid' = unpaid + SideOf[o] * 0
    BY <1>0, <2>1, <2>5
  <2>7. Moves(o, 0, 0, db, 0)
    <3>1. /\ \A p \in Orders : p # o => calls'[p] = calls[p] /\ open'[p] = open[p]
          /\ calls'[o] = "done" /\ Committed(o) = OrderQuantity[o] /\ Committed(o)' = 0
      BY <1>4, <2>1, <2>4
    <3> QED BY <2>2, <2>6, <3>1 DEF Moves
  <2>8. 0 \in Int /\ 0 \in Int /\ db \in Int /\ 0 \in Nat
    BY <1>0, <2>1, <2>2, <2>4, <2>6
  <2> QED BY <1>inv, <2>7, <2>8, CallCovered
<1>7. ASSUME NEW o \in Orders, NEW k \in 1..OrderQuantity[o], ReturnFill(o, k) PROVE Covered'
  <2> DEFINE s == SideOf[o]
             d == LeavesAfterFill(s, k) - leaves
             db == k + s * d
  <2>1. /\ Return(o) /\ open' = [open EXCEPT ![o] = OrderQuantity[o] - k]
        /\ riskPosition' = riskPosition + s * k /\ leaves' = LeavesAfterFill(s, k)
        /\ holding' = holding + s * k /\ UNCHANGED <<escaped, unpaid>>
    BY <1>7 DEF ReturnFill, UpdateFill, history
  <2>2. /\ OrderQuantity[o] \in Nat /\ s \in {1, -1} /\ k \in Nat /\ OrderQuantity[o] - k \in Nat
        /\ s * 0 = 0 /\ s * k \in Int
    BY SignedLots
  <2>3. d \in Int /\ s * d \in Int /\ s * d >= 0 - k
    BY <2>2, LeavesKept
  <2>4. leaves' = leaves + d
    BY <1>0, <2>1, <2>2, LedgerInvariantStep DEF LeavesAfterFill, Pos
  <2> HIDE DEF d
  <2>5. s * db = s * k + d /\ db \in Int
    BY <2>2, <2>3, SideSums
  <2> HIDE DEF s
  <2>6. /\ riskPosition' + leaves' = riskPosition + leaves + s * db
        /\ unpaid' = unpaid + s * 0 /\ escaped' = escaped + 0
    BY <1>0, <2>1, <2>2, <2>3, <2>4, <2>5
  <2>7. /\ k + (OrderQuantity[o] - k) - OrderQuantity[o] - 0 <= 0
        /\ k + (OrderQuantity[o] - k) - OrderQuantity[o] - 0 <= db
    BY <2>2, <2>3
  <2> HIDE DEF db
  <2>8. Moves(o, k, 0, db, 0)
    BY <1>4, <2>1, <2>2, <2>5, <2>6, <2>7 DEF Moves, s
  <2>9. k \in Int /\ 0 \in Int /\ db \in Int /\ 0 \in Nat
    BY <1>0, <2>1, <2>2, <2>5, <2>6, <2>7
  <2> QED BY <1>inv, <2>8, <2>9, CallCovered
<1>8. ASSUME NEW o \in Orders, NEW k \in 0..OrderQuantity[o], NEW w \in 0..OrderQuantity[o],
             ReturnSliced(o, k, w)
      PROVE  Covered'
  <2> DEFINE s == SideOf[o]
             d == LeavesAfterFill(s, k) - leaves
             x == k - (OrderQuantity[o] - k)
             db == x + s * d
  <2>1. /\ Return(o) /\ open' = [open EXCEPT ![o] = w]
        /\ riskPosition' = riskPosition + s * k
        /\ leaves' = LeavesAfterFill(s, k) - s * (OrderQuantity[o] - k)
        /\ holding' = holding + s * k /\ escaped' = escaped + w /\ UNCHANGED unpaid
    BY <1>8 DEF ReturnSliced
  <2>2. /\ OrderQuantity[o] \in Nat /\ s \in {1, -1} /\ k \in Nat /\ w \in Nat
        /\ k <= OrderQuantity[o]
        /\ s * 0 = 0 /\ s * k \in Int /\ s * (OrderQuantity[o] - k) \in Int
    BY SignedLots
  <2>3. d \in Int /\ s * d \in Int /\ s * d >= 0 - k
    BY <2>2, LeavesKept
  <2>4. LeavesAfterFill(s, k) = leaves + d
    BY <1>0, <2>2 DEF LeavesAfterFill, Pos
  <2> HIDE DEF d
  <2>5. x \in Int /\ s * x = s * k - s * (OrderQuantity[o] - k)
    BY <2>2, SideLinear
  <2>6. s * db = s * x + d /\ db \in Int
    <3>1. s \in {1, -1} /\ x \in Int /\ d \in Int /\ s * d \in Int
      BY <2>2, <2>3, <2>5
    <3> HIDE DEF s, x
    <3>2. s * (x + s * d) = s * x + d
      BY <3>1, SideSums
    <3> QED BY <3>1, <3>2
  <2>7. /\ k + w - OrderQuantity[o] - w <= 0
        /\ k + w - OrderQuantity[o] - w <= db
    BY <2>2, <2>3
  <2> HIDE DEF s, x, db
  <2>8. /\ riskPosition' + leaves' = riskPosition + leaves + s * db
        /\ unpaid' = unpaid + s * 0
    BY <1>0, <2>1, <2>2, <2>3, <2>4, <2>5, <2>6
  <2>9. Moves(o, k, w, db, 0)
    BY <1>4, <2>1, <2>2, <2>6, <2>7, <2>8 DEF Moves, s
  <2>10. k \in Int /\ w \in Int /\ db \in Int /\ 0 \in Nat
    BY <1>0, <2>1, <2>2, <2>6, <2>7, <2>8
  <2> QED BY <1>inv, <2>9, <2>10, CallCovered
<1>9. ASSUME NEW o \in Orders, NEW k \in 0..OrderQuantity[o], NEW w \in 0..OrderQuantity[o],
             ReturnLost(o, k, w)
      PROVE  Covered'
  <2> DEFINE s == SideOf[o]
             db == 0 - OrderQuantity[o]
  <2>1. /\ Return(o) /\ open' = [open EXCEPT ![o] = w] /\ leaves' = leaves - Signed(o)
        /\ holding' = holding + s * k /\ escaped' = escaped + k + w
        /\ UNCHANGED <<riskPosition, unpaid>>
    BY <1>9 DEF ReturnLost
  <2>2. OrderQuantity[o] \in Nat /\ s \in {1, -1} /\ k \in Nat /\ w \in Nat /\ Signed(o) \in Int
    BY SignedLots
  <2>3. s * 0 = 0 /\ s * db = 0 - Signed(o) /\ db \in Int
    BY <2>2, SideLinear DEF Signed
  <2>4. k + w \in Int /\ k + w - OrderQuantity[o] - (k + w) <= db /\ db <= 0
    BY <2>2
  <2> HIDE DEF s, db
  <2>5. /\ riskPosition' + leaves' = riskPosition + leaves + s * db
        /\ unpaid' = unpaid + s * 0 /\ escaped' = escaped + (k + w)
    BY <1>0, <2>1, <2>2, <2>3
  <2>6. k + w - OrderQuantity[o] - (k + w) <= 0
    BY <2>2
  <2>7. Moves(o, k, k + w, db, 0)
    BY <1>4, <2>1, <2>2, <2>3, <2>4, <2>5, <2>6 DEF Moves, s
  <2>8. k \in Int /\ k + w \in Int /\ db \in Int /\ 0 \in Nat
    BY <1>0, <2>1, <2>2, <2>3, <2>4, <2>5, <2>6
  <2> QED BY <1>inv, <2>7, <2>8, CallCovered
<1>10. ASSUME NEW o \in Orders, NEW k \in 0..OrderQuantity[o], NEW w \in 0..OrderQuantity[o],
              TaskCancelled(o, k, w)
       PROVE  Covered'
  <2>1. /\ Return(o) /\ open' = [open EXCEPT ![o] = w] /\ k + w <= OrderQuantity[o]
        /\ holding' = holding + SideOf[o] * k
        /\ UNCHANGED <<riskPosition, leaves, escaped, unpaid>>
    BY <1>10 DEF TaskCancelled, ledger
  <2>2. OrderQuantity[o] \in Nat /\ k \in Nat /\ w \in Nat /\ SideOf[o] * 0 = 0
    BY SignedLots
  <2>3. /\ riskPosition' + leaves' = riskPosition + leaves + SideOf[o] * 0
        /\ unpaid' = unpaid + SideOf[o] * 0 /\ escaped' = escaped + 0
        /\ k + w - OrderQuantity[o] - 0 <= 0
    BY <1>0, <2>1, <2>2
  <2>4. Moves(o, k, 0, 0, 0)
    BY <1>4, <2>1, <2>2, <2>3 DEF Moves
  <2>5. k \in Int /\ 0 \in Int /\ 0 \in Int /\ 0 \in Nat
    BY <1>0, <2>1, <2>2, <2>3
  <2> QED BY <1>inv, <2>4, <2>5, CallCovered
(* A resting order that leaves the venue had no other lots to trade.       *)
<1>11. ASSUME NEW o \in Orders, open[o] > 0, open' = [open EXCEPT ![o] = 0], calls' = calls
       PROVE  /\ \A p \in Orders : p # o => calls'[p] = calls[p] /\ open'[p] = open[p]
              /\ open'[o] = 0
              /\ Committed(o) = open[o] /\ Committed(o)' = 0
              /\ open[o] \in Nat /\ SideOf[o] \in {1, -1}
  BY <1>0, <1>11, SignedLots DEF Committed, Covered
<1>12. ASSUME NEW o \in Orders, WatchedFill(o) PROVE Covered'
  <2> DEFINE s == SideOf[o]
             k == open[o]
             d == s * Pos(s * leaves - k) - leaves
             db == k + s * d
  <2>1. /\ open[o] > 0 /\ open' = [open EXCEPT ![o] = 0] /\ calls' = calls
        /\ riskPosition' = riskPosition + s * k /\ leaves' = s * Pos(s * leaves - k)
        /\ holding' = holding + s * k /\ escaped' = escaped /\ unpaid' = unpaid + s * k
    BY <1>12 DEF WatchedFill, VenueFill, Reconcile
  <2>2. s \in {1, -1} /\ k \in Nat /\ s * k \in Int
    BY <1>0, SignedLots
  <2>3. d \in Int /\ s * d \in Int /\ s * d >= 0 - k
    BY <1>0, <2>2, ReconciledLeaves
  <2>4. s * Pos(s * leaves - k) \in Int
    <3>1. \A y \in Int : s * y \in Int /\ Pos(y) \in Int
      BY <2>2, SideSums DEF Pos
    <3>2. s * leaves - k \in Int
      BY <1>0, <2>2, <3>1
    <3> QED BY <3>1, <3>2
  <2>5. leaves' = leaves + d
    BY <1>0, <2>1, <2>4
  <2> HIDE DEF d
  <2>6. s * db = s * k + d /\ db \in Int
    BY <2>2, <2>3, SideSums
  <2>7. k + 0 - k - 0 <= 0 /\ k + 0 - k - 0 <= db
    BY <2>2, <2>3
  <2> HIDE DEF s, db
  <2>8. riskPosition' + leaves' = riskPosition + leaves + s * db /\ escaped' = escaped + 0
    BY <1>0, <2>1, <2>2, <2>3, <2>5, <2>6
  <2>9. Moves(o, k, 0, db, k)
    BY <1>11, <2>1, <2>2, <2>6, <2>7, <2>8 DEF Moves, s
  <2>10. k \in Int /\ 0 \in Int /\ db \in Int /\ k \in Nat
    BY <1>0, <2>1, <2>2, <2>6, <2>7, <2>8
  <2> QED BY <1>inv, <2>9, <2>10, CallCovered
<1>13. ASSUME NEW o \in Orders, SilentFill(o) PROVE Covered'
  <2>1. /\ open[o] > 0 /\ open' = [open EXCEPT ![o] = 0] /\ calls' = calls
        /\ holding' = holding + SideOf[o] * open[o]
        /\ UNCHANGED <<riskPosition, leaves, escaped, unpaid>>
    BY <1>13 DEF SilentFill, VenueFill, ledger
  <2>2. open[o] \in Nat /\ SideOf[o] * 0 = 0
    BY <1>0, SignedLots
  <2>3. /\ riskPosition' + leaves' = riskPosition + leaves + SideOf[o] * 0
        /\ unpaid' = unpaid + SideOf[o] * 0 /\ escaped' = escaped + 0
        /\ open[o] + 0 - open[o] - 0 <= 0
    BY <1>0, <2>1, <2>2
  <2>4. Moves(o, open[o], 0, 0, 0)
    BY <1>11, <2>1, <2>2, <2>3 DEF Moves
  <2>5. open[o] \in Int /\ 0 \in Int /\ 0 \in Int /\ 0 \in Nat
    BY <1>0, <2>1, <2>2, <2>3
  <2> QED BY <1>inv, <2>4, <2>5, CallCovered
<1>14. ASSUME NEW o \in Orders, RestingCancel(o) PROVE Covered'
  <2>1. /\ open[o] > 0 /\ open' = [open EXCEPT ![o] = 0] /\ calls' = calls
        /\ UNCHANGED <<riskPosition, leaves, holding, escaped, unpaid>>
    BY <1>14 DEF RestingCancel, ledger, history
  <2>2. open[o] \in Nat /\ SideOf[o] * 0 = 0
    BY <1>0, SignedLots
  <2>3. /\ riskPosition' + leaves' = riskPosition + leaves + SideOf[o] * 0
        /\ unpaid' = unpaid + SideOf[o] * 0 /\ escaped' = escaped + 0
        /\ holding' = holding + SideOf[o] * 0 /\ 0 + 0 - open[o] - 0 <= 0
    BY <1>0, <2>1, <2>2
  <2>4. Moves(o, 0, 0, 0, 0)
    BY <1>11, <2>1, <2>2, <2>3 DEF Moves
  <2>5. 0 \in Int /\ 0 \in Int /\ 0 \in Int /\ 0 \in Nat
    BY <1>0, <2>1, <2>2, <2>3
  <2> QED BY <1>inv, <2>4, <2>5, CallCovered
<1>15. CASE UNCHANGED riskVars
  BY <1>1, <1>15 DEF riskVars, ledger, history
<1> QED
  BY <1>2, <1>3, <1>5, <1>6, <1>7, <1>8, <1>9, <1>10, <1>12, <1>13, <1>14, <1>15 DEF RiskNext

(* As long as all orders are on one side, what the venue holds and may     *)
(* still trade is covered by the ledger's inventory and reservations, but  *)
(* for lots that escaped route_order: for any set of concurrent calls, any *)
(* quantities and limits, whatever returns, raises, is cancelled or fills. *)
THEOREM LedgerCoversVenueHolds == RiskSpec => []LedgerCoversVenue
<1>1. LedgerInvariant /\ Covered => LedgerCoversVenue
  <2> SUFFICES ASSUME LedgerInvariant, Covered, NEW s \in {1, -1}, OneWayFlow(s)
               PROVE  s * holding + ToTrade(s) <= s * (riskPosition + leaves) + escaped
    BY DEF LedgerCoversVenue
  <2>1. ToTrade(s) = Outstanding /\ Outstanding \in Int
    BY ToTradeIsSum, CommittedTyped DEF Outstanding
  <2>2. s * holding \in Int /\ s * (riskPosition + leaves) \in Int /\ escaped \in Int
    BY OnSide DEF LedgerInvariant, RiskTypeOK
  <2>3. Exposed(s) <= Believed(s)
    BY DEF Covered
  <2> QED BY <2>1, <2>2, <2>3 DEF Exposed, Believed
<1> QED
  BY <1>1, LedgerInvariantInit, LedgerInvariantStep, CoveredInit, CoveredStep, PTL DEF RiskSpec

(* Exposure beyond the concentration limit, and any difference between the *)
(* ledger and the venue, is accounted for by calls that raised or were     *)
(* cancelled, resting fills nobody watched and fills booked without price. *)
THEOREM DriftExplainedHolds == RiskSpec => []DriftExplained
<1>1. LedgerInvariant /\ Covered => DriftExplained
  <2> SUFFICES ASSUME LedgerInvariant, Covered PROVE DriftExplained
    OBVIOUS
  <2>1. ASSUME NEW s \in {1, -1}, OneWayFlow(s)
        PROVE  100 * (s * holding + ToTrade(s) - escaped)
                 <= MaxConcentration * (InitialCash + Pos(unpaid))
    <3>1. ToTrade(s) = Outstanding
      BY <2>1, ToTradeIsSum DEF Outstanding
    <3> QED BY <2>1, <3>1 DEF Covered, Exposed
  <2> QED BY <2>1 DEF DriftExplained, ExcessExplained, LedgerInvariant
<1> QED
  BY <1>1, LedgerInvariantInit, LedgerInvariantStep, CoveredInit, CoveredStep, PTL DEF RiskSpec

-----------------------------------------------------------------------------
(* The book of a parent order.                                             *)

(* The fills and the parents that pass their constructors.                 *)
Fills == {f \in [quantity : Int, price : Int, fee : Int, time : Int] : ValidFill(f)}
Parents ==
  {o \in [side : {"BUY", "SELL"}, total : Int, arrival : Int, decision : Int, start : Int,
          duration : Int] : o.total > 0 /\ o.arrival > 0 /\ o.decision > 0}

Quantities    == [f \in Fills |-> f.quantity]
Paid    == [f \in Fills |-> f.quantity * f.price]
Charged == [f \in Fills |-> f.fee]

(* The running totals are the sums, and no fill is free of charge.         *)
ParentInvariant ==
  /\ fillBook \in Seq(Fills)
  /\ filledQ = SumSeq(fillBook, Quantities) /\ cumNotional = SumSeq(fillBook, Paid)
  /\ totalFees = SumSeq(fillBook, Charged)
  /\ filledQ \in Nat /\ cumNotional \in Int /\ totalFees \in Int /\ filledQ <= cumNotional
  /\ \/ po = Unborn /\ fillBook = <<>>
     \/ po \in Parents /\ filledQ <= po.total + Slack

(* What a recorded fill adds to each total: a positive quantity, and at    *)
(* least as much money.                                                    *)
LEMMA TermsTyped ==
  ASSUME NEW f \in Fills
  PROVE  /\ Quantities[f] = f.quantity /\ Paid[f] = f.quantity * f.price /\ Charged[f] = f.fee
         /\ Quantities[f] \in Nat \ {0} /\ Paid[f] \in Int /\ Charged[f] \in Int /\ Quantities[f] <= Paid[f]
<1>1. f.quantity \in Nat \ {0} /\ f.price \in Nat \ {0} /\ f.fee \in Int
  BY DEF Fills, ValidFill
<1>2. \A q, p \in Nat \ {0} : q * p \in Nat /\ q <= q * p
  OBVIOUS
<1>3. Quantities[f] = f.quantity /\ Paid[f] = f.quantity * f.price /\ Charged[f] = f.fee
  BY DEF Quantities, Paid, Charged
<1> QED BY <1>1, <1>2, <1>3

(* A parent starts with an empty book.                                     *)
LEMMA ParentStarts == ParentInit => ParentInvariant
<1>1. <<>> \in Seq(Fills) /\ DOMAIN <<>> = {}
  OBVIOUS
<1>2. \A g : SumSeq(<<>>, g) = 0
  BY <1>1, SumEmpty DEF SumSeq
<1> QED BY <1>1, <1>2 DEF ParentInit, ParentInvariant

(* Recording a fill adds its terms to the three sums.                      *)
LEMMA FillAdds ==
  ASSUME ParentInvariant, NEW f \in Fills
  PROVE  /\ Append(fillBook, f) \in Seq(Fills)
         /\ SumSeq(Append(fillBook, f), Quantities) = filledQ + f.quantity
         /\ SumSeq(Append(fillBook, f), Paid) = cumNotional + f.quantity * f.price
         /\ SumSeq(Append(fillBook, f), Charged) = totalFees + f.fee
         /\ f.quantity \in Nat /\ f.quantity * f.price \in Int /\ f.fee \in Int
         /\ f.quantity <= f.quantity * f.price
<1>1. fillBook \in Seq(Fills)
  BY DEF ParentInvariant
<1>2. \A r \in Fills : Quantities[r] \in Int /\ Paid[r] \in Int /\ Charged[r] \in Int
  BY TermsTyped
<1>3. /\ SumSeq(Append(fillBook, f), Quantities) = SumSeq(fillBook, Quantities) + Quantities[f]
      /\ SumSeq(Append(fillBook, f), Paid) = SumSeq(fillBook, Paid) + Paid[f]
      /\ SumSeq(Append(fillBook, f), Charged) = SumSeq(fillBook, Charged) + Charged[f]
  BY <1>1, <1>2, SumAppend
<1>4. Append(fillBook, f) \in Seq(Fills)
  BY <1>1
<1> QED BY <1>3, <1>4, TermsTyped DEF ParentInvariant

(* Constructing a parent, recording a fill and refusing one preserve it.   *)
LEMMA ParentMoves == ParentInvariant /\ [ParentNext]_parentVars => ParentInvariant'
<1> SUFFICES ASSUME ParentInvariant, [ParentNext]_parentVars PROVE ParentInvariant'
  OBVIOUS
<1>1. CASE UNCHANGED parentVars
  BY <1>1 DEF ParentInvariant, parentVars
<1>2. ASSUME NEW o \in Orders0, NewParent(o) PROVE ParentInvariant'
  <2>1. o \in [side : {"BUY", "SELL"}, total : Int, arrival : Int, decision : Int,
               start : Int, duration : Int]
    BY ParentAssumption
  <2>2. po' \in Parents
    <3>1. o.total > 0 /\ o.arrival > 0 /\ o.decision >= 0
      BY <1>2 DEF NewParent, ValidParent
    <3>2. po' = [o EXCEPT !.decision = IF o.decision = 0 THEN o.arrival ELSE o.decision]
      BY <1>2 DEF NewParent
    <3> QED BY <2>1, <3>1, <3>2 DEF Parents
  <2>3. po = Unborn /\ UNCHANGED <<fillBook, filledQ, cumNotional, totalFees>>
    BY <1>2 DEF NewParent
  <2>4. fillBook = <<>>
    <3>1. Unborn \notin Parents
      BY DEF Unborn, Parents
    <3> QED BY <2>3, <3>1 DEF ParentInvariant
  <2>5. filledQ = 0
    <3>1. DOMAIN fillBook = {}
      BY <2>4
    <3>2. SumSeq(fillBook, Quantities) = 0
      BY <3>1, SumEmpty DEF SumSeq
    <3> QED BY <3>2 DEF ParentInvariant
  <2>6. po'.total + Slack >= 0
    BY <2>2, ParentAssumption DEF Parents
  <2> QED BY <2>2, <2>3, <2>5, <2>6 DEF ParentInvariant
<1>3. ASSUME NEW f \in [quantity : FillSizes, price : FillPrices, fee : FillFees, time : FillTimes],
             RecordChildFill(f)
      PROVE  ParentInvariant'
  <2>1. po \in Parents /\ po' = po
    BY <1>3 DEF RecordChildFill, ParentInvariant
  <2>2. CASE Admissible(f)
    <3>1. f \in Fills
      BY <2>2, ParentAssumption DEF Admissible, Fills
    <3>2. /\ fillBook' = Append(fillBook, f) /\ filledQ' = filledQ + f.quantity
          /\ cumNotional' = cumNotional + f.quantity * f.price /\ totalFees' = totalFees + f.fee
      BY <1>3, <2>2 DEF RecordChildFill
    <3>3. filledQ + f.quantity <= po.total + Slack
      BY <2>2 DEF Admissible
    <3>4. /\ filledQ \in Nat /\ cumNotional \in Int /\ totalFees \in Int /\ filledQ <= cumNotional
      BY DEF ParentInvariant
    <3>5. /\ fillBook' \in Seq(Fills) /\ filledQ' = SumSeq(fillBook', Quantities)
          /\ cumNotional' = SumSeq(fillBook', Paid) /\ totalFees' = SumSeq(fillBook', Charged)
      BY <3>1, <3>2, FillAdds
    <3>6. f.quantity \in Nat /\ f.quantity * f.price \in Int /\ f.fee \in Int
          /\ f.quantity <= f.quantity * f.price
      BY <3>1, FillAdds
    <3>7. \A x, y, u, v \in Int : x <= y /\ u <= v => x + u <= y + v
      OBVIOUS
    <3>8. filledQ' \in Nat /\ cumNotional' \in Int /\ totalFees' \in Int /\ filledQ' <= cumNotional'
      BY <3>2, <3>4, <3>6, <3>7
    <3> QED BY <2>1, <3>2, <3>3, <3>5, <3>8 DEF ParentInvariant
  <2>3. CASE ~Admissible(f)
    BY <1>3, <2>1, <2>3 DEF RecordChildFill, ParentInvariant
  <2> QED BY <2>2, <2>3
<1> QED BY <1>1, <1>2, <1>3 DEF ParentNext

(* The running totals of record_child_fill are the sums over the recorded  *)
(* fills, whatever is offered and refused.                                 *)
THEOREM ParentInvariantHolds == ParentSpec => []ParentInvariant
<1> QED BY ParentStarts, ParentMoves, PTL DEF ParentSpec

(* What the recorded fills cost over any price a is bounded by the quantity*)
(* times the largest distance of a fill's price from a.                    *)
LEMMA Spread ==
  ASSUME NEW book \in Seq(Fills), NEW a \in Int, NEW d \in Nat,
         \A i \in DOMAIN book : book[i].price - a \in (-d)..d
  PROVE  SumSeq(book, Paid) - a * SumSeq(book, Quantities)
           \in (-(d * SumSeq(book, Quantities)))..(d * SumSeq(book, Quantities))
<1> DEFINE S == DOMAIN book
           q == [i \in S |-> Quantities[book[i]]]
           n == [i \in S |-> Paid[book[i]]]
           over == [i \in S |-> n[i] - a * q[i]]
           most == [i \in S |-> d * q[i]]
           least == [i \in S |-> (-d) * q[i]]
<1>1. IsFiniteSet(S) /\ \A i \in S : book[i] \in Fills
  <2>1. Len(book) \in Nat /\ S = 1..Len(book) /\ \A i \in S : book[i] \in Fills
    BY ElementOfSeq, LenProperties
  <2>2. IsFiniteSet(1..Len(book))
    <3>1. Len(book) \in Int /\ 1 \in Int
      BY <2>1
    <3> QED BY <3>1, FS_Interval
  <2> QED BY <2>1, <2>2
<1>2. ASSUME NEW i \in S
      PROVE  /\ q[i] \in Int /\ n[i] \in Int /\ over[i] = 1 * n[i] + (-a) * q[i]
             /\ most[i] = d * q[i] + 0 * q[i] /\ least[i] = (-d) * q[i] + 0 * q[i]
             /\ over[i] \in Int /\ most[i] \in Int /\ least[i] \in Int
             /\ least[i] <= over[i] /\ over[i] <= most[i]
  <2> DEFINE u == book[i].quantity
             p == book[i].price
  <2>1. u \in Nat /\ q[i] = u /\ n[i] = u * p /\ p \in Int /\ p - a \in (-d)..d
    BY <1>1, TermsTyped DEF Fills, ValidFill
  <2>2. over[i] = n[i] - a * q[i] /\ most[i] = d * q[i] /\ least[i] = (-d) * q[i]
    OBVIOUS
  <2> HIDE DEF u, p, q, n, over, most, least
  <2>3. n[i] - a * q[i] = u * (p - a)
    BY <2>1
  <2>4. \A z, l, h \in Int : l <= z /\ z <= h => u * l <= u * z /\ u * z <= u * h
    BY <2>1
  <2>5. u * (-d) <= u * (p - a) /\ u * (p - a) <= u * d
    BY <2>1, <2>4
  <2> QED BY <2>1, <2>2, <2>3, <2>5
<1>3. SumSeq(book, Quantities) = SumOver(q, S) /\ SumSeq(book, Paid) = SumOver(n, S)
  BY DEF SumSeq
<1> HIDE DEF q, n, over, most, least
<1>4. SumOver(over, S) = 1 * SumOver(n, S) + (-a) * SumOver(q, S)
  <2>1. Combines(over, 1, n, -a, q, S)
    BY <1>2 DEF Combines
  <2> QED BY <1>1, <2>1, SumLinear
<1>5. SumOver(most, S) = d * SumOver(q, S) + 0 * SumOver(q, S)
  <2>1. Combines(most, d, q, 0, q, S)
    BY <1>2 DEF Combines
  <2> QED BY <1>1, <2>1, SumLinear
<1>6. SumOver(least, S) = (-d) * SumOver(q, S) + 0 * SumOver(q, S)
  <2>1. Combines(least, -d, q, 0, q, S)
    BY <1>2 DEF Combines
  <2> QED BY <1>1, <2>1, SumLinear
<1>7. SumOver(least, S) <= SumOver(over, S) /\ SumOver(over, S) <= SumOver(most, S)
  BY <1>1, <1>2, SumAtMost
<1>8. SumOver(q, S) \in Int /\ SumOver(n, S) \in Int
  BY <1>1, <1>2, SumInt
<1> QED BY <1>3, <1>4, <1>5, <1>6, <1>7, <1>8

(* A small multiple of a small distance.                                   *)
LEMMA Residue ==
  ASSUME NEW l \in Nat, NEW d \in Nat, NEW r \in (-l)..l, NEW z \in (-d)..d
  PROVE  r * z \in (-(l * d))..(l * d)
<1>1. \A x, y, u, v \in Nat : x <= u /\ y <= v => x * y \in 0..(u * v)
  <2> SUFFICES ASSUME NEW x \in Nat, NEW y \in Nat, NEW u \in Nat, NEW v \in Nat, x <= u, y <= v
               PROVE  x * y \in 0..(u * v)
    OBVIOUS
  <2>1. x * y \in Nat /\ x * y <= x * v /\ x * v <= u * v
    OBVIOUS
  <2> QED BY <2>1
<1>2. CASE r >= 0 /\ z >= 0
  BY <1>1, <1>2
<1>3. CASE r >= 0 /\ z <= 0
  <2>1. r * (-z) \in 0..(l * d)
    BY <1>1, <1>3
  <2>2. r * z = -(r * (-z))
    OBVIOUS
  <2> QED BY <2>1, <2>2
<1>4. CASE r <= 0 /\ z >= 0
  <2>1. (-r) * z \in 0..(l * d)
    BY <1>1, <1>4
  <2>2. r * z = -((-r) * z)
    OBVIOUS
  <2> QED BY <2>1, <2>2
<1>5. CASE r <= 0 /\ z <= 0
  <2>1. (-r) * (-z) \in 0..(l * d)
    BY <1>1, <1>5
  <2>2. r * z = (-r) * (-z)
    OBVIOUS
  <2> QED BY <2>1, <2>2
<1> QED BY <1>2, <1>3, <1>4, <1>5

(* The shortfall the code adds up and Perold's differ by what the tolerance*)
(* leaves out: the fills of a dust position, and the residue of the order. *)
Coded(s, hf, hr, q, n, t, a, d, p, fees) ==
  (IF hf THEN s * q * (d - a) ELSE 0) + (IF hf THEN s * (n - q * d) ELSE 0) + fees
    + (IF hr THEN s * (t - q) * (p - a) ELSE 0)
Defined(s, q, n, t, a, p, fees) == s * (n + (t - q) * p - t * a) + fees
Missing(hf, hr, q, n, t, a, p) ==
  (IF hf THEN 0 ELSE n - a * q) + (IF hr THEN 0 ELSE (t - q) * (p - a))

(* The attribution, case by case: with and without fills, with and without *)
(* a residue.                                                              *)
LEMMA Attribution ==
  ASSUME NEW s \in {1, -1}, NEW hf \in BOOLEAN, NEW hr \in BOOLEAN, NEW q \in Int, NEW n \in Int,
         NEW t \in Int, NEW a \in Int, NEW d \in Int, NEW p \in Int, NEW fees \in Int
  PROVE  /\ Coded(s, hf, hr, q, n, t, a, d, p, fees) - Defined(s, q, n, t, a, p, fees)
              = -(s * Missing(hf, hr, q, n, t, a, p))
         /\ Missing(hf, hr, q, n, t, a, p) \in Int
<1>1. CASE s = 1 /\ hf /\ hr
  BY <1>1 DEF Coded, Defined, Missing
<1>2. CASE s = 1 /\ hf /\ ~hr
  BY <1>2 DEF Coded, Defined, Missing
<1>3. CASE s = 1 /\ ~hf /\ hr
  BY <1>3 DEF Coded, Defined, Missing
<1>4. CASE s = 1 /\ ~hf /\ ~hr
  BY <1>4 DEF Coded, Defined, Missing
<1>5. CASE s = -1 /\ hf /\ hr
  BY <1>5 DEF Coded, Defined, Missing
<1>6. CASE s = -1 /\ hf /\ ~hr
  BY <1>6 DEF Coded, Defined, Missing
<1>7. CASE s = -1 /\ ~hf /\ hr
  BY <1>7 DEF Coded, Defined, Missing
<1>8. CASE s = -1 /\ ~hf /\ ~hr
  BY <1>8 DEF Coded, Defined, Missing
<1> QED BY <1>1, <1>2, <1>3, <1>4, <1>5, <1>6, <1>7, <1>8

(* The sums of BookMatchesFills are those of the invariant.                *)
LEMMA TotalsAre ==
  ASSUME ParentInvariant
  PROVE  /\ SumOf(LAMBDA f : f.quantity) = SumSeq(fillBook, Quantities)
         /\ SumOf(LAMBDA f : f.quantity * f.price) = SumSeq(fillBook, Paid)
         /\ SumOf(LAMBDA f : f.fee) = SumSeq(fillBook, Charged)
<1>1. \A i \in DOMAIN fillBook : fillBook[i] \in Fills
  BY DEF ParentInvariant
<1>2. /\ [i \in DOMAIN fillBook |-> fillBook[i].quantity] = [i \in DOMAIN fillBook |-> Quantities[fillBook[i]]]
      /\ [i \in DOMAIN fillBook |-> fillBook[i].quantity * fillBook[i].price]
           = [i \in DOMAIN fillBook |-> Paid[fillBook[i]]]
      /\ [i \in DOMAIN fillBook |-> fillBook[i].fee] = [i \in DOMAIN fillBook |-> Charged[fillBook[i]]]
  BY <1>1, TermsTyped
<1>3. \A f, S : SumFunctionOnSet(f, S) = SumOver(f, S)
  BY DEF SumFunctionOnSet, FoldFunctionOnSet, SumOver, MapThenSumSet
<1> QED BY <1>2, <1>3 DEF SumOf, SumSeq

(* compute_implementation_shortfall against Perold's definition.           *)
LEMMA ShortfallIsPerolds == ParentInvariant => PeroldIdentity
<1> SUFFICES ASSUME ParentInvariant, po # Unborn, NEW t \in Terminals
             PROVE  /\ ReportAccepted(t)
                    /\ LET paper == BuySign * (cumNotional + (po.total - filledQ) * t - po.total * po.arrival) + totalFees
                           dust == {Modulus(t - po.arrival)} \cup {Modulus(fillBook[i].price - po.arrival) : i \in DOMAIN fillBook}
                       IN  Modulus(Shortfall(t) - paper) <= 2 * Slack * Max(dust)
  BY DEF PeroldIdentity
<1> DEFINE a == po.arrival
           dust == {Modulus(t - a)} \cup {Modulus(fillBook[i].price - a) : i \in DOMAIN fillBook}
           d == Max(dust)
           paper == Defined(BuySign, filledQ, cumNotional, po.total, a, t, totalFees)
<1>1. /\ po \in Parents /\ filledQ <= po.total + Slack /\ fillBook \in Seq(Fills)
      /\ filledQ \in Nat /\ cumNotional \in Int /\ totalFees \in Int /\ filledQ <= cumNotional
      /\ filledQ = SumSeq(fillBook, Quantities) /\ cumNotional = SumSeq(fillBook, Paid)
  BY DEF ParentInvariant
<1>2. /\ po.total \in Nat \ {0} /\ a \in Nat \ {0} /\ po.decision \in Nat \ {0}
      /\ t \in Nat \ {0} /\ Slack \in Nat /\ BuySign \in {1, -1}
  BY <1>1, ParentAssumption DEF Parents, BuySign
<1>3. d \in Nat /\ t - a \in (-d)..d /\ \A i \in DOMAIN fillBook : fillBook[i].price - a \in (-d)..d
  <2>1. \A i \in DOMAIN fillBook : fillBook[i].price \in Int
    BY <1>1 DEF Fills
  <2>2. IsFiniteSet(DOMAIN fillBook)
    <3>1. Len(fillBook) \in Nat /\ DOMAIN fillBook = 1..Len(fillBook)
      BY <1>1, LenProperties
    <3> QED BY <3>1, FS_Interval
  <2>3. IsFiniteSet(dust)
    <3>1. IsFiniteSet({Modulus(fillBook[i].price - a) : i \in DOMAIN fillBook})
      <4> DEFINE Img == {Modulus(fillBook[i].price - a) : i \in DOMAIN fillBook}
                 fn == [i \in DOMAIN fillBook |-> Modulus(fillBook[i].price - a)]
      <4>1. fn \in Surjection(DOMAIN fillBook, Img)
        BY DEF Surjection
      <4> HIDE DEF fn, Img
      <4>2. IsFiniteSet(Img)
        BY <2>2, <4>1, FS_Surjection
      <4> QED BY <4>2 DEF Img
    <3>2. IsFiniteSet({Modulus(t - a)})
      BY FS_Singleton
    <3> QED BY <3>1, <3>2, FS_Union
  <2>4. \A x \in Int : Modulus(x) \in Nat /\ -Modulus(x) <= x /\ x <= Modulus(x)
    BY DEF Modulus
  <2>5. dust \subseteq Nat
    BY <1>2, <2>1, <2>4
  <2>6. Modulus(t - a) \in dust /\ \A i \in DOMAIN fillBook : Modulus(fillBook[i].price - a) \in dust
    OBVIOUS
  <2> HIDE DEF dust
  <2>7. d \in dust /\ \A x \in dust : x <= d
    <3>1. dust \subseteq Int /\ dust # {}
      BY <2>5, <2>6
    <3> QED BY <2>3, <3>1, MaxOfFinite
  <2> HIDE DEF d
  <2>8. ASSUME NEW x \in Int, Modulus(x) \in dust PROVE x \in (-d)..d
    BY <2>4, <2>5, <2>7, <2>8
  <2>9. t - a \in (-d)..d
    BY <1>2, <2>6, <2>8
  <2>10. \A i \in DOMAIN fillBook : fillBook[i].price - a \in (-d)..d
    BY <1>2, <2>1, <2>6, <2>8
  <2> QED BY <2>5, <2>7, <2>9, <2>10
<1> HIDE DEF dust, d
<1>4. cumNotional - a * filledQ \in (-(d * filledQ))..(d * filledQ)
  <2>1. a \in Int
    BY <1>2
  <2> HIDE DEF a
  <2> QED BY <1>1, <1>3, <2>1, Spread
<1>5. DEFINE hr == LeavesQ > Slack
             gap == Missing(HasFills, hr, filledQ, cumNotional, po.total, a, t)
<1>6. /\ Shortfall(t) = Coded(BuySign, HasFills, hr, filledQ, cumNotional, po.total, a,
                              po.decision, t, totalFees)
      /\ HasFills \in BOOLEAN /\ hr \in BOOLEAN
  <2>1. hr => LeavesQ = po.total - filledQ
    BY <1>1, <1>2 DEF LeavesQ
  <2>2. HasFills \in BOOLEAN /\ hr \in BOOLEAN
    BY <1>1, <1>2 DEF HasFills, LeavesQ
  <2> QED BY <2>1, <2>2 DEF Shortfall, DelayCost, PriceImpact, OpportunityCost, Coded
<1>7. gap \in (-(2 * (Slack * d)))..(2 * (Slack * d))
  <2> DEFINE m == Slack * d
             e1 == IF HasFills THEN 0 ELSE cumNotional - a * filledQ
             e2 == IF hr THEN 0 ELSE (po.total - filledQ) * (t - a)
  <2>1. m \in Nat
    BY <1>2, <1>3
  <2>2. e1 \in (-m)..m
    <3>1. CASE HasFills
      BY <2>1, <3>1
    <3>2. CASE ~HasFills
      <4>1. filledQ \in (-Slack)..Slack /\ d \in (-d)..d
        BY <1>1, <1>2, <1>3, <3>2 DEF HasFills
      <4>2. filledQ * d \in (-(Slack * d))..(Slack * d)
        BY <1>2, <1>3, <4>1, Residue
      <4>3. filledQ * d = d * filledQ /\ d * filledQ \in Int /\ cumNotional - a * filledQ \in Int
        <5>1. filledQ \in Int /\ d \in Int /\ a \in Int /\ cumNotional \in Int
          BY <1>1, <1>2, <1>3
        <5> HIDE DEF a, e1, e2, m, gap, hr, paper
        <5> QED BY <5>1
      <4>4. e1 = cumNotional - a * filledQ
        BY <3>2
      <4> HIDE DEF e1
      <4>5. e1 \in (-(d * filledQ))..(d * filledQ)
        BY <1>4, <4>4
      <4> QED BY <2>1, <4>2, <4>3, <4>5
    <3> QED BY <3>1, <3>2
  <2>3. e2 \in (-m)..m
    <3>1. CASE hr
      BY <2>1, <3>1
    <3>2. CASE ~hr
      <4>1. po.total - filledQ \in (-Slack)..Slack
        BY <1>1, <1>2, <3>2 DEF LeavesQ
      <4>2. (po.total - filledQ) * (t - a) \in (-(Slack * d))..(Slack * d)
        BY <1>2, <1>3, <4>1, Residue
      <4> QED BY <3>2, <4>2
    <3> QED BY <3>1, <3>2
  <2>4. gap = e1 + e2
    BY DEF Missing
  <2> HIDE DEF gap, e1, e2
  <2>5. gap \in (-(2 * m))..(2 * m)
    BY <2>1, <2>2, <2>3, <2>4
  <2> QED BY <2>5
<1>8. Shortfall(t) - paper = -(BuySign * gap) /\ gap \in Int
  <2>1. a \in Int /\ t \in Int /\ po.total \in Int /\ po.decision \in Int
    BY <1>2
  <2> HIDE DEF a, hr
  <2> QED BY <1>1, <1>2, <1>6, <2>1, Attribution
<1>9. Modulus(Shortfall(t) - paper) <= 2 * Slack * d
  <2>1. 2 * (Slack * d) = 2 * Slack * d /\ 2 * (Slack * d) \in Nat
    BY <1>2, <1>3
  <2> HIDE DEF gap, paper
  <2> QED BY <1>2, <1>7, <1>8, <2>1 DEF Modulus
<1>10. ReportAccepted(t)
  <2>1. LeavesQ >= 0
    BY <1>1, <1>2 DEF LeavesQ
  <2>2. HasFills => cumNotional > 0
    BY <1>1, <1>2 DEF HasFills
  <2> QED BY <1>1, <1>2, <2>1, <2>2 DEF ReportAccepted
<1> QED BY <1>9, <1>10 DEF Defined, dust, d

(* A parent's totals are those of its fills and never exceed it by more    *)
(* than the tolerance, and the reported shortfall is Perold's up to what   *)
(* the tolerance leaves out (INV-SOR-001, INV-SOR-005): for any parents,   *)
(* fills, refusals and terminal prices.                                    *)
THEOREM ParentBookExactHolds == ParentSpec => []ParentBookExact
<1>1. ParentInvariant => BookMatchesFills
  <2> SUFFICES ASSUME ParentInvariant, po # Unborn PROVE BookMatchesFills
    BY DEF BookMatchesFills
  <2> QED BY TotalsAre DEF ParentInvariant, BookMatchesFills
<1>2. ParentInvariant => ParentBookExact
  BY <1>1, ShortfallIsPerolds DEF ParentBookExact
<1> QED BY <1>2, ParentInvariantHolds, PTL

-----------------------------------------------------------------------------
(* The smart order router.                                                 *)

(* R orders T strictly and totally.                                        *)
StrictlyOrders(R, T) ==
  /\ \A x, y \in T : x = y \/ <<x, y>> \in R \/ <<y, x>> \in R
  /\ \A x, y, z \in T : <<x, y>> \in R /\ <<y, z>> \in R => <<x, z>> \in R

(* A finite set so ordered has a first element.                            *)
LEMMA FirstOf ==
  ASSUME NEW S, IsFiniteSet(S), S # {}, NEW R, StrictlyOrders(R, S)
  PROVE  \E x \in S : \A y \in S \ {x} : <<x, y>> \in R
<1> DEFINE First(s, x) == x \in s /\ \A y \in s \ {x} : <<x, y>> \in R
           Good == {s \in SUBSET S : s # {} => \E x : First(s, x)}
<1>1. {} \in Good
  OBVIOUS
<1>2. ASSUME NEW s \in SUBSET S, s # {}, s \ {Chosen(s)} \in Good PROVE s \in Good
  <2> DEFINE c == Chosen(s)
  <2>1. c \in s
    BY <1>2, ChosenIn
  <2> HIDE DEF c
  <2>2. CASE s \ {c} = {}
    <3>1. First(s, c)
      BY <2>1, <2>2
    <3> QED BY <3>1
  <2>3. CASE s \ {c} # {}
    <3>1. PICK m : First(s \ {c}, m)
      BY <1>2, <2>3 DEF c
    <3>2. m \in S /\ c \in S /\ m # c
      BY <2>1, <3>1
    <3>3. CASE <<m, c>> \in R
      <4>1. First(s, m)
        BY <3>1, <3>3
      <4> QED BY <4>1
    <3>4. CASE <<c, m>> \in R
      <4>1. ASSUME NEW y \in s \ {c} PROVE <<c, y>> \in R
        <5>1. y = m \/ <<m, y>> \in R
          BY <3>1
        <5> QED BY <3>2, <3>4, <5>1 DEF StrictlyOrders
      <4>2. First(s, c)
        BY <2>1, <4>1
      <4> QED BY <4>2
    <3> QED BY <3>2, <3>3, <3>4 DEF StrictlyOrders
  <2> QED BY <2>2, <2>3
<1>3. S \in Good
  <2> HIDE DEF Good
  <2> QED BY <1>1, <1>2, SubsetInduction
<1> QED BY <1>3

(* The orders in which the venues are tried.                               *)
LitOrder   == {p \in Lit \X Lit : LitBefore(p[1], p[2])}
LitReverse == {p \in Lit \X Lit : LitBefore(p[2], p[1])}
DarkOrder  == {p \in Dark \X Dark : DarkBefore(p[1], p[2])}

(* What a venue's parameters are.                                          *)
LEMMA VenueTyped ==
  ASSUME NEW v \in Venues
  PROVE  /\ TakerFee[v] \in Int /\ MinOrderSize[v] \in Nat \ {0} /\ Latency[v] \in Nat
         /\ FillProbability[v] \in 0..100 /\ v \in Nat
BY RouterAssumption DEF ValidVenue

(* The order in which lit venues are used is strict and total, and follows *)
(* the taker fee.                                                          *)
LEMMA LitStrict ==
  /\ \A u, v \in Lit : u = v \/ LitBefore(u, v) \/ LitBefore(v, u)
  /\ \A u, v, w \in Lit : LitBefore(u, v) /\ LitBefore(v, w) => LitBefore(u, w)
  /\ \A u, v \in Lit : LitBefore(u, v) => ~LitBefore(v, u) /\ u # v /\ TakerFee[u] <= TakerFee[v]
<1>1. \A v \in Lit : TakerFee[v] \in Int /\ Latency[v] \in Nat /\ v \in Nat
  BY VenueTyped DEF Venues
<1> QED BY <1>1 DEF LitBefore

(* So is the order of the dark venues.                                     *)
LEMMA DarkStrict ==
  /\ \A u, v \in Dark : u = v \/ DarkBefore(u, v) \/ DarkBefore(v, u)
  /\ \A u, v, w \in Dark : DarkBefore(u, v) /\ DarkBefore(v, w) => DarkBefore(u, w)
<1>1. \A v \in Dark : TakerFee[v] \in Int /\ Latency[v] \in Nat /\ FillProbability[v] \in Int /\ v \in Nat
  BY VenueTyped DEF Venues
<1> QED BY <1>1 DEF DarkBefore

(* A nonempty set of lit venues has a first and a last one.                *)
LEMMA LitEnds ==
  ASSUME NEW T \in SUBSET Lit, T # {}
  PROVE  /\ \E v \in T : \A u \in T \ {v} : LitBefore(v, u)
         /\ \E v \in T : \A u \in T \ {v} : LitBefore(u, v)
<1>1. IsFiniteSet(T)
  BY RouterAssumption, FS_Subset DEF Venues
<1>2. \A x, y \in T : (<<x, y>> \in LitOrder <=> LitBefore(x, y))
                      /\ (<<x, y>> \in LitReverse <=> LitBefore(y, x))
  BY DEF LitOrder, LitReverse
<1>3. StrictlyOrders(LitOrder, T) /\ StrictlyOrders(LitReverse, T)
  <2>1. \A x \in T : x \in Lit
    OBVIOUS
  <2> QED BY <1>2, <2>1, LitStrict DEF StrictlyOrders
<1>4. \E v \in T : \A u \in T \ {v} : <<v, u>> \in LitOrder
  BY <1>1, <1>3, FirstOf
<1>5. \E v \in T : \A u \in T \ {v} : <<v, u>> \in LitReverse
  BY <1>1, <1>3, FirstOf
<1> QED BY <1>2, <1>4, <1>5

(* The best dark venue is an eligible one.                                 *)
LEMMA BestIsEligible ==
  ASSUME NEW q, EligibleDark(q) # {} PROVE BestDark(q) \in EligibleDark(q)
<1> DEFINE T == EligibleDark(q)
<1>1. T \subseteq Dark
  BY DEF EligibleDark
<1>2. IsFiniteSet(T)
  BY <1>1, RouterAssumption, FS_Subset DEF Venues
<1>3. \A x, y \in T : <<x, y>> \in DarkOrder <=> DarkBefore(x, y)
  BY <1>1 DEF DarkOrder
<1> HIDE DEF T
<1>4. StrictlyOrders(DarkOrder, T)
  BY <1>1, <1>3, DarkStrict DEF StrictlyOrders
<1>5. \E v \in T : \A u \in T \ {v} : <<v, u>> \in DarkOrder
  BY <1>2, <1>4, FirstOf DEF T
<1>6. \E v \in T : \A u \in T \ {v} : DarkBefore(v, u)
  BY <1>3, <1>5
<1> QED BY <1>6 DEF BestDark, T

-----------------------------------------------------------------------------
(* The greedy split of q over depths d.                                    *)
Ahead(d, v) == {u \in Candidates(d) : LitBefore(u, v)}
Before(d, v) == SumOver(d, Ahead(d, v))

(* A depth is a sum over the venues.                                       *)
LEMMA Depth == ASSUME NEW d, NEW S PROVE DepthOf(d, S) = SumOver(d, S)
BY DEF DepthOf, SumOver

(* Candidates are lit venues with depth, and depths add up to numbers.     *)
LEMMA CandidatesTyped ==
  ASSUME NEW d \in [Lit -> Nat]
  PROVE  /\ Candidates(d) \subseteq Lit /\ \A v \in Candidates(d) : d[v] \in Nat \ {0}
         /\ IsFiniteSet(Lit) /\ \A S \in SUBSET Lit : IsFiniteSet(S)
         /\ \A S \in SUBSET Lit : SumOver(d, S) \in Nat
<1>1. IsFiniteSet(Lit) /\ \A S \in SUBSET Lit : IsFiniteSet(S)
  <2>1. IsFiniteSet(Lit)
    BY RouterAssumption, FS_Subset DEF Venues
  <2> QED BY <2>1, FS_Subset
<1>2. ASSUME NEW S \in SUBSET Lit PROVE SumOver(d, S) \in Nat
  <2>1. \A v \in S : d[v] \in Int
    OBVIOUS
  <2>2. SumOver(d, S) \in Int
    BY <1>1, <2>1, SumInt
  <2> DEFINE z == [v \in S |-> 0]
  <2>3. \A v \in S : z[v] \in Int /\ d[v] \in Int /\ z[v] <= d[v] /\ z[v] = 0
    OBVIOUS
  <2> HIDE DEF z
  <2>4. SumOver(z, S) <= SumOver(d, S) /\ SumOver(z, S) = 0
    BY <1>1, <2>3, SumAtMost, SumZero
  <2> QED BY <2>2, <2>4
<1> QED BY <1>1, <1>2 DEF Candidates

(* Adding up over a set and one venue outside it.                          *)
LEMMA DepthGrows ==
  ASSUME NEW d \in [Lit -> Nat], NEW S \in SUBSET Lit, NEW v \in Lit \ S, NEW T \in SUBSET Lit,
         S \cup {v} \subseteq T
  PROVE  /\ SumOver(d, S \cup {v}) = SumOver(d, S) + d[v]
         /\ SumOver(d, S) + d[v] <= SumOver(d, T)
<1>1. IsFiniteSet(S) /\ IsFiniteSet({v}) /\ IsFiniteSet(S \cup {v}) /\ IsFiniteSet(T \ (S \cup {v}))
  BY CandidatesTyped
<1>2. /\ SumOver(d, S) \in Nat /\ SumOver(d, T \ (S \cup {v})) \in Nat /\ d[v] \in Nat
  BY CandidatesTyped
<1>3. SumOver(d, S \cup {v}) = SumOver(d, S) + SumOver(d, {v}) /\ SumOver(d, {v}) = d[v]
  <2>1. S \cap {v} = {} /\ \A x \in S \cup {v} : d[x] \in Int
    OBVIOUS
  <2>2. SumOver(d, S \cup {v}) = SumOver(d, S) + SumOver(d, {v})
    BY <1>1, <2>1, SumUnion
  <2> QED BY <2>2, SumOne
<1>4. SumOver(d, T) = SumOver(d, S \cup {v}) + SumOver(d, T \ (S \cup {v}))
  <2> DEFINE A == S \cup {v}
             B == T \ A
  <2>1. A \cap B = {} /\ A \cup B = T /\ \A x \in A \cup B : d[x] \in Int
    OBVIOUS
  <2>2. IsFiniteSet(A) /\ IsFiniteSet(B)
    BY <1>1
  <2> HIDE DEF A, B
  <2>3. SumOver(d, A \cup B) = SumOver(d, A) + SumOver(d, B)
    BY <2>1, <2>2, SumUnion
  <2> QED BY <2>1, <2>3 DEF A, B
<1> QED BY <1>2, <1>3, <1>4

(* What the greedy split gives a venue, without Min and Max.               *)
LEMMA AllocationOf ==
  ASSUME NEW d \in [Lit -> Nat], NEW q \in Nat, NEW v \in Lit
  PROVE  Allocation(q, d)[v] =
           IF v \notin Candidates(d) \/ Before(d, v) >= q THEN 0
           ELSE IF d[v] <= q - Before(d, v) THEN d[v] ELSE q - Before(d, v)
<1>1. DepthOf(d, {u \in Candidates(d) : LitBefore(u, v)}) = Before(d, v)
  BY Depth DEF Before, Ahead
<1>2. Before(d, v) \in Nat /\ d[v] \in Nat
  BY CandidatesTyped DEF Before, Ahead
<1>3. Max({0, q - Before(d, v)}) = IF Before(d, v) >= q THEN 0 ELSE q - Before(d, v)
  <2>1. q - Before(d, v) \in Int
    BY <1>2
  <2>2. Max({0, q - Before(d, v)}) = IF 0 >= q - Before(d, v) THEN 0 ELSE q - Before(d, v)
    BY <2>1, LargerOfTwo
  <2> QED BY <1>2, <2>2
<1>4. Allocation(q, d)[v] = IF v \notin Candidates(d) THEN 0
                            ELSE Min({d[v], Max({0, q - Before(d, v)})})
  BY <1>1 DEF Allocation
<1> DEFINE m == IF Before(d, v) >= q THEN 0 ELSE q - Before(d, v)
<1>5. m \in Int
  BY <1>2
<1>6. Min({d[v], m}) = IF d[v] <= m THEN d[v] ELSE m
  <2> HIDE DEF m
  <2> QED BY <1>2, <1>5, SmallerOfTwo
<1> QED BY <1>2, <1>3, <1>4, <1>6

(* The venue w at which a greedy split of q stops: those before it are used*)
(* up, those after it are left alone, and it takes what is left.           *)
Marginal(q, d, w) ==
  /\ w \in Candidates(d) /\ Before(d, w) < q /\ q <= Before(d, w) + d[w]
  /\ \A v \in Candidates(d) : LitBefore(v, w) => Before(d, v) + d[v] < q
  /\ \A v \in Candidates(d) : LitBefore(w, v) => Before(d, v) >= q

(* Depth before a venue that is itself before another one.                 *)
LEMMA BeforeGrows ==
  ASSUME NEW d \in [Lit -> Nat], NEW v \in Candidates(d), NEW w \in Candidates(d), LitBefore(v, w)
  PROVE  Before(d, v) + d[v] <= Before(d, w)
<1> DEFINE S == Ahead(d, v)
           T == Ahead(d, w)
<1>1. Candidates(d) \subseteq Lit
  BY CandidatesTyped
<1>2. S \subseteq Lit /\ T \subseteq Lit /\ v \in Lit \ S
  BY <1>1, LitStrict DEF Ahead
<1>3. S \cup {v} \subseteq T
  BY <1>1, LitStrict DEF Ahead
<1> HIDE DEF S, T
<1>4. SumOver(d, S) + d[v] <= SumOver(d, T)
  BY <1>2, <1>3, DepthGrows
<1> QED BY <1>4 DEF Before, S, T

(* A venue that is next after w has all of w's depth before it.            *)
LEMMA NextAfter ==
  ASSUME NEW d \in [Lit -> Nat], NEW w \in Candidates(d), NEW T \in SUBSET Lit,
         T = Ahead(d, w) \cup {w}
  PROVE  SumOver(d, T) = Before(d, w) + d[w]
<1> DEFINE S == Ahead(d, w)
<1>1. S \subseteq Lit /\ w \in Lit \ S
  BY CandidatesTyped, LitStrict DEF Ahead
<1>2. T = S \cup {w}
  OBVIOUS
<1> HIDE DEF S
<1>3. SumOver(d, S \cup {w}) = SumOver(d, S) + d[w]
  BY <1>1, <1>2, DepthGrows
<1> QED BY <1>2, <1>3 DEF Before, S

(* When there is depth enough there is such a venue.                       *)
LEMMA MarginalExists ==
  ASSUME NEW d \in [Lit -> Nat], NEW q \in Nat \ {0}, DepthOf(d, Candidates(d)) >= q
  PROVE  \E w : Marginal(q, d, w)
<1> DEFINE C == Candidates(d)
           Served == {v \in C : Before(d, v) < q}
<1>1. C \subseteq Lit /\ \A v \in C : d[v] \in Nat \ {0} /\ Before(d, v) \in Nat
  BY CandidatesTyped DEF Before, Ahead
<1>2. SumOver(d, C) >= q
  BY Depth
<1>3. C # {}
  BY <1>2, SumEmpty
<1>4. Served # {}
  <2>1. PICK v \in C : \A u \in C \ {v} : LitBefore(v, u)
    BY <1>1, <1>3, LitEnds
  <2>2. Ahead(d, v) = {}
    BY <1>1, <2>1, LitStrict DEF Ahead
  <2>3. Before(d, v) = 0
    BY <2>2, SumEmpty DEF Before
  <2> QED BY <2>1, <2>3
<1>5. PICK w \in Served : \A v \in Served \ {w} : LitBefore(v, w)
  <2>1. Served \in SUBSET Lit
    BY <1>1
  <2> HIDE DEF Served
  <2> QED BY <1>4, <2>1, LitEnds
<1>6. w \in C /\ Before(d, w) < q
  BY <1>5
<1>7. ASSUME NEW v \in C, LitBefore(v, w) PROVE Before(d, v) + d[v] < q
  BY <1>1, <1>6, <1>7, BeforeGrows
<1>8. ASSUME NEW v \in C, LitBefore(w, v) PROVE Before(d, v) >= q
  <2>1. v \notin Served
    BY <1>1, <1>5, <1>8, LitStrict
  <2> QED BY <1>1, <2>1
<1>9. q <= Before(d, w) + d[w]
  <2> DEFINE After == {v \in C : LitBefore(w, v)}
  <2>1. \A v \in C : v = w \/ v \in After \/ v \in Ahead(d, w)
    BY <1>1, <1>6, LitStrict DEF Ahead
  <2>2. CASE After = {}
    <3>1. C = Ahead(d, w) \cup {w}
      BY <1>6, <2>1, <2>2 DEF Ahead
    <3>2. SumOver(d, C) = Before(d, w) + d[w]
      BY <1>1, <1>6, <3>1, NextAfter
    <3> QED BY <1>2, <3>2
  <2>3. CASE After # {}
    <3>1. After \subseteq Lit
      BY <1>1
    <3>2. \E x \in After : \A u \in After \ {x} : LitBefore(x, u)
      <4> HIDE DEF After
      <4> QED BY <2>3, <3>1, LitEnds
    <3>3. PICK x \in After : \A u \in After \ {x} : LitBefore(x, u)
      BY <3>2
    <3>4. x \in C /\ LitBefore(w, x)
      BY <3>3
    <3>5. Ahead(d, x) = Ahead(d, w) \cup {w}
      <4>1. ASSUME NEW u \in C, LitBefore(u, x) PROVE u = w \/ LitBefore(u, w)
        <5>1. u \notin After
          BY <1>1, <3>3, <3>4, <4>1, LitStrict
        <5> QED BY <2>1, <5>1 DEF Ahead
      <4>2. \A u \in C : LitBefore(u, w) => LitBefore(u, x)
        BY <1>1, <1>6, <3>4, LitStrict
      <4> QED BY <1>6, <3>4, <4>1, <4>2 DEF Ahead
    <3>6. Before(d, x) = Before(d, w) + d[w]
      <4>1. Ahead(d, x) \subseteq Lit
        BY <1>1 DEF Ahead
      <4>2. SumOver(d, Ahead(d, x)) = Before(d, w) + d[w]
        BY <1>6, <3>5, <4>1, NextAfter
      <4> QED BY <4>2 DEF Before
    <3> QED BY <1>8, <3>4, <3>6
  <2> QED BY <2>2, <2>3
<1> QED BY <1>6, <1>7, <1>8, <1>9 DEF Marginal

(* The greedy split, told by where it stops.                               *)
LEMMA SplitAt ==
  ASSUME NEW d \in [Lit -> Nat], NEW q \in Nat \ {0}, NEW w, Marginal(q, d, w), NEW v \in Lit
  PROVE  /\ v \notin Candidates(d) => Allocation(q, d)[v] = 0
         /\ v \in Candidates(d) /\ LitBefore(v, w) => Allocation(q, d)[v] = d[v]
         /\ v = w => Allocation(q, d)[v] = q - Before(d, w)
         /\ v \in Candidates(d) /\ LitBefore(w, v) => Allocation(q, d)[v] = 0
         /\ Allocation(q, d)[v] \in Nat /\ Allocation(q, d)[v] <= d[v]
<1>1. Before(d, v) \in Nat /\ d[v] \in Nat
  BY CandidatesTyped DEF Before, Ahead
<1>2. Allocation(q, d)[v] = IF v \notin Candidates(d) \/ Before(d, v) >= q THEN 0
                            ELSE IF d[v] <= q - Before(d, v) THEN d[v] ELSE q - Before(d, v)
  BY AllocationOf
<1>3. v = w => v \in Candidates(d) /\ Before(d, v) < q /\ q <= Before(d, v) + d[v]
  BY DEF Marginal
<1>4. v \in Candidates(d) /\ LitBefore(v, w) => Before(d, v) + d[v] < q
  BY DEF Marginal
<1>5. v \in Candidates(d) /\ LitBefore(w, v) => Before(d, v) >= q
  BY DEF Marginal
<1> DEFINE x == Allocation(q, d)[v]
           b == Before(d, v)
<1> HIDE DEF x
<1>6. v \notin Candidates(d) => x = 0
  BY <1>2 DEF x
<1>7. v \in Candidates(d) /\ LitBefore(v, w) => x = d[v]
  BY <1>1, <1>2, <1>4 DEF x
<1>8. v = w => x = q - b
  BY <1>1, <1>2, <1>3 DEF x
<1>9. v \in Candidates(d) /\ LitBefore(w, v) => x = 0
  BY <1>2, <1>5 DEF x
<1>10. x \in Nat /\ x <= d[v]
  BY <1>1, <1>2 DEF x
<1> QED BY <1>6, <1>7, <1>8, <1>9, <1>10 DEF x

(* It adds up to what was asked for.                                       *)
LEMMA SplitWhole ==
  ASSUME NEW d \in [Lit -> Nat], NEW q \in Nat \ {0}, NEW w, Marginal(q, d, w)
  PROVE  SumOver(Allocation(q, d), Lit) = q
<1> DEFINE m == Allocation(q, d)
           A == Ahead(d, w)
           B == Lit \ (A \cup {w})
<1>1. w \in Candidates(d) /\ Candidates(d) \subseteq Lit /\ A \subseteq Candidates(d) /\ w \notin A
  BY CandidatesTyped, LitStrict DEF Marginal, Ahead
<1>2. IsFiniteSet(A) /\ IsFiniteSet({w}) /\ IsFiniteSet(A \cup {w}) /\ IsFiniteSet(B)
  <2>1. \A S \in SUBSET Lit : IsFiniteSet(S)
    BY CandidatesTyped
  <2> QED BY <1>1, <2>1
<1>3. \A v \in Lit : m[v] \in Int
  BY SplitAt
<1>4. \A v \in A : m[v] = d[v]
  BY <1>1, SplitAt DEF Ahead
<1>5. m[w] = q - Before(d, w)
  BY <1>1, SplitAt
<1>6. \A v \in B : m[v] = 0
  <2> SUFFICES ASSUME NEW v \in B PROVE m[v] = 0
    OBVIOUS
  <2>1. v \notin Candidates(d) \/ LitBefore(w, v)
    BY <1>1, LitStrict DEF Ahead
  <2> QED BY <2>1, SplitAt
<1> HIDE DEF m
<1>7. SumOver(m, A) = Before(d, w) /\ SumOver(m, A) \in Int
  <2>1. \A v \in A : m[v] \in Int /\ d[v] = m[v]
    BY <1>1, <1>3, <1>4
  <2> HIDE DEF A
  <2>2. SumOver(m, A) = SumOver(d, A) /\ SumOver(m, A) \in Int
    BY <1>2, <2>1, SumAgrees, SumInt
  <2> QED BY <2>2 DEF Before, A
<1>8. SumOver(m, A \cup {w}) = SumOver(m, A) + m[w]
  <2>1. \A v \in A \cup {w} : m[v] \in Int
    BY <1>1, <1>3
  <2>2. A \cap {w} = {}
    BY <1>1
  <2> HIDE DEF A
  <2>3. SumOver(m, A \cup {w}) = SumOver(m, A) + SumOver(m, {w})
    BY <1>2, <2>1, <2>2, SumUnion
  <2>4. SumOver(m, {w}) = m[w]
    BY <2>1, SumOne
  <2> QED BY <2>3, <2>4
<1>9. SumOver(m, Lit) = SumOver(m, A \cup {w}) + SumOver(m, B)
  <2> DEFINE U == A \cup {w}
  <2>1. U \cap B = {} /\ U \cup B = Lit /\ \A v \in U \cup B : m[v] \in Int
    BY <1>1, <1>3
  <2>2. IsFiniteSet(U) /\ IsFiniteSet(B)
    BY <1>2
  <2> HIDE DEF U, B
  <2>3. SumOver(m, U \cup B) = SumOver(m, U) + SumOver(m, B)
    BY <2>1, <2>2, SumUnion
  <2> QED BY <2>1, <2>3 DEF U
<1>10. SumOver(m, B) = 0
  BY <1>2, <1>6, SumZero
<1>11. Before(d, w) \in Nat
  BY CandidatesTyped DEF Before, Ahead
<1>12. SumOver(m, Lit) = q
  BY <1>5, <1>7, <1>8, <1>9, <1>10, <1>11
<1> QED BY <1>12 DEF m

(* What each lit venue is paid for split a.                                *)
CostSum(a) == [v \in Lit |-> a[v] * TakerFee[v]]

(* Trading y - x from price g to price f saves money.                      *)
Saves(x, y, f, g) == x * g + f * y <= y * g + f * x

(* It does when the dearer venue's fee is the higher one.                  *)
LEMMA Exchange ==
  ASSUME NEW x \in Int, NEW y \in Int, NEW f \in Int, NEW g \in Int, x <= y, f <= g
  PROVE  Saves(x, y, f, g)
<1>1. (y - x) * (g - f) >= 0
  OBVIOUS
<1>2. (y - x) * (g - f) = y * g + f * x - (x * g + f * y)
  OBVIOUS
<1> QED BY <1>1, <1>2 DEF Saves

(* No split of q within the depths is cheaper: what it has more of than the*)
(* greedy one, after w, costs at least w's fee, and what it has less of,   *)
(* before w, at most that.                                                 *)
LEMMA SplitCheapest ==
  ASSUME NEW d \in [Lit -> Nat], NEW q \in Nat \ {0}, NEW w, Marginal(q, d, w),
         NEW a \in [Lit -> Nat], SumOver(a, Lit) = q,
         \A v \in Lit : a[v] <= IF v \in Candidates(d) THEN d[v] ELSE 0
  PROVE  Cost(Allocation(q, d)) <= Cost(a)
<1> DEFINE m == Allocation(q, d)
           fee == TakerFee[w]
           mine == [v \in Lit |-> 1 * CostSum(m)[v] + fee * a[v]]
           other == [v \in Lit |-> 1 * CostSum(a)[v] + fee * m[v]]
<1>1. IsFiniteSet(Lit) /\ w \in Candidates(d) /\ Candidates(d) \subseteq Lit
  BY CandidatesTyped DEF Marginal
<1>2. \A v \in Lit : TakerFee[v] \in Int /\ m[v] \in Nat /\ a[v] \in Nat
  BY VenueTyped, SplitAt DEF Venues
<1>3. SumOver(m, Lit) = q
  BY SplitWhole
<1>4. ASSUME NEW v \in Lit PROVE m[v] * TakerFee[v] + fee * a[v] <= a[v] * TakerFee[v] + fee * m[v]
  <2>1. fee \in Int /\ TakerFee[v] \in Int /\ m[v] \in Nat /\ a[v] \in Nat
    BY <1>1, <1>2
  <2>3. CASE v \notin Candidates(d)
    <3>1. m[v] = 0 /\ a[v] = 0
      BY <2>1, <2>3, SplitAt
    <3> QED BY <2>1, <3>1
  <2>4. CASE v = w
    BY <2>1, <2>4
  <2>5. CASE v \in Candidates(d) /\ LitBefore(v, w)
    <3>1. a[v] <= m[v] /\ TakerFee[v] <= fee
      BY <1>1, <2>1, <2>5, SplitAt, LitStrict
    <3> HIDE DEF m, fee
    <3>2. a[v] * fee + TakerFee[v] * m[v] <= m[v] * fee + TakerFee[v] * a[v]
      <4>1. Saves(a[v], m[v], TakerFee[v], fee)
        BY <2>1, <3>1, Exchange
      <4> QED BY <4>1 DEF Saves
    <3>3. \A x, y \in Int : x * y = y * x
      OBVIOUS
    <3>4. /\ a[v] * fee = fee * a[v] /\ TakerFee[v] * m[v] = m[v] * TakerFee[v]
          /\ m[v] * fee = fee * m[v] /\ TakerFee[v] * a[v] = a[v] * TakerFee[v]
      BY <2>1, <3>3
    <3>5. {fee * a[v], m[v] * TakerFee[v], fee * m[v], a[v] * TakerFee[v]} \subseteq Int
      BY <2>1
    <3> QED BY <3>2, <3>4, <3>5
  <2>6. CASE v \in Candidates(d) /\ LitBefore(w, v)
    <3>1. m[v] <= a[v] /\ fee <= TakerFee[v]
      BY <1>1, <2>1, <2>6, SplitAt, LitStrict
    <3> HIDE DEF m, fee
    <3>2. m[v] * TakerFee[v] + fee * a[v] <= a[v] * TakerFee[v] + fee * m[v]
      <4>1. Saves(m[v], a[v], fee, TakerFee[v])
        BY <2>1, <3>1, Exchange
      <4> QED BY <4>1 DEF Saves
    <3> QED BY <3>2
  <2> QED BY <1>1, <2>3, <2>4, <2>5, <2>6, LitStrict
<1>5. fee \in Int
  BY <1>1, <1>2
<1> HIDE DEF m, fee
<1>6. /\ Combines(mine, 1, CostSum(m), fee, a, Lit) /\ Combines(other, 1, CostSum(a), fee, m, Lit)
      /\ \A v \in Lit : mine[v] \in Int /\ other[v] \in Int /\ mine[v] <= other[v]
  <2>1. ASSUME NEW v \in Lit
        PROVE  /\ CostSum(m)[v] = m[v] * TakerFee[v] /\ CostSum(a)[v] = a[v] * TakerFee[v]
               /\ CostSum(m)[v] \in Int /\ CostSum(a)[v] \in Int
               /\ fee * a[v] \in Int /\ fee * m[v] \in Int
    BY <1>2, <1>5 DEF CostSum
  <2>2. ASSUME NEW v \in Lit PROVE mine[v] \in Int /\ other[v] \in Int /\ mine[v] <= other[v]
    <3>1. mine[v] = m[v] * TakerFee[v] + fee * a[v] /\ other[v] = a[v] * TakerFee[v] + fee * m[v]
      BY <2>1
    <3>2. m[v] * TakerFee[v] \in Int /\ a[v] * TakerFee[v] \in Int
      BY <1>2
    <3> QED BY <1>4, <2>1, <3>1, <3>2
  <2>3. \A v \in Lit : CostSum(m)[v] \in Int /\ CostSum(a)[v] \in Int /\ m[v] \in Int /\ a[v] \in Int
    BY <1>2, <2>1
  <2> QED BY <2>2, <2>3 DEF Combines
<1> HIDE DEF mine, other
<1>7. SumOver(mine, Lit) <= SumOver(other, Lit)
  BY <1>1, <1>6, SumAtMost
<1>8. SumOver(mine, Lit) = 1 * SumOver(CostSum(m), Lit) + fee * SumOver(a, Lit)
  BY <1>1, <1>5, <1>6, SumLinear
<1>9. SumOver(other, Lit) = 1 * SumOver(CostSum(a), Lit) + fee * SumOver(m, Lit)
  BY <1>1, <1>5, <1>6, SumLinear
<1>10. SumOver(CostSum(m), Lit) \in Int /\ SumOver(CostSum(a), Lit) \in Int
  BY <1>1, <1>6, SumInt DEF Combines
<1>11. SumOver(CostSum(m), Lit) <= SumOver(CostSum(a), Lit)
  <2>1. fee * q \in Int
    BY <1>5
  <2> QED BY <1>3, <1>7, <1>8, <1>9, <1>10, <2>1
<1>12. \A c : Cost(c) = SumOver(CostSum(c), Lit)
  BY DEF Cost, CostSum, SumFunctionOnSet, FoldFunctionOnSet, SumOver, MapThenSumSet
<1> QED BY <1>11, <1>12 DEF m

(* Hence no split of what is left pays less in taker fees.                 *)
LEMMA Cheapest == ASSUME depth \in [Lit -> Nat], want \in Nat PROVE AllocationIsCheapest
<1> SUFFICES ASSUME NEW q \in 1..want, DepthOf(depth, Candidates(depth)) >= q
             PROVE  LET mine == Allocation(q, depth)
                        others == {a \in [Lit -> 0..q] :
                                     Sum(a) = q /\ \A v \in Lit : a[v] <= IF v \in Candidates(depth) THEN depth[v] ELSE 0}
                    IN  mine \in others /\ \A a \in others : Cost(mine) <= Cost(a)
  BY DEF AllocationIsCheapest
<1>1. q \in Nat \ {0}
  OBVIOUS
<1>2. PICK w : Marginal(q, depth, w)
  BY <1>1, MarginalExists
<1>3. \A a : Sum(a) = SumOver(a, Lit)
  BY DEF Sum, SumOver
<1> DEFINE m == Allocation(q, depth)
<1>4. SumOver(m, Lit) = q
  BY <1>1, <1>2, SplitWhole
<1>5. ASSUME NEW v \in Lit
      PROVE  m[v] \in 0..q /\ m[v] <= IF v \in Candidates(depth) THEN depth[v] ELSE 0
  <2>1. m[v] \in Nat /\ m[v] <= depth[v] /\ (v \notin Candidates(depth) => m[v] = 0)
    BY <1>1, <1>2, SplitAt
  <2>2. m[v] <= q
    <3>1. Before(depth, v) \in Nat /\ depth[v] \in Nat
      BY CandidatesTyped DEF Before, Ahead
    <3>2. m[v] = IF v \notin Candidates(depth) \/ Before(depth, v) >= q THEN 0
                 ELSE IF depth[v] <= q - Before(depth, v) THEN depth[v] ELSE q - Before(depth, v)
      BY <1>1, AllocationOf
    <3> HIDE DEF m
    <3> QED BY <1>1, <3>1, <3>2
  <2> HIDE DEF m
  <2> QED BY <1>1, <2>1, <2>2
<1>6. m = [v \in Lit |-> m[v]]
  BY DEF Allocation
<1>7. m \in [Lit -> 0..q]
  BY <1>5, <1>6
<1>8. ASSUME NEW a \in [Lit -> 0..q], Sum(a) = q,
             \A v \in Lit : a[v] <= IF v \in Candidates(depth) THEN depth[v] ELSE 0
      PROVE  Cost(m) <= Cost(a)
  <2>1. a \in [Lit -> Nat] /\ SumOver(a, Lit) = q
    BY <1>1, <1>3, <1>8
  <2> QED BY <1>1, <1>2, <1>8, <2>1, SplitCheapest
<1> HIDE DEF m
<1>9. Sum(m) = q
  BY <1>3, <1>4
<1>10. m \in {a \in [Lit -> 0..q] :
                Sum(a) = q /\ \A v \in Lit : a[v] <= IF v \in Candidates(depth) THEN depth[v] ELSE 0}
  BY <1>5, <1>7, <1>9
<1> QED BY <1>8, <1>10 DEF m

(* The types of the router's state.                                        *)
RouterTyped ==
  /\ quarantined \subseteq Venues /\ toxic \in [Venues -> Nat] /\ until \in [Venues -> Nat]
  /\ now \in Nat /\ asOf \in Nat /\ asOf <= now
  /\ routing \in {"idle", "dark", "cancel", "lit", "returned", "raised"}
  /\ depth \in [Lit -> Nat] /\ todo \in [Lit -> Nat] /\ raced \in BOOLEAN
  /\ want \in Nat /\ unfilled \in Nat /\ darkOpen \in Nat
  /\ reports \in Nat /\ executed \in Nat /\ resting \in Nat

(* Where the slice's lots are, in each state of route_slice.               *)
LotsAccounted ==
  /\ routing = "idle" =>
       /\ want = 0 /\ unfilled = 0 /\ darkOpen = 0 /\ reports = 0 /\ executed = 0 /\ resting = 0
       /\ ~raced
  /\ routing = "dark" =>
       /\ want > 0 /\ darkOpen = want /\ unfilled = want /\ ~raced
       /\ reports = 0 /\ executed = 0 /\ resting = 0
  /\ routing = "cancel" =>
       /\ resting = 0 /\ unfilled > 0 /\ reports + unfilled = want
       /\ ~raced => executed = reports /\ executed + darkOpen <= want
  /\ routing = "lit" =>
       darkOpen = 0 /\ (~raced => executed = reports /\ executed + resting + SumOver(todo, Lit) = want)
  /\ routing = "returned" =>
       darkOpen = 0 /\ (~raced => reports = executed /\ reports + resting = want)
  /\ routing = "raised" /\ ~raced => executed + resting + darkOpen <= want

(* The inductive invariant of the router: its types, the slice's lots, what*)
(* a streak of toxic fills entails and where the children may go.          *)
SliceInvariant == RouterTyped /\ LotsAccounted
RouterInvariant == SliceInvariant /\ QuarantineHolds /\ QuarantineHonoured

(* It holds of an idle router with every venue active.                     *)
LEMMA RouterStarts == RouterInit => RouterInvariant
<1> SUFFICES ASSUME RouterInit PROVE RouterInvariant
  OBVIOUS
<1>1. RouterTyped
  <2>1. /\ quarantined \subseteq Venues /\ toxic \in [Venues -> Nat] /\ until \in [Venues -> Nat]
        /\ now = 0 /\ asOf = 0 /\ routing = "idle"
    BY DEF RouterInit
  <2>2. /\ depth \in [Lit -> Nat] /\ todo \in [Lit -> Nat] /\ raced \in BOOLEAN
        /\ want \in Nat /\ unfilled \in Nat /\ darkOpen \in Nat
        /\ reports \in Nat /\ executed \in Nat /\ resting \in Nat
    BY DEF RouterInit, NoOrders
  <2> QED BY <2>1, <2>2 DEF RouterTyped
<1>2. LotsAccounted
  BY DEF RouterInit, LotsAccounted
<1>3. QuarantineHolds
  BY RouterAssumption DEF RouterInit, QuarantineHolds
<1>4. QuarantineHonoured
  BY DEF RouterInit, QuarantineHonoured
<1> QED BY <1>1, <1>2, <1>3, <1>4 DEF RouterInvariant, SliceInvariant

-----------------------------------------------------------------------------
(* The health of the venues.                                               *)

(* The types of the venues' health.                                        *)
HealthTyped ==
  quarantined \subseteq Venues /\ toxic \in [Venues -> Nat] /\ until \in [Venues -> Nat]

(* What a step may do to it: no quarantine gets shorter.                   *)
HealthKept ==
  HealthTyped' /\ QuarantineHolds' /\ \A v \in Venues : until'[v] >= until[v]

(* A venue is freed at t only if its quarantine was over by then.          *)
Served(t) == \A v \in quarantined \ quarantined' : until[v] <= t

(* is_active resets the streak of the venues it frees.                     *)
LEMMA AskedKeeps ==
  ASSUME HealthTyped, QuarantineHolds, NEW vs, NEW t \in Nat, Asked(vs, t) PROVE HealthKept /\ Served(t)
<1> DEFINE freed == {v \in vs \cap quarantined : Over(v, t)}
<1>1. /\ quarantined' = quarantined \ freed /\ until' = until
      /\ toxic' = [v \in Venues |-> IF v \in freed THEN 0 ELSE toxic[v]]
  BY DEF Asked
<1>2. ToxicLimit \in Nat \ {0}
  BY RouterAssumption
<1>3. HealthTyped'
  BY <1>1 DEF HealthTyped
<1>4. \A v \in Venues : toxic'[v] >= ToxicLimit => v \in quarantined'
  BY <1>1, <1>2 DEF HealthTyped, QuarantineHolds
<1>5. \A v \in quarantined' : until'[v] >= Quarantine
  BY <1>1 DEF QuarantineHolds
<1>6. \A v \in Venues : until'[v] >= until[v]
  BY <1>1 DEF HealthTyped
<1>7. Served(t)
  BY <1>1 DEF Served, Over
<1> QED BY <1>3, <1>4, <1>5, <1>6, <1>7 DEF HealthKept, QuarantineHolds

(* record_fill_markout quarantines at the limit, until the later end.      *)
LEMMA MarkoutKeeps ==
  ASSUME HealthTyped, QuarantineHolds, NEW v \in Venues, NEW bad \in BOOLEAN, NEW t \in Nat,
         RecordFillMarkout(v, bad, t)
  PROVE  HealthKept /\ Served(t)
<1> DEFINE over == v \in quarantined /\ Over(v, t)
           streak == IF bad THEN (IF over THEN 0 ELSE toxic[v]) + 1 ELSE 0
<1>1. ToxicLimit \in Nat \ {0} /\ Quarantine \in Nat
  BY RouterAssumption
<1>2. streak \in Nat /\ (streak >= ToxicLimit => bad) /\ until[v] \in Nat
  BY <1>1 DEF HealthTyped
<1>3. toxic' = [toxic EXCEPT ![v] = streak]
  BY DEF RecordFillMarkout
<1>4. CASE bad /\ streak >= ToxicLimit
  <2>1. /\ quarantined' = quarantined \cup {v}
        /\ until' = [until EXCEPT ![v] = Max({until[v], t + Quarantine})]
    BY <1>4 DEF RecordFillMarkout
  <2>2. Max({until[v], t + Quarantine}) = IF until[v] >= t + Quarantine THEN until[v] ELSE t + Quarantine
    <3>1. until[v] \in Int /\ t + Quarantine \in Int
      BY <1>1, <1>2
    <3> QED BY <3>1, LargerOfTwo
  <2> DEFINE m == Max({until[v], t + Quarantine})
  <2>3. m \in Nat /\ m >= until[v] /\ m >= Quarantine
    BY <1>1, <1>2, <2>2
  <2> HIDE DEF m, streak
  <2>4. HealthTyped'
    BY <1>2, <1>3, <2>1, <2>3 DEF HealthTyped, m
  <2>5. \A u \in Venues : toxic'[u] >= ToxicLimit => u \in quarantined'
    BY <1>3, <2>1 DEF HealthTyped, QuarantineHolds
  <2>6. \A u \in quarantined' : until'[u] >= Quarantine
    BY <2>1, <2>3 DEF HealthTyped, QuarantineHolds, m
  <2>7. \A u \in Venues : until'[u] >= until[u]
    BY <2>1, <2>3 DEF HealthTyped, m
  <2>8. Served(t)
    BY <2>1 DEF Served
  <2> QED BY <2>4, <2>5, <2>6, <2>7, <2>8 DEF HealthKept, QuarantineHolds
<1>5. CASE ~(bad /\ streak >= ToxicLimit)
  <2>1. /\ quarantined' = IF over THEN quarantined \ {v} ELSE quarantined
        /\ until' = until
    BY <1>5 DEF RecordFillMarkout
  <2>2. streak < ToxicLimit
    BY <1>1, <1>2, <1>5
  <2>7. Served(t)
    BY <2>1 DEF Served, Over
  <2> HIDE DEF over, streak
  <2>3. HealthTyped'
    BY <1>2, <1>3, <2>1 DEF HealthTyped
  <2>4. \A u \in Venues : toxic'[u] >= ToxicLimit => u \in quarantined'
    <3> SUFFICES ASSUME NEW u \in Venues, toxic'[u] >= ToxicLimit PROVE u \in quarantined'
      OBVIOUS
    <3>1. u # v /\ toxic'[u] = toxic[u]
      BY <1>1, <1>2, <1>3, <2>2 DEF HealthTyped
    <3> QED BY <2>1, <3>1 DEF QuarantineHolds
  <2>5. \A u \in quarantined' : until'[u] >= Quarantine
    BY <2>1 DEF QuarantineHolds
  <2>6. \A u \in Venues : until'[u] >= until[u]
    BY <2>1 DEF HealthTyped
  <2> QED BY <2>3, <2>4, <2>5, <2>6, <2>7 DEF HealthKept, QuarantineHolds
<1> QED BY <1>4, <1>5

(* A step that leaves the health alone keeps it.                           *)
LEMMA HealthUnchanged == ASSUME HealthTyped, QuarantineHolds, UNCHANGED healthVars PROVE HealthKept /\ Served(now)
BY DEF HealthTyped, QuarantineHolds, HealthKept, Served, healthVars

(* Every step that is not about a markout asks some venues, or none.       *)
LEMMA StepHealth ==
  ASSUME RouterInvariant, RouterNext PROVE HealthKept /\ Served(now) /\ now' \in Nat /\ now' >= now
<1> DEFINE goal == HealthKept /\ Served(now) /\ now' \in Nat /\ now' >= now
<1>1. HealthTyped /\ QuarantineHolds /\ now \in Nat /\ SliceClock \in Nat /\ SliceClock <= now
  BY DEF RouterInvariant, SliceInvariant, RouterTyped, HealthTyped, SliceClock
<1>2. ASSUME NEW v \in Venues, NEW bad \in BOOLEAN, NEW t \in {now, Max({0, now - 2})},
             RecordFillMarkout(v, bad, t)
      PROVE  goal
  <2>1. now - 2 \in Int
    BY <1>1
  <2>2. Max({0, now - 2}) = IF 0 >= now - 2 THEN 0 ELSE now - 2
    BY <2>1, LargerOfTwo
  <2>3. t \in Nat /\ t <= now
    BY <1>1, <2>2
  <2>4. HealthKept /\ Served(t) /\ now' = now
    BY <1>1, <1>2, <2>3, MarkoutKeeps DEF RecordFillMarkout
  <2> QED BY <1>1, <2>3, <2>4 DEF Served, HealthTyped
<1>3. ASSUME NEW vs, NEW t \in Nat, t <= now, Asked(vs, t), now' = now PROVE goal
  <2>1. HealthKept /\ Served(t)
    BY <1>1, <1>3, AskedKeeps
  <2> QED BY <1>1, <1>3, <2>1 DEF Served, HealthTyped
<1>4. ASSUME UNCHANGED healthVars, now' \in Nat, now' >= now PROVE goal
  BY <1>1, <1>4, HealthUnchanged
<1>5. ASSUME NEW v \in Venues, GetVenueHealth(v) PROVE goal
  BY <1>1, <1>3, <1>5 DEF GetVenueHealth
<1>6. CASE Tick
  BY <1>1, <1>4, <1>6 DEF Tick
<1>7. ASSUME NEW q \in SliceSizes, NEW d \in [Lit -> Depths], RouteSlice(q, d) PROVE goal
  BY <1>1, <1>3, <1>7 DEF RouteSlice
<1>8. ASSUME NEW done \in 0..want, NEW over \in BOOLEAN, DarkAnswers(done, over) PROVE goal
  <2>1. (Asked(Lit, SliceClock) \/ UNCHANGED healthVars) /\ now' = now
    BY <1>1, <1>8 DEF DarkAnswers, RouterInvariant, SliceInvariant, RouterTyped
  <2> QED BY <1>1, <1>3, <1>4, <2>1
<1>9. ASSUME NEW done \in 0..want, DarkFails(done) \/ LitAnswers(done) \/ LitFails(done) PROVE goal
  BY <1>1, <1>4, <1>9 DEF DarkFails, LitAnswers, LitFails
<1>10. CASE DarkExecutes \/ DarkCancelFails \/ NextSlice
  BY <1>1, <1>4, <1>10 DEF DarkExecutes, DarkCancelFails, NextSlice
<1>11. CASE DarkCancelled
  BY <1>1, <1>3, <1>11 DEF DarkCancelled
<1> QED BY <1>2, <1>5, <1>6, <1>7, <1>8, <1>9, <1>10, <1>11 DEF RouterNext

(* What is sent to the lit venues is all that is left, to active venues.   *)
LEMMA SentLit ==
  ASSUME NEW q \in Nat \ {0}, NEW d \in [Lit -> Nat], todo \in [Lit -> Nat], SendLit(q, d)
  PROVE  /\ todo' \in [Lit -> Nat] /\ routing' \in {"raised", "lit"}
         /\ routing' = "lit" => /\ SumOver(todo', Lit) = q
                                /\ \A v \in Lit : todo'[v] > 0 => v \in Candidates(d)
<1>1. CASE DepthOf(d, Candidates(d)) < q
  BY <1>1 DEF SendLit
<1>2. CASE ~(DepthOf(d, Candidates(d)) < q)
  <2>1. routing' = "lit" /\ todo' = Allocation(q, d)
    BY <1>2 DEF SendLit
  <2>2. DepthOf(d, Candidates(d)) \in Nat
    BY Depth, CandidatesTyped
  <2>3. DepthOf(d, Candidates(d)) >= q
    BY <1>2, <2>2
  <2>4. PICK w : Marginal(q, d, w)
    BY <2>3, MarginalExists
  <2>5. SumOver(todo', Lit) = q
    BY <2>1, <2>4, SplitWhole
  <2>6. \A v \in Lit : /\ Allocation(q, d)[v] \in Nat
                       /\ v \notin Candidates(d) => Allocation(q, d)[v] = 0
    BY <2>4, SplitAt
  <2>7. todo' \in [Lit -> Nat]
    <3>1. todo' = [v \in Lit |-> todo'[v]]
      BY <2>1 DEF Allocation
    <3> QED BY <2>1, <2>6, <3>1
  <2>8. \A v \in Lit : todo'[v] > 0 => v \in Candidates(d)
    BY <2>1, <2>6
  <2> QED BY <2>1, <2>5, <2>7, <2>8
<1> QED BY <1>1, <1>2

(* The next lit child is one of those still to be sent, and taking it off  *)
(* the list takes its lots off the sum.                                    *)
LEMMA NextChild ==
  ASSUME todo \in [Lit -> Nat], ToSend # {}
  PROVE  /\ NextLit \in Lit /\ todo[NextLit] \in Nat \ {0}
         /\ SumOver(todo, Lit) \in Nat /\ todo[NextLit] <= SumOver(todo, Lit)
         /\ SumOver([todo EXCEPT ![NextLit] = 0], Lit) = SumOver(todo, Lit) - todo[NextLit]
         /\ ToSend = {NextLit} => SumOver([todo EXCEPT ![NextLit] = 0], Lit) = 0
<1>1. NextLit \in ToSend
  <2>1. ToSend \subseteq Lit
    BY DEF ToSend
  <2>2. \E v \in ToSend : \A u \in ToSend \ {v} : LitBefore(v, u)
    BY <2>1, LitEnds
  <2> QED BY <2>2 DEF NextLit
<1>2. NextLit \in Lit /\ todo[NextLit] \in Nat \ {0}
  BY <1>1 DEF ToSend
<1> DEFINE n == NextLit
           k == [todo EXCEPT ![n] = 0]
<1>3. SumOver(todo, Lit) \in Nat /\ IsFiniteSet(Lit)
  BY CandidatesTyped
<1>4. n \in Lit
  BY <1>2
<1> HIDE DEF n
<1>5. \A v \in Lit : todo[v] \in Int
  OBVIOUS
<1>6. k[n] = 0 /\ k[n] \in Int /\ \A v \in Lit \ {n} : k[v] = todo[v]
  BY <1>4
<1> HIDE DEF k
<1>7. SumOver(k, Lit) = SumOver(todo, Lit) - todo[n] + k[n]
  BY <1>3, <1>4, <1>5, <1>6, SumChange
<1>8. SumOver(k, Lit) = SumOver(todo, Lit) - todo[n]
  BY <1>3, <1>4, <1>5, <1>6, <1>7
<1>9. todo[n] <= SumOver(todo, Lit)
  <2>1. k \in [Lit -> Nat]
    BY DEF k
  <2>2. SumOver(k, Lit) \in Nat
    BY <2>1, CandidatesTyped
  <2> QED BY <1>3, <1>4, <1>5, <1>8, <2>2
<1>10. ASSUME ToSend = {n} PROVE SumOver(k, Lit) = 0
  <2>1. \A v \in Lit : k[v] = 0
    <3> SUFFICES ASSUME NEW v \in Lit PROVE k[v] = 0
      OBVIOUS
    <3>1. CASE v = n
      BY <1>6, <3>1
    <3>2. CASE v # n
      <4>1. ~(todo[v] > 0) /\ todo[v] \in Nat
        BY <1>10, <3>2 DEF ToSend
      <4> QED BY <1>6, <3>2, <4>1
    <3> QED BY <3>1, <3>2
  <2> QED BY <1>3, <2>1, SumZero
<1> QED BY <1>2, <1>3, <1>8, <1>9, <1>10 DEF n, k

-----------------------------------------------------------------------------
(* The steps of a slice.                                                   *)
RestTyped ==
  /\ depth \in [Lit -> Nat] /\ todo \in [Lit -> Nat] /\ raced \in BOOLEAN
  /\ routing \in {"idle", "dark", "cancel", "lit", "returned", "raised"}
  /\ want \in Nat /\ unfilled \in Nat /\ darkOpen \in Nat
  /\ reports \in Nat /\ executed \in Nat /\ resting \in Nat

(* What a step of the slice preserves.                                     *)
SliceKept == RestTyped' /\ LotsAccounted'

(* A new slice starts with a dark child of all of it, or with lit ones.    *)
LEMMA RouteSliceKeeps ==
  ASSUME RestTyped, LotsAccounted, NEW q \in SliceSizes, NEW d \in [Lit -> Depths], RouteSlice(q, d)
  PROVE  SliceKept
<1>1. q \in Nat \ {0} /\ d \in [Lit -> Nat]
  BY RouterAssumption
<1>2. /\ want' = q /\ unfilled' = q /\ depth' = d /\ reports' = 0 /\ executed' = 0 /\ resting' = 0
      /\ ~raced' /\ raced' = raced /\ routing = "idle" /\ darkOpen = 0
  BY DEF RouteSlice, LotsAccounted
<1>3. CASE EligibleDark(q) # {}
  <2>1. routing' = "dark" /\ darkOpen' = q /\ todo' = todo
    BY <1>3 DEF RouteSlice
  <2>2. RestTyped'
    BY <1>1, <1>2, <2>1 DEF RestTyped
  <2> QED BY <1>1, <1>2, <2>1, <2>2 DEF SliceKept, LotsAccounted
<1>4. CASE EligibleDark(q) = {}
  <2>1. SendLit(q, d) /\ darkOpen' = darkOpen
    BY <1>4 DEF RouteSlice
  <2>2. /\ todo' \in [Lit -> Nat] /\ routing' \in {"raised", "lit"}
        /\ routing' = "lit" => SumOver(todo', Lit) = q
    BY <1>1, <2>1, SentLit DEF RestTyped
  <2>3. RestTyped'
    BY <1>1, <1>2, <2>1, <2>2 DEF RestTyped
  <2>4. CASE routing' = "lit"
    BY <1>1, <1>2, <2>1, <2>2, <2>3, <2>4 DEF SliceKept, LotsAccounted
  <2>5. CASE routing' = "raised"
    BY <1>1, <1>2, <2>1, <2>3, <2>5 DEF SliceKept, LotsAccounted
  <2> QED BY <2>2, <2>4, <2>5
<1> QED BY <1>3, <1>4

(* The dark child's report ends the slice, its cancellation, or goes lit.  *)
LEMMA DarkAnswersKeeps ==
  ASSUME RestTyped, LotsAccounted, NEW done \in 0..want, NEW over \in BOOLEAN, DarkAnswers(done, over)
  PROVE  SliceKept
<1>1. /\ done \in Nat /\ want \in Nat \ {0} /\ darkOpen = want /\ unfilled = want /\ ~raced
      /\ reports = 0 /\ executed = 0 /\ resting = 0
  BY DEF DarkAnswers, LotsAccounted, RestTyped
<1>2. /\ executed' = done /\ reports' = done /\ unfilled' = want - done /\ done <= want
      /\ darkOpen' = IF over THEN 0 ELSE want - done
      /\ want' = want /\ depth' = depth /\ raced' = raced /\ resting' = 0
  BY <1>1 DEF DarkAnswers
<1>3. CASE done = want
  <2>1. routing' = "returned" /\ todo' = todo /\ darkOpen' = 0
    BY <1>1, <1>2, <1>3 DEF DarkAnswers
  <2>2. RestTyped'
    BY <1>1, <1>2, <1>3, <2>1 DEF RestTyped
  <2> QED BY <1>1, <1>2, <1>3, <2>1, <2>2 DEF SliceKept, LotsAccounted
<1>4. CASE done < want /\ over
  <2>1. SendLit(unfilled', depth) /\ unfilled' \in Nat \ {0} /\ darkOpen' = 0
    BY <1>1, <1>2, <1>4 DEF DarkAnswers
  <2>2. /\ todo' \in [Lit -> Nat] /\ routing' \in {"raised", "lit"}
        /\ routing' = "lit" => SumOver(todo', Lit) = unfilled'
    BY <2>1, SentLit DEF RestTyped
  <2>3. RestTyped'
    BY <1>1, <1>2, <2>1, <2>2 DEF RestTyped
  <2>4. CASE routing' = "lit"
    BY <1>1, <1>2, <2>1, <2>2, <2>3, <2>4 DEF SliceKept, LotsAccounted
  <2>5. CASE routing' = "raised"
    BY <1>1, <1>2, <2>1, <2>3, <2>5 DEF SliceKept, LotsAccounted
  <2> QED BY <2>2, <2>4, <2>5
<1>5. CASE done < want /\ ~over
  <2>1. routing' = "cancel" /\ todo' = todo
    BY <1>1, <1>2, <1>5 DEF DarkAnswers
  <2>2. RestTyped'
    BY <1>1, <1>2, <1>5, <2>1 DEF RestTyped
  <2> QED BY <1>1, <1>2, <1>5, <2>1, <2>2 DEF SliceKept, LotsAccounted
<1> QED BY <1>1, <1>2, <1>3, <1>4, <1>5

(* A failing call, an execution during the cancellation, the cancellation. *)
LEMMA DarkEndsKeeps ==
  ASSUME RestTyped, LotsAccounted,
         \/ \E done \in 0..want : DarkFails(done)
         \/ DarkExecutes \/ DarkCancelled \/ DarkCancelFails
  PROVE  SliceKept
<1>1. ASSUME NEW done \in 0..want, DarkFails(done) PROVE SliceKept
  <2>1. /\ executed' = executed + done /\ darkOpen' = darkOpen - done /\ routing' = "raised"
        /\ done \in Nat /\ done <= darkOpen /\ routing = "dark"
        /\ UNCHANGED <<want, unfilled, depth, todo, reports, raced, resting>>
    BY <1>1 DEF DarkFails
  <2>2. RestTyped'
    BY <2>1 DEF RestTyped
  <2> QED BY <2>1, <2>2 DEF RestTyped, SliceKept, LotsAccounted
<1>2. CASE DarkExecutes
  <2>1. /\ executed' = executed + 1 /\ darkOpen' = darkOpen - 1 /\ raced' = TRUE /\ routing = "cancel"
        /\ darkOpen > 0 /\ UNCHANGED <<routing, want, unfilled, depth, todo, reports, resting>>
    BY <1>2 DEF DarkExecutes
  <2>2. RestTyped'
    BY <2>1 DEF RestTyped
  <2> QED BY <2>1, <2>2 DEF SliceKept, LotsAccounted
<1>3. CASE DarkCancelled
  <2>1. /\ SendLit(unfilled, depth) /\ darkOpen' = 0 /\ routing = "cancel"
        /\ UNCHANGED <<want, unfilled, depth, reports, executed, raced, resting>>
    BY <1>3 DEF DarkCancelled
  <2>2. /\ unfilled \in Nat \ {0} /\ resting = 0 /\ reports + unfilled = want
        /\ ~raced => executed = reports
    BY <2>1 DEF LotsAccounted, RestTyped
  <2>3. /\ todo' \in [Lit -> Nat] /\ routing' \in {"raised", "lit"}
        /\ routing' = "lit" => SumOver(todo', Lit) = unfilled
    BY <2>1, <2>2, SentLit DEF RestTyped
  <2>4. RestTyped'
    BY <2>1, <2>3 DEF RestTyped
  <2>5. CASE routing' = "lit"
    BY <2>1, <2>2, <2>3, <2>4, <2>5 DEF RestTyped, SliceKept, LotsAccounted
  <2>6. CASE routing' = "raised"
    BY <2>1, <2>2, <2>4, <2>6 DEF RestTyped, SliceKept, LotsAccounted
  <2> QED BY <2>3, <2>5, <2>6
<1>4. CASE DarkCancelFails
  <2>1. /\ routing = "cancel" /\ routing' = "raised"
        /\ UNCHANGED <<want, unfilled, depth, darkOpen, todo, reports, executed, raced, resting>>
    BY <1>4 DEF DarkCancelFails
  <2>2. RestTyped'
    BY <2>1 DEF RestTyped
  <2> QED BY <2>1, <2>2 DEF SliceKept, LotsAccounted, RestTyped
<1> QED BY <1>1, <1>2, <1>3, <1>4

(* An answered lit child moves its lots to executed and resting.           *)
LEMMA LitAnswersKeeps ==
  ASSUME RestTyped, LotsAccounted, NEW done \in 0..want, LitAnswers(done)
  PROVE  SliceKept
<1> DEFINE n == NextLit
           left == [todo EXCEPT ![n] = 0]
<1>1. /\ n \in Lit /\ todo[n] \in Nat \ {0} /\ SumOver(todo, Lit) \in Nat /\ todo[n] <= SumOver(todo, Lit)
      /\ SumOver(left, Lit) = SumOver(todo, Lit) - todo[n]
      /\ ToSend = {n} => SumOver(left, Lit) = 0
  BY NextChild DEF LitAnswers, RestTyped
<1>2. /\ routing = "lit" /\ done <= todo[n] /\ executed' = executed + done /\ reports' = reports + done
      /\ resting' = resting + todo[n] - done /\ todo' = left
      /\ routing' = (IF ToSend = {n} THEN "returned" ELSE "lit")
      /\ UNCHANGED <<want, unfilled, depth, darkOpen, raced>>
  BY DEF LitAnswers
<1>3. left \in [Lit -> Nat]
  BY <1>1 DEF RestTyped
<1>4. darkOpen = 0 /\ (~raced => executed = reports /\ executed + resting + SumOver(todo, Lit) = want)
  BY <1>2 DEF LotsAccounted
<1> HIDE DEF n, left
<1>5. RestTyped'
  BY <1>1, <1>2, <1>3 DEF RestTyped
<1>6. CASE ToSend = {n}
  BY <1>1, <1>2, <1>4, <1>5, <1>6 DEF RestTyped, SliceKept, LotsAccounted
<1>7. CASE ToSend # {n}
  BY <1>1, <1>2, <1>4, <1>5, <1>7 DEF RestTyped, SliceKept, LotsAccounted
<1> QED BY <1>6, <1>7

(* A failing lit child may have executed, but no more than it was for.     *)
LEMMA LitFailsKeeps ==
  ASSUME RestTyped, LotsAccounted, NEW done \in 0..want, LitFails(done)
  PROVE  SliceKept
<1>1. todo[NextLit] \in Nat \ {0} /\ SumOver(todo, Lit) \in Nat /\ todo[NextLit] <= SumOver(todo, Lit)
  BY NextChild DEF LitFails, RestTyped
<1>2. /\ routing = "lit" /\ done <= todo[NextLit] /\ executed' = executed + done /\ routing' = "raised"
      /\ UNCHANGED <<want, unfilled, depth, darkOpen, todo, reports, raced, resting>>
  BY DEF LitFails
<1>3. RestTyped'
  BY <1>2 DEF RestTyped
<1> QED BY <1>1, <1>2, <1>3 DEF RestTyped, SliceKept, LotsAccounted

(* Every step keeps the slice's lots accounted for.                        *)
LEMMA SliceStep == ASSUME RestTyped, LotsAccounted, [RouterNext]_routerVars PROVE SliceKept
<1>1. ASSUME UNCHANGED <<routing, unstruckVars>> PROVE SliceKept
  BY <1>1 DEF unstruckVars, SliceKept, RestTyped, LotsAccounted
<1>2. ASSUME NEW v \in Venues, NEW bad, NEW t, RecordFillMarkout(v, bad, t) PROVE SliceKept
  BY <1>1, <1>2 DEF RecordFillMarkout
<1>3. CASE (\E v \in Venues : GetVenueHealth(v)) \/ Tick
  BY <1>1, <1>3 DEF GetVenueHealth, Tick, sliceVars
<1>4. CASE NextSlice
  <2>1. NoOrders \in [Lit -> Nat]
    BY DEF NoOrders
  <2> QED BY <1>4, <2>1 DEF NextSlice, SliceKept, RestTyped, LotsAccounted
<1>5. CASE UNCHANGED routerVars
  BY <1>1, <1>5 DEF routerVars, sliceVars
<1> QED BY <1>2, <1>3, <1>4, <1>5, RouteSliceKeeps, DarkAnswersKeeps, DarkEndsKeeps, LitAnswersKeeps,
           LitFailsKeeps DEF RouterNext

(* Asking a set of venues takes out of quarantine every one of them whose  *)
(* quarantine is over, so an active venue that was asked is not in one.    *)
LEMMA ActiveIsFree ==
  ASSUME NEW vs, NEW v \in vs, NEW t, VenueActive(v, t), Asked(vs, t) PROVE v \notin quarantined'
BY DEF VenueActive, Asked

(* Children are chosen among venues not in quarantine, and a venue that    *)
(* enters one while they are under way is struck.                          *)
LEMMA HonouredStep ==
  ASSUME RestTyped, LotsAccounted, QuarantineHonoured, [RouterNext]_routerVars
  PROVE  QuarantineHonoured'
<1>1. ASSUME NEW q \in Nat \ {0}, NEW d \in [Lit -> Nat], SendLit(q, d), NEW vs, Lit \subseteq vs,
             Asked(vs, SliceClock)
      PROVE  QuarantineHonoured'
  <2>1. routing' \in {"raised", "lit"}
    BY <1>1, SentLit DEF RestTyped
  <2>2. ASSUME routing' = "lit", NEW v \in Lit, todo'[v] > 0 PROVE v \notin quarantined'
    <3>1. v \in Candidates(d)
      BY <1>1, <2>2, SentLit DEF RestTyped
    <3>2. VenueActive(v, SliceClock) /\ v \in vs
      BY <1>1, <3>1 DEF Candidates
    <3> QED BY <1>1, <3>2, ActiveIsFree
  <2> QED BY <2>1, <2>2 DEF QuarantineHonoured, ToSend
<1>2. ASSUME NEW q \in SliceSizes, NEW d \in [Lit -> Depths], RouteSlice(q, d) PROVE QuarantineHonoured'
  <2>1. q \in Nat \ {0} /\ d \in [Lit -> Nat]
    BY RouterAssumption
  <2>2. CASE EligibleDark(q) # {}
    <3>1. routing' = "dark" /\ darkVenue' = BestDark(q) /\ Asked(Dark, SliceClock)
      BY <1>2, <2>2 DEF RouteSlice
    <3>2. BestDark(q) \in Dark /\ VenueActive(BestDark(q), SliceClock)
      BY <2>2, BestIsEligible DEF EligibleDark
    <3>3. BestDark(q) \notin quarantined'
      BY <3>1, <3>2, ActiveIsFree
    <3> QED BY <3>1, <3>3 DEF QuarantineHonoured
  <2>3. CASE EligibleDark(q) = {}
    <3>1. SendLit(q, d) /\ Asked(Venues, SliceClock)
      BY <1>2, <2>3 DEF RouteSlice
    <3>2. Lit \subseteq Venues
      BY DEF Venues
    <3> QED BY <1>1, <2>1, <3>1, <3>2
  <2> QED BY <2>2, <2>3
<1>3. ASSUME routing' \in {"raised", "returned", "cancel", "idle"} PROVE QuarantineHonoured'
  BY <1>3 DEF QuarantineHonoured
<1>4. ASSUME NEW done \in 0..want, NEW over \in BOOLEAN, DarkAnswers(done, over) PROVE QuarantineHonoured'
  <2>1. /\ done \in Nat /\ want \in Nat \ {0} /\ darkOpen = want /\ unfilled = want /\ routing = "dark"
        /\ done <= want
    BY <1>4 DEF DarkAnswers, LotsAccounted, RestTyped
  <2>2. CASE done < want /\ over
    <3>1. SendLit(unfilled', depth) /\ Asked(Lit, SliceClock) /\ unfilled' \in Nat \ {0}
      BY <1>4, <2>1, <2>2 DEF DarkAnswers
    <3> QED BY <1>1, <3>1 DEF RestTyped
  <2>3. CASE ~(done < want /\ over)
    <3>1. routing' \in {"returned", "cancel"}
      BY <1>4, <2>1, <2>3 DEF DarkAnswers
    <3> QED BY <1>3, <3>1
  <2> QED BY <2>2, <2>3
<1>5. CASE DarkCancelled
  <2>1. SendLit(unfilled, depth) /\ Asked(Lit, SliceClock) /\ unfilled \in Nat \ {0}
    BY <1>5 DEF DarkCancelled, LotsAccounted, RestTyped
  <2> QED BY <1>1, <2>1 DEF RestTyped
<1>6. ASSUME NEW done \in 0..want, LitAnswers(done) PROVE QuarantineHonoured'
  <2>1. /\ routing = "lit" /\ todo' = [todo EXCEPT ![NextLit] = 0] /\ routing' \in {"returned", "lit"}
        /\ quarantined' = quarantined /\ struck' = struck
    BY <1>6 DEF LitAnswers, healthVars
  <2>2. ToSend' \subseteq ToSend
    BY <2>1 DEF ToSend, RestTyped
  <2> QED BY <2>1, <2>2 DEF QuarantineHonoured
<1>7. ASSUME UNCHANGED <<routing, struck, darkVenue, todo>>, quarantined' \subseteq quarantined
      PROVE  QuarantineHonoured'
  BY <1>7 DEF QuarantineHonoured, ToSend
<1>8. ASSUME NEW v \in Venues, NEW bad, NEW t, RecordFillMarkout(v, bad, t) PROVE QuarantineHonoured'
  <2>1. UNCHANGED <<routing, darkVenue, todo>>
    BY <1>8 DEF RecordFillMarkout, unstruckVars
  <2>2. \/ quarantined' = quarantined \cup {v} /\ Strike(v)
        \/ quarantined' \subseteq quarantined /\ struck' = struck
    BY <1>8 DEF RecordFillMarkout
  <2>3. CASE quarantined' = quarantined \cup {v} /\ Strike(v)
    <3>1. routing \in {"dark", "lit"} => struck' = struck \cup {v}
      BY <2>3 DEF Strike
    <3> QED BY <2>1, <2>3, <3>1 DEF QuarantineHonoured, ToSend
  <2>4. CASE quarantined' \subseteq quarantined /\ struck' = struck
    BY <1>7, <2>1, <2>4
  <2> QED BY <2>2, <2>3, <2>4
<1>9. ASSUME NEW v \in Venues, GetVenueHealth(v) PROVE QuarantineHonoured'
  BY <1>7, <1>9 DEF GetVenueHealth, Asked, sliceVars, unstruckVars
<1>10. CASE Tick
  BY <1>7, <1>10 DEF Tick, healthVars, sliceVars, unstruckVars
<1>11. ASSUME NEW done \in 0..want, DarkFails(done) \/ LitFails(done) PROVE QuarantineHonoured'
  BY <1>3, <1>11 DEF DarkFails, LitFails
<1>12. CASE DarkExecutes
  BY <1>7, <1>12 DEF DarkExecutes, healthVars
<1>13. CASE DarkCancelFails \/ NextSlice
  BY <1>3, <1>13 DEF DarkCancelFails, NextSlice
<1>14. CASE UNCHANGED routerVars
  BY <1>7, <1>14 DEF routerVars, healthVars, sliceVars, unstruckVars
<1> QED BY <1>2, <1>4, <1>5, <1>6, <1>8, <1>9, <1>10, <1>11, <1>12, <1>13, <1>14 DEF RouterNext

(* A slice keeps the time of its start, which is not after the clock's.    *)
LEMMA ClockStep ==
  ASSUME asOf \in Nat, now \in Nat, asOf <= now, now' \in Nat, now' >= now, [RouterNext]_routerVars
  PROVE  asOf' \in Nat /\ asOf' <= now'
<1>1. asOf' \in {asOf, now, 0}
  <2>1. ASSUME NEW v \in Venues, NEW bad, NEW t, RecordFillMarkout(v, bad, t) PROVE asOf' = asOf
    BY <2>1 DEF RecordFillMarkout, unstruckVars
  <2>2. ASSUME NEW v \in Venues, GetVenueHealth(v) PROVE asOf' = asOf
    BY <2>2 DEF GetVenueHealth, sliceVars, unstruckVars
  <2>3. CASE Tick
    BY <2>3 DEF Tick, sliceVars, unstruckVars
  <2>4. ASSUME NEW q \in SliceSizes, NEW d \in [Lit -> Depths], RouteSlice(q, d) PROVE asOf' = now
    BY <2>4 DEF RouteSlice
  <2>5. ASSUME NEW done \in 0..want,
               \/ \E over \in BOOLEAN : DarkAnswers(done, over)
               \/ DarkFails(done) \/ LitAnswers(done) \/ LitFails(done)
        PROVE  asOf' = asOf
    BY <2>5 DEF DarkAnswers, DarkFails, LitAnswers, LitFails
  <2>6. CASE DarkExecutes \/ DarkCancelled \/ DarkCancelFails \/ NextSlice
    BY <2>6 DEF DarkExecutes, DarkCancelled, DarkCancelFails, NextSlice
  <2>7. CASE UNCHANGED routerVars
    BY <2>7 DEF routerVars, sliceVars, unstruckVars
  <2> QED BY <2>1, <2>2, <2>3, <2>4, <2>5, <2>6, <2>7 DEF RouterNext
<1> QED BY <1>1

(* The invariant is inductive, and no quarantine ends earlier than it did. *)
LEMMA RouterStep ==
  ASSUME RouterInvariant, [RouterNext]_routerVars
  PROVE  RouterInvariant' /\ (\A v \in Venues : until'[v] >= until[v]) /\ Served(now)
<1>1. /\ RestTyped /\ LotsAccounted /\ HealthTyped /\ QuarantineHolds /\ QuarantineHonoured
      /\ now \in Nat /\ asOf \in Nat /\ asOf <= now
  BY DEF RouterInvariant, SliceInvariant, RouterTyped, RestTyped, HealthTyped
<1>2. RestTyped' /\ LotsAccounted' /\ QuarantineHonoured'
  BY <1>1, SliceStep, HonouredStep DEF SliceKept
<1>3. /\ HealthTyped' /\ QuarantineHolds' /\ now' \in Nat /\ now' >= now /\ Served(now)
      /\ \A v \in Venues : until'[v] >= until[v]
  <2>1. CASE RouterNext
    BY <2>1, StepHealth DEF HealthKept
  <2>2. CASE UNCHANGED routerVars
    BY <1>1, <2>2, HealthUnchanged DEF routerVars, HealthKept
  <2> QED BY <2>1, <2>2
<1>4. asOf' \in Nat /\ asOf' <= now'
  BY <1>1, <1>3, ClockStep
<1>5. RouterTyped'
  BY <1>2, <1>3, <1>4 DEF RouterTyped, RestTyped, HealthTyped
<1> QED BY <1>2, <1>3, <1>5 DEF RouterInvariant, SliceInvariant

(* Routing is sound: the greedy split over the lit venues pays the least in*)
(* taker fees (INV-SOR-002); a slice executes no more than it asks for but *)
(* for the dark child's race, and reports all it executed; no child is on  *)
(* its way or waits its turn to a venue in quarantine that was not put     *)
(* there after the children were chosen; and no quarantine is shortened or *)
(* left before it is served, whatever clock a slice or a markout uses: for *)
(* any venues, fees, depths, slices, markouts and failing calls.           *)
THEOREM RoutingSoundHolds == RouterSpec => RoutingSound
<1>1. RouterInvariant /\ [RouterNext]_routerVars => RouterInvariant'
  BY RouterStep
<1>2. RouterInvariant => AllocationIsCheapest
  BY Cheapest DEF RouterInvariant, SliceInvariant, RouterTyped
<1>3. RouterInvariant => NoOverExecution /\ ReturnedIsComplete /\ QuarantineHolds /\ QuarantineHonoured
  <2> SUFFICES ASSUME RouterInvariant
               PROVE  NoOverExecution /\ ReturnedIsComplete /\ QuarantineHolds /\ QuarantineHonoured
    OBVIOUS
  <2>1. RouterTyped /\ LotsAccounted
    BY DEF RouterInvariant, SliceInvariant
  <2>2. routing = "lit" => SumOver(todo, Lit) \in Nat
    BY <2>1, CandidatesTyped DEF RouterTyped
  <2>3. NoOverExecution
    BY <2>1, <2>2 DEF RouterTyped, LotsAccounted, NoOverExecution
  <2>4. ReturnedIsComplete
    BY <2>1 DEF LotsAccounted, ReturnedIsComplete
  <2> QED BY <2>3, <2>4 DEF RouterInvariant
<1>4. RouterInvariant /\ [RouterNext]_routerVars =>
        [\A v \in quarantined \ quarantined' : until[v] <= now]_routerVars
  BY RouterStep DEF Served
<1>5. RouterInvariant /\ [RouterNext]_routerVars =>
        [\A v \in Venues : until'[v] >= until[v]]_routerVars
  BY RouterStep
<1> QED BY RouterStarts, <1>1, <1>2, <1>3, <1>4, <1>5, PTL
        DEF RouterSpec, RoutingSound, QuarantineServed, QuarantineNeverShortened
==============================================================================
