----------------------------- MODULE RiskLedger -----------------------------
(***************************************************************************)
(* The pre-trade firewall (PreTradeRiskFirewall) and the ledger it reads   *)
(* (PortfolioRiskState), both of execution/risk.py, fed by concurrent calls*)
(* of RiskOrchestrator.route_order and by the reconciliation of resting    *)
(* orders in LiveTradingSession.step_cycle.                                *)
(*                                                                         *)
(* route_order checks and reserves in one step, then awaits the gateway;   *)
(* the ledger is read and written by other calls meanwhile.  One symbol,   *)
(* whose price is 1 throughout: every change of the equity in the ledger is*)
(* then an artefact of the bookkeeping.  Limits are percentages; at price 1*)
(* the limits on an order's quantity and on its notional are one.          *)
(***************************************************************************)
EXTENDS Integers, FiniteSets, FiniteSetsExt

CONSTANTS
  Orders,
  SideOf,            \* order -> 1 (BUY) or -1 (SELL)
  OrderQuantity,        \* order -> lots
  InitialCash,
  MaxOrderQty, MaxGross, MaxNet, MaxConcentration, MaxDrawdown, MinFreeMargin,
  Watched,           \* orders sent to the paper gateway of a live session
  Escapes            \* route_order may release lots that the venue has

ASSUME RiskAssumption ==
  /\ IsFiniteSet(Orders)
  /\ SideOf \in [Orders -> {1, -1}]
  /\ OrderQuantity \in [Orders -> Nat \ {0}]
  /\ InitialCash \in Nat \ {0}
  /\ {MaxOrderQty, MaxGross, MaxNet, MaxConcentration, MaxDrawdown, MinFreeMargin} \subseteq Nat
  /\ Watched \subseteq Orders /\ Escapes \in BOOLEAN

VARIABLES
  calls,     \* each order: idle, routing (awaiting the gateway) or done
  riskCash,      \* PortfolioRiskState.cash
  riskPosition,  \* positions[symbol]
  leaves,    \* pending_leaves[symbol]
  peak,      \* peak_equity
  open,      \* the venue: lots of each order still working
  holding    \* the venue: net position

(* History.                                                                *)
VARIABLES
  unbooked,  \* signed lots executed and never booked in the ledger
  escaped,   \* lots released while the venue had executed or kept them
  unpaid     \* signed lots booked without their price

ledger  == <<riskCash, riskPosition, leaves, peak>>
history == <<unbooked, escaped, unpaid>>
riskVars == <<calls, ledger, open, holding, history>>

RiskInit ==
  /\ calls = [o \in Orders |-> "idle"]
  /\ riskCash = InitialCash /\ riskPosition = 0 /\ leaves = 0 /\ peak = InitialCash
  /\ open = [o \in Orders |-> 0]
  /\ holding = 0
  /\ unbooked = 0 /\ escaped = 0 /\ unpaid = 0

-----------------------------------------------------------------------------
Pos(x) == IF x > 0 THEN x ELSE 0
Abs(x) == IF x < 0 THEN -x ELSE x
Larger(x, y) == IF x < y THEN y ELSE x

Signed(o) == SideOf[o] * OrderQuantity[o]

Equity == riskCash + riskPosition

(* intraday_drawdown raises the peak before it measures.                   *)
PeakSeen == Larger(peak, Equity)
DrawdownBreached == 100 * (PeakSeen - Equity) >= MaxDrawdown * PeakSeen

FreeMargin ==
  riskCash - (IF leaves > 0 THEN leaves ELSE Pos(-leaves - Pos(riskPosition)))

(* The part of the order that opens or enlarges a position.                *)
RequiredMargin(o) ==
  IF SideOf[o] = 1 THEN Pos(OrderQuantity[o] - Pos(-riskPosition - Pos(leaves)))
  ELSE Pos(OrderQuantity[o] - Pos(riskPosition - Pos(-leaves)))

(* Exposure of the symbol with the order: a position being reduced counts  *)
(* with its larger side, anything else adds up.                            *)
Exposure(o) ==
  LET proj == leaves + Signed(o)
      reducing == \/ riskPosition > 0 /\ (Signed(o) < 0 \/ proj < 0)
                  \/ riskPosition < 0 /\ (Signed(o) > 0 \/ proj > 0)
  IN  IF reducing THEN Larger(Abs(riskPosition), Abs(riskPosition + proj))
      ELSE Abs(riskPosition) + Abs(proj)

(* Faulty variant: the order is checked against the inventory alone.       *)
FirewallPassesNoLeaves(o) ==
  100 * (Abs(riskPosition) + OrderQuantity[o]) <= MaxConcentration * Equity

FirewallPasses(o) ==
  /\ ~DrawdownBreached
  /\ OrderQuantity[o] <= MaxOrderQty
  /\ RequiredMargin(o) > 0 => FreeMargin - RequiredMargin(o) >= MinFreeMargin
  /\ Equity > 0
  /\ 100 * Exposure(o) <= MaxGross * Equity
  /\ 100 * Abs(riskPosition + leaves + Signed(o)) <= MaxNet * Equity
  /\ 100 * Exposure(o) <= MaxConcentration * Equity

-----------------------------------------------------------------------------
(* route_order: check, reserve, await.                                     *)
Route(o) ==
  /\ calls[o] = "idle"
  /\ FirewallPasses(o)
  /\ calls' = [calls EXCEPT ![o] = "routing"]
  /\ leaves' = leaves + Signed(o)
  /\ peak' = PeakSeen
  /\ UNCHANGED <<riskCash, riskPosition, open, holding, history>>

(* A refused order may be sent again; only the peak may have moved.        *)
Refuse(o) ==
  /\ calls[o] = "idle"
  /\ ~FirewallPasses(o)
  /\ peak' = PeakSeen
  /\ UNCHANGED <<calls, riskCash, riskPosition, leaves, open, holding, history>>

Return(o) == calls[o] = "routing" /\ calls' = [calls EXCEPT ![o] = "done"]

(* Faulty variant: a fill releases every reservation.                      *)
LeavesAfterFillWhole(s, k) == 0

(* What update_fill leaves of the reservations: a BUY reduces those of     *)
(* buyers, a SELL whatever there is, and neither crosses zero.             *)
LeavesAfterFill(s, k) ==
  CASE leaves > 0 -> Pos(leaves - k)
    [] leaves < 0 /\ s = -1 -> -Pos(-leaves - k)
    [] OTHER -> leaves

UpdateFill(s, k) ==
  /\ riskCash' = riskCash - s * k
  /\ riskPosition' = riskPosition + s * k
  /\ leaves' = LeavesAfterFill(s, k)
  /\ peak' = Larger(peak, riskCash' + riskPosition')

(* The gateway reports k lots filled at once, and the rest working.        *)
ReturnFill(o, k) ==
  /\ Return(o)
  /\ UpdateFill(SideOf[o], k)
  /\ holding' = holding + SideOf[o] * k
  /\ open' = [open EXCEPT ![o] = OrderQuantity[o] - k]
  /\ UNCHANGED history

ReturnNew(o) ==
  /\ Return(o)
  /\ open' = [open EXCEPT ![o] = OrderQuantity[o]]
  /\ UNCHANGED <<ledger, holding, history>>

(* A rejection, or an exception before the venue has the order.            *)
ReturnRejected(o) ==
  /\ Return(o)
  /\ leaves' = leaves - Signed(o)
  /\ UNCHANGED <<riskCash, riskPosition, peak, open, holding, history>>

(* The smart router sent the order as several children, of which k lots    *)
(* filled: update_fill for the fills, then the release of the rest.  The   *)
(* rest has expired (IOC) unless the gateway, like the paper gateway,      *)
(* ignores that and keeps w lots working.                                  *)
ReturnSliced(o, k, w) ==
  LET s == SideOf[o]
  IN  /\ k + w <= OrderQuantity[o] /\ (w > 0 => Escapes)
      /\ Return(o)
      /\ riskCash' = riskCash - s * k
      /\ riskPosition' = riskPosition + s * k
      /\ leaves' = LeavesAfterFill(s, k) - s * (OrderQuantity[o] - k)
      /\ peak' = IF k = 0 THEN peak ELSE Larger(peak, riskCash' + riskPosition')
      /\ holding' = holding + s * k
      /\ open' = [open EXCEPT ![o] = w]
      /\ escaped' = escaped + w
      /\ UNCHANGED <<unbooked, unpaid>>

(* The call raises although the venue filled k lots and keeps w working: a *)
(* lost response, or a later child of a sliced order failing.              *)
ReturnLost(o, k, w) ==
  /\ Escapes
  /\ k + w <= OrderQuantity[o]
  /\ Return(o)
  /\ leaves' = leaves - Signed(o)
  /\ holding' = holding + SideOf[o] * k
  /\ unbooked' = unbooked + SideOf[o] * k
  /\ escaped' = escaped + k + w
  /\ open' = [open EXCEPT ![o] = w]
  /\ UNCHANGED <<riskCash, riskPosition, peak, unpaid>>

(* The task is cancelled while it awaits: CancelledError is no Exception,  *)
(* so the reservation stays, whatever the venue filled or keeps working.   *)
TaskCancelled(o, k, w) ==
  /\ k + w <= OrderQuantity[o]
  /\ Return(o)
  /\ holding' = holding + SideOf[o] * k
  /\ unbooked' = unbooked + SideOf[o] * k
  /\ open' = [open EXCEPT ![o] = w]
  /\ UNCHANGED <<ledger, escaped, unpaid>>

-----------------------------------------------------------------------------
(* What step_cycle books of a resting order that filled: the position and  *)
(* the reservation, not the cash.  It marked the price to market before.   *)
Reconcile(s, k) ==
  /\ riskPosition' = riskPosition + s * k
  /\ leaves' = s * Pos(s * leaves - k)
  /\ peak' = PeakSeen
  /\ UNCHANGED riskCash

(* The venue fills a resting order.  Only a live session that ticks its    *)
(* paper gateway hears of it.                                              *)
VenueFill(o) ==
  /\ open[o] > 0
  /\ open' = [open EXCEPT ![o] = 0]
  /\ holding' = holding + SideOf[o] * open[o]
  /\ UNCHANGED <<calls, escaped>>

WatchedFill(o) ==
  /\ o \in Watched
  /\ VenueFill(o)
  /\ Reconcile(SideOf[o], open[o])
  /\ unpaid' = unpaid + SideOf[o] * open[o]
  /\ UNCHANGED unbooked

SilentFill(o) ==
  /\ o \notin Watched
  /\ VenueFill(o)
  /\ unbooked' = unbooked + SideOf[o] * open[o]
  /\ UNCHANGED <<ledger, unpaid>>

(* A resting order is cancelled; no one releases its reservation.          *)
RestingCancel(o) ==
  /\ open[o] > 0
  /\ open' = [open EXCEPT ![o] = 0]
  /\ UNCHANGED <<calls, ledger, holding, history>>

-----------------------------------------------------------------------------
RiskNext ==
  \/ \E o \in Orders :
       \/ Route(o) \/ Refuse(o)
       \/ ReturnNew(o) \/ ReturnRejected(o)
       \/ \E k \in 1..OrderQuantity[o] : ReturnFill(o, k)
       \/ \E k, w \in 0..OrderQuantity[o] :
            ReturnSliced(o, k, w) \/ ReturnLost(o, k, w) \/ TaskCancelled(o, k, w)
       \/ WatchedFill(o) \/ SilentFill(o) \/ RestingCancel(o)

RiskSpec == RiskInit /\ [][RiskNext]_riskVars

-----------------------------------------------------------------------------
RiskTypeOK ==
  /\ calls \in [Orders -> {"idle", "routing", "done"}]
  /\ {riskCash, riskPosition, leaves, holding, unbooked, unpaid} \subseteq Int
  /\ peak \in Nat /\ escaped \in Nat
  /\ \A o \in Orders : open[o] \in 0..OrderQuantity[o]

(* Lots that the orders of side s, under way or working, may still trade.  *)
Committed(o) == IF calls[o] = "routing" THEN OrderQuantity[o] ELSE open[o]
ToTrade(s) == MapThenSumSet(Committed, {o \in Orders : SideOf[o] = s})

OneWayFlow(s) == \A o \in Orders : SideOf[o] = s

(* As long as orders are on one side, the ledger understates the venue only*)
(* by what escaped route_order: what is held there and may still be traded *)
(* is covered by inventory plus leaves, at every await of every concurrent *)
(* route_order, cancelled task and reconciliation.                         *)
LedgerCoversVenue ==
  \A s \in {1, -1} : OneWayFlow(s) =>
    s * holding + ToTrade(s) <= s * (riskPosition + leaves) + escaped

(* INV-RSK-003 as far as it holds for one-sided flows: the venue holds, and*)
(* may come to hold, more of the symbol than the configured share of the   *)
(* equity (at a constant price, the initial cash) only because of lots that*)
(* escaped the ledger, or of equity that is not there because fills were   *)
(* booked without their price.                                             *)
ExcessExplained ==
  \A s \in {1, -1} : OneWayFlow(s) =>
    100 * (s * holding + ToTrade(s) - escaped) <= MaxConcentration * (InitialCash + Pos(unpaid))

(* The ledger's position is the venue's but for executions in calls that   *)
(* raised or were cancelled and resting fills nobody watched; its equity is*)
(* off by the fills booked without their price.                            *)
BooksExplained ==
  /\ riskPosition + unbooked = holding
  /\ Equity = InitialCash + unpaid

(* Whatever the venue holds beyond the concentration limit, and wherever   *)
(* the risk state differs from the venue's books, is accounted for by      *)
(* calls that raised or were cancelled, resting fills nobody watched and   *)
(* fills booked without their price.                                       *)
DriftExplained ==
  /\ RiskTypeOK
  /\ ExcessExplained
  /\ BooksExplained

(* INV-RSK-003: "The aggregate exposure in any single asset (current       *)
(* inventory plus open working orders) must not exceed a configured        *)
(* percentage of Net Asset Value" (design document).                       *)
ExposureWithinLimit ==
  100 * (holding + ToTrade(1)) <= MaxConcentration * InitialCash
=============================================================================
