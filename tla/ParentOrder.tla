----------------------------- MODULE ParentOrder -----------------------------
(***************************************************************************)
(* ParentOrder, ChildFillRecord and ImplementationShortfallReport          *)
(* (execution/parent_order.py): the book a parent order keeps of its fills *)
(* and the cost attribution computed from it.                              *)
(*                                                                         *)
(* Quantities are whole numbers of a unit of which the tolerance of the    *)
(* code is Slack; prices and fees are whole.  Times are small numbers.     *)
(***************************************************************************)
EXTENDS Integers, Sequences, FiniteSetsExt, Functions

CONSTANTS
  Orders0,      \* the parent orders tried: side, total, arrival, decision, start, duration
  FillSizes, FillPrices, FillFees, FillTimes,
  MaxChildFills,\* bound: fills offered to one parent
  Terminals,    \* terminal prices asked for
  Slack         \* MASS_CONSERVATION_TOLERANCE

ASSUME ParentAssumption ==
  /\ Slack \in Nat /\ MaxChildFills \in Nat
  /\ Orders0 \subseteq [side : {"BUY", "SELL"}, total : Int, arrival : Int, decision : Int,
                        start : Int, duration : Int]
  /\ FillSizes \cup FillPrices \cup FillFees \cup FillTimes \subseteq Int
  /\ Terminals \subseteq Nat \ {0}

VARIABLES
  po,           \* the parent: its arguments, or Unborn
  fillBook,     \* _child_fills
  filledQ,      \* _filled_quantity
  cumNotional,  \* _cum_notional
  totalFees,    \* _total_fees
  offered       \* fills offered so far, refused ones included

parentVars == <<po, fillBook, filledQ, cumNotional, totalFees, offered>>

Unborn == [total |-> 0]

ParentInit ==
  /\ po = Unborn /\ fillBook = <<>> /\ filledQ = 0
  /\ cumNotional = 0 /\ totalFees = 0 /\ offered = 0

-----------------------------------------------------------------------------
(* The constructor; decision is 0 when not given.                          *)
ValidParent(o) ==
  /\ o.total > 0 /\ o.arrival > 0
  /\ o.decision >= 0
  /\ o.duration > 0 /\ o.start >= 0

NewParent(o) ==
  /\ po = Unborn
  /\ ValidParent(o)
  /\ po' = [o EXCEPT !.decision = IF @ = 0 THEN o.arrival ELSE @]
  /\ UNCHANGED <<fillBook, filledQ, cumNotional, totalFees, offered>>

LeavesQ == IF po.total - filledQ <= Slack THEN 0 ELSE po.total - filledQ
IsCompleted == LeavesQ <= Slack

(* ChildFillRecord.__post_init__.                                          *)
ValidFill(f) == f.quantity > 0 /\ f.price > 0 /\ f.fee >= 0 /\ f.time >= 0

(* The checks of record_child_fill, in its order; none has changed a thing *)
(* when it raises.                                                         *)
Admissible(f) ==
  /\ ValidFill(f)
  /\ filledQ + f.quantity <= po.total + Slack
  /\ ~(f.time > 0 /\ f.time < po.start)

(* Faulty variant: the mass check comes after the quantity is added.       *)
RecordChildFillLateCheck(f) ==
  /\ po # Unborn /\ offered < MaxChildFills
  /\ offered' = offered + 1
  /\ filledQ' = filledQ + f.quantity
  /\ IF Admissible(f)
     THEN /\ fillBook' = Append(fillBook, f)
          /\ cumNotional' = cumNotional + f.quantity * f.price
          /\ totalFees' = totalFees + f.fee
     ELSE UNCHANGED <<fillBook, cumNotional, totalFees>>
  /\ UNCHANGED po

RecordChildFill(f) ==
  /\ po # Unborn /\ offered < MaxChildFills
  /\ offered' = offered + 1
  /\ IF Admissible(f)
     THEN /\ fillBook' = Append(fillBook, f)
          /\ filledQ' = filledQ + f.quantity
          /\ cumNotional' = cumNotional + f.quantity * f.price
          /\ totalFees' = totalFees + f.fee
     ELSE UNCHANGED <<fillBook, filledQ, cumNotional, totalFees>>
  /\ UNCHANGED po

ParentNext ==
  \/ \E o \in Orders0 : NewParent(o)
  \/ \E f \in [quantity : FillSizes, price : FillPrices, fee : FillFees, time : FillTimes] :
       RecordChildFill(f)

ParentSpec == ParentInit /\ [][ParentNext]_parentVars

-----------------------------------------------------------------------------
(* compute_implementation_shortfall for a terminal price t.  A quantity    *)
(* times the average price is the notional.                                *)
BuySign == IF po.side = "BUY" THEN 1 ELSE -1
HasFills == filledQ > Slack
DelayCost == IF HasFills THEN BuySign * filledQ * (po.decision - po.arrival) ELSE 0
PriceImpact == IF HasFills THEN BuySign * (cumNotional - filledQ * po.decision) ELSE 0
OpportunityCost(t) == IF LeavesQ > Slack THEN BuySign * LeavesQ * (t - po.arrival) ELSE 0

Shortfall(t) == DelayCost + PriceImpact + totalFees + OpportunityCost(t)

(* The report's own checks.                                                *)
ReportAccepted(t) ==
  /\ filledQ >= 0 /\ LeavesQ >= 0
  /\ po.arrival > 0 /\ po.decision > 0 /\ t > 0
  /\ HasFills => cumNotional > 0

-----------------------------------------------------------------------------
SumOf(Op(_)) == SumFunctionOnSet([i \in DOMAIN fillBook |-> Op(fillBook[i])], DOMAIN fillBook)
Modulus(x) == IF x < 0 THEN -x ELSE x

(* INV-SOR-001 with its bookkeeping: the running totals are those of the   *)
(* recorded fills, whatever was refused in between, and never exceed the   *)
(* parent by more than the tolerance.                                      *)
BookMatchesFills ==
  po # Unborn =>
    /\ filledQ = SumOf(LAMBDA f : f.quantity)
    /\ cumNotional = SumOf(LAMBDA f : f.quantity * f.price)
    /\ totalFees = SumOf(LAMBDA f : f.fee)
    /\ filledQ <= po.total + Slack

(* INV-SOR-005, against Perold's definition instead of the sum the code    *)
(* checks: the shortfall is what the executed and the abandoned quantity   *)
(* cost over the paper portfolio at arrival.  What the tolerance makes     *)
(* vanish (a residue, or a dust position) is all that may be missing.      *)
PeroldIdentity ==
  po # Unborn => \A t \in Terminals :
    /\ ReportAccepted(t)
    /\ LET paper == BuySign * (cumNotional + (po.total - filledQ) * t - po.total * po.arrival) + totalFees
           dust == {Modulus(t - po.arrival)} \cup {Modulus(fillBook[i].price - po.arrival) : i \in DOMAIN fillBook}
       IN  Modulus(Shortfall(t) - paper) <= 2 * Slack * Max(dust)

(* The parent's totals are those of its fills, refusals in between         *)
(* included, and its shortfall is Perold's.                                *)
ParentBookExact ==
  /\ BookMatchesFills
  /\ PeroldIdentity
=============================================================================
