--------------------------- MODULE ParentContract ---------------------------
(***************************************************************************)
(* What a client of ExecutionService may rely on, for each parent order:   *)
(* lots are committed to the market slice by slice and never more than the *)
(* order asks for, fills are booked against committed lots and never taken *)
(* back, and once the order is cancelled or has ended nothing more is      *)
(* committed; what is booked after that belongs to the one slice that was  *)
(* already under way.                                                      *)
(***************************************************************************)
EXTENDS Integers

CONSTANTS
  Clients, Lots,
  Surplus      \* what venues may execute over their orders: 0 if they are exact

VARIABLES
  committed,   \* lots sent or about to be sent
  booked,      \* lots recorded as filled
  mode         \* new, open, halted, ended

contractVars == <<committed, booked, mode>>

CInit ==
  /\ committed = [p \in Clients |-> 0]
  /\ booked = [p \in Clients |-> 0]
  /\ mode = [p \in Clients |-> "new"]

Open(p) ==
  /\ mode[p] = "new"
  /\ mode' = [mode EXCEPT ![p] = "open"]
  /\ UNCHANGED <<committed, booked>>

(* Lots are booked, the next slice is committed, or the order ends: the    *)
(* service does all three between two awaits.                              *)
Advance(p) ==
  /\ mode[p] \in {"open", "halted"}
  /\ \E b \in booked[p]..Lots :
       b <= committed[p] + Surplus /\ booked' = [booked EXCEPT ![p] = b]
  /\ \E c \in committed[p]..Lots : committed' = [committed EXCEPT ![p] = c]
  /\ mode[p] = "halted" => committed' = committed
  /\ mode' = mode \/ mode' = [mode EXCEPT ![p] = "ended"]

Withdraw(p) ==
  /\ mode[p] = "open"
  /\ mode' = [mode EXCEPT ![p] = "halted"]
  /\ UNCHANGED <<committed, booked>>

CNext == \E p \in Clients : Open(p) \/ Advance(p) \/ Withdraw(p)

CSpec == CInit /\ [][CNext]_contractVars
=============================================================================
