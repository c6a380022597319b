------------------------------ MODULE TaxLots ------------------------------
(***************************************************************************)
(* The tax-lot engine of one symbol (execution/tax_lot.py), as operators   *)
(* on the list of its lots.  Quantities and prices are whole numbers, so   *)
(* the engine's tolerances of 1e-8 are exact comparisons with zero.  A     *)
(* side is +1 (BUY, LONG) or -1 (SELL, SHORT).                             *)
(***************************************************************************)
EXTENDS Integers, FiniteSetsExt, SequencesExt

(* TaxLot, and what its constructor admits.                                *)
Lot(id, side, time, quantity, cost) ==
  [id |-> id, side |-> side, opened |-> time, original |-> quantity,
   remaining |-> quantity, cost |-> cost]

ValidLot(lot) == lot.original > 0 /\ lot.remaining >= 0 /\ lot.cost > 0

OpenLots(lots) == {i \in DOMAIN lots : lots[i].remaining > 0}

QuantityOf(lots, I) == SumFunctionOnSet([i \in DOMAIN lots |-> lots[i].remaining], I)

(* get_position: the side of the FIRST open lot times all that is open.    *)
Position(lots) ==
  LET open == OpenLots(lots)
  IN  IF open = {} THEN 0 ELSE lots[Min(open)].side * QuantityOf(lots, open)

(* The order in which a closing fill visits the lots: by the time they were *)
(* opened, newest first for LIFO, the order of the list among equals.      *)
Before(lots, i, j, lifo) ==
  \/ lots[i].opened = lots[j].opened /\ i < j
  \/ IF lifo THEN lots[i].opened > lots[j].opened ELSE lots[i].opened < lots[j].opened

(* A variant: LIFO when FIFO is asked for, and the other way round.        *)
MatchedReversed(lots, quantity, lifo, i) ==
  LET ahead == {j \in DOMAIN lots : Before(lots, j, i, ~lifo)}
  IN  Min({lots[i].remaining, Max({0, quantity - QuantityOf(lots, ahead)})})

(* What a closing fill of `quantity' takes from lot i.                     *)
Matched(lots, quantity, lifo, i) ==
  LET ahead == {j \in DOMAIN lots : Before(lots, j, i, lifo)}
  IN  Min({lots[i].remaining, Max({0, quantity - QuantityOf(lots, ahead)})})

(* allocate_fill: a fill on the side of the position opens a lot; one      *)
(* against it closes lots and what is left opens a lot of the other side.  *)
(* With allow_shorting off a SELL beyond the inventory raises: at once when*)
(* there is none, else only after the lots have been depleted.             *)
Increasing(lots, side) == side * Position(lots) >= 0

Leftover(lots, side, quantity) ==
  IF Increasing(lots, side) THEN quantity
  ELSE Max({0, quantity - QuantityOf(lots, DOMAIN lots)})

Orphaned(lots, side, quantity, shorting) ==
  side = -1 /\ ~shorting /\ Leftover(lots, side, quantity) > 0

Taken(lots, side, quantity, lifo) ==
  IF Increasing(lots, side) THEN [i \in DOMAIN lots |-> 0]
  ELSE [i \in DOMAIN lots |-> Matched(lots, quantity, lifo, i)]

AfterFill(lots, id, side, quantity, price, time, lifo, shorting) ==
  LET taken == Taken(lots, side, quantity, lifo)
      closed == [i \in DOMAIN lots |-> [lots[i] EXCEPT !.remaining = @ - taken[i]]]
      left == Leftover(lots, side, quantity)
  IN  IF left = 0 \/ Orphaned(lots, side, quantity, shorting) THEN closed
      ELSE Append(closed, Lot(id, side, time, left, price))

(* verify_inventory_conservation, run on the list a fill has changed.      *)
OneSided(lots) ==
  \A i, j \in OpenLots(lots) : lots[i].side = lots[j].side

Verified(lots) == OneSided(lots) /\ \A i \in DOMAIN lots : ValidLot(lots[i])

=============================================================================
