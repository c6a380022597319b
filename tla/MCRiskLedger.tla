---------------------------- MODULE MCRiskLedger ----------------------------
(* One order of one lot and three of two, all BUY.                         *)
EXTENDS RiskLedger

CONSTANTS o1, o2, o3, o4

AllBuy     == [o \in Orders |-> 1]
Quantities == [o \in Orders |-> IF o = o1 THEN 1 ELSE 2]
=============================================================================
