---------------------------- MODULE MCKillSwitch ----------------------------
(* The instances of KillSwitch: one buy order at each of two gateways; one *)
(* trigger also flattens, the other only cancels.                          *)
EXTENDS KillSwitch

CONSTANTS o1, o2, t1, t2, g1, g2

TwoGateways == [o \in Orders |-> IF o = o1 THEN g1 ELSE g2]
Sides       == [o \in Orders |-> 1]
MixedModes  == [t \in Triggers |-> IF t = t1 THEN "CANCEL_AND_FLATTEN" ELSE "CANCEL_ONLY"]
=============================================================================
