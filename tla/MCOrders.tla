-------------------------------- MODULE MCOrders --------------------------------
(***************************************************************************)
(* Instance of Orders for TLC: a sales order with two dispatches and a   *)
(* purchase order with one goods received note, at one location.           *)
(***************************************************************************)
EXTENDS OrderReports, TLC

CONSTANTS p1, l1, l2, w1, so, po, d1, d2, g1, s1, s2, none, t1

OneTenant == [x \in Products \cup Locations |-> t1]
DocumentOrder == [d \in Documents |-> IF d = g1 THEN po ELSE so]
DocumentSite == [d \in Documents |-> l1]
Two == [o \in Orders |-> [p \in Products |-> IF o = so THEN 2 ELSE 1]]
PriceOfOne == [o \in Orders |-> [p \in Products |-> 1]]
OneFacility == [l \in Facility |-> w1]
TwoEach == [rec \in StockRecord |-> 2]

SessionSymmetry == Permutations(Sessions)
=============================================================================
