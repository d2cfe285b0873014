-------------------------------- MODULE MCStock --------------------------------
(***************************************************************************)
(* Instance of Stock for TLC: one product, three locations of which one is *)
(* retail-only and one is bounded, two concurrent requests.                *)
(***************************************************************************)
EXTENDS StockReports, TLC

CONSTANTS p1, l1, l2, l3, r1, r2, none, t1, w1, w2, junk

OneTenant == [x \in Products \cup Locations |-> t1]

(* l2 is bounded, the others are not. *)
L2Bounded == [l \in Locations |-> IF l = l2 THEN 2 ELSE Unlimited]

TwoOrOne == [rec \in StockRecord |-> IF rec = <<p1, l1>> THEN 2 ELSE
                                     IF rec = <<p1, l2>> THEN 1 ELSE 0]

(* Two facilities of one location each; r2 pays half as much again as r1. *)
TwoFacilities == [l \in Facility |-> IF l = l1 THEN w1 ELSE w2]
Costs == [r \in Requests |-> IF r = r1 THEN 2 ELSE 3]
CatalogueCost == [p \in Products |-> 1]
ReorderAtOne == [p \in Products |-> 1]
=============================================================================
