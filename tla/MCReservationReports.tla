-------------------------- MODULE MCReservationReports --------------------------
(***************************************************************************)
(* Instance of ReservationReports for TLC: a location of a facility and a  *)
(* retail one, two workers, the sweep, one direct movement and one reader. *)
(***************************************************************************)
EXTENDS ReservationReports, TLC

CONSTANTS p1, l1, l2, t1, i1, i2, v1, v2, w1, none

OneTenant == [x \in Products \cup Locations |-> t1]
TwoAndOne == [rec \in StockRecord |-> IF rec[2] = l1 THEN 2 ELSE 0]
NoLots == [lot \in Lots |-> 0]
OneFacility == [l \in Facility |-> w1]
CatalogueCost == [p \in Products |-> 3]
ReorderAtOne == [p \in Products |-> 1]

ForTheTenant == {[retail |-> FALSE, warehouse |-> ""]}

WorkerSymmetry == Permutations(Workers)
=============================================================================
