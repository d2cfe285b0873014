------------------------------ MODULE MCCycleCount ------------------------------
(***************************************************************************)
(* Instance of CycleCount for TLC: two cycles that overlap on one record,  *)
(* one of a whole facility and one of its location.                        *)
(***************************************************************************)
EXTENDS CycleReports, TLC

CONSTANTS p1, l1, l2, w1, c1, c2, s1, s2, none, t1

OneTenant == [x \in Products \cup Locations |-> t1]
OneFacility == [l \in Facility |-> w1]
OneInFacility == [rec \in StockRecord |-> IF rec[2] \in Facility THEN 1 ELSE 0]
InFacility == [c \in Cycles |-> {rec \in StockRecord : rec[2] \in Facility}]
WholeAndPart == [c \in Cycles |-> IF c = c1 THEN NoLocation ELSE l1]

SessionSymmetry == Permutations(Sessions)
=============================================================================
