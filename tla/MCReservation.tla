----------------------------- MODULE MCReservation -----------------------------
(* Instances of Reservation for TLC. *)
EXTENDS Reservation, TLC

CONSTANTS p1, l1, l2, k1, k2, t1, i1, i2, i3, w1, w2, w3, none

OneTenant == [x \in Products \cup Locations |-> t1]
TwoEach == [rec \in StockRecord |-> 2]
ThreeEach == [rec \in StockRecord |-> 3]
OneEach == [rec \in StockRecord |-> 1]
TwoAtL1 == [rec \in StockRecord |-> IF rec[2] = l1 THEN 2 ELSE 1]
AllOfP1 == [k \in Lots |-> p1]
LotAges == [k \in Lots |-> IF k = k1 THEN 1 ELSE 2]
OneInEachLot == [k \in Lots |-> 1]
TwoInEachLot == [k \in Lots |-> 2]

WorkerSymmetry == Permutations(Workers)
=============================================================================
