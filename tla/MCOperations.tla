----------------------------- MODULE MCOperations -----------------------------
(* An instance of Operations for TLC. *)
EXTENDS Operations

CONSTANTS p1, p2, px, l1, l2, k1, t1, c1, c2, none

OneTenant == [x \in Products \cup Locations |-> t1]
TwoOfP1AtL1 == [rec \in StockRecord |-> IF rec = <<p1, l1>> THEN 2 ELSE 0]

TwoFitAtL2 == [l \in Locations |-> IF l = l2 THEN 2 ELSE Unlimited]

It(p, n) == [product |-> p, amount |-> n]
Batch(kind, from, to, failFast, items) ==
    [kind |-> kind, items |-> items, from |-> from, to |-> to, failFast |-> failFast]

(* Transfers that fall short and name a missing product, with and without     *)
(* fail_fast; adjustments up, down, and twice of one product; revaluations in *)
(* both orders; imports of one key, and one with an invalid row.             *)
SomeBatches ==
    {Batch("transfer", l1, l2, FALSE, <<It(p1, 2), It(px, 1), It(p1, 1)>>),
     Batch("transfer", l1, l2, TRUE, <<It(p1, 1), It(p2, 1)>>),
     Batch("adjustment", none, l1, FALSE, <<It(p1, 1), It(p2, 1)>>),
     Batch("adjustment", none, l1, TRUE, <<It(p2, 1), It(p1, 3), It(p1, 2)>>),
     Batch("revalue", none, none, FALSE, <<It(p1, 1), It(p2, 1)>>),
     Batch("revalue", none, none, FALSE, <<It(p2, 2), It(p1, -1)>>),
     Batch("transfer", l1, l2, FALSE, <<It(p1, -1)>>),
     Batch("import", none, none, TRUE, <<It(k1, 1)>>),
     Batch("import", none, none, TRUE, <<It(k1, 0)>>)}

JobHasNoTenant == [c \in Callers |-> IF c \in Jobs THEN "0" ELSE "t1"]
P1AtL1 == {<<"t1", <<p1, l1>>>>}
=============================================================================
