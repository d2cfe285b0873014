--------------------------------- MODULE MCLots --------------------------------
(***************************************************************************)
(* Instance of Lots for TLC: one product at two locations, two lots in     *)
(* stock and one still to be received, two concurrent calls of every kind. *)
(***************************************************************************)
EXTENDS LotReports

CONSTANTS p1, q1, l1, l2, w1, w2, junk, a, b, n, r1, r2, none, t1

OneTenant == [x \in Products \cup Locations |-> t1]
P1Lots == [lot \in Lots |-> p1]
Ages == (a :> 1) @@ (b :> 2) @@ (n :> 3)
TwoAndOne == (a :> 2) @@ (b :> 1) @@ (n :> 0)
TwoEach == [rec \in StockRecord |-> 2]
Facilities == (l1 :> w1) @@ (l2 :> w2)
Dates == (a :> 1) @@ (b :> 3) @@ (n :> 2)
Modes == [p \in Products |-> IF p = p1 THEN "required" ELSE "none"]

M(p, t, f, g, k) == [product |-> p, type |-> t, from |-> f, to |-> g, quantity |-> k]
Aware(m, lot, strategy, manual) ==
    [move |-> m, aware |-> TRUE, lot |-> lot, strategy |-> strategy, manual |-> manual]
Part(lot, k) == [lot |-> lot, quantity |-> k]

LotCalls ==
    {Aware(M(p1, "receive", none, l1, 1), lot, "FIFO", <<>>) : lot \in {a, n, none}}
    \cup {Aware(M(p1, "issue", l, none, 2), none, s, <<>>) :
             l \in {l1, l2}, s \in {"FIFO", "LIFO"}}
    \cup {Aware(M(p1, "issue", l1, none, 2), none, "MANUAL", sh) :
             sh \in {<<>>, <<Part(a, 2)>>, <<Part(b, 1), Part(a, 1)>>,
                     <<Part(a, 1), Part(a, 1)>>}}
    \cup {Aware(M(p1, "transfer", l1, l2, 2), none, "FIFO", <<>>)}
    \cup {Aware(M(p1, "adjustment", f, g, 1), lot, "LIFO", <<>>) :
             f \in {l2, none}, g \in {l1, none}, lot \in {b, n, none}}
    \cup {[Aware(M(p1, "issue", l2, none, 2), none, "FIFO", <<>>) EXCEPT !.aware = FALSE],
          Aware(M(q1, "issue", l1, none, 2), none, "FIFO", <<>>)}
=============================================================================
