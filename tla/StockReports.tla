------------------------------ MODULE StockReports ------------------------------
(***************************************************************************)
(* The stock reports of InventoryReportService, over the records and the   *)
(* movements the transactions of module Stock have committed: valuation,   *)
(* overstock and movement history, as the API and the Wagtail admin show   *)
(* them.  A valuation asks for the totals, then once a product for its     *)
(* cost; those queries are taken together here, at one committed state.    *)
(*                                                                         *)
(* The rows are those of the request's tenant, all its products active.    *)
(* Money is in integer cents; the filters by date, type, place, category   *)
(* and the file formats of an export are left out, and no history is       *)
(* longer than its page.                                                   *)
(***************************************************************************)
EXTENDS Stock, ReportScope

CONSTANTS
    NoCost,      \* unit_cost is null
    CostOf,      \* CostOf[r]: StockMovement.unit_cost of r's movement, in cents
    UnitCost,    \* Product.unit_cost, in cents
    Reorder,     \* Product.reorder_point
    Thresholds   \* what a request may send for ?threshold: numbers and junk

ASSUME ReportAssumption ==
    /\ NoCost \notin Int
    /\ CostOf \in [Requests -> Int \cup {NoCost}]   \* nothing refuses a negative one
    /\ UnitCost \in [Products -> Int]
    /\ Reorder \in [Products -> Nat]
    /\ IsFiniteSet(Products) /\ IsFiniteSet(Locations) /\ IsFiniteSet(Requests)

(* The StockMovement rows; the receipts before this history had no cost. *)
Posted == {r \in Requests : pc[r] = "committed"}

-----------------------------------------------------------------------------
(* Stock valuation.                                                          *)

Methods == {"weighted_average", "latest_cost"}

(* Coalesce(Sum("stock_records__quantity"), 0) in a scope. *)
TotalStock(p, s) == SumFunctionOnSet(quantity, ScopedRecords(p, s))

(* The receipts with a cost into a scope. *)
Priced(p, s) ==
    {r \in Posted : /\ move[r].type = "receive" /\ move[r].product = p
                    /\ CostOf[r] # NoCost /\ InScope(move[r].to, s)}

(* Decimal.quantize rounds half to even. *)
RoundedQuotient(a, b) ==
    LET floor == a \div b
        twice == 2 * (a % b)
    IN IF twice > b \/ (twice = b /\ floor % 2 = 1) THEN floor + 1 ELSE floor

(* _calculate_unit_cost: receipts that were all free count as no receipts. *)
CalculateUnitCost(p, method, s) ==
    LET priced == Priced(p, s)
        cost == SumFunctionOnSet([r \in priced |-> move[r].quantity * CostOf[r]], priced)
        units == SumFunctionOnSet([r \in priced |-> move[r].quantity], priced)
    IN IF method = "latest_cost" \/ cost = 0 \/ units = 0 THEN UnitCost[p]
       ELSE RoundedQuotient(cost, units)

(* get_stock_valuation: a row per product with stock in the scope. *)
StockValuation(method, s) ==
    {[product |-> p, quantity |-> TotalStock(p, s),
      cost |-> CalculateUnitCost(p, method, s),
      value |-> CalculateUnitCost(p, method, s) * TotalStock(p, s)] :
         p \in {x \in Products : TotalStock(x, s) > 0}}

(* get_valuation_summary *)
ValuationSummary(method, s) ==
    LET rows == StockValuation(method, s) IN
    [products |-> Cardinality(rows),
     quantity |-> SumFunctionOnSet([v \in rows |-> v.quantity], rows),
     value |-> SumFunctionOnSet([v \in rows |-> v.value], rows)]

(* The API's StockValuationView fails on a method it does not know, the       *)
(* admin's falls back to the weighted average.                                *)
Failed == {}
ApiValuation(q, method) ==
    IF method \notin Methods THEN Failed
    ELSE {[items |-> StockValuation(method, Asked(q)),
           summary |-> ValuationSummary(method, Asked(q))]}

AdminValuation(q, method) ==
    LET known == IF method \in Methods THEN method ELSE "weighted_average" IN
    {[items |-> StockValuation(known, Asked(q)),
      summary |-> ValuationSummary(known, Asked(q))]}

-----------------------------------------------------------------------------
(* Overstock.                                                                *)

(* get_overstock_products *)
Overstock(k, s) == {p \in Products : Reorder[p] > 0 /\ TotalStock(p, s) > Reorder[p] * k}

OverstockRows(k, s) ==
    {[product |-> p, total |-> TotalStock(p, s), excess |-> TotalStock(p, s) - Reorder[p] * k] :
        p \in Overstock(k, s)}

(* OverstockReportView: int(threshold) fails in the API, is 3 in the admin. *)
ApiOverstock(q, k) == IF k \notin Int THEN Failed ELSE OverstockRows(k, Asked(q))
AdminOverstock(q, k) == OverstockRows(IF k \in Int THEN k ELSE 3, Asked(q))

-----------------------------------------------------------------------------
(* Movement history.                                                         *)

(* get_movement_history *)
MovementHistory(s) == {r \in Posted : MovementInScope(move[r], s)}

(* get_movement_summary, which the asynchronous report job runs. *)
MovementSummary(s) ==
    [type \in MovementType |->
        LET rows == {r \in MovementHistory(s) : move[r].type = type} IN
        [count |-> Cardinality(rows),
         total |-> SumFunctionOnSet([r \in rows |-> move[r].quantity], rows)]]

(* The API's MovementHistoryView; its ?product and ?location are not read. *)
ApiHistory(q) == MovementHistory(Asked(q))

(* MovementHistoryFilter applies the facility and the retail filter one after *)
(* the other, so a request that sets both sees what passes both.              *)
AdminHistory(q) ==
    {r \in Posted :
        /\ q.retail => MovementInScope(move[r], "retail")
        /\ q.warehouse \in Warehouses => MovementInScope(move[r], q.warehouse)}

-----------------------------------------------------------------------------
(* Properties.                                                               *)

(* What movement m adds to a scope: its units if it ends there, less its      *)
(* units if it starts there.                                                  *)
NetUnits(m, s) ==
    (IF HasDest(m) /\ InScope(m.to, s) THEN m.quantity ELSE 0)
    - (IF HasSource(m) /\ InScope(m.from, s) THEN m.quantity ELSE 0)

RecordsIn(s) == {rec \in StockRecord : InScope(rec[2], s)}

Carried(rows, s) == SumFunctionOnSet([r \in rows |-> NetUnits(move[r], s)], rows)

(* The units a valuation counts in a scope are those the receipts before left *)
(* there plus what the movements listed in the history of that scope carried  *)
(* in and out, whichever front door shows them (get_stock_valuation filters   *)
(* records, get_movement_history movements).                                  *)
UnitsExplained ==
    \A q \in Query :
        LET s == Asked(q)
            Explained(rows) == SumFunctionOnSet(Opening, RecordsIn(s)) + Carried(rows, s)
        IN /\ \A v \in ApiValuation(q, "latest_cost") : v.summary.quantity = Explained(ApiHistory(q))
           /\ q.warehouse = "" \/ (~q.retail /\ q.warehouse \in Warehouses) =>
                  \A v \in AdminValuation(q, "junk") : v.summary.quantity = Explained(AdminHistory(q))
           /\ SumFunctionOnSet([type \in MovementType |-> MovementSummary(s)[type].count], MovementType)
                  = Cardinality(ApiHistory(q))

(* A partition's weighted average lies between the lowest and the highest     *)
(* price paid for units received into it, unless they were free in all.       *)
CostsPaid ==
    \A q \in Query : \A v \in AdminValuation(q, "weighted_average") : \A row \in v.items :
        LET bought == {r \in Priced(row.product, Asked(q)) : move[r].quantity > 0}
            paid == {CostOf[r] : r \in bought} IN
        (\E c \in paid : c > 0) /\ (\A c \in paid : c >= 0) =>
            /\ \E c \in paid : row.cost >= c
            /\ \E c \in paid : row.cost <= c

(* A product overstocked in a partition is overstocked in the tenant, and the *)
(* API and the admin list the same where the API answers.                     *)
OverstockOfTheWhole ==
    \A q \in Query, k \in Thresholds :
        LET whole == ApiOverstock([retail |-> FALSE, warehouse |-> ""], k) IN
        /\ \A row \in ApiOverstock(q, k) : \E all \in whole : all.product = row.product
        /\ ApiOverstock(q, k) \in {Failed, AdminOverstock(q, k)}

(* The stock reports tell one story of one history, however movements into,   *)
(* out of and between partitions interleave: valuations count the units the   *)
(* movement history explains, at costs somebody paid, and a part shows no     *)
(* overstock the whole does not.                                              *)
ReportsTellOneStory == UnitsExplained /\ CostsPaid /\ OverstockOfTheWhole
=============================================================================
