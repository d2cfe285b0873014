--------------------------- MODULE ReservationReports ---------------------------
(***************************************************************************)
(* What reports and the dashboard say about reserved and available stock   *)
(* while module Reservation's workers change it.  PostgreSQL gives each    *)
(* statement the rows committed when it starts, and the reports that need  *)
(* both stock and reservations run two statements, so a commit can come    *)
(* between: one reader takes such a report in two steps.  The other        *)
(* reports are one statement each.                                         *)
(*                                                                         *)
(* All products and locations are active; names, dates and export formats  *)
(* are left out, and the dashboard does not find its answer in the cache.  *)
(***************************************************************************)
EXTENDS Reservation, ReportScope

CONSTANTS
    UnitCost,   \* Product.unit_cost
    Reorder,    \* Product.reorder_point
    Asking      \* bound: the requests the reader makes

ASSUME ReportAssumption ==
    /\ UnitCost \in [Products -> Int]   \* nothing refuses a negative one
    /\ Reorder \in [Products -> Nat]
    /\ Asking \subseteq Query
    /\ IsFiniteSet(Products) /\ IsFiniteSet(Locations) /\ IsFiniteSet(Warehouses)

VARIABLE reading   \* the report being taken, what it has read, and what was true then

reportVars == <<reservationVars, reading>>

-----------------------------------------------------------------------------
(* One statement each, over reservations and records of product p in scope s. *)

(* filter_stock_reservations_by_warehouse_scope *)
ActiveIn(p, s) ==
    {i \in Reservations : IsActive(i) /\ res[i].at[1] = p /\ InScope(res[i].at[2], s)}

(* The quantity column of some reservations, added up. *)
Units(rows) == SumFunctionOnSet([i \in Reservations |-> res[i].qty], rows)

ReservedIn(p, s) == Units(ActiveIn(p, s))

OnHand(p, s) == SumFunctionOnSet(quantity, ScopedRecords(p, s))

Received(p, s) == SumFunctionOnSet(inflow, ScopedRecords(p, s))

AllOf(Op(_, _), s) == [p \in Products |-> Op(p, s)]

SumOf(f) == SumFunctionOnSet(f, Products)

-----------------------------------------------------------------------------
(* Two-statement reports.                                                    *)

Kinds == {"availability", "dashboard"}

(* Faulty: each asks in the other's order. *)
OtherFirst(kind) == IF kind = "availability" THEN "stock" ELSE "reserved"

(* get_availability_report runs reserved_qs first and its product query, lazy *)
(* until the loop, after; DashboardSummaryView and by_site the other way.     *)
First(kind) == IF kind = "availability" THEN "reserved" ELSE "stock"

NoReading == [kind |-> "none", scope |-> "all", read |-> [p \in Products |-> 0],
              free |-> [p \in Products |-> 0]]

Free(p, s) == OnHand(p, s) - ReservedIn(p, s)

(* Units free of reservations, receipts aside: falls when stock goes out or   *)
(* is reserved and rises when a reservation ends.                             *)
FreeNet(p, s) == Free(p, s) - Received(p, s)

(* The first statement.  "free" is no part of the report: it says what was    *)
(* free when an availability report began.                                    *)
StartReport(kind, s) ==
    /\ reading.kind = "none"
    /\ reading' = [kind |-> kind, scope |-> s,
                   read |-> IF First(kind) = "stock" THEN AllOf(OnHand, s) ELSE AllOf(ReservedIn, s),
                   free |-> IF kind = "availability" THEN AllOf(FreeNet, s) ELSE NoReading.free]
    /\ UNCHANGED reservationVars

(* The second statement, if it ran now, would have the report say this. *)
Line(p) ==
    LET total == IF First(reading.kind) = "stock" THEN reading.read[p] ELSE OnHand(p, reading.scope)
        reserved == IF First(reading.kind) = "stock" THEN ReservedIn(p, reading.scope) ELSE reading.read[p]
    IN [total |-> total, reserved |-> reserved, available |-> total - reserved,
        value |-> reserved * UnitCost[p]]

Availability == [p \in Products |-> Line(p)]

(* get_reserved_stock_value, from a report of its own; the API's total. *)
ReservedValue == SumOf([p \in Products |-> Availability[p].value])

(* DashboardSummaryView; the same figures of one site in StockByLocationView. *)
DashboardTotals ==
    [reserved  |-> SumOf([p \in Products |-> Line(p).reserved]),
     available |-> SumOf([p \in Products |-> Line(p).total])
                   - SumOf([p \in Products |-> Line(p).reserved])]

FinishReport ==
    /\ reading.kind # "none"
    /\ reading' = NoReading
    /\ UNCHANGED reservationVars

-----------------------------------------------------------------------------
(* One-statement reports.                                                    *)

(* get_reservation_summary *)
ByStatus(s) ==
    [status \in Status \ {"none"} |->
        LET rows == {i \in Reservations : res[i].status = status /\ InScope(res[i].at[2], s)} IN
        [count |-> Cardinality(rows), units |-> Units(rows)]]

ActiveTotals(s) ==
    [count |-> ByStatus(s)["pending"].count + ByStatus(s)["confirmed"].count,
     units |-> ByStatus(s)["pending"].units + ByStatus(s)["confirmed"].units]

(* PendingReservationsView, its aggregate.  Its breakdown by status and its   *)
(* count are statements of their own, ByStatus("all") of when they run, and   *)
(* need not add up to it.                                                     *)
PendingReservations ==
    LET active == {i \in Reservations : IsActive(i)} IN
    [units |-> Units(active),
     value |-> SumFunctionOnSet([i \in Reservations |-> res[i].qty * UnitCost[res[i].at[1]]],
                                active)]

(* A StockRecord row exists from the first receipt on. *)
Stocked(rec) == Opening[rec] + inflow[rec] > 0

(* StockRecord.is_low_stock: the test of available_quantity. *)
LowRecords(s) ==
    {rec \in StockRecord : /\ Stocked(rec) /\ InScope(rec[2], s)
                           /\ quantity[rec] - Reserved(rec) <= Reorder[rec[1]]}

(* ProductQuerySet.low_stock *)
LowStock(s) == {rec[1] : rec \in {x \in LowRecords(s) : Reorder[x[1]] > 0}}

(* StockByLocationView, its chart: a bar per location with a StockRecord. *)
ByLocation ==
    [l \in {rec[2] : rec \in {x \in StockRecord : Stocked(x)}} |->
        LET total == SumOf([p \in Products |-> quantity[<<p, l>>]])
            reserved == SumOf([p \in Products |-> Reserved(<<p, l>>)])
        IN [total |-> total, reserved |-> reserved, available |-> total - reserved]]

(* get_low_stock_products: a request's scope becomes low_stock's warehouse_id. *)
LowStockProducts(q) == LowStock(Asked(q))

(* LowStockReportView: whatever the scope, stock and deficit are tenant-wide. *)
LowStockRows(q) ==
    {[product |-> p, total |-> OnHand(p, "all"), deficit |-> Reorder[p] - OnHand(p, "all")] :
        p \in LowStockProducts(q)}

(* warehouses_with_quick_stats: counts lines without a reorder point too. *)
QuickStats(w) ==
    [onHand |-> SumOf([p \in Products |-> OnHand(p, w)]),
     reserved |-> SumOf([p \in Products |-> ReservedIn(p, w)]),
     lowLines |-> Cardinality(LowRecords(w))]

-----------------------------------------------------------------------------
ReportInit == Init /\ reading = NoReading

ReportNext ==
    \/ Next /\ UNCHANGED reading
    \/ \E kind \in Kinds, q \in Asking : StartReport(kind, Asked(q))
    \/ FinishReport

ReportSpec == ReportInit /\ [][ReportNext]_reportVars

-----------------------------------------------------------------------------
(* Properties.                                                               *)

(* About rows and not about the reading; tested where nothing is being read,  *)
(* which every state of the rows has been.                                    *)
OneStatementReportsAgree ==
    /\ \A s \in Partitions, p \in Products :
          /\ Reorder[p] > 0 /\ (\E rec \in ScopedRecords(p, s) : Stocked(rec)) /\ Free(p, s) <= Reorder[p]
                 => p \in LowStock(s)
          /\ s \in Warehouses /\ p \in LowStock(s) => QuickStats(s).lowLines > 0
    /\ \A q \in Asking : {row.product : row \in LowStockRows(q)} = LowStock(Asked(q))
    /\ PendingReservations.units =
          ActiveTotals("retail").units
              + SumFunctionOnSet([w \in Warehouses |-> QuickStats(w).reserved], Warehouses)
    /\ PendingReservations.units =
          SumFunctionOnSet([l \in DOMAIN ByLocation |-> ByLocation[l].reserved], DOMAIN ByLocation)

(* No report hides a shortage.  The availability report, whichever commits   *)
(* come between its two statements, never shows more units than were free    *)
(* when it began and have come in since.  The dashboard reads in the other   *)
(* order, so a fulfilment in between can make it show more; but as long as   *)
(* stock leaves through reservations alone it shows no less than is free,    *)
(* nor a negative number.  A product the availability of a partition puts at *)
(* or below its reorder point is in that partition's low stock report, and a *)
(* facility with such a product has a low line in its quick stats.  A        *)
(* reserved unit is in the dashboard's total, in one partition's and in one  *)
(* location's, and the reserved stock of a part is worth no more than all of *)
(* it (get_availability_report, dashboard views, ProductQuerySet.low_stock,  *)
(* warehouses_with_quick_stats).                                             *)
ShortagesShow ==
    /\ reading.kind = "none" => OneStatementReportsAgree
    /\ \A p \in Products :
          /\ reading.kind = "availability" =>
                 Line(p).available <= reading.free[p] + Received(p, reading.scope)
          /\ reading.kind = "dashboard" /\ direct = 0 =>
                 Line(p).available >= Free(p, reading.scope) /\ Line(p).available >= 0
    /\ reading.kind = "dashboard" /\ reading.scope = "all" =>
          DashboardTotals.reserved = PendingReservations.units
    /\ /\ reading.kind = "availability" /\ reading.read = AllOf(ReservedIn, reading.scope)
       /\ \A p \in Products : UnitCost[p] >= 0
       => ReservedValue <= PendingReservations.value
=============================================================================
