------------------------------ MODULE ReportScope ------------------------------
(***************************************************************************)
(* The warehouse scope every report takes: all locations of the tenant, the *)
(* retail-only ones, or those of one facility, and how the query string of *)
(* a request and the filters of the services express it.                   *)
(***************************************************************************)
EXTENDS StockMovements

CONSTANTS
    Warehouses,    \* Warehouse rows of the tenant
    WarehouseOf    \* the warehouse of each facility location

ASSUME ScopeAssumption ==
    /\ WarehouseOf \in [Facility -> Warehouses]
    /\ Warehouses \cap {"", "null", "junk", "all", "retail"} = {}   \* a warehouse_id is a key

(* retail_locations_only and warehouse_id of a request: "" is an omitted id,  *)
(* "junk" one that is no number.                                              *)
QueryString == [retail : BOOLEAN, warehouse : {"", "null", "junk"} \cup Warehouses]

(* int(raw) raises ValueError, which no view of a report catches: a request   *)
(* with such an id gets no report, unless the retail flag hides it.           *)
Understood(q) == q.retail \/ q.warehouse # "junk"

(* The requests that are answered. *)
Query == {q \in QueryString : Understood(q)}

Partitions == {"all", "retail"} \cup Warehouses

(* report_scope_params_from_query: the retail flag hides a warehouse_id, so   *)
(* that the combination parse_report_warehouse_scope refuses never reaches it. *)
ScopeParams(q) == IF q.retail THEN [q EXCEPT !.warehouse = ""] ELSE q

(* parse_report_warehouse_scope *)
ScopeOf(params) ==
    IF params.retail \/ params.warehouse = "null" THEN "retail"
    ELSE IF params.warehouse = "" THEN "all" ELSE params.warehouse

(* The scope a request for a report asks for. *)
Asked(q) == ScopeOf(ScopeParams(q))

(* The location filter of stock records, reservations and variances. *)
InScope(l, s) ==
    CASE s = "all"    -> TRUE
      [] s = "retail" -> l \notin Facility
      [] OTHER        -> l \in Facility /\ WarehouseOf[l] = s

ScopedRecords(p, s) == {rec \in StockRecord : rec[1] = p /\ InScope(rec[2], s)}

(* A leg of a movement in a scope.  warehouse_id IS NULL is also true of a    *)
(* leg the movement does not have, so "retail" takes one-legged movements of  *)
(* facilities in.                                                             *)
LegInScope(l, s) == IF l = NoLocation THEN s = "retail" ELSE InScope(l, s)

(* Faulty: looks at where units came from only. *)
SourceInScope(m, s) == s = "all" \/ LegInScope(m.from, s)

(* filter_stock_movements_by_warehouse_scope: either leg. *)
MovementInScope(m, s) == s = "all" \/ LegInScope(m.from, s) \/ LegInScope(m.to, s)
=============================================================================
