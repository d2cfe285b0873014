------------------------------ MODULE OrderReports ------------------------------
(***************************************************************************)
(* What OrderReportService and the dashboard say of the orders of module   *)
(* Orders: the totals and the summary of sales or of purchases in a scope, *)
(* and the orders by status.  An order is in the scope of the sites of its *)
(* dispatches or goods received notes.                                     *)
(*                                                                         *)
(* The date filters are left out, and the orders share one period, so that *)
(* a summary is one row; money is in integer cents.                        *)
(***************************************************************************)
EXTENDS Orders, ReportScope, FiniteSets, Functions

CONSTANT UnitPrice    \* UnitPrice[o][p]: unit_price or unit_cost of the line

ASSUME OrderReportAssumption ==
    /\ IsFiniteSet(Orders) /\ IsFiniteSet(Documents) /\ IsFiniteSet(Products)
    /\ UnitPrice \in [Orders -> [Products -> Int]]   \* nothing refuses a negative one

Kinds == {Sales, Orders \ Sales}

(* The rows the query joins to order o: one for each document in the scope.   *)
(* The join is an outer one, whose NULL site is "retail".                     *)
RowsJoined(o, s) ==
    LET documents == {d \in Documents : OrderOf[d] = o} IN
    IF s = "all" \/ (s = "retail" /\ documents = {}) THEN 1
    ELSE Cardinality({d \in documents : InScope(SiteOf[d], s)})

(* Faulty: cancelled orders are not excluded. *)
ReportedAll(kind, s) == {o \in kind : RowsJoined(o, s) > 0}

(* _scoped_sales_orders, _scoped_purchase_orders: DISTINCT orders. *)
Reported(kind, s) == {o \in kind : status[o] # "cancelled" /\ RowsJoined(o, s) > 0}

LineCount == [o \in Orders |-> Cardinality({p \in Products : Ordered[o][p] > 0})]

LineTotal(o, amount) ==
    SumFunctionOnSet([p \in Products |-> amount[p] * UnitPrice[o][p]], Products)

(* get_sales_totals, get_purchase_totals; status_breakdown counts joined rows *)
(* again, the order and line counts do not.                                   *)
Totals(kind, s) ==
    LET orders == Reported(kind, s) IN
    [order_count |-> Cardinality(orders),
     line_count |-> SumFunctionOnSet(LineCount, orders),
     total |-> SumFunctionOnSet([o \in orders |-> LineTotal(o, left[o])], orders),
     breakdown |-> [st \in Status |->
         SumFunctionOnSet([o \in orders |-> RowsJoined(o, s)], {o \in orders : status[o] = st})]]

(* get_sales_summary, get_purchase_summary: both figures are summed over the  *)
(* joined rows, one for every line and document in the scope.                 *)
Summary(kind, s) ==
    LET orders == Reported(kind, s)
        rows == [o \in orders |-> RowsJoined(o, s) * (IF HasLines(o) THEN LineCount[o] ELSE 1)]
        values == [o \in orders |-> RowsJoined(o, s) * LineTotal(o, left[o])] IN
    [order_count |-> SumFunctionOnSet(rows, orders),
     total |-> SumFunctionOnSet(values, orders)]

(* _get_trunc_function: any other period is an error of the server. *)
Periods == {"daily", "weekly", "monthly"}

(* SalesSummaryView, PurchaseSummaryView; the admin's show the same. *)
ShowOrders(kind, q, period) ==
    IF period \notin Periods THEN {}
    ELSE {[totals |-> Totals(kind, Asked(q)), results |-> Summary(kind, Asked(q))]}

(* An export of the admin has the rows of the summary only. *)
ExportOrders(kind, q, period) == {view.results : view \in ShowOrders(kind, q, period)}

(* OrderStatusView of the dashboard. *)
OrderStatus(kind) == [st \in Status |-> Cardinality({o \in kind : status[o] = st})]

-----------------------------------------------------------------------------
(* Properties.                                                               *)

(* What the lines of o were entered for and its documents have not moved. *)
Due(o) == [p \in Products |->
              IF moved[o][p] < Ordered[o][p] THEN Ordered[o][p] - moved[o][p] ELSE 0]

Open(orders) == {o \in orders : status[o] # "done"}

Backlog(orders) == SumFunctionOnSet([o \in orders |-> LineTotal(o, Due(o))], orders)

NoNegativePrice == \A o \in Orders, p \in Products : UnitPrice[o][p] >= 0

(* The reports never understate what is still to be shipped or received: the  *)
(* lines get_sales_totals adds up are reduced by partial dispatches, some of  *)
(* them on stale reads, and hold at least what no document has moved; exactly *)
(* that when every order is open and no two calls on one have overlapped.     *)
(* The summary agrees but for orders joined to several documents or lines,    *)
(* every order shows in some partition, and the dashboard counts the orders   *)
(* of the report and the cancelled ones.  It is about rows, and tested where  *)
(* no call is open: a crash of the open calls leaves the same rows.  What     *)
(* orders are worth is compared where no line has a negative price.           *)
BacklogReported ==
    (\A s \in Sessions : pc[s] = "idle") => \A kind \in Kinds :
        LET counted == OrderStatus(kind)
            whole == Totals(kind, "all") IN
        /\ \A st \in Status \ {"cancelled"} : counted[st] = whole.breakdown[st]
        /\ whole.order_count + counted["cancelled"] = Cardinality(kind)
        /\ \A o \in Reported(kind, "all") : \E s \in Partitions \ {"all"} : o \in Reported(kind, s)
        /\ \A s \in {Asked(q) : q \in Query} :
              LET orders == Reported(kind, s)
                  totals == Totals(kind, s)
                  results == Summary(kind, s)
                  backlog == Backlog(Open(orders)) IN
              /\ NoNegativePrice => totals.total >= backlog /\ results.total >= totals.total
              /\ results.order_count >= totals.order_count
              /\ orders \cap raced = {} /\ Open(orders) = orders => totals.total = backlog
              /\ (\A o \in orders : RowsJoined(o, s) = 1) => results.total = totals.total
=============================================================================
