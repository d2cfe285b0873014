------------------------------ MODULE CycleReports ------------------------------
(***************************************************************************)
(* What the reports say of the cycle counts of module CycleCount: the      *)
(* variances, their summary and the history of cycles, in a scope, as the  *)
(* API shows them.                                                         *)
(*                                                                         *)
(* The product filter, the columns that only describe a row and the page   *)
(* of 500 are left out.                                                    *)
(***************************************************************************)
EXTENDS CycleCount, ReportScope, FiniteSets, Functions

CONSTANT CycleLocation    \* InventoryCycle.location, or NoLocation

ASSUME CycleReportAssumption ==
    /\ IsFiniteSet(Cycles) /\ IsFiniteSet(StockRecord)
    /\ CycleLocation \in [Cycles -> Locations \cup {NoLocation}]
    /\ \A c \in Cycles : CycleLocation[c] # NoLocation =>
           \A rec \in Scope[c] : rec[2] = CycleLocation[c]

VarianceType == {"shortage", "surplus", "match"}

(* _classify_variance *)
Classify(n) == IF n < 0 THEN "shortage" ELSE IF n > 0 THEN "surplus" ELSE "match"

(* Faulty: from the count line, which a late record_count may change. *)
LineVariance(c, rec) == counted[c][rec] - system[c][rec]

(* InventoryVariance.variance_quantity *)
VarianceQuantity(c, rec) == physical[c][rec] - system[c][rec]

Net(rows) == SumFunctionOnSet([row \in rows |-> VarianceQuantity(row[1], row[2])], rows)

OfType(rows, type) == {row \in rows : Classify(VarianceQuantity(row[1], row[2])) = type}

(* A filter of a request, "" when it is not given. *)
Passes(x, filter) == filter \in {"", x}

(* get_variance_report *)
VarianceReport(cycle, type, s) ==
    {row \in Cycles \X StockRecord :
        LET c == row[1]
            rec == row[2] IN
        /\ variance[c][rec] # "none"
        /\ InScope(rec[2], s)
        /\ Passes(c, cycle)
        /\ Passes(Classify(VarianceQuantity(c, rec)), type)}

(* get_variance_summary; it does not take the type. *)
VarianceSummary(cycle, s) ==
    LET rows == VarianceReport(cycle, "", s) IN
    [by_type |-> [type \in {Classify(VarianceQuantity(row[1], row[2])) : row \in rows} |->
                     [count |-> Cardinality(OfType(rows, type)), total |-> Net(OfType(rows, type))]],
     total |-> Cardinality(rows),
     net |-> Net(rows)]

(* VarianceReportView *)
ShowVariances(q, cycle, type) ==
    [items |-> VarianceReport(cycle, type, Asked(q)),
     summary |-> VarianceSummary(cycle, Asked(q))]

-----------------------------------------------------------------------------
(* The history of cycles.                                                    *)

LinesOf(c) == {rec \in StockRecord : system[c][rec] # Absent}

(* filter_inventory_cycles_by_warehouse_scope: "retail" takes in every cycle  *)
(* without a location, since its location's warehouse is null as well.        *)
CycleInScope(c, s) ==
    LET l == CycleLocation[c] IN
    \/ s = "all"
    \/ l = NoLocation /\ (s = "retail" \/ \E rec \in LinesOf(c) : InScope(rec[2], s))
    \/ l # NoLocation /\ InScope(l, s)

(* The count lines the query joins to the cycle: its filter on a facility     *)
(* keeps the lines there.                                                     *)
LinesJoined(c, s) ==
    IF CycleLocation[c] = NoLocation /\ s \in Warehouses
    THEN {rec \in LinesOf(c) : InScope(rec[2], s)} ELSE LinesOf(c)

(* get_cycle_history.  Each variance is summed once for every line it is      *)
(* joined with.                                                               *)
CycleHistory(s) ==
    {LET rows == VarianceReport(c, "", "all")
         lines == Cardinality(LinesJoined(c, s)) IN
     [id |-> c, status |-> status[c], lines |-> lines, variances |-> Cardinality(rows),
      shortages |-> Cardinality(OfType(rows, "shortage")),
      surpluses |-> Cardinality(OfType(rows, "surplus")),
      matches |-> Cardinality(OfType(rows, "match")),
      net |-> Net(rows) * (IF lines = 0 THEN 1 ELSE lines)] :
        c \in {x \in Cycles : status[x] # "none" /\ CycleInScope(x, s)}}

(* CycleHistoryView *)
ShowHistory(q) == CycleHistory(Asked(q))

(* CycleCountService.get_variance_summary, from the count lines as they are.  *)
CountSummary(c) ==
    LET Of(type) == Cardinality({rec \in CountedLines(counted[c]) :
                        Classify(Variance(c, counted[c], rec)) = type}) IN
    [shortages |-> Of("shortage"), surpluses |-> Of("surplus"), matches |-> Of("match"),
     uncounted |-> Cardinality(LinesOf(c) \ CountedLines(counted[c])),
     total |-> Cardinality(LinesOf(c))]

-----------------------------------------------------------------------------
(* Properties.                                                               *)

Accepted(rows) == {row \in rows : variance[row[1]][row[2]] = "accepted"}

(* While nothing but counting has touched the stock, the accepted variances   *)
(* that get_variance_report lists in a scope are exactly what the stock there *)
(* has changed by: overlapping cycles, calls on a stale status and counts     *)
(* saved after the reconciliation add nothing to one side alone.  And every   *)
(* variance shown in a scope is of a reconciled or reopened cycle whose       *)
(* history shows there, with no fewer shortages, surpluses and matches than   *)
(* the variance summary.                                                      *)
VarianceExplainsStock ==
    \A q \in Query :
        LET s == Asked(q)
            shown == ShowVariances(q, "", "").items IN
        /\ direct = 0 =>
               Net(Accepted(shown)) =
               SumFunctionOnSet([rec \in StockRecord |-> quantity[rec] - Opening[rec]],
                                {rec \in StockRecord : InScope(rec[2], s)})
        /\ \A row \in shown : \E entry \in ShowHistory(q) :
               LET count == ShowVariances(q, row[1], "").summary.by_type
                   AtLeast(n, type) == type \in DOMAIN count => n >= count[type].count IN
               /\ entry.id = row[1] /\ entry.status \in {"completed", "reconciled"}
               /\ AtLeast(entry.shortages, "shortage")
               /\ AtLeast(entry.surpluses, "surplus")
               /\ AtLeast(entry.matches, "match")
=============================================================================
