------------------------------ MODULE LotReports ------------------------------
(***************************************************************************)
(* What the reports say of the lots of module Lots: which expire or have   *)
(* expired, the movements of a lot and its GS1 trace, as the API, the      *)
(* admin and the dashboard show them.                                      *)
(*                                                                         *)
(* A StockLot has no location: a scope, or a location asked for, selects   *)
(* the lots of the products with a StockRecord there, empty ones included. *)
(* Days are integers and every lot is active; labels, costs and the limit  *)
(* of 20 lots on the dashboard are left out.                               *)
(***************************************************************************)
EXTENDS Lots, ReportScope

CONSTANTS
    NoExpiry,
    Expiry,       \* StockLot.expiry_date, or NoExpiry
    Days,         \* the days a report may be asked for on
    Windows       \* what a request may send for ?days_ahead: numbers and junk

ASSUME LotReportAssumption ==
    /\ NoExpiry \notin Int
    /\ Expiry \in [Lots -> Nat \cup {NoExpiry}]
    /\ Days \subseteq Nat

Dated(lot) == Expiry[lot] # NoExpiry

(* The StockRecord rows of a product; one exists from its first receipt on. *)
RecordRows(p) == {rec \in StockRecord : rec[1] = p /\ inflow[rec] > 0}

(* Faulty: joins records with units only, and none to NULL. *)
StockedInner(p, s) ==
    s = "all" \/ \E rec \in RecordRows(p) : InScope(rec[2], s) /\ quantity[rec] > 0

(* The join of the scope filter; a product without records joins to NULL,     *)
(* which is "retail".                                                         *)
StockedIn(p, s) ==
    \/ s = "all"
    \/ \E rec \in RecordRows(p) : InScope(rec[2], s)
    \/ s = "retail" /\ RecordRows(p) = {}

(* The ids of a request: "" where none is given, or none of that id exists.   *)
LotFilter == [product : Products \cup {""}, location : Locations \cup {""}]
Everything == [product |-> "", location |-> ""]

Selected(f, s) ==
    {lot \in Lots :
        LET p == LotProduct[lot] IN
        /\ Exists(lot)
        /\ f.product \in {"", p}
        /\ f.location = "" \/ <<p, f.location>> \in RecordRows(p)
        /\ StockedIn(p, s)}

(* get_expiring_lots *)
ExpiringLots(today, ahead, f, s) ==
    {lot \in Selected(f, s) :
        /\ Dated(lot) /\ today < Expiry[lot] /\ Expiry[lot] <= today + ahead
        /\ remaining[lot] > 0}

(* get_expired_lots *)
ExpiredLots(today, depleted, f, s) ==
    {lot \in Selected(f, s) :
        /\ Dated(lot) /\ Expiry[lot] <= today
        /\ depleted \/ remaining[lot] > 0}

ExpiryReport(today, ahead, f, s) ==
    [expired |-> ExpiredLots(today, FALSE, f, s),
     expiring |-> ExpiringLots(today, IF ahead < 1 THEN 1 ELSE ahead, f, s)]

(* ProductExpiryView: int() fails on what is no number.                       *)
ApiExpiry(q, today, ahead, f) ==
    IF ahead \notin Int THEN {} ELSE {ExpiryReport(today, ahead, f, Asked(q))}

(* ExpiryReportView of the admin: 30 days in its place.                       *)
AdminExpiry(q, today, ahead, f) ==
    {ExpiryReport(today, IF ahead \in Int THEN ahead ELSE 30, f, Asked(q))}

(* ExpiringLotsView of the dashboard: 30 days, those past included.           *)
ExpiringOnDashboard(today) ==
    [has_lot_data |-> \E lot \in Lots : Exists(lot),
     lots |-> {lot \in Lots : Dated(lot) /\ Expiry[lot] <= today + 30 /\ remaining[lot] > 0}]

-----------------------------------------------------------------------------
(* The movements of one lot.                                                 *)

Linked(lot) == {r \in Requests : Done(r) /\ links[r][lot] > 0}

(* get_lot_history *)
LotHistory(lot, s) == {r \in Linked(lot) : MovementInScope(Move(r), s)}

(* LotHistoryView: 404 without the product, an empty list without the lot;    *)
(* each movement with all the lots it is linked to.                           *)
ShowHistory(q, p, lot) ==
    IF LotProduct[lot] # p THEN {}
    ELSE {[id |-> r, quantity |-> Move(r).quantity,
           allocations |-> [x \in {y \in Lots : links[r][y] > 0} |-> links[r][x]]] :
             r \in LotHistory(lot, Asked(q))}

(* _build_chain_entry *)
ChainEntry(r, n) ==
    LET m == Move(r)
        place == CASE m.type = "transfer" -> [from |-> m.from, to |-> m.to]
                   [] m.type = "issue"    -> [location |-> m.from]
                   [] m.type = "receive"  -> [location |-> m.to]
                   [] OTHER -> [location |-> IF HasDest(m) THEN m.to ELSE m.from]
    IN [id |-> r, action |-> m.type, quantity |-> n, place |-> place]

(* get_product_traceability *)
Trace(p, lot) ==
    IF ~Exists(lot) \/ LotProduct[lot] # p THEN {}
    ELSE {[lot |-> lot, expiry |-> Expiry[lot],
           chain |-> {ChainEntry(r, links[r][lot]) : r \in Linked(lot)}]}

(* ProductTraceabilityView: 400 without both parameters, 404 without a trace. *)
ShowTrace(p, lot) ==
    IF p = "" \/ lot = "" THEN {400}
    ELSE IF Trace(p, lot) = {} THEN {404} ELSE Trace(p, lot)

-----------------------------------------------------------------------------
(* Properties.                                                               *)

UnitsOf(chain, action) ==
    SumFunctionOnSet([e \in chain |-> e.quantity], {e \in chain : e.action = action})

(* The trace of a lot is its whole story: where no adjustment is in it, what  *)
(* was received less what was issued is what the lot has left, and each       *)
(* movement in it shows in the lot's history in some partition.               *)
TraceComplete ==
    \A lot \in Lots : \A trace \in Trace(LotProduct[lot], lot) :
        LET chain == trace.chain
            shown == {LotHistory(lot, s) : s \in Partitions \ {"all"}} IN
        /\ UnitsOf(chain, "adjustment") = 0 =>
               remaining[lot] = LotOpening[lot] + UnitsOf(chain, "receive") - UnitsOf(chain, "issue")
        /\ {e.id : e \in chain} = UNION shown

(* No lot with units left runs out of date unseen: of the lots dated within   *)
(* the window each is either expired or expiring, in the tenant and in some   *)
(* partition, the API and the admin agree where the API answers, and both     *)
(* lists are on the dashboard as far as its 30 days go, which are the admin's *)
(* when a request asks for no number of them.                                 *)
ExpirySeen ==
    \A today \in Days, ahead \in Windows :
        LET whole == AdminExpiry([retail |-> FALSE, warehouse |-> ""], today, ahead, Everything)
            Listed(reports) == UNION {report.expired \cup report.expiring : report \in reports}
            parts == UNION {Listed(AdminExpiry(q, today, ahead, Everything)) :
                              q \in {x \in Query : Asked(x) # "all"}} IN
        /\ Listed(whole) = parts
        /\ \A report \in whole : report.expired \cap report.expiring = {}
        /\ \A lot \in Lots : Dated(lot) /\ remaining[lot] > 0 /\ Expiry[lot] <= today + 1 =>
               lot \in Listed(whole)
        /\ \A lot \in Listed(whole) :
               Expiry[lot] <= today + 30 => lot \in ExpiringOnDashboard(today).lots
        /\ ahead \notin Int => Listed(whole) = ExpiringOnDashboard(today).lots
        /\ \A q \in Query : ApiExpiry(q, today, ahead, Everything)
                              \in {{}, AdminExpiry(q, today, ahead, Everything)}

(* Lots and what is shown of them tell one story, whatever calls interleave:  *)
(* the links explain every lot, the trace explains it to a reader, and the    *)
(* expiry reports leave out none that has units.                              *)
LotsTraced == LotsMatchLinks /\ TraceComplete /\ ExpirySeen
=============================================================================
