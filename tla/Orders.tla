--------------------------------- MODULE Orders ---------------------------------
(***************************************************************************)
(* SalesService and ProcurementService: sales orders shipped by dispatches *)
(* and purchase orders received by goods received notes, served by         *)
(* concurrent sessions.  The two services have one shape (confirm, cancel, *)
(* process a document of the order), so one module models both: an order   *)
(* in Sales is shipped out of SiteOf its dispatch, any other is received   *)
(* into SiteOf its note.                                                   *)
(*                                                                         *)
(* Every call works on the rows its view fetched before it: the status it  *)
(* tests, the is_processed flag and the lines are not read again under a   *)
(* lock, and a save overwrites whatever has been committed since.  What    *)
(* the transaction of process_dispatch does lock is stock records (by its  *)
(* movements), lines and the document (by its saves).                      *)
(***************************************************************************)
EXTENDS StockLedger

CONSTANTS
    Orders, Sales,       \* all orders; those that are SalesOrder rows
    Documents,           \* Dispatch and GoodsReceivedNote rows
    OrderOf, SiteOf,     \* the order and the location of each document
    Ordered,             \* Ordered[o][p]: line quantity when entered, 0 for no line
    Sessions,
    MaxHeld,             \* bound: units reservations may hold of a record
    MaxDirect,           \* bound: other movements in one behaviour
    MaxTimes             \* bound: times a document is processed before it is left alone

ASSUME OrdersAssumption ==
    /\ Sales \subseteq Orders
    /\ Orders # {} /\ Documents # {}
    /\ OrderOf \in [Documents -> Orders]
    /\ SiteOf \in [Documents -> Locations]
    /\ Ordered \in [Orders -> [Products -> Nat]]
    /\ MaxHeld \in Nat /\ MaxDirect \in Nat /\ MaxTimes \in Nat

VARIABLES
    status,      \* status[o]: SalesOrder.status, PurchaseOrder.status
    left,        \* left[o][p]: the line's quantity now
    processed,   \* processed[d]: is_processed
    held,        \* held[rec]: units active reservations hold
    moved,       \* moved[o][p]: units the documents of o have moved
    times,       \* times[d]: how often movements have been made for d
    raced,       \* the orders on which two calls have overlapped
    pc, job,     \* each session's next step, and what it has read
    direct       \* other movements so far

ordersVars == <<quantity, inflow, outflow, status, left, processed, held, moved, times,
                raced, pc, job, direct>>

orderRows == <<status, left, processed>>
stockRows == <<quantity, inflow, outflow, moved, times>>

Status == {"draft", "confirmed", "done", "cancelled"}   \* done: fulfilled or received

Amounts == [Products -> Nat]

Job == [order : Orders, doc : Documents, partial : BOOLEAN,
        status : Status, processed : BOOLEAN, lines : Amounts, plan : Amounts,
        todo : SUBSET Products]

Step == {"idle", "confirm", "cancel", "editOrder", "editDocument", "lines", "plan", "issue",
         "commit"}

TypeOK ==
    /\ LedgerTypeOK
    /\ status \in [Orders -> Status]
    /\ left \in [Orders -> Amounts]
    /\ processed \in [Documents -> BOOLEAN]
    /\ held \in [StockRecord -> Nat]
    /\ moved \in [Orders -> Amounts]
    /\ times \in [Documents -> Nat]
    /\ raced \subseteq Orders
    /\ pc \in [Sessions -> Step]
    /\ job \in [Sessions -> Job]
    /\ direct \in Nat

Nothing == [p \in Products |-> 0]

NoJob == [order |-> CHOOSE o \in Orders : TRUE, doc |-> CHOOSE d \in Documents : TRUE,
          partial |-> FALSE, status |-> "draft", processed |-> FALSE,
          lines |-> Nothing, plan |-> Nothing, todo |-> {}]

(* Orders as SalesOrderSerializer.create leaves them, documents not processed. *)
Init ==
    /\ LedgerInit
    /\ status = [o \in Orders |-> "draft"]
    /\ left = Ordered
    /\ processed = [d \in Documents |-> FALSE]
    /\ held = [rec \in StockRecord |-> 0]
    /\ moved = [o \in Orders |-> Nothing]
    /\ times = [d \in Documents |-> 0]
    /\ raced = {}
    /\ pc = [s \in Sessions |-> "idle"]
    /\ job = [s \in Sessions |-> NoJob]
    /\ direct = 0

-----------------------------------------------------------------------------
(* A call is open from the view's get_object to its last save.               *)

HasLines(o) == \E p \in Products : Ordered[o][p] > 0

Begin(s, step, j) ==
    /\ pc[s] = "idle"
    /\ pc' = [pc EXCEPT ![s] = step]
    /\ job' = [job EXCEPT ![s] = j]
    /\ raced' = IF \E t \in Sessions \ {s} : pc[t] # "idle" /\ job[t].order = j.order
                THEN raced \cup {j.order} ELSE raced
    /\ UNCHANGED <<held, direct>> /\ UNCHANGED orderRows /\ UNCHANGED stockRows

Finish(s) ==
    /\ pc' = [pc EXCEPT ![s] = "idle"]
    /\ job' = [job EXCEPT ![s] = NoJob]
    /\ UNCHANGED <<held, raced, direct>>

(* An exception or a lost worker: nothing the call wrote survives. *)
Abandon(s) == Finish(s) /\ UNCHANGED orderRows /\ UNCHANGED stockRows

Crash(s) == pc[s] # "idle" /\ Abandon(s)

SaveStatus(s, value) ==
    /\ status' = [status EXCEPT ![job[s].order] = value]
    /\ Finish(s)
    /\ UNCHANGED <<left, processed>> /\ UNCHANGED stockRows

-----------------------------------------------------------------------------
(* confirm_order, cancel_order, and an edit through the order's or the       *)
(* document's PATCH, which saves every column of the row it had read.        *)
(* confirm_order reserves nothing: the view passes no default_location.      *)

BeginConfirm(s) ==
    \E o \in Orders :
        /\ status[o] = "draft" /\ HasLines(o)
        /\ Begin(s, "confirm", [NoJob EXCEPT !.order = o])

Confirm(s) == pc[s] = "confirm" /\ SaveStatus(s, "confirmed")

(* Faulty: done orders can be cancelled as well. *)
BeginCancelAny(s) ==
    \E o \in Orders :
        /\ status[o] # "cancelled"
        /\ Begin(s, "cancel", [NoJob EXCEPT !.order = o])

BeginCancel(s) ==
    \E o \in Orders :
        /\ status[o] \in {"draft", "confirmed"}
        /\ Begin(s, "cancel", [NoJob EXCEPT !.order = o])

Cancel(s) == pc[s] = "cancel" /\ SaveStatus(s, "cancelled")

BeginEditOrder(s) ==
    \E o \in Orders : Begin(s, "editOrder", [NoJob EXCEPT !.order = o, !.status = status[o]])

EditOrder(s) == pc[s] = "editOrder" /\ SaveStatus(s, job[s].status)

BeginEditDocument(s) ==
    \E d \in Documents :
        Begin(s, "editDocument",
              [NoJob EXCEPT !.order = OrderOf[d], !.doc = d, !.processed = processed[d]])

(* The sessions that have written the row of document d and not committed. *)
Writing(d) == {t \in Sessions : pc[t] = "commit" /\ job[t].doc = d}

EditDocument(s) ==
    /\ pc[s] = "editDocument"
    /\ Writing(job[s].doc) = {}
    /\ processed' = [processed EXCEPT ![job[s].doc] = job[s].processed]
    /\ Finish(s)
    /\ UNCHANGED <<status, left>> /\ UNCHANGED stockRows

-----------------------------------------------------------------------------
(* process_dispatch and receive_goods.                                       *)

IsSale(d) == OrderOf[d] \in Sales

Site(d, p) == <<p, SiteOf[d]>>

(* _available_at_location *)
AvailableAt(rec) == IF quantity[rec] > held[rec] THEN quantity[rec] - held[rec] ELSE 0

(* The guards of both calls, on the rows the view read; only a dispatch can  *)
(* be asked to issue_available_only.                                         *)
BeginProcess(s) ==
    \E d \in Documents, partial \in BOOLEAN :
        /\ partial => IsSale(d)
        /\ ~processed[d]
        /\ status[OrderOf[d]] = "confirmed" /\ HasLines(OrderOf[d])
        /\ times[d] <= MaxTimes
        /\ Begin(s, "lines", [NoJob EXCEPT !.order = OrderOf[d], !.doc = d, !.partial = partial])

(* The lines are read as they stand.  A full dispatch or a receipt will move *)
(* all of each; issue_available_only first asks what is free for every line. *)
ReadLines(s) ==
    LET j == job[s]
        lines == left[j.order] IN
    /\ pc[s] = "lines"
    /\ job' = [job EXCEPT ![s] = [j EXCEPT !.lines = lines, !.plan = lines,
                  !.todo = IF j.partial THEN {p \in Products : lines[p] > 0} ELSE {}]]
    /\ pc' = [pc EXCEPT ![s] = IF j.partial THEN "plan" ELSE "issue"]
    /\ UNCHANGED <<held, raced, direct>> /\ UNCHANGED orderRows /\ UNCHANGED stockRows

(* min(line.quantity, available), by reads of its own for each line.  The    *)
(* holds are summed after the stock is read; as they change at any time, one *)
(* read of both misses nothing.                                              *)
PlanLine(s, p) ==
    LET j == job[s]
        free == AvailableAt(Site(j.doc, p))
        plan == [j.plan EXCEPT ![p] = IF free < j.lines[p] THEN free ELSE j.lines[p]] IN
    /\ pc[s] = "plan" /\ p \in j.todo
    /\ job' = [job EXCEPT ![s] = [j EXCEPT !.plan = plan, !.todo = j.todo \ {p}]]
    /\ pc' = [pc EXCEPT ![s] = IF j.todo = {p} /\ plan # Nothing THEN "issue" ELSE "plan"]
    /\ UNCHANGED <<held, raced, direct>> /\ UNCHANGED orderRows /\ UNCHANGED stockRows

(* "No unreserved stock available ... for any line" *)
NothingAvailable(s) ==
    /\ pc[s] = "plan"
    /\ job[s].todo = {} /\ job[s].plan = Nothing
    /\ Abandon(s)

(* Faulty: a partial shipment is taken for a full one. *)
AlwaysFullShip(j) == TRUE

(* full_ship: every line is covered, and no line is reduced. *)
FullShip(j) == j.plan = j.lines

(* The records session s's transaction has locked, the lines it reduces. *)
Recs(s)  == {Site(job[s].doc, p) : p \in {q \in Products : job[s].plan[q] > 0}}
Lines(s) == IF FullShip(job[s]) THEN {}
            ELSE {<<job[s].order, p>> : p \in {q \in Products : job[s].plan[q] > 0}}

(* Faulty: stock is read without select_for_update. *)
RowsNotAwaited(s) == TRUE

(* The movements, the line saves and the document's save wait for every row  *)
(* another open transaction has written.                                     *)
RowsFree(s) ==
    /\ Writing(job[s].doc) = {}
    /\ \A t \in Sessions \ {s} :
          pc[t] = "commit" => Recs(t) \cap Recs(s) = {} /\ Lines(t) \cap Lines(s) = {}

Enough(s) ==
    IsSale(job[s].doc) =>
        \A p \in Products : job[s].plan[p] <= quantity[Site(job[s].doc, p)]

(* The lines as s's transaction sees them once it has saved its own: a save  *)
(* overwrites what was committed after s read the line.                      *)
LinesAfter(s) ==
    LET j == job[s] IN
    [p \in Products |-> IF <<j.order, p>> \in Lines(s) THEN j.lines[p] - j.plan[p]
                                                       ELSE left[j.order][p]]

(* Nothing left to ship: the order is done. *)
StatusAfter(s) ==
    IF FullShip(job[s]) \/ LinesAfter(s) = Nothing THEN "done" ELSE "confirmed"

Issue(s) ==
    /\ pc[s] = "issue"
    /\ RowsFree(s)
    /\ Enough(s)
    /\ job' = [job EXCEPT ![s].status = StatusAfter(s)]
    /\ pc' = [pc EXCEPT ![s] = "commit"]
    /\ UNCHANGED <<held, raced, direct>> /\ UNCHANGED orderRows /\ UNCHANGED stockRows

(* InsufficientStockError of a dispatch, LocationCapacityExceededError of a  *)
(* receipt: the transaction rolls back.                                      *)
IssueRefused(s) ==
    /\ pc[s] = "issue"
    /\ ~Enough(s) \/ ~IsSale(job[s].doc)
    /\ Abandon(s)

(* What the transaction of s moves at record rec. *)
Shift(s, rec) ==
    IF rec \in StockRecord /\ rec[2] = SiteOf[job[s].doc] THEN job[s].plan[rec[1]] ELSE 0

(* Faulty: saves the lines it read instead of reducing them. *)
CommitForgettingLines(s) ==
    LET j == job[s] IN
    /\ pc[s] = "commit"
    /\ IF IsSale(j.doc)
       THEN /\ quantity' = [rec \in StockRecord |-> quantity[rec] - Shift(s, rec)]
            /\ outflow' = [rec \in StockRecord |-> outflow[rec] + Shift(s, rec)]
            /\ UNCHANGED inflow
       ELSE /\ quantity' = [rec \in StockRecord |-> quantity[rec] + Shift(s, rec)]
            /\ inflow' = [rec \in StockRecord |-> inflow[rec] + Shift(s, rec)]
            /\ UNCHANGED outflow
    /\ moved' = [moved EXCEPT ![j.order] = [p \in Products |-> @[p] + j.plan[p]]]
    /\ times' = [times EXCEPT ![j.doc] = @ + 1]
    /\ processed' = [processed EXCEPT ![j.doc] = TRUE]
    /\ status' = [status EXCEPT ![j.order] = j.status]
    /\ Finish(s)
    /\ UNCHANGED left

Commit(s) ==
    LET j == job[s] IN
    /\ pc[s] = "commit"
    /\ IF IsSale(j.doc)
       THEN /\ quantity' = [rec \in StockRecord |-> quantity[rec] - Shift(s, rec)]
            /\ outflow' = [rec \in StockRecord |-> outflow[rec] + Shift(s, rec)]
            /\ UNCHANGED inflow
       ELSE /\ quantity' = [rec \in StockRecord |-> quantity[rec] + Shift(s, rec)]
            /\ inflow' = [rec \in StockRecord |-> inflow[rec] + Shift(s, rec)]
            /\ UNCHANGED outflow
    /\ moved' = [moved EXCEPT ![j.order] = [p \in Products |-> @[p] + j.plan[p]]]
    /\ times' = [times EXCEPT ![j.doc] = @ + 1]
    /\ left' = [left EXCEPT ![j.order] = LinesAfter(s)]
    /\ processed' = [processed EXCEPT ![j.doc] = TRUE]
    /\ status' = [status EXCEPT ![j.order] = j.status]
    /\ Finish(s)

-----------------------------------------------------------------------------
(* Everybody else: movements of other flows, reservations coming and going.  *)

DirectMovement ==
    /\ direct < MaxDirect
    /\ direct' = direct + 1
    /\ \E m \in Movement :
          /\ \A s \in Sessions : pc[s] = "commit" => Touched(m) \cap Recs(s) = {}
          /\ Post(m)
    /\ UNCHANGED <<status, left, processed, held, moved, times, raced, pc, job>>

HoldsChange(rec) ==
    /\ \E n \in 0..MaxHeld : held' = [held EXCEPT ![rec] = n]
    /\ UNCHANGED <<raced, pc, job, direct>> /\ UNCHANGED orderRows /\ UNCHANGED stockRows

-----------------------------------------------------------------------------
Calls(s) == \/ BeginConfirm(s) \/ BeginCancel(s) \/ BeginEditOrder(s) \/ BeginEditDocument(s)
            \/ BeginProcess(s)

Work(s) == \/ Confirm(s) \/ Cancel(s) \/ EditOrder(s) \/ EditDocument(s)
           \/ ReadLines(s) \/ (\E p \in Products : PlanLine(s, p)) \/ NothingAvailable(s)
           \/ Issue(s) \/ IssueRefused(s) \/ Commit(s)

Next ==
    \/ \E s \in Sessions : Calls(s) \/ Work(s) \/ Crash(s)
    \/ DirectMovement
    \/ \E rec \in StockRecord : HoldsChange(rec)

Spec == Init /\ [][Next]_ordersVars

-----------------------------------------------------------------------------
(* Properties; NonNegativeStock and LedgerBalances are StockLedger's.        *)

(* An order marked fulfilled or received has had every line moved in full,   *)
(* although the status is computed from lines read before the transaction    *)
(* and stale saves can put older statuses back.                              *)
DoneMeansMoved ==
    \A o \in Orders : status[o] = "done" => \A p \in Products : moved[o][p] >= Ordered[o][p]

(* If no two calls on an order have overlapped, its documents have moved     *)
(* exactly what its lines no longer ask for, each document once, and nothing *)
(* before it was confirmed; "done" means exactly what was ordered.           *)
ExactWhenAlone ==
    \A o \in Orders \ raced :
        /\ \A d \in Documents : OrderOf[d] = o => times[d] = IF processed[d] THEN 1 ELSE 0
        /\ status[o] = "draft" => moved[o] = Nothing
        /\ status[o] = "done" => moved[o] = Ordered[o]
        /\ status[o] # "done" =>
               \A p \in Products : moved[o][p] + left[o][p] = Ordered[o][p]

(* "Fulfilled orders cannot be cancelled": while calls on an order do not    *)
(* overlap, a fulfilled, received or cancelled order keeps its status and    *)
(* moves no more stock.                                                      *)
ClosedOrdersStay ==
    [][\A o \in Orders :
          o \notin raced' /\ status[o] \in {"done", "cancelled"} =>
              status'[o] = status[o] /\ moved'[o] = moved[o]]_ordersVars

(* "This dispatch has already been processed": a document moves stock once.  *)
ProcessedOnce == \A d \in Documents : times[d] <= 1

(* The inductive invariant: what a session has read bounds what is due, and  *)
(* the stock it is about to commit is still there.                           *)
SessionInv(s) ==
    LET j == job[s] IN
    /\ pc[s] \in {"lines", "plan", "issue", "commit"} => j.order = OrderOf[j.doc]
    /\ pc[s] \in {"plan", "issue", "commit"} =>
           \A p \in Products : /\ j.plan[p] <= j.lines[p]
                               /\ j.lines[p] + moved[j.order][p] >= Ordered[j.order][p]
    /\ pc[s] = "editOrder" /\ j.status = "done" =>
           \A p \in Products : moved[j.order][p] >= Ordered[j.order][p]
    /\ pc[s] = "commit" =>
           /\ Enough(s)
           /\ j.status = "done" =>
                 \A p \in Products : moved[j.order][p] + j.plan[p] >= Ordered[j.order][p]

LocksExclusive ==
    \A s, t \in Sessions :
        s # t /\ pc[s] = "commit" /\ pc[t] = "commit" =>
            Recs(s) \cap Recs(t) = {} /\ Lines(s) \cap Lines(t) = {}

OrdersInv ==
    /\ TypeOK
    /\ NonNegativeStock /\ LedgerBalances
    /\ DoneMeansMoved
    /\ \A o \in Orders, p \in Products : left[o][p] + moved[o][p] >= Ordered[o][p]
    /\ \A s \in Sessions : SessionInv(s)
    /\ LocksExclusive
=============================================================================
