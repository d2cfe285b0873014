------------------------------ MODULE OrdersProofs ------------------------------
(***************************************************************************)
(* Proofs about Orders, for any number of orders, documents, sessions and  *)
(* products: the inductive invariant OrdersInv, that an order marked       *)
(* fulfilled or received has been moved in full, that an order on which no *)
(* calls overlap is exact, and that reports never understate the backlog.  *)
(*                                                                         *)
(* Nothing a session has read is current when it saves.  What makes the    *)
(* status safe is that moved only grows: a line read earlier is at least   *)
(* what is still due, so a status computed from it is never premature.     *)
(***************************************************************************)
EXTENDS OrderReports, MovementProofs

USE MovementAssumption, OpeningAssumption, OrdersAssumption

(* Posting a movement keeps every record non-negative and equal to the log. *)
LEMMA PostInv ==
    ASSUME LedgerInv, NEW m \in Movement, Post(m)
    PROVE  LedgerInv'
<1>1. /\ m \in Movement
      /\ HasSource(m) => quantity[Source(m)] >= m.quantity
      /\ quantity' = [rec \in StockRecord |->
                         quantity[rec] - Outgoing(m, rec) + Incoming(m, rec)]
      /\ inflow' = [rec \in StockRecord |-> inflow[rec] + Incoming(m, rec)]
      /\ outflow' = [rec \in StockRecord |-> outflow[rec] + Outgoing(m, rec)]
    BY DEF Post
<1>2. /\ quantity \in [StockRecord -> Int]
      /\ inflow \in [StockRecord -> Nat] /\ outflow \in [StockRecord -> Nat]
      /\ \A rec \in StockRecord : quantity[rec] >= 0 /\ quantity[rec] = inflow[rec] - outflow[rec]
    BY DEF LedgerInv, LedgerTypeOK, NonNegativeStock, LedgerBalances
<1>3. /\ quantity' \in [StockRecord -> Int]
      /\ inflow' \in [StockRecord -> Nat] /\ outflow' \in [StockRecord -> Nat]
      /\ \A rec \in StockRecord :
            quantity'[rec] >= 0 /\ quantity'[rec] = inflow'[rec] - outflow'[rec]
    BY ONLY <1>1, <1>2, MovementPosts
<1> QED
    BY <1>3 DEF LedgerInv, LedgerTypeOK, NonNegativeStock, LedgerBalances

LEMMA LedgerInitInv == LedgerInit => LedgerInv
BY DEF LedgerInit, LedgerInv, LedgerTypeOK, NonNegativeStock, LedgerBalances

LEMMA Defaults == NoJob \in Job /\ Nothing \in Amounts
BY DEF NoJob, Job, Nothing, Amounts, Status

(* Every session but s stays where it is. *)
OnlyMoves(s) == \A t \in Sessions \ {s} : pc'[t] = pc[t] /\ job'[t] = job[t]

(* What has been moved is never taken back. *)
Grows == \A o \in Orders, p \in Products : moved'[o][p] >= moved[o][p]

(* The unnamed conjunct of OrdersInv: the lines ask for all that is due. *)
LinesCover ==
    \A o \in Orders, p \in Products : left[o][p] + moved[o][p] >= Ordered[o][p]

LEMMA AmountTypes ==
    ASSUME TypeOK
    PROVE  /\ \A o \in Orders, p \in Products :
                  /\ left[o][p] \in Nat /\ moved[o][p] \in Nat /\ Ordered[o][p] \in Nat
           /\ \A s \in Sessions :
                  /\ job[s].order \in Orders /\ job[s].doc \in Documents
                  /\ job[s].status \in Status
                  /\ \A p \in Products :
                        /\ job[s].plan[p] \in Nat /\ job[s].lines[p] \in Nat
                        /\ Site(job[s].doc, p) \in StockRecord
           /\ \A rec \in StockRecord : quantity[rec] \in Int
<1>1. \A s \in Sessions : job[s] \in Job
    BY DEF TypeOK
<1>2. ASSUME NEW s \in Sessions
      PROVE  /\ job[s].order \in Orders /\ job[s].doc \in Documents
             /\ job[s].status \in Status
             /\ job[s].plan \in Amounts /\ job[s].lines \in Amounts
    BY <1>1 DEF Job
<1> QED
    BY <1>2 DEF TypeOK, LedgerTypeOK, Amounts, Site, StockRecord

-----------------------------------------------------------------------------
(* What other sessions rely on.                                              *)

LEMMA SessionKept ==
    ASSUME TypeOK, TypeOK', NEW t \in Sessions, SessionInv(t),
           pc'[t] = pc[t], job'[t] = job[t], Grows, pc[t] = "commit" => Enough(t)'
    PROVE  SessionInv(t)'
<1>1. \A p \in Products : moved'[job[t].order][p] >= moved[job[t].order][p]
    BY AmountTypes DEF Grows
<1>2. /\ \A p \in Products :
            /\ moved[job[t].order][p] \in Nat /\ moved'[job[t].order][p] \in Nat
            /\ job[t].plan[p] \in Nat /\ job[t].lines[p] \in Nat
            /\ Ordered[job[t].order][p] \in Nat
    BY AmountTypes DEF TypeOK, Amounts
<1>3. pc[t] \in {"plan", "issue", "commit"} =>
          \A p \in Products :
              /\ job[t].plan[p] <= job[t].lines[p]
              /\ job[t].lines[p] + moved'[job[t].order][p] >= Ordered[job[t].order][p]
    BY <1>1, <1>2 DEF SessionInv
<1>4. pc[t] = "editOrder" /\ job[t].status = "done" =>
          \A p \in Products : moved'[job[t].order][p] >= Ordered[job[t].order][p]
    BY <1>1, <1>2 DEF SessionInv
<1>5. pc[t] = "commit" /\ job[t].status = "done" =>
          \A p \in Products :
              moved'[job[t].order][p] + job[t].plan[p] >= Ordered[job[t].order][p]
    BY <1>1, <1>2 DEF SessionInv
<1> QED
    BY <1>3, <1>4, <1>5 DEF SessionInv

LEMMA LocksKept ==
    ASSUME LocksExclusive, NEW s \in Sessions, OnlyMoves(s), pc'[s] # "commit"
    PROVE  LocksExclusive'
<1> SUFFICES ASSUME NEW t \in Sessions, NEW u \in Sessions, t # u,
                    pc'[t] = "commit", pc'[u] = "commit"
             PROVE  (Recs(t) \cap Recs(u) = {} /\ Lines(t) \cap Lines(u) = {})'
    BY DEF LocksExclusive
<1>1. /\ pc[t] = "commit" /\ job'[t] = job[t] /\ pc[u] = "commit" /\ job'[u] = job[u]
    BY DEF OnlyMoves
<1>2. Recs(t)' = Recs(t) /\ Recs(u)' = Recs(u) /\ Lines(t)' = Lines(t) /\ Lines(u)' = Lines(u)
    BY <1>1 DEF Recs, Lines, FullShip
<1> QED
    BY <1>1, <1>2 DEF LocksExclusive

LEMMA EnoughKept ==
    ASSUME TypeOK, NEW t \in Sessions, Enough(t), job'[t] = job[t],
           \A rec \in StockRecord : quantity'[rec] \in Int /\ quantity'[rec] >= 0,
           \A rec \in Recs(t) : quantity'[rec] = quantity[rec]
    PROVE  Enough(t)'
<1> SUFFICES ASSUME IsSale(job[t].doc), NEW p \in Products
             PROVE  job[t].plan[p] <= quantity'[Site(job[t].doc, p)]
    BY DEF Enough, IsSale, Site
<1> DEFINE rec == Site(job[t].doc, p)
<1>1. job[t].plan[p] \in Nat /\ rec \in StockRecord
    BY AmountTypes
<1>2. CASE job[t].plan[p] > 0
    <2>1. rec \in Recs(t)
        BY <1>2 DEF Recs
    <2>2. quantity'[rec] = quantity[rec]
        BY <2>1
    <2> QED
        BY <2>2 DEF Enough
<1>3. CASE job[t].plan[p] = 0
    <2>1. quantity'[rec] \in Int /\ quantity'[rec] >= 0
        BY <1>1
    <2> QED
        BY <1>3, <2>1
<1> QED
    BY <1>1, <1>2, <1>3

(* A step that saves nothing, or only what moves no stock. *)
LEMMA QuietInv ==
    ASSUME OrdersInv, NEW s \in Sessions, OnlyMoves(s), TypeOK', pc'[s] # "commit",
           UNCHANGED stockRows, UNCHANGED left, DoneMeansMoved', SessionInv(s)'
    PROVE  OrdersInv'
<1> USE DEF stockRows
<1>1. NonNegativeStock' /\ LedgerBalances' /\ LinesCover' /\ Grows
    BY AmountTypes DEF OrdersInv, NonNegativeStock, LedgerBalances, LinesCover, Grows
<1>2. LocksExclusive'
    BY LocksKept DEF OrdersInv
<1>3. ASSUME NEW t \in Sessions PROVE SessionInv(t)'
    <2>1. CASE t = s
        BY <2>1
    <2>2. CASE t # s
        <3>1. pc'[t] = pc[t] /\ job'[t] = job[t] /\ SessionInv(t)
            BY <2>2 DEF OnlyMoves, OrdersInv
        <3>2. pc[t] = "commit" => Enough(t)'
            BY <3>1 DEF SessionInv, Enough
        <3> QED
            BY <1>1, <3>1, <3>2, SessionKept DEF OrdersInv
    <2> QED
        BY <2>1, <2>2
<1> QED
    BY <1>1, <1>2, <1>3 DEF OrdersInv, LinesCover

-----------------------------------------------------------------------------
(* Calls that begin, fail, or save a row of an order or a document.          *)

LEMMA BeginInv ==
    ASSUME OrdersInv, NEW s \in Sessions,
           NEW step \in {"confirm", "cancel", "editOrder", "editDocument", "lines"},
           NEW j \in Job, Begin(s, step, j),
           step = "lines" => j.order = OrderOf[j.doc],
           step = "editOrder" => j.status = status[j.order]
    PROVE  OrdersInv'
<1> USE DEF Begin, orderRows, stockRows
<1>1. OnlyMoves(s) /\ pc'[s] = step /\ job'[s] = j
    BY DEF OrdersInv, TypeOK, OnlyMoves
<1>2. TypeOK'
    BY DEF OrdersInv, TypeOK, LedgerTypeOK, Step, Job
<1>3. DoneMeansMoved'
    BY DEF OrdersInv, DoneMeansMoved
<1>4. SessionInv(s)'
    BY <1>1 DEF SessionInv, OrdersInv, DoneMeansMoved, Job
<1> QED
    BY <1>1, <1>2, <1>3, <1>4, QuietInv

LEMMA CallsInv ==
    ASSUME OrdersInv, NEW s \in Sessions, Calls(s)
    PROVE  OrdersInv'
<1>1. CASE BeginConfirm(s)
    <2>1. PICK o \in Orders : Begin(s, "confirm", [NoJob EXCEPT !.order = o])
        BY <1>1 DEF BeginConfirm
    <2>2. [NoJob EXCEPT !.order = o] \in Job
        BY Defaults DEF Job
    <2> QED
        BY <2>1, <2>2, BeginInv
<1>2. CASE BeginCancel(s)
    <2>1. PICK o \in Orders : Begin(s, "cancel", [NoJob EXCEPT !.order = o])
        BY <1>2 DEF BeginCancel
    <2>2. [NoJob EXCEPT !.order = o] \in Job
        BY Defaults DEF Job
    <2> QED
        BY <2>1, <2>2, BeginInv
<1>3. CASE BeginEditOrder(s)
    <2>1. PICK o \in Orders :
              Begin(s, "editOrder", [NoJob EXCEPT !.order = o, !.status = status[o]])
        BY <1>3 DEF BeginEditOrder
    <2> DEFINE j == [NoJob EXCEPT !.order = o, !.status = status[o]]
    <2>2. j \in Job /\ j.status = status[j.order]
        BY Defaults DEF Job, OrdersInv, TypeOK
    <2> QED
        BY <2>1, <2>2, BeginInv
<1>4. CASE BeginEditDocument(s)
    <2>1. PICK d \in Documents :
              Begin(s, "editDocument",
                    [NoJob EXCEPT !.order = OrderOf[d], !.doc = d, !.processed = processed[d]])
        BY <1>4 DEF BeginEditDocument
    <2>2. [NoJob EXCEPT !.order = OrderOf[d], !.doc = d, !.processed = processed[d]] \in Job
        BY Defaults DEF Job, OrdersInv, TypeOK
    <2> QED
        BY <2>1, <2>2, BeginInv
<1>5. CASE BeginProcess(s)
    <2>1. PICK d \in Documents, partial \in BOOLEAN :
              Begin(s, "lines",
                    [NoJob EXCEPT !.order = OrderOf[d], !.doc = d, !.partial = partial])
        BY <1>5 DEF BeginProcess
    <2> DEFINE j == [NoJob EXCEPT !.order = OrderOf[d], !.doc = d, !.partial = partial]
    <2>2. j \in Job /\ j.order = OrderOf[j.doc]
        BY Defaults DEF Job
    <2> QED
        BY <2>1, <2>2, BeginInv
<1> QED
    BY <1>1, <1>2, <1>3, <1>4, <1>5 DEF Calls

LEMMA FinishFrees ==
    ASSUME TypeOK, NEW s \in Sessions, Finish(s)
    PROVE  /\ OnlyMoves(s) /\ pc'[s] = "idle" /\ job'[s] = NoJob
           /\ pc' \in [Sessions -> Step] /\ job' \in [Sessions -> Job]
           /\ UNCHANGED <<held, raced, direct>>
           /\ SessionInv(s)'
BY Defaults DEF Finish, OnlyMoves, TypeOK, Step, SessionInv

LEMMA AbandonInv ==
    ASSUME OrdersInv, NEW s \in Sessions, Abandon(s)
    PROVE  OrdersInv'
<1> USE DEF Abandon, orderRows, stockRows
<1>1. Finish(s) /\ TypeOK
    BY DEF OrdersInv
<1>2. TypeOK'
    BY <1>1, FinishFrees DEF TypeOK, LedgerTypeOK
<1>3. DoneMeansMoved'
    BY DEF OrdersInv, DoneMeansMoved
<1> QED
    BY <1>1, <1>2, <1>3, FinishFrees, QuietInv

(* A saved status is one the order may have: done only where all has moved.  *)
LEMMA SaveStatusInv ==
    ASSUME OrdersInv, NEW s \in Sessions, NEW value \in Status, SaveStatus(s, value),
           value = "done" =>
               \A p \in Products : moved[job[s].order][p] >= Ordered[job[s].order][p]
    PROVE  OrdersInv'
<1> USE DEF SaveStatus, stockRows
<1>1. Finish(s) /\ TypeOK
    BY DEF OrdersInv
<1>2. TypeOK'
    BY <1>1, FinishFrees DEF TypeOK, LedgerTypeOK
<1>3. DoneMeansMoved'
    BY <1>1 DEF OrdersInv, DoneMeansMoved, TypeOK
<1> QED
    BY <1>1, <1>2, <1>3, FinishFrees, QuietInv

LEMMA EditDocumentInv ==
    ASSUME OrdersInv, NEW s \in Sessions, EditDocument(s)
    PROVE  OrdersInv'
<1> USE DEF EditDocument, stockRows
<1>1. Finish(s) /\ TypeOK
    BY DEF OrdersInv
<1>2. TypeOK'
    <2>1. job[s].processed \in BOOLEAN
        BY <1>1 DEF TypeOK, Job
    <2> QED
        BY <1>1, <2>1, FinishFrees DEF TypeOK, LedgerTypeOK
<1>3. DoneMeansMoved'
    BY DEF OrdersInv, DoneMeansMoved
<1> QED
    BY <1>1, <1>2, <1>3, FinishFrees, QuietInv

-----------------------------------------------------------------------------
(* process_dispatch and receive_goods.                                       *)

(* A session that has read the lines plans at most what they ask for. *)
LEMMA PlannedInv ==
    ASSUME OrdersInv, NEW s \in Sessions, NEW step \in {"plan", "issue"}, NEW j \in Job,
           pc[s] \in {"lines", "plan"}, j.order = job[s].order, j.doc = job[s].doc,
           job' = [job EXCEPT ![s] = j], pc' = [pc EXCEPT ![s] = step],
           UNCHANGED <<held, raced, direct>>, UNCHANGED orderRows, UNCHANGED stockRows,
           \A p \in Products : /\ j.plan[p] <= j.lines[p]
                               /\ j.lines[p] + moved[j.order][p] >= Ordered[j.order][p]
    PROVE  OrdersInv'
<1> USE DEF orderRows, stockRows
<1>1. OnlyMoves(s) /\ pc'[s] = step /\ job'[s] = j
    BY DEF OrdersInv, TypeOK, OnlyMoves
<1>2. TypeOK'
    BY DEF OrdersInv, TypeOK, LedgerTypeOK, Step
<1>3. DoneMeansMoved'
    BY DEF OrdersInv, DoneMeansMoved
<1>4. job[s].order = OrderOf[job[s].doc]
    BY DEF OrdersInv, SessionInv
<1>5. SessionInv(s)'
    BY <1>1, <1>4 DEF SessionInv
<1> QED
    BY <1>1, <1>2, <1>3, <1>5, QuietInv

(* What ReadLines leaves in the session. *)
LEMMA LinesRead ==
    ASSUME TypeOK, NEW s \in Sessions, ReadLines(s), NEW j, j = job'[s]
    PROVE  /\ j \in Job /\ j.order = job[s].order /\ j.doc = job[s].doc
           /\ j.lines = left[j.order] /\ j.plan = left[j.order]
           /\ job' = [job EXCEPT ![s] = j]
<1> DEFINE i == job[s]
           lines == left[i.order]
           todo == IF i.partial THEN {p \in Products : lines[p] > 0} ELSE {}
<1>1. j = [i EXCEPT !.lines = lines, !.plan = lines, !.todo = todo]
    BY DEF ReadLines, TypeOK
<1>2. i \in Job /\ lines \in Amounts /\ todo \subseteq Products
    BY AmountTypes DEF TypeOK
<1>3. job' = [job EXCEPT ![s] = j]
    BY <1>1 DEF ReadLines
<1> HIDE DEF i, lines, todo
<1>4. /\ j \in Job /\ j.order = i.order /\ j.doc = i.doc /\ j.lines = lines /\ j.plan = lines
    BY <1>1, <1>2 DEF Job
<1> QED
    BY <1>3, <1>4 DEF i, lines

LEMMA ReadLinesInv ==
    ASSUME OrdersInv, NEW s \in Sessions, ReadLines(s)
    PROVE  OrdersInv'
<1>1. PICK j : j = job'[s]
    OBVIOUS
<1>2. PICK step \in {"plan", "issue"} : pc' = [pc EXCEPT ![s] = step]
    BY DEF ReadLines
<1>3. TypeOK
    BY DEF OrdersInv
<1>4. /\ j \in Job /\ j.order = job[s].order /\ j.doc = job[s].doc
      /\ j.lines = left[j.order] /\ j.plan = left[j.order]
      /\ job' = [job EXCEPT ![s] = j]
    BY <1>1, <1>3, LinesRead
<1>5. j.order \in Orders
    BY <1>3, <1>4, AmountTypes
<1>6. ASSUME NEW p \in Products
      PROVE  /\ j.plan[p] <= j.lines[p]
             /\ j.lines[p] + moved[j.order][p] >= Ordered[j.order][p]
    <2>1. left[j.order][p] \in Nat
        BY <1>3, <1>5, AmountTypes DEF Amounts
    <2>2. left[j.order][p] + moved[j.order][p] >= Ordered[j.order][p]
        BY <1>5 DEF OrdersInv
    <2> QED
        BY <1>4, <2>1, <2>2
<1>7. /\ pc[s] \in {"lines", "plan"}
      /\ UNCHANGED <<held, raced, direct>> /\ UNCHANGED orderRows /\ UNCHANGED stockRows
    BY DEF ReadLines
<1> QED
    BY <1>2, <1>4, <1>6, <1>7, PlannedInv

(* What PlanLine leaves in the session. *)
LEMMA LinePlanned ==
    ASSUME TypeOK, NEW s \in Sessions, NEW p \in Products, PlanLine(s, p), NEW j, j = job'[s]
    PROVE  /\ j \in Job /\ j.order = job[s].order /\ j.doc = job[s].doc
           /\ j.lines = job[s].lines /\ job' = [job EXCEPT ![s] = j]
           /\ \A q \in Products : j.plan[q] <= job[s].plan[q] \/ j.plan[q] <= j.lines[q]
<1> DEFINE i == job[s]
           free == AvailableAt(Site(i.doc, p))
           least == IF free < i.lines[p] THEN free ELSE i.lines[p]
           plan == [i.plan EXCEPT ![p] = least]
           todo == i.todo \ {p}
<1>1. j = [i EXCEPT !.plan = plan, !.todo = todo]
    BY DEF PlanLine, TypeOK
<1>2. /\ i \in Job /\ i.plan \in Amounts /\ i.lines \in Amounts /\ i.todo \subseteq Products
      /\ i.doc \in Documents
    BY AmountTypes DEF TypeOK, Job
<1>3. least \in Nat /\ least <= i.lines[p]
    <2>1. Site(i.doc, p) \in StockRecord /\ i.lines[p] \in Nat
        BY <1>2, AmountTypes DEF Amounts
    <2>2. free \in Nat
        BY <2>1 DEF AvailableAt, TypeOK, LedgerTypeOK
    <2> HIDE DEF i, free
    <2> QED
        BY <2>1, <2>2
<1>4. job' = [job EXCEPT ![s] = j]
    BY <1>1 DEF PlanLine
<1> HIDE DEF i, least
<1>5. plan \in Amounts /\ todo \subseteq Products
    BY <1>2, <1>3 DEF Amounts
<1>6. \A q \in Products : plan[q] <= i.plan[q] \/ plan[q] <= i.lines[q]
    BY <1>2, <1>3 DEF Amounts
<1> HIDE DEF plan, todo
<1>7. /\ j \in Job /\ j.order = i.order /\ j.doc = i.doc /\ j.lines = i.lines /\ j.plan = plan
    BY <1>1, <1>2, <1>5 DEF Job
<1> QED
    BY <1>4, <1>6, <1>7 DEF i

LEMMA PlanLineInv ==
    ASSUME OrdersInv, NEW s \in Sessions, NEW p \in Products, PlanLine(s, p)
    PROVE  OrdersInv'
<1>1. PICK j : j = job'[s]
    OBVIOUS
<1>2. PICK step \in {"plan", "issue"} : pc' = [pc EXCEPT ![s] = step]
    BY DEF PlanLine
<1>3. TypeOK
    BY DEF OrdersInv
<1>4. /\ j \in Job /\ j.order = job[s].order /\ j.doc = job[s].doc
      /\ j.lines = job[s].lines /\ job' = [job EXCEPT ![s] = j]
      /\ \A q \in Products : j.plan[q] <= job[s].plan[q] \/ j.plan[q] <= j.lines[q]
    BY <1>1, <1>3, LinePlanned
<1>5. /\ pc[s] = "plan"
      /\ UNCHANGED <<held, raced, direct>> /\ UNCHANGED orderRows /\ UNCHANGED stockRows
    BY DEF PlanLine
<1>6. ASSUME NEW q \in Products
      PROVE  /\ j.plan[q] <= j.lines[q]
             /\ j.lines[q] + moved[j.order][q] >= Ordered[j.order][q]
    <2>1. /\ job[s].plan[q] <= job[s].lines[q]
          /\ job[s].lines[q] + moved[job[s].order][q] >= Ordered[job[s].order][q]
        BY <1>5 DEF OrdersInv, SessionInv
    <2>2. job[s].plan[q] \in Nat /\ job[s].lines[q] \in Nat /\ j.plan[q] \in Nat
        BY <1>3, <1>4, AmountTypes DEF Job, Amounts
    <2> QED
        BY <1>4, <2>1, <2>2
<1>7. pc[s] \in {"lines", "plan"}
    BY <1>5
<1> QED
    BY <1>2, <1>4, <1>5, <1>6, <1>7, PlannedInv

LEMMA IssueInv ==
    ASSUME OrdersInv, NEW s \in Sessions, Issue(s)
    PROVE  OrdersInv'
<1> USE DEF orderRows, stockRows
<1> DEFINE j == job[s]
<1>1. /\ pc[s] = "issue" /\ RowsFree(s) /\ Enough(s)
      /\ job' = [job EXCEPT ![s].status = StatusAfter(s)]
      /\ pc' = [pc EXCEPT ![s] = "commit"]
      /\ UNCHANGED <<held, raced, direct>> /\ UNCHANGED orderRows /\ UNCHANGED stockRows
    BY DEF Issue
<1>2. /\ j \in Job /\ j.order \in Orders /\ TypeOK
      /\ StatusAfter(s) \in Status
    BY AmountTypes DEF OrdersInv, TypeOK, StatusAfter, Status
<1>3. job'[s] = [j EXCEPT !.status = StatusAfter(s)] /\ pc'[s] = "commit" /\ OnlyMoves(s)
    BY <1>1, <1>2 DEF TypeOK, OnlyMoves
<1> HIDE DEF j
<1>4. /\ job'[s] \in Job /\ job'[s].order = j.order /\ job'[s].doc = j.doc
      /\ job'[s].lines = j.lines /\ job'[s].plan = j.plan
      /\ job'[s].status = StatusAfter(s)
    BY <1>2, <1>3 DEF Job
<1>5. TypeOK'
    <2>1. job' \in [Sessions -> Job] /\ pc' \in [Sessions -> Step]
        BY <1>1, <1>2, <1>3, <1>4 DEF TypeOK, OnlyMoves, Step
    <2> QED
        BY <1>1, <1>2, <2>1 DEF TypeOK, LedgerTypeOK
<1>6. NonNegativeStock' /\ LedgerBalances' /\ DoneMeansMoved' /\ LinesCover' /\ Grows
    BY <1>1, AmountTypes
       DEF OrdersInv, NonNegativeStock, LedgerBalances, DoneMeansMoved, LinesCover, Grows
<1>7. Recs(s)' = Recs(s) /\ Lines(s)' = Lines(s)
    BY <1>4 DEF Recs, Lines, FullShip, j
<1>8. LocksExclusive'
    <2>1. ASSUME NEW t \in Sessions \ {s}, pc'[t] = "commit"
          PROVE  /\ pc[t] = "commit" /\ job'[t] = job[t]
                 /\ Recs(t)' = Recs(t) /\ Lines(t)' = Lines(t)
        <3>1. pc[t] = "commit" /\ job'[t] = job[t]
            BY <1>3, <2>1 DEF OnlyMoves
        <3> QED
            BY <3>1 DEF Recs, Lines, FullShip
    <2>2. ASSUME NEW t \in Sessions \ {s}, pc'[t] = "commit"
          PROVE  (Recs(t) \cap Recs(s))' = {} /\ (Lines(t) \cap Lines(s))' = {}
        BY <1>1, <1>7, <2>1, <2>2 DEF RowsFree
    <2> SUFFICES ASSUME NEW t \in Sessions, NEW u \in Sessions, t # u,
                        pc'[t] = "commit", pc'[u] = "commit"
                 PROVE  (Recs(t) \cap Recs(u) = {} /\ Lines(t) \cap Lines(u) = {})'
        BY DEF LocksExclusive
    <2>3. CASE t # s /\ u # s
        BY <2>1, <2>3 DEF OrdersInv, LocksExclusive
    <2>4. CASE t = s \/ u = s
        BY <2>2, <2>4
    <2> QED
        BY <2>3, <2>4
(* The status a shipment computes is "done" only if it covers what is due. *)
<1>9. StatusAfter(s) = "done" =>
          \A p \in Products : moved[j.order][p] + j.plan[p] >= Ordered[j.order][p]
    <2> SUFFICES ASSUME StatusAfter(s) = "done", NEW p \in Products
                 PROVE  moved[j.order][p] + j.plan[p] >= Ordered[j.order][p]
        OBVIOUS
    <2>1. /\ moved[j.order][p] \in Nat /\ Ordered[j.order][p] \in Nat
          /\ j.plan[p] \in Nat /\ j.lines[p] \in Nat /\ left[j.order][p] \in Nat
        BY <1>2, AmountTypes DEF j
    <2>2. /\ j.lines[p] + moved[j.order][p] >= Ordered[j.order][p]
          /\ left[j.order][p] + moved[j.order][p] >= Ordered[j.order][p]
        BY <1>1, <1>2 DEF OrdersInv, SessionInv, j
    <2>3. CASE FullShip(j)
        BY <2>1, <2>2, <2>3 DEF FullShip
    <2>4. CASE LinesAfter(s) = Nothing
        <3>1. (IF <<j.order, p>> \in Lines(s) THEN j.lines[p] - j.plan[p]
                                              ELSE left[j.order][p]) = 0
            BY <2>4 DEF LinesAfter, Nothing, j
        <3> QED
            BY <2>1, <2>2, <3>1
    <2>5. FullShip(j) \/ LinesAfter(s) = Nothing
        BY DEF StatusAfter, j
    <2> QED
        BY <2>3, <2>4, <2>5
<1>10. SessionInv(s)'
    <2>1. Enough(s)'
        BY <1>1, <1>4 DEF Enough, IsSale, Site, j
    <2>2. /\ j.order = OrderOf[j.doc]
          /\ \A p \in Products : /\ j.plan[p] <= j.lines[p]
                                 /\ j.lines[p] + moved[j.order][p] >= Ordered[j.order][p]
        BY <1>1 DEF OrdersInv, SessionInv, j
    <2> QED
        BY <1>1, <1>3, <1>4, <1>9, <2>1, <2>2 DEF SessionInv
<1>11. ASSUME NEW t \in Sessions \ {s} PROVE SessionInv(t)'
    <2>1. pc'[t] = pc[t] /\ job'[t] = job[t] /\ SessionInv(t)
        BY <1>3 DEF OnlyMoves, OrdersInv
    <2>2. pc[t] = "commit" => Enough(t)'
        BY <1>1, <2>1 DEF SessionInv, Enough
    <2> QED
        BY <1>2, <1>5, <1>6, <2>1, <2>2, SessionKept
<1> QED
    BY <1>5, <1>6, <1>8, <1>10, <1>11 DEF OrdersInv, LinesCover

(* What the transaction of s moves at each record. *)
LEMMA ShiftTypes ==
    ASSUME OrdersInv, NEW s \in Sessions, pc[s] = "commit"
    PROVE  \A rec \in StockRecord :
               /\ Shift(s, rec) \in Nat
               /\ IsSale(job[s].doc) => Shift(s, rec) <= quantity[rec]
               /\ rec \notin Recs(s) => Shift(s, rec) = 0
<1> SUFFICES ASSUME NEW rec \in StockRecord
             PROVE  /\ Shift(s, rec) \in Nat
                    /\ IsSale(job[s].doc) => Shift(s, rec) <= quantity[rec]
                    /\ rec \notin Recs(s) => Shift(s, rec) = 0
    OBVIOUS
<1>1. rec[1] \in Products /\ rec = <<rec[1], rec[2]>>
    BY DEF StockRecord
<1>2. job[s].plan[rec[1]] \in Nat /\ quantity[rec] \in Int /\ quantity[rec] >= 0
    BY <1>1, AmountTypes DEF OrdersInv, NonNegativeStock
<1>3. CASE rec[2] = SiteOf[job[s].doc]
    <2>1. rec = Site(job[s].doc, rec[1]) /\ Shift(s, rec) = job[s].plan[rec[1]]
        BY <1>1, <1>3 DEF Site, Shift
    <2>2. IsSale(job[s].doc) => job[s].plan[rec[1]] <= quantity[rec]
        BY <1>1, <2>1 DEF OrdersInv, SessionInv, Enough
    <2>3. job[s].plan[rec[1]] > 0 => rec \in Recs(s)
        BY <1>1, <2>1 DEF Recs
    <2> QED
        BY <1>2, <2>1, <2>2, <2>3
<1>4. CASE rec[2] # SiteOf[job[s].doc]
    BY <1>2, <1>4 DEF Shift
<1> QED
    BY <1>3, <1>4

LEMMA CommitInv ==
    ASSUME OrdersInv, NEW s \in Sessions, Commit(s)
    PROVE  OrdersInv'
<1> DEFINE j == job[s]
<1>1. /\ pc[s] = "commit" /\ TypeOK /\ SessionInv(s) /\ Finish(s)
      /\ j.order \in Orders /\ j.doc \in Documents /\ j.status \in Status
    BY AmountTypes DEF Commit, OrdersInv
<1>2. /\ OnlyMoves(s) /\ pc'[s] = "idle" /\ SessionInv(s)'
      /\ pc' \in [Sessions -> Step] /\ job' \in [Sessions -> Job]
      /\ UNCHANGED <<held, raced, direct>>
    BY <1>1, FinishFrees
<1>3. /\ IF IsSale(j.doc)
         THEN /\ quantity' = [rec \in StockRecord |-> quantity[rec] - Shift(s, rec)]
              /\ outflow' = [rec \in StockRecord |-> outflow[rec] + Shift(s, rec)]
              /\ UNCHANGED inflow
         ELSE /\ quantity' = [rec \in StockRecord |-> quantity[rec] + Shift(s, rec)]
              /\ inflow' = [rec \in StockRecord |-> inflow[rec] + Shift(s, rec)]
              /\ UNCHANGED outflow
      /\ moved' = [moved EXCEPT ![j.order] = [p \in Products |-> @[p] + j.plan[p]]]
      /\ times' = [times EXCEPT ![j.doc] = @ + 1]
      /\ left' = [left EXCEPT ![j.order] = LinesAfter(s)]
      /\ processed' = [processed EXCEPT ![j.doc] = TRUE]
      /\ status' = [status EXCEPT ![j.order] = j.status]
    BY DEF Commit
<1>4. \A p \in Products :
          /\ j.plan[p] \in Nat /\ j.lines[p] \in Nat /\ j.plan[p] <= j.lines[p]
          /\ j.lines[p] + moved[j.order][p] >= Ordered[j.order][p]
    BY <1>1, AmountTypes DEF SessionInv
<1>5. \A o \in Orders, p \in Products :
          /\ left[o][p] \in Nat /\ moved[o][p] \in Nat /\ Ordered[o][p] \in Nat
    BY <1>1, AmountTypes
<1>6. \A rec \in StockRecord :
          /\ Shift(s, rec) \in Nat
          /\ IsSale(j.doc) => Shift(s, rec) <= quantity[rec]
          /\ rec \notin Recs(s) => Shift(s, rec) = 0
          /\ quantity[rec] \in Int /\ quantity[rec] >= 0
          /\ inflow[rec] \in Nat /\ outflow[rec] \in Nat
          /\ quantity[rec] = inflow[rec] - outflow[rec]
    BY <1>1, ShiftTypes DEF OrdersInv, TypeOK, LedgerTypeOK, NonNegativeStock, LedgerBalances
<1>7. \A p \in Products :
          LinesAfter(s)[p] = IF <<j.order, p>> \in Lines(s) THEN j.lines[p] - j.plan[p]
                                                            ELSE left[j.order][p]
    BY DEF LinesAfter
<1>8. LinesAfter(s) \in Amounts
    <2>1. ASSUME NEW p \in Products PROVE LinesAfter(s)[p] \in Nat
        <3> HIDE DEF j
        <3>1. j.lines[p] - j.plan[p] \in Nat /\ left[j.order][p] \in Nat
            BY <1>1, <1>4, <1>5
        <3> QED
            BY <1>7, <3>1
    <2> QED
        BY <2>1 DEF LinesAfter, Amounts
<1>9. /\ j.status = "done" =>
             \A p \in Products : moved[j.order][p] + j.plan[p] >= Ordered[j.order][p]
    BY <1>1 DEF SessionInv
<1> HIDE DEF j
<1>10. LedgerInv'
    <2>1. CASE IsSale(j.doc)
        <3>1. \A rec \in StockRecord :
                  /\ quantity'[rec] = quantity[rec] - Shift(s, rec)
                  /\ outflow'[rec] = outflow[rec] + Shift(s, rec)
                  /\ inflow'[rec] = inflow[rec]
            BY <1>3, <2>1
        <3>2. LedgerTypeOK'
            BY <1>1, <1>3, <1>6, <2>1, <3>1 DEF TypeOK, LedgerTypeOK
        <3>3. \A rec \in StockRecord :
                  quantity'[rec] >= 0 /\ quantity'[rec] = inflow'[rec] - outflow'[rec]
            <4> SUFFICES ASSUME NEW rec \in StockRecord
                         PROVE  /\ quantity'[rec] >= 0
                                /\ quantity'[rec] = inflow'[rec] - outflow'[rec]
                OBVIOUS
            <4>1. /\ Shift(s, rec) \in Nat /\ Shift(s, rec) <= quantity[rec]
                  /\ inflow[rec] \in Nat /\ outflow[rec] \in Nat
                  /\ quantity[rec] = inflow[rec] - outflow[rec]
                BY <1>6, <2>1
            <4>2. /\ quantity'[rec] = quantity[rec] - Shift(s, rec)
                  /\ outflow'[rec] = outflow[rec] + Shift(s, rec)
                  /\ inflow'[rec] = inflow[rec]
                BY <3>1
            <4> QED
                BY <4>1, <4>2
        <3> QED
            BY <3>2, <3>3 DEF LedgerInv, NonNegativeStock, LedgerBalances
    <2>2. CASE ~IsSale(j.doc)
        <3>1. \A rec \in StockRecord :
                  /\ quantity'[rec] = quantity[rec] + Shift(s, rec)
                  /\ inflow'[rec] = inflow[rec] + Shift(s, rec)
                  /\ outflow'[rec] = outflow[rec]
            BY <1>3, <2>2
        <3>2. LedgerTypeOK'
            BY <1>1, <1>3, <1>6, <2>2, <3>1 DEF TypeOK, LedgerTypeOK
        <3>3. \A rec \in StockRecord :
                  quantity'[rec] >= 0 /\ quantity'[rec] = inflow'[rec] - outflow'[rec]
            BY <1>6, <2>2, <3>1
        <3> QED
            BY <3>2, <3>3 DEF LedgerInv, NonNegativeStock, LedgerBalances
    <2> QED
        BY <2>1, <2>2
<1>11. \A rec \in StockRecord \ Recs(s) : quantity'[rec] = quantity[rec]
    BY <1>3, <1>6
<1>12. \A o \in Orders, p \in Products :
           /\ moved'[o][p] = IF o = j.order THEN moved[o][p] + j.plan[p] ELSE moved[o][p]
           /\ left'[o][p] = IF o = j.order THEN LinesAfter(s)[p] ELSE left[o][p]
    BY <1>1, <1>3 DEF TypeOK, Amounts
<1>13. TypeOK'
    <2>1. moved' \in [Orders -> Amounts]
        BY <1>1, <1>3, <1>4, <1>5 DEF TypeOK, Amounts
    <2>2. /\ left' \in [Orders -> Amounts] /\ status' \in [Orders -> Status]
          /\ processed' \in [Documents -> BOOLEAN] /\ times' \in [Documents -> Nat]
        BY <1>1, <1>3, <1>8 DEF TypeOK
    <2> QED
        BY <1>1, <1>2, <1>10, <2>1, <2>2 DEF TypeOK, LedgerInv
<1>14. Grows
    BY <1>4, <1>5, <1>12 DEF Grows
<1>15. DoneMeansMoved'
    <2> SUFFICES ASSUME NEW o \in Orders, status'[o] = "done", NEW p \in Products
                 PROVE  moved'[o][p] >= Ordered[o][p]
        BY DEF DoneMeansMoved
    <2>1. CASE o = j.order
        <3>1. j.status = "done"
            BY <1>1, <1>3, <2>1 DEF TypeOK
        <3> QED
            BY <1>9, <1>12, <2>1, <3>1
    <2>2. CASE o # j.order
        <3>1. status[o] = "done"
            BY <1>1, <1>3, <2>2 DEF TypeOK
        <3> QED
            BY <1>12, <2>2, <3>1 DEF OrdersInv, DoneMeansMoved
    <2> QED
        BY <2>1, <2>2
<1>16. LinesCover'
    <2> SUFFICES ASSUME NEW o \in Orders, NEW p \in Products
                 PROVE  left'[o][p] + moved'[o][p] >= Ordered[o][p]
        BY DEF LinesCover
    <2>1. left[o][p] + moved[o][p] >= Ordered[o][p]
        BY DEF OrdersInv
    <2>2. CASE o = j.order
        <3>1. LinesAfter(s)[p] = j.lines[p] - j.plan[p] \/ LinesAfter(s)[p] = left[o][p]
            BY <1>7, <2>2
        <3>2. /\ j.lines[p] + moved[o][p] >= Ordered[o][p]
              /\ j.plan[p] \in Nat /\ j.lines[p] \in Nat
            BY <1>4, <2>2
        <3>3. left'[o][p] = LinesAfter(s)[p] /\ moved'[o][p] = moved[o][p] + j.plan[p]
            BY <1>12, <2>2
        <3>4. left[o][p] \in Nat /\ moved[o][p] \in Nat /\ Ordered[o][p] \in Nat
            BY <1>5
        <3> QED
            BY <2>1, <3>1, <3>2, <3>3, <3>4
    <2>3. CASE o # j.order
        BY <1>12, <2>1, <2>3
    <2> QED
        BY <2>2, <2>3
<1>17. ASSUME NEW t \in Sessions PROVE SessionInv(t)'
    <2>1. CASE t # s
        <3>1. pc'[t] = pc[t] /\ job'[t] = job[t] /\ SessionInv(t)
            BY <1>2, <2>1 DEF OnlyMoves, OrdersInv
        <3>2. ASSUME pc[t] = "commit" PROVE Enough(t)'
            <4>1. Recs(t) \cap Recs(s) = {} /\ Enough(t)
                BY <1>1, <2>1, <3>1, <3>2 DEF OrdersInv, LocksExclusive, SessionInv
            <4>2. Recs(t) \subseteq StockRecord
                BY <1>1, AmountTypes DEF Recs
            <4>3. \A rec \in StockRecord : quantity'[rec] \in Int /\ quantity'[rec] >= 0
                BY <1>10 DEF LedgerInv, LedgerTypeOK, NonNegativeStock
            <4> QED
                BY <1>1, <1>11, <3>1, <4>1, <4>2, <4>3, EnoughKept
        <3> QED
            BY <1>1, <1>13, <1>14, <3>1, <3>2, SessionKept
    <2> QED
        BY <1>2, <2>1
<1>18. LocksExclusive'
    BY <1>2, LocksKept DEF OrdersInv
<1> QED
    BY <1>10, <1>13, <1>15, <1>16, <1>17, <1>18 DEF OrdersInv, LinesCover, LedgerInv

-----------------------------------------------------------------------------
(* Everybody else.                                                           *)

(* A step of no session keeps the locks. *)
LEMMA LocksUnmoved ==
    ASSUME LocksExclusive, UNCHANGED <<pc, job>>
    PROVE  LocksExclusive'
<1> SUFFICES ASSUME NEW t \in Sessions, NEW u \in Sessions, t # u,
                    pc'[t] = "commit", pc'[u] = "commit"
             PROVE  (Recs(t) \cap Recs(u) = {} /\ Lines(t) \cap Lines(u) = {})'
    BY DEF LocksExclusive
<1>1. Recs(t)' = Recs(t) /\ Recs(u)' = Recs(u) /\ Lines(t)' = Lines(t) /\ Lines(u)' = Lines(u)
    BY DEF Recs, Lines, FullShip
<1> QED
    BY <1>1 DEF LocksExclusive

(* Steps of nobody's session: stock may move where no transaction holds it.  *)
LEMMA OutsideInv ==
    ASSUME OrdersInv, UNCHANGED <<status, left, moved, pc, job>>, TypeOK', LedgerInv',
           \A s \in Sessions : pc[s] = "commit" =>
               \A rec \in Recs(s) : quantity'[rec] = quantity[rec]
    PROVE  OrdersInv'
<1>1. DoneMeansMoved' /\ LinesCover' /\ Grows
    BY AmountTypes DEF OrdersInv, DoneMeansMoved, LinesCover, Grows
<1>2. ASSUME NEW t \in Sessions PROVE SessionInv(t)'
    <2>1. ASSUME pc[t] = "commit" PROVE Enough(t)'
        <3>1. Enough(t)
            BY <2>1 DEF OrdersInv, SessionInv
        <3>2. \A rec \in StockRecord : quantity'[rec] \in Int /\ quantity'[rec] >= 0
            BY DEF LedgerInv, LedgerTypeOK, NonNegativeStock
        <3> QED
            BY <2>1, <3>1, <3>2, EnoughKept DEF OrdersInv
    <2> QED
        BY <1>1, <2>1, SessionKept DEF OrdersInv
<1>3. LocksExclusive'
    BY LocksUnmoved DEF OrdersInv
<1> QED
    BY <1>1, <1>2, <1>3 DEF OrdersInv, LinesCover, LedgerInv

LEMMA DirectInv ==
    ASSUME OrdersInv, DirectMovement
    PROVE  OrdersInv'
<1>1. PICK m \in Movement :
          /\ \A s \in Sessions : pc[s] = "commit" => Touched(m) \cap Recs(s) = {}
          /\ Post(m)
    BY DEF DirectMovement
<1>2. UNCHANGED <<status, left, processed, held, moved, times, raced, pc, job>>
      /\ direct' = direct + 1
    BY DEF DirectMovement
<1>3. LedgerInv'
    BY <1>1, PostInv DEF OrdersInv, TypeOK, LedgerInv
<1>4. TypeOK'
    BY <1>2, <1>3 DEF OrdersInv, TypeOK, LedgerInv
<1>5. \A rec \in StockRecord \ Touched(m) : quantity'[rec] = quantity[rec]
    BY <1>1, MovementTypes DEF Post, Touched, Outgoing, Incoming, OrdersInv, TypeOK, LedgerTypeOK
<1>6. \A s \in Sessions : Recs(s) \subseteq StockRecord
    BY AmountTypes DEF Recs, OrdersInv
<1> QED
    BY <1>1, <1>2, <1>3, <1>4, <1>5, <1>6, OutsideInv

LEMMA HoldsInv ==
    ASSUME OrdersInv, NEW rec \in StockRecord, HoldsChange(rec)
    PROVE  OrdersInv'
<1> USE DEF HoldsChange, orderRows, stockRows
<1>1. LedgerInv'
    BY DEF OrdersInv, TypeOK, LedgerInv, LedgerTypeOK, NonNegativeStock, LedgerBalances
<1>2. TypeOK'
    BY <1>1 DEF OrdersInv, TypeOK, LedgerInv
<1> QED
    BY <1>1, <1>2, OutsideInv

-----------------------------------------------------------------------------
(* Every step.                                                               *)

LEMMA InitOrdersInv == Init => OrdersInv
<1> SUFFICES ASSUME Init PROVE OrdersInv
    OBVIOUS
<1>1. LedgerInv
    BY LedgerInitInv DEF Init
<1>2. TypeOK
    BY <1>1, Defaults DEF Init, TypeOK, LedgerInv, Status, Step, Amounts
<1>3. DoneMeansMoved /\ LocksExclusive
    BY DEF Init, DoneMeansMoved, LocksExclusive
<1>4. LinesCover
    BY DEF Init, LinesCover, Nothing
<1>5. \A s \in Sessions : SessionInv(s)
    BY DEF Init, SessionInv
<1> QED
    BY <1>1, <1>2, <1>3, <1>4, <1>5 DEF OrdersInv, LedgerInv, LinesCover

LEMMA WorkInv ==
    ASSUME OrdersInv, NEW s \in Sessions, Work(s)
    PROVE  OrdersInv'
<1>1. CASE Confirm(s)
    BY <1>1, SaveStatusInv DEF Confirm, Status
<1>2. CASE Cancel(s)
    BY <1>2, SaveStatusInv DEF Cancel, Status
<1>3. CASE EditOrder(s)
    <2>1. job[s].status \in Status
        BY AmountTypes DEF OrdersInv
    <2> QED
        BY <1>3, <2>1, SaveStatusInv DEF EditOrder, OrdersInv, SessionInv
<1>4. CASE NothingAvailable(s) \/ IssueRefused(s)
    BY <1>4, AbandonInv DEF NothingAvailable, IssueRefused
<1>5. CASE EditDocument(s) \/ ReadLines(s) \/ Issue(s) \/ Commit(s)
    BY <1>5, EditDocumentInv, ReadLinesInv, IssueInv, CommitInv
<1>6. CASE \E p \in Products : PlanLine(s, p)
    BY <1>6, PlanLineInv
<1> QED
    BY <1>1, <1>2, <1>3, <1>4, <1>5, <1>6 DEF Work

LEMMA StepOrdersInv ==
    ASSUME OrdersInv, [Next]_ordersVars
    PROVE  OrdersInv'
<1>1. CASE UNCHANGED ordersVars
    <2>1. TypeOK' /\ LedgerInv'
        BY <1>1 DEF ordersVars, OrdersInv, TypeOK, LedgerInv, LedgerTypeOK,
           NonNegativeStock, LedgerBalances
    <2> QED
        BY <1>1, <2>1, OutsideInv DEF ordersVars
<1>2. ASSUME NEW s \in Sessions, Calls(s) \/ Work(s) \/ Crash(s) PROVE OrdersInv'
    BY <1>2, CallsInv, WorkInv, AbandonInv DEF Crash
<1> QED
    BY <1>1, <1>2, DirectInv, HoldsInv DEF Next

-----------------------------------------------------------------------------

(* For any number of orders, documents and sessions, every reachable state   *)
(* of the order calls satisfies the inductive invariant.                     *)
THEOREM OrdersInvariant == Spec => []OrdersInv
<1> QED BY InitOrdersInv, StepOrdersInv, PTL DEF Spec

(* process_dispatch and receive_goods never mark an order fulfilled or       *)
(* received before every line has been moved in full, although they decide   *)
(* on lines read without a lock and a PATCH can write an old status back.    *)
THEOREM DoneOrdersAreMoved == Spec => []DoneMeansMoved
<1>1. OrdersInv => DoneMeansMoved
    BY DEF OrdersInv
<1> QED BY <1>1, OrdersInvariant, PTL

-----------------------------------------------------------------------------
(***************************************************************************)
(* While calls on one order do not overlap, what the documents have moved  *)
(* and what the lines still ask for add up to what was ordered, each       *)
(* document has moved stock once, and a closed order stays closed.         *)
(*                                                                         *)
(* ExactWhenAlone is not inductive: a session saves what it computed from  *)
(* rows read steps ago.  AloneInv adds that on an order without overlaps   *)
(* at most one session is busy, and that what it has read is still so.     *)
(***************************************************************************)

(* Session t is in a call on order o. *)
Busy(t, o) == pc[t] # "idle" /\ job[t].order = o

(* The document session t works on is one of its order. *)
OwnDocument(t) ==
    pc[t] \in {"editDocument", "lines", "plan", "issue", "commit"} => job[t].order = OrderOf[job[t].doc]

(* What session t has read of its order is what the order's rows say. *)
Current(t) ==
    LET j == job[t] IN
    /\ pc[t] = "confirm" => status[j.order] = "draft"
    /\ pc[t] = "cancel" => status[j.order] \in {"draft", "confirmed"}
    /\ pc[t] = "editOrder" => j.status = status[j.order]
    /\ pc[t] = "editDocument" => j.processed = processed[j.doc]
    /\ pc[t] \in {"lines", "plan", "issue", "commit"} =>
           ~processed[j.doc] /\ status[j.order] = "confirmed"
    /\ pc[t] \in {"plan", "issue", "commit"} => j.lines = left[j.order]
    /\ pc[t] = "commit" => j.status = IF j.plan = j.lines THEN "done" ELSE "confirmed"

(* ExactWhenAlone of one order. *)
Exact(o) ==
    /\ \A d \in Documents : OrderOf[d] = o => times[d] = IF processed[d] THEN 1 ELSE 0
    /\ status[o] = "draft" => moved[o] = Nothing
    /\ status[o] = "done" => moved[o] = Ordered[o]
    /\ status[o] # "done" =>
           \A p \in Products : moved[o][p] + left[o][p] = Ordered[o][p]

Alone(o) ==
    /\ \A s, t \in Sessions : Busy(s, o) /\ Busy(t, o) => s = t
    /\ \A t \in Sessions : Busy(t, o) => Current(t)
    /\ Exact(o)

(* The inductive invariant. *)
AloneInv ==
    /\ OrdersInv
    /\ \A t \in Sessions : OwnDocument(t)
    /\ \A o \in Orders \ raced : Alone(o)

-----------------------------------------------------------------------------
(* The rows a step leaves alone.                                             *)

(* A step of s changes rows of one order only: "target". *)
OnlyChanges(target) ==
    /\ \A o \in Orders \ {target} :
          status'[o] = status[o] /\ left'[o] = left[o] /\ moved'[o] = moved[o]
    /\ \A d \in Documents :
          OrderOf[d] # target => processed'[d] = processed[d] /\ times'[d] = times[d]

LEMMA CurrentKept ==
    ASSUME TypeOK, NEW t \in Sessions, NEW target, OnlyChanges(target), job[t].order # target,
           OwnDocument(t), Current(t), pc'[t] = pc[t], job'[t] = job[t]
    PROVE  Current(t)'
<1>1. job[t].order \in Orders \ {target} /\ job[t].doc \in Documents
    BY AmountTypes
<1>2. status'[job[t].order] = status[job[t].order] /\ left'[job[t].order] = left[job[t].order]
    BY <1>1 DEF OnlyChanges
<1>3. pc[t] \in {"editDocument", "lines", "plan", "issue", "commit"} =>
          processed'[job[t].doc] = processed[job[t].doc]
    BY <1>1 DEF OnlyChanges, OwnDocument
<1> QED
    BY <1>2, <1>3 DEF Current

LEMMA OthersKept ==
    ASSUME AloneInv, NEW s \in Sessions, OnlyMoves(s), NEW target \in Orders, OnlyChanges(target),
           pc[s] # "idle" => job[s].order = target,
           pc'[s] # "idle" => job'[s].order = target,
           NEW o \in Orders \ raced, o # target
    PROVE  Alone(o)'
<1>1. ~Busy(s, o) /\ ~Busy(s, o)'
    BY DEF Busy
<1>2. ASSUME NEW t \in Sessions \ {s} PROVE Busy(t, o)' = Busy(t, o)
    BY DEF Busy, OnlyMoves
<1>3. Alone(o)
    BY DEF AloneInv
<1>4. Exact(o)'
    <2>1. /\ status'[o] = status[o] /\ left'[o] = left[o] /\ moved'[o] = moved[o]
          /\ \A d \in Documents :
                OrderOf[d] = o => processed'[d] = processed[d] /\ times'[d] = times[d]
        BY DEF OnlyChanges
    <2> QED
        BY <1>3, <2>1 DEF Alone, Exact
<1>5. ASSUME NEW t \in Sessions, Busy(t, o)' PROVE Current(t)'
    <2>1. t # s /\ Busy(t, o) /\ pc'[t] = pc[t] /\ job'[t] = job[t]
        BY <1>1, <1>2, <1>5 DEF OnlyMoves
    <2>2. Current(t) /\ OwnDocument(t) /\ job[t].order # target
        BY <1>3, <2>1 DEF Alone, AloneInv, Busy
    <2> QED
        BY <2>1, <2>2, CurrentKept DEF AloneInv, OrdersInv
<1>6. \A t, u \in Sessions : Busy(t, o)' /\ Busy(u, o)' => t = u
    BY <1>1, <1>2, <1>3 DEF Alone
<1> QED
    BY <1>4, <1>5, <1>6 DEF Alone

(* A step of s in a call on target. *)
LEMMA CallKept ==
    ASSUME AloneInv, NEW s \in Sessions, OnlyMoves(s), NEW target \in Orders, OnlyChanges(target),
           pc[s] # "idle" => job[s].order = target,
           pc'[s] # "idle" => job'[s].order = target,
           raced \subseteq raced', OrdersInv', OwnDocument(s)',
           target \notin raced' =>
               /\ \A t \in Sessions \ {s} : ~Busy(t, target)
               /\ Exact(target)'
               /\ pc'[s] # "idle" => Current(s)'
    PROVE  AloneInv'
<1>1. ASSUME NEW t \in Sessions PROVE OwnDocument(t)'
    BY DEF OnlyMoves, OwnDocument, AloneInv
<1>2. ASSUME NEW o \in Orders \ raced' PROVE Alone(o)'
    <2>1. CASE o # target
        BY <2>1, OthersKept
    <2>2. CASE o = target
        <3>1. /\ \A t \in Sessions \ {s} : ~Busy(t, target)
              /\ Exact(target)'
              /\ pc'[s] # "idle" => Current(s)'
            BY <2>2
        <3>2. \A t \in Sessions \ {s} : ~Busy(t, target)'
            BY <3>1 DEF Busy, OnlyMoves
        <3>3. Busy(s, target)' => Current(s)'
            BY <3>1 DEF Busy
        <3> QED
            BY <2>2, <3>1, <3>2, <3>3 DEF Alone
    <2> QED
        BY <2>1, <2>2
<1> QED
    BY <1>1, <1>2 DEF AloneInv

(* A session that is busy on an order without overlaps is the only one. *)
LEMMA NobodyElse ==
    ASSUME AloneInv, NEW s \in Sessions, pc[s] # "idle", job[s].order \notin raced
    PROVE  /\ \A t \in Sessions \ {s} : ~Busy(t, job[s].order)
           /\ Current(s) /\ Exact(job[s].order)
<1>1. job[s].order \in Orders
    BY AmountTypes DEF AloneInv, OrdersInv
<1>2. Alone(job[s].order) /\ Busy(s, job[s].order)
    BY <1>1 DEF AloneInv, Busy
<1> QED
    BY <1>2 DEF Alone
-----------------------------------------------------------------------------
(* Calls that begin, fail, or save a row of an order or a document.          *)

LEMMA BeginAlone ==
    ASSUME AloneInv, OrdersInv', NEW s \in Sessions,
           NEW step \in {"confirm", "cancel", "editOrder", "editDocument", "lines"},
           NEW j \in Job, Begin(s, step, j),
           step \in {"editDocument", "lines"} => j.order = OrderOf[j.doc],
           step = "confirm" => status[j.order] = "draft",
           step = "cancel" => status[j.order] \in {"draft", "confirmed"},
           step = "editOrder" => j.status = status[j.order],
           step = "editDocument" => j.processed = processed[j.doc],
           step = "lines" => ~processed[j.doc] /\ status[j.order] = "confirmed"
    PROVE  AloneInv'
<1> USE DEF Begin, orderRows, stockRows
<1>1. OnlyMoves(s) /\ pc[s] = "idle" /\ pc'[s] = step /\ job'[s] = j /\ j.order \in Orders
    BY DEF AloneInv, OrdersInv, TypeOK, OnlyMoves, Job
<1>2. OnlyChanges(j.order) /\ raced \subseteq raced'
    BY DEF OnlyChanges
<1>3. OwnDocument(s)'
    BY <1>1 DEF OwnDocument
<1>4. ASSUME j.order \notin raced'
      PROVE  /\ \A t \in Sessions \ {s} : ~Busy(t, j.order)
             /\ Exact(j.order)'
             /\ Current(s)'
    <2>1. \A t \in Sessions \ {s} : ~Busy(t, j.order)
        BY <1>4 DEF Busy
    <2>2. Exact(j.order)
        BY <1>1, <1>2, <1>4 DEF AloneInv, Alone
    <2>3. Exact(j.order)'
        BY <2>2 DEF Exact
    <2>4. Current(s)'
        BY <1>1 DEF Current
    <2> QED
        BY <2>1, <2>3, <2>4
<1> QED
    BY <1>1, <1>2, <1>3, <1>4, CallKept

LEMMA CallsAlone ==
    ASSUME AloneInv, NEW s \in Sessions, Calls(s)
    PROVE  AloneInv'
<1>1. OrdersInv /\ OrdersInv'
    BY CallsInv DEF AloneInv
<1>2. CASE BeginConfirm(s)
    <2>1. PICK o \in Orders :
              status[o] = "draft" /\ Begin(s, "confirm", [NoJob EXCEPT !.order = o])
        BY <1>2 DEF BeginConfirm
    <2>2. [NoJob EXCEPT !.order = o] \in Job /\ [NoJob EXCEPT !.order = o].order = o
        BY Defaults DEF Job
    <2> QED
        BY <1>1, <2>1, <2>2, BeginAlone
<1>3. CASE BeginCancel(s)
    <2>1. PICK o \in Orders :
              status[o] \in {"draft", "confirmed"} /\ Begin(s, "cancel", [NoJob EXCEPT !.order = o])
        BY <1>3 DEF BeginCancel
    <2>2. [NoJob EXCEPT !.order = o] \in Job /\ [NoJob EXCEPT !.order = o].order = o
        BY Defaults DEF Job
    <2> QED
        BY <1>1, <2>1, <2>2, BeginAlone
<1>4. CASE BeginEditOrder(s)
    <2>1. PICK o \in Orders :
              Begin(s, "editOrder", [NoJob EXCEPT !.order = o, !.status = status[o]])
        BY <1>4 DEF BeginEditOrder
    <2> DEFINE j == [NoJob EXCEPT !.order = o, !.status = status[o]]
    <2>2. j \in Job /\ j.status = status[j.order]
        BY <1>1, Defaults DEF Job, OrdersInv, TypeOK
    <2> QED
        BY <1>1, <2>1, <2>2, BeginAlone
<1>5. CASE BeginEditDocument(s)
    <2>1. PICK d \in Documents :
              Begin(s, "editDocument",
                    [NoJob EXCEPT !.order = OrderOf[d], !.doc = d, !.processed = processed[d]])
        BY <1>5 DEF BeginEditDocument
    <2> DEFINE j == [NoJob EXCEPT !.order = OrderOf[d], !.doc = d, !.processed = processed[d]]
    <2>2. processed[d] \in BOOLEAN
        BY <1>1 DEF OrdersInv, TypeOK
    <2>3. j \in Job /\ j.order = OrderOf[d] /\ j.doc = d
        BY <2>2, Defaults DEF Job
    <2>4. j.processed = processed[d]
        BY Defaults DEF Job
    <2> HIDE DEF j
    <2>5. j.order = OrderOf[j.doc] /\ j.processed = processed[j.doc]
        BY <2>3, <2>4
    <2>6. Begin(s, "editDocument", j)
        BY <2>1 DEF j
    <2> QED
        BY <1>1, <2>3, <2>5, <2>6, BeginAlone
<1>6. CASE BeginProcess(s)
    <2>1. PICK d \in Documents, partial \in BOOLEAN :
              /\ ~processed[d] /\ status[OrderOf[d]] = "confirmed"
              /\ Begin(s, "lines",
                       [NoJob EXCEPT !.order = OrderOf[d], !.doc = d, !.partial = partial])
        BY <1>6 DEF BeginProcess
    <2> DEFINE j == [NoJob EXCEPT !.order = OrderOf[d], !.doc = d, !.partial = partial]
    <2>2. j \in Job /\ j.order = OrderOf[d] /\ j.doc = d
        BY Defaults DEF Job
    <2>3. Begin(s, "lines", j)
        BY <2>1
    <2> HIDE DEF j
    <2>4. j.order = OrderOf[j.doc] /\ ~processed[j.doc] /\ status[j.order] = "confirmed"
        BY <2>1, <2>2
    <2> QED
        BY <1>1, <2>2, <2>3, <2>4, BeginAlone
<1> QED
    BY <1>2, <1>3, <1>4, <1>5, <1>6 DEF Calls

(* A step that ends the call of s on target. *)
LEMMA FinishAlone ==
    ASSUME AloneInv, OrdersInv', NEW s \in Sessions, pc[s] # "idle", Finish(s),
           NEW target \in Orders, target = job[s].order, OnlyChanges(target),
           target \notin raced => Exact(target)'
    PROVE  AloneInv'
<1>1. OnlyMoves(s) /\ pc'[s] = "idle" /\ raced' = raced
    BY FinishFrees DEF AloneInv, OrdersInv
<1>2. OwnDocument(s)'
    BY <1>1 DEF OwnDocument
<1>3. target \notin raced => \A t \in Sessions \ {s} : ~Busy(t, target)
    BY NobodyElse
<1> QED
    BY <1>1, <1>2, <1>3, CallKept

LEMMA AbandonAlone ==
    ASSUME AloneInv, NEW s \in Sessions, pc[s] # "idle", Abandon(s)
    PROVE  AloneInv'
<1> USE DEF Abandon, orderRows, stockRows
<1>1. OrdersInv' /\ Finish(s)
    BY AbandonInv DEF AloneInv
<1>2. PICK target \in Orders : target = job[s].order
    BY AmountTypes DEF AloneInv, OrdersInv
<1>3. OnlyChanges(target)
    BY DEF OnlyChanges
<1>4. target \notin raced => Exact(target)'
    <2>1. target \notin raced => Exact(target)
        BY <1>2, NobodyElse
    <2> QED
        BY <2>1 DEF Exact
<1> QED
    BY <1>1, <1>2, <1>3, <1>4, FinishAlone

(* What a session alone on its order may write as its status. *)
MayFollow(old, new) ==
    \/ new = old
    \/ old = "draft" /\ new \in {"confirmed", "cancelled"}
    \/ old = "confirmed" /\ new = "cancelled"

LEMMA SaveStatusAlone ==
    ASSUME AloneInv, OrdersInv', NEW s \in Sessions, pc[s] # "idle", NEW value \in Status,
           SaveStatus(s, value),
           job[s].order \notin raced => MayFollow(status[job[s].order], value)
    PROVE  AloneInv'
<1> USE DEF SaveStatus, stockRows
<1>1. PICK target \in Orders : target = job[s].order
    BY AmountTypes DEF AloneInv, OrdersInv
<1>2. status'[target] = value /\ OnlyChanges(target)
    BY <1>1 DEF AloneInv, OrdersInv, TypeOK, OnlyChanges
<1>3. ASSUME target \notin raced PROVE Exact(target)'
    <2>1. Exact(target) /\ MayFollow(status[target], value)
        BY <1>1, <1>3, NobodyElse
    <2>2. UNCHANGED <<processed, times, moved, left>>
        OBVIOUS
    <2> QED
        BY <1>2, <2>1, <2>2 DEF Exact, MayFollow
<1> QED
    BY <1>1, <1>2, <1>3, FinishAlone

LEMMA EditDocumentAlone ==
    ASSUME AloneInv, NEW s \in Sessions, EditDocument(s)
    PROVE  AloneInv'
<1> USE DEF EditDocument, stockRows
<1>1. OrdersInv' /\ TypeOK /\ job[s].doc \in Documents
    BY EditDocumentInv, AmountTypes DEF AloneInv, OrdersInv
<1>2. PICK target \in Orders : target = job[s].order /\ target = OrderOf[job[s].doc]
    BY <1>1, AmountTypes DEF AloneInv, OwnDocument
<1>3. OnlyChanges(target)
    BY <1>1, <1>2 DEF OnlyChanges, TypeOK
<1>4. ASSUME target \notin raced PROVE Exact(target)'
    <2>1. Exact(target) /\ Current(s)
        BY <1>2, <1>4, NobodyElse
    <2>2. processed' = processed
        BY <1>1, <2>1 DEF Current, TypeOK
    <2> QED
        BY <2>1, <2>2 DEF Exact
<1> QED
    BY <1>1, <1>2, <1>3, <1>4, FinishAlone

-----------------------------------------------------------------------------
(* process_dispatch and receive_goods.                                       *)

(* A step inside the transaction of s: no row of the order changes. *)
LEMMA InsideAlone ==
    ASSUME AloneInv, OrdersInv', NEW s \in Sessions, pc[s] # "idle", OnlyMoves(s),
           UNCHANGED raced, UNCHANGED orderRows, UNCHANGED stockRows,
           job'[s].order = job[s].order, OwnDocument(s)',
           job[s].order \notin raced => Current(s)'
    PROVE  AloneInv'
<1> USE DEF orderRows, stockRows
<1>1. PICK target \in Orders : target = job[s].order
    BY AmountTypes DEF AloneInv, OrdersInv
<1>2. OnlyChanges(target)
    BY DEF OnlyChanges
<1>3. target \notin raced => Exact(target)' /\ \A t \in Sessions \ {s} : ~Busy(t, target)
    <2>1. target \notin raced => Exact(target) /\ \A t \in Sessions \ {s} : ~Busy(t, target)
        BY <1>1, NobodyElse
    <2> QED
        BY <2>1 DEF Exact
<1> QED
    BY <1>1, <1>2, <1>3, CallKept

LEMMA ReadLinesAlone ==
    ASSUME AloneInv, NEW s \in Sessions, ReadLines(s) \/ \E p \in Products : PlanLine(s, p)
    PROVE  AloneInv'
<1> USE DEF orderRows, stockRows
<1>1. /\ pc[s] \in {"lines", "plan"} /\ pc[s] # "idle"
      /\ UNCHANGED raced /\ UNCHANGED orderRows /\ UNCHANGED stockRows
    BY DEF ReadLines, PlanLine
<1>2. TypeOK /\ OrdersInv' /\ job[s].order = OrderOf[job[s].doc]
    BY <1>1, ReadLinesInv, PlanLineInv DEF AloneInv, OrdersInv, OwnDocument
<1>3. PICK step \in {"plan", "issue"} : pc' = [pc EXCEPT ![s] = step]
    BY DEF ReadLines, PlanLine
<1>4. PICK j : j = job'[s]
    OBVIOUS
<1>5. /\ j.order = job[s].order /\ j.doc = job[s].doc /\ job' = [job EXCEPT ![s] = j]
      /\ j.lines = left[j.order] \/ (pc[s] = "plan" /\ j.lines = job[s].lines)
    <2>1. CASE ReadLines(s)
        BY <1>2, <1>4, <2>1, LinesRead
    <2>2. CASE \E p \in Products : PlanLine(s, p)
        <3>1. PICK p \in Products : PlanLine(s, p)
            BY <2>2
        <3>2. pc[s] = "plan"
            BY <3>1 DEF PlanLine
        <3> QED
            BY <1>2, <1>4, <3>1, <3>2, LinePlanned
    <2> QED
        BY <2>1, <2>2
<1>6. OnlyMoves(s) /\ pc'[s] = step
    BY <1>2, <1>3, <1>5 DEF TypeOK, OnlyMoves
<1>7. OwnDocument(s)'
    BY <1>2, <1>4, <1>5 DEF OwnDocument
<1>8. ASSUME job[s].order \notin raced PROVE Current(s)'
    <2>1. Current(s)
        BY <1>1, <1>8, NobodyElse
    <2>2. ~processed[j.doc] /\ status[j.order] = "confirmed" /\ j.lines = left[j.order]
        BY <1>1, <1>5, <2>1 DEF Current
    <2> QED
        BY <1>1, <1>4, <1>6, <2>2 DEF Current
<1> QED
    BY <1>1, <1>2, <1>4, <1>5, <1>6, <1>7, <1>8, InsideAlone

(* Once the lines are current, a partial dispatch leaves the order confirmed. *)
LEMMA StatusOfPlan ==
    ASSUME OrdersInv, NEW s \in Sessions, pc[s] = "issue", job[s].lines = left[job[s].order]
    PROVE  StatusAfter(s) = IF job[s].plan = job[s].lines THEN "done" ELSE "confirmed"
<1> DEFINE j == job[s]
<1>1. /\ j.plan \in Amounts /\ j.lines \in Amounts /\ left[j.order] = j.lines
      /\ \A p \in Products : j.plan[p] \in Nat /\ j.lines[p] \in Nat
    BY AmountTypes DEF OrdersInv, TypeOK, Job, Amounts
<1>2. CASE j.plan = j.lines
    BY <1>2 DEF StatusAfter, FullShip
<1>3. CASE j.plan # j.lines
    <2>1. PICK p \in Products : j.plan[p] # j.lines[p]
        BY <1>1, <1>3 DEF Amounts
    <2>2. LinesAfter(s)[p] = IF <<j.order, p>> \in Lines(s) THEN j.lines[p] - j.plan[p]
                                                             ELSE left[j.order][p]
        BY DEF LinesAfter
    <2>3. j.plan[p] > 0 => <<j.order, p>> \in Lines(s)
        BY <1>3 DEF Lines, FullShip
    <2>4. LinesAfter(s)[p] # 0
        <3>1. j.plan[p] \in Nat /\ j.lines[p] \in Nat /\ left[j.order][p] = j.lines[p]
            BY <1>1
        <3> HIDE DEF j
        <3>2. CASE <<j.order, p>> \in Lines(s)
            <4>1. LinesAfter(s)[p] = j.lines[p] - j.plan[p]
                BY <2>2, <3>2
            <4>2. \A a, b \in Nat : a # b => a - b # 0
                OBVIOUS
            <4>3. j.lines[p] - j.plan[p] # 0
                BY <2>1, <3>1, <4>2
            <4> QED
                BY <4>1, <4>3
        <3>3. CASE <<j.order, p>> \notin Lines(s)
            <4>1. LinesAfter(s)[p] = j.lines[p] /\ ~(j.plan[p] > 0)
                BY <2>2, <2>3, <3>1, <3>3
            <4> QED
                BY <2>1, <3>1, <4>1
        <3> QED
            BY <3>2, <3>3
    <2>5. LinesAfter(s) # Nothing
        BY <2>4 DEF Nothing
    <2> QED
        BY <1>3, <2>5 DEF StatusAfter, FullShip
<1> QED
    BY <1>2, <1>3

LEMMA IssueAlone ==
    ASSUME AloneInv, NEW s \in Sessions, Issue(s)
    PROVE  AloneInv'
<1> DEFINE j == job[s]
<1>1. /\ pc[s] = "issue"
      /\ job' = [job EXCEPT ![s].status = StatusAfter(s)]
      /\ pc' = [pc EXCEPT ![s] = "commit"]
      /\ UNCHANGED raced /\ UNCHANGED orderRows /\ UNCHANGED stockRows
    BY DEF Issue
<1>2. OrdersInv /\ TypeOK /\ j \in Job /\ OrdersInv' /\ j.order = OrderOf[j.doc]
    BY <1>1, IssueInv DEF AloneInv, OrdersInv, TypeOK, OwnDocument
<1>3. /\ OnlyMoves(s) /\ pc'[s] = "commit"
      /\ job'[s] = [j EXCEPT !.status = StatusAfter(s)]
    BY <1>1, <1>2 DEF TypeOK, OnlyMoves
<1>4. /\ job'[s].order = j.order /\ job'[s].doc = j.doc /\ job'[s].lines = j.lines
      /\ job'[s].plan = j.plan /\ job'[s].status = StatusAfter(s)
    <2> HIDE DEF j
    <2> QED
        BY <1>2, <1>3 DEF Job
<1>5. OwnDocument(s)'
    BY <1>2, <1>4 DEF OwnDocument
<1>6. ASSUME j.order \notin raced PROVE Current(s)'
    <2>1. ~processed[j.doc] /\ status[j.order] = "confirmed" /\ j.lines = left[j.order]
        BY <1>1, <1>6, NobodyElse DEF Current
    <2>2. StatusAfter(s) = IF j.plan = j.lines THEN "done" ELSE "confirmed"
        BY <1>1, <1>2, <2>1, StatusOfPlan
    <2> QED
        BY <1>1, <1>3, <1>4, <2>1, <2>2 DEF Current, orderRows
<1> QED
    BY <1>1, <1>2, <1>3, <1>4, <1>5, <1>6, InsideAlone

(* The rows of the order as the commit of s leaves them. *)
LEMMA CommitRows ==
    ASSUME OrdersInv, NEW s \in Sessions, OwnDocument(s), Commit(s),
           NEW j, j = job[s]
    PROVE  /\ status'[j.order] = j.status /\ left'[j.order] = LinesAfter(s)
           /\ \A p \in Products : moved'[j.order][p] = moved[j.order][p] + j.plan[p]
           /\ \A d \in Documents :
                 /\ processed'[d] = IF d = j.doc THEN TRUE ELSE processed[d]
                 /\ times'[d] = IF d = j.doc THEN times[d] + 1 ELSE times[d]
           /\ OnlyChanges(j.order)
<1>1. /\ moved' = [moved EXCEPT ![j.order] = [p \in Products |-> @[p] + j.plan[p]]]
      /\ times' = [times EXCEPT ![j.doc] = @ + 1]
      /\ left' = [left EXCEPT ![j.order] = LinesAfter(s)]
      /\ processed' = [processed EXCEPT ![j.doc] = TRUE]
      /\ status' = [status EXCEPT ![j.order] = j.status]
    BY DEF Commit
<1>2. TypeOK /\ j.order \in Orders /\ j.doc \in Documents /\ j.order = OrderOf[j.doc]
    BY AmountTypes DEF OrdersInv, Commit, OwnDocument
<1>3. /\ status'[j.order] = j.status /\ left'[j.order] = LinesAfter(s)
      /\ \A p \in Products : moved'[j.order][p] = moved[j.order][p] + j.plan[p]
    BY <1>1, <1>2 DEF TypeOK
<1>4. \A d \in Documents :
          /\ processed'[d] = IF d = j.doc THEN TRUE ELSE processed[d]
          /\ times'[d] = IF d = j.doc THEN times[d] + 1 ELSE times[d]
    BY <1>1, <1>2 DEF TypeOK
<1>5. OnlyChanges(j.order)
    BY <1>1, <1>2 DEF TypeOK, OnlyChanges
<1> QED
    BY <1>3, <1>4, <1>5

LEMMA CommitAlone ==
    ASSUME AloneInv, NEW s \in Sessions, Commit(s)
    PROVE  AloneInv'
<1>1. PICK j \in Job : j = job[s]
    BY DEF AloneInv, OrdersInv, TypeOK
<1>2. /\ OrdersInv /\ OrdersInv' /\ TypeOK /\ pc[s] = "commit" /\ Finish(s)
      /\ OwnDocument(s) /\ j.doc \in Documents /\ j.order = OrderOf[j.doc]
    BY <1>1, CommitInv, AmountTypes DEF AloneInv, OrdersInv, Commit, OwnDocument
<1>3. PICK target \in Orders : target = j.order
    BY <1>1, <1>2, AmountTypes
<1>4. /\ status'[target] = j.status /\ left'[target] = LinesAfter(s)
      /\ \A p \in Products : moved'[target][p] = moved[target][p] + j.plan[p]
      /\ \A d \in Documents :
            /\ processed'[d] = IF d = j.doc THEN TRUE ELSE processed[d]
            /\ times'[d] = IF d = j.doc THEN times[d] + 1 ELSE times[d]
      /\ OnlyChanges(target)
    BY <1>1, <1>2, <1>3, CommitRows, ZenonT(60)
<1>5. ASSUME target \notin raced PROVE Exact(target)'
    <2>1. /\ Exact(target) /\ ~processed[j.doc] /\ status[target] = "confirmed"
          /\ j.lines = left[target]
          /\ j.status = IF j.plan = j.lines THEN "done" ELSE "confirmed"
        BY <1>1, <1>2, <1>3, <1>5, NobodyElse DEF Current
    <2>2. \A p \in Products :
              /\ moved[target][p] + j.lines[p] = Ordered[target][p]
              /\ j.lines[p] \in Nat /\ j.plan[p] \in Nat /\ j.plan[p] <= j.lines[p]
              /\ moved[target][p] \in Nat /\ Ordered[target][p] \in Nat
        BY <1>1, <1>2, <1>3, <2>1, AmountTypes, SMTT(30) DEF Exact, OrdersInv, SessionInv
    <2>3. \A d \in Documents :
              OrderOf[d] = target => times'[d] = IF processed'[d] THEN 1 ELSE 0
        <3> SUFFICES ASSUME NEW d \in Documents, OrderOf[d] = target
                     PROVE  times'[d] = IF processed'[d] THEN 1 ELSE 0
            OBVIOUS
        <3>1. times[d] = IF processed[d] THEN 1 ELSE 0
            BY <2>1 DEF Exact
        <3>2. CASE d = j.doc
            <4>1. times[d] = 0
                BY <2>1, <3>1, <3>2
            <4>2. processed'[d] = TRUE /\ times'[d] = times[d] + 1
                BY <1>4, <3>2
            <4> QED
                BY <4>1, <4>2
        <3>3. CASE d # j.doc
            BY <1>4, <3>1, <3>3
        <3> QED
            BY <3>2, <3>3
    <2>4. CASE j.plan = j.lines
        <3>1. status'[target] = "done"
            BY <1>4, <2>1, <2>4
        <3>2. \A p \in Products : moved'[target][p] = Ordered[target][p]
            BY <1>4, <2>2, <2>4
        <3>3. moved'[target] = Ordered[target]
            <4>1. moved'[target] \in Amounts /\ Ordered[target] \in Amounts
                BY <1>2 DEF OrdersInv, TypeOK, Amounts
            <4> QED
                BY <3>2, <4>1 DEF Amounts
        <3> QED
            BY <2>3, <3>1, <3>3 DEF Exact
    <2>5. CASE j.plan # j.lines
        <3>1. status'[target] = "confirmed"
            BY <1>4, <2>1, <2>5
        <3>2. ASSUME NEW p \in Products
              PROVE  moved'[target][p] + left'[target][p] = Ordered[target][p]
            <4>1. left'[target][p] = IF <<j.order, p>> \in Lines(s) THEN j.lines[p] - j.plan[p]
                                                                    ELSE j.lines[p]
                BY <1>1, <1>3, <1>4, <2>1 DEF LinesAfter
            <4>2. <<j.order, p>> \notin Lines(s) => j.plan[p] = 0
                BY <1>1, <2>2, <2>5 DEF Lines, FullShip
            <4>3. moved'[target][p] = moved[target][p] + j.plan[p]
                BY <1>4
            <4>4. left'[target][p] = j.lines[p] - j.plan[p]
                BY <2>2, <4>1, <4>2
            <4> QED
                BY <2>2, <4>3, <4>4
        <3> QED
            BY <2>3, <3>1, <3>2 DEF Exact
    <2> QED
        BY <2>4, <2>5
<1>6. OrdersInv' /\ pc[s] # "idle" /\ Finish(s)
    BY <1>2
<1>7. target = job[s].order /\ OnlyChanges(target)
    BY <1>1, <1>3, <1>4
<1> QED
    BY <1>5, <1>6, <1>7, FinishAlone

-----------------------------------------------------------------------------
(* Every step.                                                               *)

(* Steps of nobody's session leave every row of the orders alone. *)
LEMMA OutsideAlone ==
    ASSUME AloneInv, OrdersInv', UNCHANGED <<pc, job, raced, status, left, processed, moved, times>>
    PROVE  AloneInv'
<1>1. \A t \in Sessions : OwnDocument(t)'
    BY DEF AloneInv, OwnDocument
<1>2. ASSUME NEW o \in Orders \ raced PROVE Alone(o)'
    <2>1. Alone(o)
        BY DEF AloneInv
    <2> QED
        BY <2>1 DEF Alone, Busy, Current, Exact
<1> QED
    BY <1>1, <1>2 DEF AloneInv

LEMMA WorkAlone ==
    ASSUME AloneInv, NEW s \in Sessions, Work(s)
    PROVE  AloneInv'
<1>1. OrdersInv'
    BY WorkInv DEF AloneInv
<1>2. CASE Confirm(s)
    <2>1. pc[s] = "confirm" /\ SaveStatus(s, "confirmed")
        BY <1>2 DEF Confirm
    <2>2. job[s].order \notin raced => MayFollow(status[job[s].order], "confirmed")
        BY <2>1, NobodyElse DEF Current, MayFollow
    <2> QED
        BY <1>1, <2>1, <2>2, SaveStatusAlone DEF Status
<1>3. CASE Cancel(s)
    <2>1. pc[s] = "cancel" /\ SaveStatus(s, "cancelled")
        BY <1>3 DEF Cancel
    <2>2. job[s].order \notin raced => MayFollow(status[job[s].order], "cancelled")
        BY <2>1, NobodyElse DEF Current, MayFollow
    <2> QED
        BY <1>1, <2>1, <2>2, SaveStatusAlone DEF Status
<1>4. CASE EditOrder(s)
    <2>1. pc[s] = "editOrder" /\ SaveStatus(s, job[s].status) /\ job[s].status \in Status
        BY <1>4, AmountTypes DEF EditOrder, AloneInv, OrdersInv
    <2>2. job[s].order \notin raced => MayFollow(status[job[s].order], job[s].status)
        BY <2>1, NobodyElse DEF Current, MayFollow
    <2> QED
        BY <1>1, <2>1, <2>2, SaveStatusAlone
<1>5. CASE NothingAvailable(s) \/ IssueRefused(s)
    BY <1>5, AbandonAlone DEF NothingAvailable, IssueRefused
<1>6. CASE EditDocument(s) \/ ReadLines(s) \/ (\E p \in Products : PlanLine(s, p))
           \/ Issue(s) \/ Commit(s)
    BY <1>6, EditDocumentAlone, ReadLinesAlone, IssueAlone, CommitAlone
<1> QED
    BY <1>2, <1>3, <1>4, <1>5, <1>6 DEF Work

LEMMA InitAlone == Init => AloneInv
<1> SUFFICES ASSUME Init PROVE AloneInv
    OBVIOUS
<1>1. \A t \in Sessions : OwnDocument(t)
    BY DEF Init, OwnDocument
<1>2. ASSUME NEW o \in Orders PROVE Alone(o)
    <2>1. \A t \in Sessions : ~Busy(t, o)
        BY DEF Init, Busy
    <2>2. \A p \in Products : moved[o][p] + left[o][p] = Ordered[o][p]
        BY DEF Init, Nothing
    <2>3. Exact(o)
        BY <2>2 DEF Init, Exact
    <2> QED
        BY <2>1, <2>3 DEF Alone
<1> QED
    BY <1>1, <1>2, InitOrdersInv DEF AloneInv

LEMMA StepAlone ==
    ASSUME AloneInv, [Next]_ordersVars
    PROVE  AloneInv'
<1>1. OrdersInv'
    BY StepOrdersInv DEF AloneInv
<1>2. CASE UNCHANGED ordersVars
    BY <1>1, <1>2, OutsideAlone DEF ordersVars
<1>3. CASE DirectMovement
    BY <1>1, <1>3, OutsideAlone DEF DirectMovement
<1>4. ASSUME NEW rec \in StockRecord, HoldsChange(rec) PROVE AloneInv'
    BY <1>1, <1>4, OutsideAlone DEF HoldsChange, orderRows, stockRows
<1>5. ASSUME NEW s \in Sessions, Calls(s) \/ Work(s) \/ Crash(s) PROVE AloneInv'
    BY <1>5, CallsAlone, WorkAlone, AbandonAlone DEF Crash
<1> QED
    BY <1>2, <1>3, <1>4, <1>5 DEF Next

-----------------------------------------------------------------------------
(* A closed order in a step.                                                 *)

(* A closed order keeps its status and moves no stock in this step. *)
Stays(o) == status[o] \in {"done", "cancelled"} => status'[o] = status[o] /\ moved'[o] = moved[o]

LEMMA SavedStays ==
    ASSUME AloneInv, NEW s \in Sessions, pc[s] # "idle", NEW value, SaveStatus(s, value),
           NEW o \in Orders, o \notin raced',
           job[s].order \notin raced => MayFollow(status[job[s].order], value)
    PROVE  Stays(o)
<1> USE DEF SaveStatus, stockRows
<1>1. raced' = raced /\ TypeOK
    BY DEF Finish, AloneInv, OrdersInv
<1>2. CASE o = job[s].order
    <2>1. status'[o] = value /\ MayFollow(status[o], value)
        BY <1>1, <1>2 DEF TypeOK
    <2> QED
        BY <2>1 DEF Stays, MayFollow
<1>3. CASE o # job[s].order
    <2>1. status'[o] = status[o]
        BY <1>1, <1>3 DEF TypeOK
    <2> QED
        BY <2>1 DEF Stays
<1> QED
    BY <1>2, <1>3

LEMMA WorkStays ==
    ASSUME AloneInv, NEW s \in Sessions, Work(s), NEW o \in Orders, o \notin raced'
    PROVE  Stays(o)
<1>1. CASE Confirm(s)
    <2>1. pc[s] = "confirm" /\ SaveStatus(s, "confirmed")
        BY <1>1 DEF Confirm
    <2>2. job[s].order \notin raced => MayFollow(status[job[s].order], "confirmed")
        BY <2>1, NobodyElse DEF Current, MayFollow
    <2> QED
        BY <2>1, <2>2, SavedStays
<1>2. CASE Cancel(s)
    <2>1. pc[s] = "cancel" /\ SaveStatus(s, "cancelled")
        BY <1>2 DEF Cancel
    <2>2. job[s].order \notin raced => MayFollow(status[job[s].order], "cancelled")
        BY <2>1, NobodyElse DEF Current, MayFollow
    <2> QED
        BY <2>1, <2>2, SavedStays
<1>3. CASE EditOrder(s)
    <2>1. pc[s] = "editOrder" /\ SaveStatus(s, job[s].status)
        BY <1>3 DEF EditOrder
    <2>2. job[s].order \notin raced => MayFollow(status[job[s].order], job[s].status)
        BY <2>1, NobodyElse DEF Current, MayFollow
    <2> QED
        BY <2>1, <2>2, SavedStays
<1>4. CASE \/ NothingAvailable(s) \/ IssueRefused(s) \/ EditDocument(s) \/ ReadLines(s)
           \/ (\E p \in Products : PlanLine(s, p)) \/ Issue(s)
    BY <1>4 DEF NothingAvailable, IssueRefused, EditDocument, ReadLines, PlanLine, Issue, Abandon,
       orderRows, stockRows, Stays
<1>5. CASE Commit(s)
    <2>1. /\ pc[s] = "commit" /\ raced' = raced
          /\ OwnDocument(s) /\ OrdersInv
        BY <1>5 DEF Commit, Finish, AloneInv
    <2>2. OnlyChanges(job[s].order)
        BY <1>5, <2>1, CommitRows
    <2>3. CASE o = job[s].order
        BY <2>1, <2>3, NobodyElse DEF Current, Stays
    <2>4. CASE o # job[s].order
        BY <2>2, <2>4 DEF OnlyChanges, Stays
    <2> QED
        BY <2>3, <2>4
<1> QED
    BY <1>1, <1>2, <1>3, <1>4, <1>5 DEF Work

LEMMA StepStays ==
    ASSUME AloneInv, [Next]_ordersVars, NEW o \in Orders, o \notin raced'
    PROVE  Stays(o)
<1>1. ASSUME NEW s \in Sessions, Calls(s) \/ Crash(s) PROVE Stays(o)
    BY <1>1 DEF Calls, Crash, Abandon, BeginConfirm, BeginCancel, BeginEditOrder,
       BeginEditDocument, BeginProcess, Begin, orderRows, stockRows, Stays
<1>2. CASE DirectMovement \/ UNCHANGED ordersVars
    BY <1>2 DEF DirectMovement, ordersVars, Stays
<1>3. ASSUME NEW rec \in StockRecord, HoldsChange(rec) PROVE Stays(o)
    BY <1>3 DEF HoldsChange, orderRows, stockRows, Stays
<1> QED
    BY <1>1, <1>2, <1>3, WorkStays DEF Next

-----------------------------------------------------------------------------
(* While the calls on an order do not overlap, what its documents have moved *)
(* and what its lines still ask for add up to what was ordered, each         *)
(* processed document has moved stock once, and a fulfilled or received      *)
(* order has moved exactly what was ordered: one session at a time reads and *)
(* saves, so that its guards on fetched rows are guards on the rows.         *)
THEOREM AloneOrdersAreExact == Spec => []ExactWhenAlone
<1>1. AloneInv => ExactWhenAlone
    BY DEF AloneInv, Alone, Exact, ExactWhenAlone
<1>2. Spec => []AloneInv
    BY InitAlone, StepAlone, PTL DEF Spec
<1> QED
    BY <1>1, <1>2, PTL

(* An order that is fulfilled, received or cancelled keeps its status and    *)
(* moves no more stock as long as no two calls on it overlap, whatever       *)
(* happens to other orders, crashes included.                                *)
THEOREM AloneClosedOrdersStay == Spec => ClosedOrdersStay
<1>1. AloneInv /\ [Next]_ordersVars =>
          [\A o \in Orders :
              o \notin raced' /\ status[o] \in {"done", "cancelled"} =>
                  status'[o] = status[o] /\ moved'[o] = moved[o]]_ordersVars
    BY StepStays DEF Stays
<1>2. Spec => []AloneInv
    BY InitAlone, StepAlone, PTL DEF Spec
<1> QED
    BY <1>1, <1>2, PTL DEF Spec, ClosedOrdersStay

-----------------------------------------------------------------------------
(* The reports: the lines the totals add up never understate what is due.    *)

LEMMA AskedScope == ASSUME NEW q \in Query PROVE Asked(q) \in Partitions
BY DEF Asked, ScopeOf, ScopeParams, Query, QueryString, Understood, Partitions

LEMMA JoinedTypes ==
    ASSUME NEW o \in Orders, NEW s \in Partitions
    PROVE  /\ RowsJoined(o, s) \in Nat
           /\ s = "all" => RowsJoined(o, s) = 1
<1> DEFINE documents == {d \in Documents : OrderOf[d] = o}
           scoped == {d \in documents : InScope(SiteOf[d], s)}
<1>1. RowsJoined(o, s) = IF s = "all" \/ (s = "retail" /\ documents = {}) THEN 1
                         ELSE Cardinality(scoped)
    BY DEF RowsJoined
<1>2. scoped \in SUBSET Documents
    OBVIOUS
<1> HIDE DEF documents, scoped
<1>3. Cardinality(scoped) \in Nat
    BY <1>2, OrderReportAssumption, FS_Subset, FS_CardinalityType
<1> QED BY <1>1, <1>3

(* Every order is joined to a row of some partition other than the whole. *)
LEMMA JoinedSomewhere ==
    ASSUME NEW o \in Orders
    PROVE  \E s \in Partitions \ {"all"} : RowsJoined(o, s) > 0
<1> DEFINE documents == {d \in Documents : OrderOf[d] = o}
<1>1. CASE documents = {}
    <2>1. RowsJoined(o, "retail") = 1
        BY <1>1 DEF RowsJoined, Partitions
    <2>2. "retail" \in Partitions \ {"all"}
        BY DEF Partitions
    <2> QED BY <2>1, <2>2
<1>2. CASE documents # {}
    <2>1. PICK d \in Documents : OrderOf[d] = o
        BY <1>2
    <2>2. PICK s \in Partitions \ {"all"} : InScope(SiteOf[d], s)
        <3>1. SiteOf[d] \in Locations
            OBVIOUS
        <3>2. CASE SiteOf[d] \in Facility
            <4>1. /\ WarehouseOf[SiteOf[d]] \in Warehouses
                  /\ WarehouseOf[SiteOf[d]] \notin {"all", "retail"}
                BY <3>2, ScopeAssumption
            <4> QED BY <3>2, <4>1 DEF InScope, Partitions
        <3>3. CASE SiteOf[d] \notin Facility
            <4>1. InScope(SiteOf[d], "retail") /\ "retail" \in Partitions \ {"all"}
                BY <3>3 DEF InScope, Partitions
            <4> QED BY <4>1
        <3> QED BY <3>2, <3>3
    <2> DEFINE scoped == {x \in documents : InScope(SiteOf[x], s)}
    <2>3. RowsJoined(o, s) = Cardinality(scoped)
        BY <1>2, <2>2 DEF RowsJoined
    <2>4. d \in scoped /\ scoped \in SUBSET Documents
        BY <2>1, <2>2
    <2> HIDE DEF scoped
    <2>5. Cardinality(scoped) \in Nat /\ Cardinality(scoped) # 0
        BY <2>4, OrderReportAssumption, FS_Subset, FS_CardinalityType, FS_EmptySet
    <2> QED BY <2>2, <2>3, <2>5
<1> QED BY <1>1, <1>2

LEMMA LineTotals ==
    ASSUME NEW o \in Orders, NEW a \in Amounts, NEW b \in Amounts
    PROVE  /\ LineTotal(o, a) \in Int /\ LineTotal(o, b) \in Int
           /\ (\A p \in Products : a[p] = b[p]) => LineTotal(o, a) = LineTotal(o, b)
           /\ NoNegativePrice => LineTotal(o, a) \in Nat
           /\ NoNegativePrice /\ (\A p \in Products : a[p] <= b[p]) =>
                  LineTotal(o, a) <= LineTotal(o, b)
<1> DEFINE f == [p \in Products |-> a[p] * UnitPrice[o][p]]
           g == [p \in Products |-> b[p] * UnitPrice[o][p]]
<1>1. ASSUME NEW p \in Products
      PROVE  /\ f[p] \in Int /\ g[p] \in Int
             /\ a[p] = b[p] => f[p] = g[p]
             /\ NoNegativePrice => f[p] \in Nat
             /\ NoNegativePrice /\ a[p] <= b[p] => f[p] <= g[p]
    <2>1. PICK i \in Nat, j \in Nat, u \in Int : i = a[p] /\ j = b[p] /\ u = UnitPrice[o][p]
        BY OrderReportAssumption DEF Amounts
    <2>2. NoNegativePrice => u \in Nat
        BY <2>1 DEF NoNegativePrice
    <2>3. u \in Nat => i * u \in Nat
        BY TimesNat
    <2>4. ASSUME u \in Nat, i <= j PROVE i * u <= j * u
        <3>1. PICK d \in Nat : j = i + d
            <4>1. j - i \in Nat /\ j = i + (j - i)
                BY <2>4
            <4> QED BY <4>1
        <3>2. j * u = i * u + d * u /\ d * u \in Nat /\ i * u \in Nat
            BY <2>4, <3>1, TimesNat
        <3> QED BY <3>2
    <2>5. f[p] = i * u /\ g[p] = j * u
        BY <2>1
    <2> HIDE DEF f, g
    <2> QED BY <2>1, <2>2, <2>3, <2>4, <2>5
<1>2. LineTotal(o, a) = SumFunctionOnSet(f, Products)
      /\ LineTotal(o, b) = SumFunctionOnSet(g, Products)
    BY DEF LineTotal
<1> HIDE DEF f, g
<1>3. \A p \in Products : f[p] \in Int /\ g[p] \in Int
    BY <1>1
<1>4. SumFunctionOnSet(f, Products) \in Int /\ SumFunctionOnSet(g, Products) \in Int
    BY ONLY <1>3, SumInt, OrderReportAssumption
<1>5. ASSUME \A p \in Products : a[p] = b[p]
      PROVE  SumFunctionOnSet(f, Products) = SumFunctionOnSet(g, Products)
    <2>1. \A p \in Products : f[p] \in Int /\ f[p] = g[p]
        BY <1>1, <1>5
    <2> QED BY ONLY <2>1, SumEqual, OrderReportAssumption
<1>6. ASSUME NoNegativePrice PROVE SumFunctionOnSet(f, Products) \in Nat
    <2>1. \A p \in Products : f[p] \in Nat
        BY <1>1, <1>6
    <2> QED BY ONLY <2>1, SumNat, OrderReportAssumption
<1>7. ASSUME NoNegativePrice, \A p \in Products : a[p] <= b[p]
      PROVE  SumFunctionOnSet(f, Products) <= SumFunctionOnSet(g, Products)
    <2>1. \A p \in Products : f[p] \in Int /\ g[p] \in Int /\ f[p] <= g[p]
        BY <1>1, <1>7
    <2> QED BY ONLY <2>1, SumMonotone, OrderReportAssumption
<1> QED BY <1>2, <1>4, <1>5, <1>6, <1>7

LEMMA DueTypes ==
    ASSUME OrdersInv, NEW o \in Orders
    PROVE  /\ Due(o) \in Amounts /\ left[o] \in Amounts
           /\ \A p \in Products : Due(o)[p] <= left[o][p]
           /\ Exact(o) /\ status[o] # "done" => \A p \in Products : left[o][p] <= Due(o)[p]
<1>1. TypeOK /\ \A p \in Products : left[o][p] + moved[o][p] >= Ordered[o][p]
    BY DEF OrdersInv
<1>2. ASSUME NEW p \in Products
      PROVE  left[o][p] \in Nat /\ moved[o][p] \in Nat /\ Ordered[o][p] \in Nat
    BY <1>1, AmountTypes
<1>3. left[o] \in Amounts
    BY <1>1 DEF TypeOK
<1>4. \A p \in Products : /\ Due(o)[p] = IF moved[o][p] < Ordered[o][p]
                                         THEN Ordered[o][p] - moved[o][p] ELSE 0
    BY DEF Due
<1>5. Due(o) \in Amounts
    BY <1>2 DEF Due, Amounts
<1>6. \A p \in Products : Due(o)[p] <= left[o][p]
    BY <1>1, <1>2, <1>4
<1>7. Exact(o) /\ status[o] # "done" => \A p \in Products : left[o][p] <= Due(o)[p]
    BY <1>2, <1>4 DEF Exact
<1> QED BY <1>3, <1>5, <1>6, <1>7

(* The dashboard counts the orders of the report and the cancelled ones. *)
LEMMA StatusesAgree ==
    ASSUME OrdersInv, NEW kind \in SUBSET Orders
    PROVE  /\ \A st \in Status \ {"cancelled"} :
                 OrderStatus(kind)[st] = Totals(kind, "all").breakdown[st]
           /\ Totals(kind, "all").order_count + OrderStatus(kind)["cancelled"] = Cardinality(kind)
<1> DEFINE orders == Reported(kind, "all")
           Of(st) == {o \in kind : status[o] = st}
<1>1. \A o \in kind : RowsJoined(o, "all") = 1
    BY JoinedTypes DEF Partitions
<1>2. orders = {o \in kind : status[o] # "cancelled"}
    BY <1>1 DEF Reported
<1>3. IsFiniteSet(kind)
    BY FS_Subset, OrderReportAssumption
<1>4. \A st \in Status : OrderStatus(kind)[st] = Cardinality(Of(st))
    BY DEF OrderStatus
<1>5. ASSUME NEW st \in Status, st # "cancelled"
      PROVE  Totals(kind, "all").breakdown[st] = Cardinality(Of(st))
    <2> DEFINE rows == [o \in orders |-> RowsJoined(o, "all")]
    <2>1. Totals(kind, "all").breakdown[st]
          = SumFunctionOnSet(rows, {o \in orders : status[o] = st})
        BY DEF Totals
    <2>2. {o \in orders : status[o] = st} = Of(st)
        BY <1>2, <1>5
    <2>3. \A o \in Of(st) : rows[o] = 1
        BY <1>1, <1>2, <1>5
    <2>4. IsFiniteSet(Of(st))
        BY <1>3, FS_Subset
    <2> HIDE DEF rows, Of
    <2>5. SumFunctionOnSet(rows, Of(st)) = Cardinality(Of(st))
        BY <2>3, <2>4, SumOnes
    <2> QED BY <2>1, <2>2, <2>5
<1>6. Totals(kind, "all").order_count = Cardinality(orders)
    BY DEF Totals
<1>7. Cardinality(orders) = Cardinality(kind) - Cardinality(Of("cancelled"))
    <2>1. orders = kind \ Of("cancelled") /\ kind \cap Of("cancelled") = Of("cancelled")
        BY <1>2
    <2> HIDE DEF orders, Of
    <2> QED BY <1>3, <2>1, FS_Difference
<1>8. Cardinality(kind) \in Nat /\ Cardinality(Of("cancelled")) \in Nat
    <2>1. Of("cancelled") \in SUBSET kind
        OBVIOUS
    <2> HIDE DEF Of
    <2> QED BY <1>3, <2>1, FS_Subset, FS_CardinalityType
<1>9. OrderStatus(kind)["cancelled"] = Cardinality(Of("cancelled"))
    BY <1>4 DEF Status
<1> HIDE DEF orders, Of
<1>10. Totals(kind, "all").order_count + OrderStatus(kind)["cancelled"] = Cardinality(kind)
    BY <1>6, <1>7, <1>8, <1>9
<1> QED BY <1>4, <1>5, <1>10

LEMMA TotalsCoverBacklog ==
    ASSUME OrdersInv, NEW kind \in SUBSET Orders, NEW s \in Partitions
    PROVE  LET orders == Reported(kind, s) IN
           /\ NoNegativePrice => Totals(kind, s).total >= Backlog(Open(orders))
           /\ Open(orders) = orders /\ (\A o \in orders : Exact(o))
                 => Totals(kind, s).total = Backlog(Open(orders))
<1> DEFINE orders == Reported(kind, s)
           f == [o \in orders |-> LineTotal(o, left[o])]
           g == [o \in Open(orders) |-> LineTotal(o, Due(o))]
           h == [o \in orders |-> IF status[o] # "done" THEN LineTotal(o, Due(o)) ELSE 0]
<1>1. orders \in SUBSET Orders
    BY DEF Reported
<1>2. Totals(kind, s).total = SumFunctionOnSet(f, orders)
      /\ Backlog(Open(orders)) = SumFunctionOnSet(g, Open(orders))
    BY DEF Totals, Backlog
<1> HIDE DEF orders
<1>3. IsFiniteSet(orders) /\ Open(orders) \in SUBSET orders
    BY <1>1, FS_Subset, OrderReportAssumption DEF Open
<1>4. ASSUME NEW o \in orders
      PROVE  /\ f[o] \in Int /\ LineTotal(o, Due(o)) \in Int
             /\ NoNegativePrice => f[o] >= 0 /\ LineTotal(o, Due(o)) <= f[o]
             /\ Exact(o) /\ status[o] # "done" => f[o] = LineTotal(o, Due(o))
    <2>1. o \in Orders
        BY <1>1
    <2>2. /\ Due(o) \in Amounts /\ left[o] \in Amounts
          /\ \A p \in Products : Due(o)[p] <= left[o][p]
          /\ Exact(o) /\ status[o] # "done" => \A p \in Products : left[o][p] <= Due(o)[p]
        BY <2>1, DueTypes
    <2>3. /\ LineTotal(o, Due(o)) \in Int /\ LineTotal(o, left[o]) \in Int
          /\ NoNegativePrice => LineTotal(o, left[o]) \in Nat
          /\ NoNegativePrice => LineTotal(o, Due(o)) <= LineTotal(o, left[o])
        BY <2>1, <2>2, LineTotals
    <2>4. f[o] = LineTotal(o, left[o])
        OBVIOUS
    <2> HIDE DEF f
    <2>5. ASSUME Exact(o), status[o] # "done"
          PROVE  LineTotal(o, left[o]) = LineTotal(o, Due(o))
        <3>1. \A p \in Products : left[o][p] = Due(o)[p]
            <4> SUFFICES ASSUME NEW p \in Products PROVE left[o][p] = Due(o)[p]
                OBVIOUS
            <4>1. Due(o)[p] <= left[o][p] /\ left[o][p] <= Due(o)[p]
                BY <2>2, <2>5
            <4>2. PICK i, j \in Nat : i = Due(o)[p] /\ j = left[o][p]
                BY <2>2 DEF Amounts
            <4>3. i <= j /\ j <= i
                BY <4>1, <4>2
            <4>4. i = j
                BY ONLY <4>3, i \in Nat, j \in Nat
            <4> QED BY <4>2, <4>4
        <3> QED BY <2>1, <2>2, <3>1, LineTotals
    <2> QED BY <2>3, <2>4, <2>5
<1>5. /\ \A o \in Open(orders) : g[o] \in Int /\ h[o] = g[o]
      /\ \A o \in orders \ Open(orders) : h[o] = 0
    BY <1>3, <1>4 DEF Open
<1>6. \A o \in orders : h[o] \in Int /\ f[o] \in Int /\ (NoNegativePrice => h[o] <= f[o])
    <2> SUFFICES ASSUME NEW o \in orders
                 PROVE  h[o] \in Int /\ f[o] \in Int /\ (NoNegativePrice => h[o] <= f[o])
        OBVIOUS
    <2>1. /\ f[o] \in Int /\ LineTotal(o, Due(o)) \in Int
          /\ NoNegativePrice => f[o] >= 0 /\ LineTotal(o, Due(o)) <= f[o]
        BY <1>4
    <2>2. h[o] = IF status[o] # "done" THEN LineTotal(o, Due(o)) ELSE 0
        OBVIOUS
    <2> HIDE DEF f, h
    <2> QED BY <2>1, <2>2
<1>7. Open(orders) = orders /\ (\A o \in orders : Exact(o)) => \A o \in orders : f[o] = h[o]
    <2> SUFFICES ASSUME Open(orders) = orders, \A o \in orders : Exact(o), NEW o \in orders
                 PROVE  f[o] = h[o]
        OBVIOUS
    <2>1. status[o] # "done" /\ Exact(o)
        <3>1. o \in Open(orders)
            OBVIOUS
        <3> QED BY <3>1 DEF Open
    <2>2. h[o] = LineTotal(o, Due(o))
        BY <2>1
    <2> HIDE DEF f, h
    <2> QED BY <1>4, <2>1, <2>2
<1> HIDE DEF f, g, h
<1>8. SumFunctionOnSet(g, Open(orders)) = SumFunctionOnSet(h, orders)
    BY ONLY <1>3, <1>5, SumPart
<1>9. NoNegativePrice => SumFunctionOnSet(h, orders) <= SumFunctionOnSet(f, orders)
    BY ONLY <1>3, <1>6, SumMonotone
<1>10. (\A o \in orders : f[o] = h[o]) =>
           SumFunctionOnSet(f, orders) = SumFunctionOnSet(h, orders)
    BY ONLY <1>3, <1>6, SumEqual
<1>11. SumFunctionOnSet(h, orders) \in Int /\ SumFunctionOnSet(f, orders) \in Int
    BY ONLY <1>3, <1>6, SumInt
<1>12. NoNegativePrice => SumFunctionOnSet(f, orders) >= SumFunctionOnSet(h, orders)
    BY <1>9, <1>11
<1> QED BY <1>2, <1>7, <1>8, <1>10, <1>12 DEF orders

(* The summary counts an order once for every row it is joined to. *)
LEMMA SummaryCoversTotals ==
    ASSUME OrdersInv, NEW kind \in SUBSET Orders, NEW s \in Partitions
    PROVE  LET orders == Reported(kind, s) IN
           /\ NoNegativePrice => Summary(kind, s).total >= Totals(kind, s).total
           /\ Summary(kind, s).order_count >= Totals(kind, s).order_count
           /\ (\A o \in orders : RowsJoined(o, s) = 1)
                 => Summary(kind, s).total = Totals(kind, s).total
<1> DEFINE orders == Reported(kind, s)
           rows == [o \in orders |->
                       RowsJoined(o, s) * (IF HasLines(o) THEN LineCount[o] ELSE 1)]
           values == [o \in orders |-> RowsJoined(o, s) * LineTotal(o, left[o])]
           f == [o \in orders |-> LineTotal(o, left[o])]
           one == [o \in orders |-> 1]
<1>1. orders \in SUBSET Orders /\ \A o \in orders : RowsJoined(o, s) > 0
    BY DEF Reported
<1>2. /\ Totals(kind, s).total = SumFunctionOnSet(f, orders)
      /\ Totals(kind, s).order_count = Cardinality(orders)
      /\ Summary(kind, s).total = SumFunctionOnSet(values, orders)
      /\ Summary(kind, s).order_count = SumFunctionOnSet(rows, orders)
    BY DEF Totals, Summary
<1> HIDE DEF orders
<1>3. IsFiniteSet(orders)
    BY <1>1, FS_Subset, OrderReportAssumption
<1>4. \A n \in Nat, i \in Nat : i > 0 => n <= i * n /\ i * n \in Nat /\ 1 * n = n
    <2> SUFFICES ASSUME NEW n \in Nat, NEW i \in Nat, i > 0
                 PROVE  n <= i * n /\ i * n \in Nat
        OBVIOUS
    <2>1. PICK k \in Nat : i = k + 1
        <3>1. i - 1 \in Nat /\ i = (i - 1) + 1
            OBVIOUS
        <3> QED BY <3>1
    <2>2. i * n = k * n + n /\ k * n \in Nat
        BY <2>1, TimesNat
    <2> QED BY <2>2
<1>5. ASSUME NEW o \in orders
      PROVE  /\ f[o] \in Int /\ values[o] \in Int /\ (NoNegativePrice => f[o] <= values[o])
             /\ one[o] \in Int /\ rows[o] \in Int /\ one[o] <= rows[o]
             /\ RowsJoined(o, s) = 1 => f[o] = values[o]
    <2>1. o \in Orders /\ RowsJoined(o, s) \in Nat /\ RowsJoined(o, s) > 0
        BY <1>1, JoinedTypes
    <2>2. LineTotal(o, left[o]) \in Int /\ (NoNegativePrice => LineTotal(o, left[o]) \in Nat)
        BY <2>1, DueTypes, LineTotals
    <2>3. LineCount[o] \in Nat /\ (HasLines(o) => LineCount[o] > 0)
        <3> DEFINE lines == {p \in Products : Ordered[o][p] > 0}
        <3>1. LineCount[o] = Cardinality(lines)
            BY <2>1 DEF LineCount
        <3>2. lines \in SUBSET Products /\ (HasLines(o) => lines # {})
            BY DEF HasLines
        <3> HIDE DEF lines
        <3>3. Cardinality(lines) \in Nat /\ (lines # {} => Cardinality(lines) # 0)
            BY <3>2, OrderReportAssumption, FS_Subset, FS_CardinalityType, FS_EmptySet
        <3> QED BY <3>1, <3>2, <3>3
    <2>4. PICK i \in Nat, n \in Int, t \in Nat :
                                 /\ i = RowsJoined(o, s) /\ n = LineTotal(o, left[o])
                                 /\ t = IF HasLines(o) THEN LineCount[o] ELSE 1
        BY <2>1, <2>2, <2>3
    <2>5. i > 0 /\ t > 0
        BY <2>1, <2>3, <2>4
    <2>6. f[o] = n /\ values[o] = i * n /\ one[o] = 1 /\ rows[o] = i * t
        BY <2>4
    <2> HIDE DEF f, values, one, rows
    <2>7. t <= i * t /\ i * t \in Nat /\ (n \in Nat => n <= i * n)
        BY <1>4, <2>5
    <2>8. i * n \in Int /\ 1 * n = n
        OBVIOUS
    <2>9. NoNegativePrice => n \in Nat
        BY <2>2, <2>4
    <2> QED BY <2>4, <2>5, <2>6, <2>7, <2>8, <2>9
<1>6. \A o \in orders : one[o] = 1
    OBVIOUS
<1> HIDE DEF f, values, one, rows
<1>7. NoNegativePrice => SumFunctionOnSet(f, orders) <= SumFunctionOnSet(values, orders)
    BY ONLY <1>3, <1>5, SumMonotone
<1>8. SumFunctionOnSet(one, orders) <= SumFunctionOnSet(rows, orders)
    BY ONLY <1>3, <1>5, SumMonotone
<1>9. SumFunctionOnSet(one, orders) = Cardinality(orders)
    BY ONLY <1>3, <1>6, SumOnes
<1>10. (\A o \in orders : RowsJoined(o, s) = 1) =>
           SumFunctionOnSet(f, orders) = SumFunctionOnSet(values, orders)
    <2> SUFFICES ASSUME \A o \in orders : RowsJoined(o, s) = 1
                 PROVE  SumFunctionOnSet(f, orders) = SumFunctionOnSet(values, orders)
        OBVIOUS
    <2>1. \A o \in orders : f[o] \in Int /\ f[o] = values[o]
        BY <1>5
    <2> QED BY ONLY <1>3, <2>1, SumEqual
<1>11. /\ SumFunctionOnSet(f, orders) \in Int /\ SumFunctionOnSet(values, orders) \in Int
       /\ SumFunctionOnSet(one, orders) \in Int /\ SumFunctionOnSet(rows, orders) \in Int
    <2>1. \A o \in orders : f[o] \in Int /\ values[o] \in Int /\ one[o] \in Int /\ rows[o] \in Int
        BY <1>5
    <2> QED BY ONLY <1>3, <2>1, SumInt
<1>12. /\ NoNegativePrice => SumFunctionOnSet(values, orders) >= SumFunctionOnSet(f, orders)
       /\ SumFunctionOnSet(rows, orders) >= Cardinality(orders)
    BY <1>7, <1>8, <1>9, <1>11
<1> QED BY <1>2, <1>10, <1>12 DEF orders

(* No order report understates what is still to be shipped or received, and  *)
(* they are exact when no two calls on an open order have overlapped; the    *)
(* dashboard's counts are those of the report (get_sales_totals,             *)
(* get_purchase_totals, the summaries, OrderStatusView).                     *)
THEOREM BacklogNeverUnderstated == Spec => []BacklogReported
<1>1. ASSUME AloneInv, NEW kind \in Kinds
      PROVE  /\ \A st \in Status \ {"cancelled"} :
                   OrderStatus(kind)[st] = Totals(kind, "all").breakdown[st]
             /\ Totals(kind, "all").order_count + OrderStatus(kind)["cancelled"]
                   = Cardinality(kind)
             /\ \A o \in Reported(kind, "all") :
                   \E s \in Partitions \ {"all"} : o \in Reported(kind, s)
             /\ \A s \in {Asked(q) : q \in Query} :
                   LET orders == Reported(kind, s)
                       totals == Totals(kind, s)
                       results == Summary(kind, s)
                       backlog == Backlog(Open(orders)) IN
                   /\ NoNegativePrice =>
                         totals.total >= backlog /\ results.total >= totals.total
                   /\ results.order_count >= totals.order_count
                   /\ orders \cap raced = {} /\ Open(orders) = orders
                         => totals.total = backlog
                   /\ (\A o \in orders : RowsJoined(o, s) = 1) => results.total = totals.total
    <2>1. OrdersInv /\ kind \in SUBSET Orders
        BY <1>1 DEF AloneInv, Kinds
    <2>2. \A o \in Reported(kind, "all") :
              \E s \in Partitions \ {"all"} : o \in Reported(kind, s)
        BY <2>1, JoinedSomewhere DEF Reported
    <2>3. ASSUME NEW s \in {Asked(q) : q \in Query}
          PROVE  LET orders == Reported(kind, s)
                     totals == Totals(kind, s)
                     results == Summary(kind, s)
                     backlog == Backlog(Open(orders)) IN
                 /\ NoNegativePrice => totals.total >= backlog /\ results.total >= totals.total
                 /\ results.order_count >= totals.order_count
                 /\ orders \cap raced = {} /\ Open(orders) = orders => totals.total = backlog
                 /\ (\A o \in orders : RowsJoined(o, s) = 1) => results.total = totals.total
        <3>1. s \in Partitions
            BY AskedScope
        <3>2. \A o \in Orders \ raced : Exact(o)
            BY <1>1 DEF AloneInv, Alone
        <3>3. Reported(kind, s) \cap raced = {} => \A o \in Reported(kind, s) : Exact(o)
            BY <2>1, <3>2 DEF Reported
        <3> QED BY <2>1, <3>1, <3>3, TotalsCoverBacklog, SummaryCoversTotals
    <2> QED BY <2>1, <2>2, <2>3, StatusesAgree
<1>2. AloneInv => BacklogReported
    BY <1>1 DEF BacklogReported
<1>3. Spec => []AloneInv
    BY InitAlone, StepAlone, PTL DEF Spec
<1> QED
    BY <1>2, <1>3, PTL
=============================================================================
