------------------------------ MODULE Reservation ------------------------------
(***************************************************************************)
(* ReservationService: creating, fulfilling, cancelling and expiring stock *)
(* reservations, by concurrent workers and the hourly expire_reservations  *)
(* task, over stock that direct movements also change.                     *)
(*                                                                         *)
(* Transactions are split where another session can come between: after a  *)
(* select_for_update, between two statements, before the commit.  A direct *)
(* movement is one Post of StockLedger, which module Stock implements; it  *)
(* needs the row locks of the records it touches.                          *)
(***************************************************************************)
EXTENDS StockLedger, FiniteSetsExt

CONSTANTS
    Reservations,  \* primary keys of StockReservation rows
    Lots, NoLot,   \* StockLot rows, and a null stock_lot
    LotProduct,    \* product of each lot
    LotAge,        \* received_date of each lot
    LotOpening,    \* quantity_remaining of each lot at the start
    LotTracked,    \* the products whose tracking_mode is not "none"
    Lifo,          \* the products whose ReservationRule says LIFO
    Workers,       \* sessions running one service call at a time
    Nobody,        \* no owner of a row lock
    Sweeper,       \* the expire_reservations task
    MaxDirect      \* bound: direct movements in one behaviour

ASSUME ReservationAssumption ==
    /\ NoLot \notin Lots
    /\ LotProduct \in [Lots -> Products]
    /\ LotAge \in [Lots -> Nat]
    /\ LotOpening \in [Lots -> Nat]
    /\ LotTracked \subseteq Products /\ Lifo \subseteq Products
    /\ Nobody \notin Workers /\ Sweeper \notin Workers /\ Sweeper # Nobody
    /\ MaxDirect \in Nat
    /\ StockRecord # {} /\ Reservations # {}
    /\ IsFiniteSet(Reservations)   \* a BigAutoField is 64 bits wide

VARIABLES
    res,        \* res[i]: the row of reservation i
    due,        \* the reservations whose expires_at has passed
    remaining,  \* remaining[lot]: StockLot.quantity_remaining
    issues,     \* issues[i]: issue movements whose reference is "Reservation #i"
    resLock, recLock, lotLock,   \* owners of the row locks
    pc, job,    \* each worker's next step and the call it is serving
    sweep,      \* the sweeper: its phase, the rows its UPDATE matched and hit
    direct      \* direct movements so far

reservationVars == <<quantity, inflow, outflow, res, due, remaining, issues,
                     resLock, recLock, lotLock, pc, job, sweep, direct>>

tables == <<quantity, inflow, outflow, res, remaining, issues>>

-----------------------------------------------------------------------------
Status == {"none", "pending", "confirmed", "fulfilled", "cancelled", "expired"}

(* _FULFILLABLE_STATUSES and _CANCELLABLE_STATUSES are the same two. *)
Active == {"pending", "confirmed"}
Closed == {"fulfilled", "cancelled", "expired"}

Row == [status : Status, at : StockRecord, qty : Nat, lot : Lots \cup {NoLot}]

Job == [res : Reservations, at : StockRecord, qty : Nat, auto : BOOLEAN,
        lot : Lots \cup {NoLot}]

Step == {"idle", "create.lock", "create.sum", "create.insert",
         "fulfil.lock", "fulfil.join", "fulfil.record", "fulfil.lot", "fulfil.commit",
         "cancel.lock", "cancel.commit"}

Creating == {"create.lock", "create.sum", "create.insert"}

TypeOK ==
    /\ LedgerTypeOK
    /\ res \in [Reservations -> Row]
    /\ due \subseteq Reservations
    /\ remaining \in [Lots -> Int]
    /\ issues \in [Reservations -> Nat]
    /\ resLock \in [Reservations -> Workers \cup {Nobody, Sweeper}]
    /\ recLock \in [StockRecord -> Workers \cup {Nobody}]
    /\ lotLock \in [Lots -> Workers \cup {Nobody}]
    /\ pc \in [Workers -> Step]
    /\ job \in [Workers -> Job]
    /\ sweep \in [on : BOOLEAN, todo : SUBSET Reservations, hits : SUBSET Reservations]
    /\ direct \in Nat

NoRow == [status |-> "none", at |-> CHOOSE rec \in StockRecord : TRUE, qty |-> 0, lot |-> NoLot]

NoJob == [res |-> CHOOSE i \in Reservations : TRUE, at |-> CHOOSE rec \in StockRecord : TRUE,
          qty |-> 0, auto |-> FALSE, lot |-> NoLot]

Init ==
    /\ LedgerInit
    /\ res = [i \in Reservations |-> NoRow]
    /\ due = {}
    /\ remaining = LotOpening
    /\ issues = [i \in Reservations |-> 0]
    /\ resLock = [i \in Reservations |-> Nobody]
    /\ recLock = [rec \in StockRecord |-> Nobody]
    /\ lotLock = [lot \in Lots |-> Nobody]
    /\ pc = [w \in Workers |-> "idle"]
    /\ job = [w \in Workers |-> NoJob]
    /\ sweep = [on |-> FALSE, todo |-> {}, hits |-> {}]
    /\ direct = 0

-----------------------------------------------------------------------------
(* Reads.                                                                    *)

IsActive(i) == res[i].status \in Active

HeldBy(rec) ==
    [i \in Reservations |-> IF IsActive(i) /\ res[i].at = rec THEN res[i].qty ELSE 0]

(* _sum_active_reservations *)
Reserved(rec) == SumFunctionOnSet(HeldBy(rec), Reservations)

(* get_available_quantity: never below zero, 0 when there is no row. *)
Available(rec) ==
    IF quantity[rec] > Reserved(rec) THEN quantity[rec] - Reserved(rec) ELSE 0

(* _auto_select_lot: the oldest (newest under LIFO) lot of the product with  *)
(* enough remaining; what other reservations hold of it is not looked at.    *)
LotCandidates(p, n) == {lot \in Lots : LotProduct[lot] = p /\ remaining[lot] >= n}

AutoSelectLot(p, n) ==
    {lot \in LotCandidates(p, n) :
        \A other \in LotCandidates(p, n) :
            IF p \in Lifo THEN LotAge[other] <= LotAge[lot] ELSE LotAge[lot] <= LotAge[other]}

(* Fulfilment goes through process_movement_with_lots when the reservation   *)
(* has a lot, and that ignores lots for products with tracking_mode "none".  *)
UsesLot(i) == res[i].lot # NoLot /\ res[i].at[1] \in LotTracked

-----------------------------------------------------------------------------
(* Locks.                                                                    *)

ReleaseAll(w) ==
    /\ resLock' = [i \in Reservations |-> IF resLock[i] = w THEN Nobody ELSE resLock[i]]
    /\ recLock' = [rec \in StockRecord |-> IF recLock[rec] = w THEN Nobody ELSE recLock[rec]]
    /\ lotLock' = [lot \in Lots |-> IF lotLock[lot] = w THEN Nobody ELSE lotLock[lot]]

Goto(w, step) == pc' = [pc EXCEPT ![w] = step]

(* The call ends; its transaction has committed what the action wrote. *)
Finish(w) ==
    /\ ReleaseAll(w)
    /\ Goto(w, "idle")
    /\ job' = [job EXCEPT ![w] = NoJob]
    /\ UNCHANGED <<due, sweep, direct>>

(* The call raises, or its worker dies: nothing it wrote survives. *)
Abandon(w) == Finish(w) /\ UNCHANGED tables

LockReservation(w, i) ==
    /\ resLock[i] = Nobody
    /\ resLock' = [resLock EXCEPT ![i] = w]
    /\ UNCHANGED <<recLock, lotLock, job, due, sweep, direct>> /\ UNCHANGED tables

LockRecord(w, rec) ==
    /\ recLock[rec] = Nobody
    /\ recLock' = [recLock EXCEPT ![rec] = w]
    /\ UNCHANGED <<resLock, lotLock, job, due, sweep, direct>> /\ UNCHANGED tables

(* A row the transaction holds already it locks again without waiting. *)
LockLot(w, lot) ==
    /\ lotLock[lot] \in {Nobody, w}
    /\ lotLock' = [lotLock EXCEPT ![lot] = w]
    /\ UNCHANGED <<resLock, recLock, job, due, sweep, direct>> /\ UNCHANGED tables

-----------------------------------------------------------------------------
(* create_reservation                                                        *)

(* A primary key no row and no open call has. *)
FreshKeys ==
    {i \in Reservations : res[i].status = "none"
                           /\ \A w \in Workers : pc[w] \in Creating => job[w].res # i}

(* stock_lot may be any lot, of another product even; auto_assign_lot is      *)
(* ignored when it is there.                                                  *)
BeginCreate(w) ==
    /\ pc[w] = "idle"
    /\ \E i \in FreshKeys, rec \in StockRecord, n \in Quantities, auto \in BOOLEAN,
          lot \in Lots \cup {NoLot} :
          /\ n > 0 /\ (auto => lot = NoLot)
          /\ TenantOf[rec[1]] = TenantOf[rec[2]]
          /\ job' = [job EXCEPT ![w] = [NoJob EXCEPT !.res = i, !.at = rec, !.qty = n,
                                                    !.auto = auto, !.lot = lot]]
    /\ Goto(w, "create.lock")
    /\ UNCHANGED <<resLock, recLock, lotLock, due, sweep, direct>> /\ UNCHANGED tables

(* Faulty: the stock record is read without its lock. *)
CreateUnlocked(w) ==
    /\ pc[w] = "create.lock"
    /\ Goto(w, "create.sum")
    /\ UNCHANGED <<resLock, recLock, lotLock, job, due, sweep, direct>> /\ UNCHANGED tables

(* _get_available_quantity_locked: first the row lock ... *)
CreateLock(w) ==
    /\ pc[w] = "create.lock"
    /\ LockRecord(w, job[w].at)
    /\ Goto(w, "create.sum")

(* ... then the sum over the reservations, the test, and the choice of a lot. *)
CreateSum(w) ==
    LET j == job[w]
        picks == IF j.auto /\ AutoSelectLot(j.at[1], j.qty) # {}
                 THEN AutoSelectLot(j.at[1], j.qty) ELSE {j.lot} IN
    /\ pc[w] = "create.sum"
    /\ Available(j.at) >= j.qty
    /\ \E lot \in picks : job' = [job EXCEPT ![w].lot = lot]
    /\ Goto(w, "create.insert")
    /\ UNCHANGED <<resLock, recLock, lotLock, due, sweep, direct>> /\ UNCHANGED tables

CreateRefused(w) ==
    /\ pc[w] = "create.sum"
    /\ Available(job[w].at) < job[w].qty
    /\ Abandon(w)

CreateInsert(w) ==
    LET j == job[w] IN
    /\ pc[w] = "create.insert"
    /\ res' = [res EXCEPT ![j.res] =
                  [status |-> "pending", at |-> j.at, qty |-> j.qty, lot |-> j.lot]]
    /\ Finish(w)
    /\ UNCHANGED <<quantity, inflow, outflow, remaining, issues>>

-----------------------------------------------------------------------------
(* fulfill_reservation                                                       *)

(* The view fetched the row and its status was fulfillable then. *)
BeginFulfil(w) ==
    /\ pc[w] = "idle"
    /\ \E i \in Reservations :
          /\ IsActive(i)
          /\ job' = [job EXCEPT ![w] = [NoJob EXCEPT !.res = i]]
    /\ Goto(w, "fulfil.lock")
    /\ UNCHANGED <<resLock, recLock, lotLock, due, sweep, direct>> /\ UNCHANGED tables

AfterLock(i) == IF res[i].lot = NoLot THEN "fulfil.record" ELSE "fulfil.join"

(* Faulty: the status is not read again once the row is locked. *)
FulfilLockStale(w) ==
    /\ pc[w] = "fulfil.lock"
    /\ LockReservation(w, job[w].res)
    /\ Goto(w, AfterLock(job[w].res))

(* The row is locked and its status read again. *)
FulfilLock(w) ==
    /\ pc[w] = "fulfil.lock"
    /\ IsActive(job[w].res)
    /\ LockReservation(w, job[w].res)
    /\ Goto(w, AfterLock(job[w].res))

(* FOR UPDATE locks what select_related joins too: the lot of the row. *)
FulfilJoin(w) ==
    /\ pc[w] = "fulfil.join"
    /\ LockLot(w, res[job[w].res].lot)
    /\ Goto(w, "fulfil.record")

(* ... or the database refuses the statement: PostgreSQL locks no rows on the *)
(* nullable side of an outer join, and stock_lot is nullable.                 *)
FulfilUnsupported(w) == pc[w] = "fulfil.lock" /\ Abandon(w)

FulfilConflict(w) ==
    /\ pc[w] = "fulfil.lock"
    /\ resLock[job[w].res] = Nobody
    /\ ~IsActive(job[w].res)
    /\ Abandon(w)

(* Faulty: trusts that reserved stock is there. *)
FulfilRecordUnchecked(w) ==
    LET i == job[w].res IN
    /\ pc[w] = "fulfil.record"
    /\ LockRecord(w, res[i].at)
    /\ Goto(w, IF UsesLot(i) THEN "fulfil.lot" ELSE "fulfil.commit")

(* _get_record_for_decrement on the reserved record. *)
FulfilRecord(w) ==
    LET i == job[w].res IN
    /\ pc[w] = "fulfil.record"
    /\ quantity[res[i].at] >= res[i].qty
    /\ LockRecord(w, res[i].at)
    /\ Goto(w, IF UsesLot(i) THEN "fulfil.lot" ELSE "fulfil.commit")

FulfilNoStock(w) ==
    LET i == job[w].res IN
    /\ pc[w] = "fulfil.record"
    /\ recLock[res[i].at] = Nobody
    /\ quantity[res[i].at] < res[i].qty
    /\ Abandon(w)

(* Faulty: trusts that the lot chosen at creation still holds enough. *)
FulfilLotUnchecked(w) ==
    /\ pc[w] = "fulfil.lot"
    /\ LockLot(w, res[job[w].res].lot)
    /\ Goto(w, "fulfil.commit")

(* _allocate_manual on the reserved lot, of the reserved product.            *)
LotSupplies(i) ==
    LotProduct[res[i].lot] = res[i].at[1] /\ remaining[res[i].lot] >= res[i].qty

FulfilLot(w) ==
    LET i == job[w].res IN
    /\ pc[w] = "fulfil.lot"
    /\ LotSupplies(i)
    /\ LockLot(w, res[i].lot)
    /\ Goto(w, "fulfil.commit")

FulfilNoLot(w) ==
    LET i == job[w].res IN
    /\ pc[w] = "fulfil.lot"
    /\ lotLock[res[i].lot] \in {Nobody, w}
    /\ ~LotSupplies(i)
    /\ Abandon(w)

(* The issue, the lot and the status become visible together. *)
FulfilCommit(w) ==
    LET i == job[w].res
        row == res[i] IN
    /\ pc[w] = "fulfil.commit"
    /\ quantity' = [quantity EXCEPT ![row.at] = @ - row.qty]
    /\ outflow' = [outflow EXCEPT ![row.at] = @ + row.qty]
    /\ remaining' = IF UsesLot(i) THEN [remaining EXCEPT ![row.lot] = @ - row.qty]
                                  ELSE remaining
    /\ issues' = [issues EXCEPT ![i] = @ + 1]
    /\ res' = [res EXCEPT ![i].status = "fulfilled"]
    /\ Finish(w)
    /\ UNCHANGED inflow

-----------------------------------------------------------------------------
(* cancel_reservation                                                        *)

BeginCancel(w) ==
    /\ pc[w] = "idle"
    /\ \E i \in Reservations :
          /\ IsActive(i)
          /\ job' = [job EXCEPT ![w] = [NoJob EXCEPT !.res = i]]
    /\ Goto(w, "cancel.lock")
    /\ UNCHANGED <<resLock, recLock, lotLock, due, sweep, direct>> /\ UNCHANGED tables

CancelLock(w) ==
    /\ pc[w] = "cancel.lock"
    /\ IsActive(job[w].res)
    /\ LockReservation(w, job[w].res)
    /\ Goto(w, "cancel.commit")

CancelConflict(w) ==
    /\ pc[w] = "cancel.lock"
    /\ resLock[job[w].res] = Nobody
    /\ ~IsActive(job[w].res)
    /\ Abandon(w)

CancelCommit(w) ==
    /\ pc[w] = "cancel.commit"
    /\ res' = [res EXCEPT ![job[w].res].status = "cancelled"]
    /\ Finish(w)
    /\ UNCHANGED <<quantity, inflow, outflow, remaining, issues>>

(* A worker lost in the middle of a call. *)
Crash(w) == pc[w] # "idle" /\ Abandon(w)

-----------------------------------------------------------------------------
(* expire_stale_reservations: one UPDATE, run by the hourly task.            *)

(* expires_at passes. *)
FallDue(i) ==
    /\ res[i].status # "none" /\ i \notin due
    /\ due' = due \cup {i}
    /\ UNCHANGED <<resLock, recLock, lotLock, pc, job, sweep, direct>> /\ UNCHANGED tables

(* Faulty: expires confirmed reservations only. *)
SweepStartConfirmed ==
    /\ ~sweep.on
    /\ sweep' = [on |-> TRUE, todo |-> {i \in due : res[i].status = "confirmed"}, hits |-> {}]
    /\ UNCHANGED <<due, resLock, recLock, lotLock, pc, job, direct>> /\ UNCHANGED tables

(* The UPDATE matches rows against the snapshot it starts with ... *)
SweepStart ==
    /\ ~sweep.on
    /\ sweep' = [on |-> TRUE, todo |-> {i \in due : IsActive(i)}, hits |-> {}]
    /\ UNCHANGED <<due, resLock, recLock, lotLock, pc, job, direct>> /\ UNCHANGED tables

(* Faulty: a loop over the rows read at the start, saving each. *)
SweepRowStale(i) ==
    /\ i \in sweep.todo
    /\ resLock[i] = Nobody
    /\ resLock' = [resLock EXCEPT ![i] = Sweeper]
    /\ sweep' = [sweep EXCEPT !.todo = @ \ {i}, !.hits = @ \cup {i}]
    /\ UNCHANGED <<due, recLock, lotLock, pc, job, direct>> /\ UNCHANGED tables

(* ... waits for each row, and tests it again once it has the lock. *)
SweepRow(i) ==
    /\ i \in sweep.todo
    /\ resLock[i] = Nobody
    /\ IF IsActive(i)
       THEN /\ resLock' = [resLock EXCEPT ![i] = Sweeper]
            /\ sweep' = [sweep EXCEPT !.todo = @ \ {i}, !.hits = @ \cup {i}]
       ELSE /\ sweep' = [sweep EXCEPT !.todo = @ \ {i}]
            /\ UNCHANGED resLock
    /\ UNCHANGED <<due, recLock, lotLock, pc, job, direct>> /\ UNCHANGED tables

SweepEnds ==
    /\ sweep' = [on |-> FALSE, todo |-> {}, hits |-> {}]
    /\ resLock' = [i \in Reservations |-> IF resLock[i] = Sweeper THEN Nobody ELSE resLock[i]]
    /\ UNCHANGED <<due, recLock, lotLock, pc, job, direct>>

SweepCommit ==
    /\ sweep.on /\ sweep.todo = {}
    /\ res' = [i \in Reservations |->
                  IF i \in sweep.hits THEN [res[i] EXCEPT !.status = "expired"] ELSE res[i]]
    /\ SweepEnds
    /\ UNCHANGED <<quantity, inflow, outflow, remaining, issues>>

(* The task is lost with rows in hand; without any, a loss and the end of    *)
(* the sweep are the same step.                                              *)
SweepCrash ==
    /\ sweep.on /\ sweep.todo \cup sweep.hits # {}
    /\ SweepEnds
    /\ UNCHANGED tables

-----------------------------------------------------------------------------
(* A movement made without a reservation: an API movement, a goods receipt,  *)
(* a dispatch, a count adjustment.  It does not look at reservations.        *)

(* How many units of movement m each lot gives: to an issue or an adjustment  *)
(* that takes units, all of them.                                             *)
Given(m) ==
    IF HasSource(m) /\ m.type \in {"issue", "adjustment"}
    THEN {f \in [Lots -> 0..m.quantity] : SumFunctionOnSet(f, Lots) = m.quantity}
    ELSE {[lot \in Lots |-> 0]}

(* How many each takes in: all go to the lot a receipt or adjustment names. *)
Kept(m) ==
    {[lot \in Lots |-> 0]} \cup
    IF HasDest(m) /\ m.type \in {"receive", "adjustment"}
    THEN {[lot \in Lots |-> IF lot = named THEN m.quantity ELSE 0] : named \in Lots}
    ELSE {}

(* process_movement_with_lots, whoever calls it: the lots that hold reserved  *)
(* units are lots like the others.                                            *)
LotsMove(m) ==
    /\ m.product \in LotTracked
    /\ \E given \in Given(m), kept \in Kept(m) :
          /\ \A lot \in Lots :
                /\ given[lot] <= remaining[lot]
                /\ given[lot] + kept[lot] > 0 =>
                       LotProduct[lot] = m.product /\ lotLock[lot] = Nobody
          /\ remaining' = [lot \in Lots |-> (remaining[lot] - given[lot]) + kept[lot]]

DirectMovement ==
    /\ direct < MaxDirect
    /\ direct' = direct + 1
    /\ \E m \in Movement :
          /\ \A rec \in Touched(m) : recLock[rec] = Nobody
          /\ Post(m)
          /\ remaining' = remaining \/ LotsMove(m)
    /\ UNCHANGED <<res, due, issues, resLock, recLock, lotLock, pc, job, sweep>>

-----------------------------------------------------------------------------
CreateStep(w) == CreateLock(w) \/ CreateSum(w) \/ CreateInsert(w) \/ CreateRefused(w)

FulfilStep(w) == \/ FulfilLock(w) \/ FulfilUnsupported(w) \/ FulfilConflict(w) \/ FulfilJoin(w)
                 \/ FulfilRecord(w) \/ FulfilNoStock(w)
                 \/ FulfilLot(w) \/ FulfilNoLot(w) \/ FulfilCommit(w)

CancelStep(w) == CancelLock(w) \/ CancelConflict(w) \/ CancelCommit(w)

Sweep == SweepStart \/ (\E i \in Reservations : SweepRow(i)) \/ SweepCommit

Next ==
    \/ \E w \in Workers : \/ BeginCreate(w) \/ BeginFulfil(w) \/ BeginCancel(w)
                          \/ CreateStep(w) \/ FulfilStep(w) \/ CancelStep(w) \/ Crash(w)
    \/ \E i \in Reservations : FallDue(i)
    \/ Sweep \/ SweepCrash
    \/ DirectMovement

Spec == Init /\ [][Next]_reservationVars

(* Celery beat starts the task every hour, and its crashes do not go on for  *)
(* ever; a worker runs the call it has accepted; PostgreSQL serves the       *)
(* waiters of a row lock in turn, hence the strong fairness.                 *)
FairSpec ==
    /\ Spec
    /\ WF_reservationVars(SweepStart) /\ WF_reservationVars(SweepCommit)
    /\ \A i \in Reservations : SF_reservationVars(SweepRow(i))
    /\ <>[][~SweepCrash]_reservationVars
    /\ \A w \in Workers : SF_reservationVars(CreateStep(w) \/ FulfilStep(w) \/ CancelStep(w))

-----------------------------------------------------------------------------
(* Properties.                                                               *)

(* Neither a record nor a lot is overdrawn, whichever fulfilments and direct *)
(* movements race for it.                                                    *)
NothingOverdrawn == NonNegativeStock /\ \A lot \in Lots : remaining[lot] >= 0

(* A reservation issues stock once if it ends fulfilled and never otherwise, *)
(* although fulfil, cancel and the sweep test its status on stale reads.     *)
IssuedIffFulfilled ==
    \A i \in Reservations : issues[i] = IF res[i].status = "fulfilled" THEN 1 ELSE 0

(* The lifecycle of StockReservation's docstring: a fulfilled, cancelled or  *)
(* expired reservation never changes again.                                  *)
ClosedIsFinal ==
    [][\A i \in Reservations : res[i].status \in Closed => res'[i] = res[i]]_reservationVars

(* "Prevents over-selling by earmarking inventory": the stock active         *)
(* reservations hold is in the record they hold it in.                       *)
HeldStockIsThere == \A rec \in StockRecord : Reserved(rec) <= quantity[rec]

FulfilledFrom(rec) ==
    [i \in Reservations |-> IF res[i].status = "fulfilled" /\ res[i].at = rec THEN res[i].qty ELSE 0]

(* What has left a record by movements that fulfil no reservation. *)
TakenDirectly(rec) == outflow[rec] - SumFunctionOnSet(FulfilledFrom(rec), Reservations)

(* What is missing of the stock active reservations hold is no more than     *)
(* direct movements have taken from the record: creating, fulfilling,        *)
(* cancelling and expiring, however they interleave, never promise a unit    *)
(* twice, and with no direct movement every held unit is there.              *)
ShortByDirectOnly == \A rec \in StockRecord : Reserved(rec) <= quantity[rec] + TakenDirectly(rec)

(* "expires_at enables automatic expiry": a reservation past it is closed.   *)
DueReservationsClose ==
    \A i \in Reservations : i \in due /\ IsActive(i) ~> ~IsActive(i)

(* The inductive invariant.  A worker past its lock holds it, and what it    *)
(* tested under the lock still holds; so does the sweeper.                   *)
WorkerInv(w) ==
    LET i == job[w].res IN
    /\ pc[w] \in Creating => res[i].status = "none"
    /\ pc[w] \in {"fulfil.join", "fulfil.record", "fulfil.lot", "fulfil.commit", "cancel.commit"} =>
           resLock[i] = w /\ IsActive(i)
    /\ pc[w] = "fulfil.join" => res[i].lot # NoLot
    /\ pc[w] \in {"fulfil.lot", "fulfil.commit"} =>
           recLock[res[i].at] = w /\ quantity[res[i].at] >= res[i].qty
    /\ pc[w] = "fulfil.lot" => UsesLot(i)
    /\ pc[w] = "fulfil.commit" /\ UsesLot(i) =>
           lotLock[res[i].lot] = w /\ remaining[res[i].lot] >= res[i].qty

KeysDistinct ==
    \A v, w \in Workers :
        v # w /\ pc[v] \in Creating /\ pc[w] \in Creating => job[v].res # job[w].res

SweepInv == \A i \in sweep.hits : resLock[i] = Sweeper /\ IsActive(i)

ReservationInv ==
    /\ TypeOK
    /\ NothingOverdrawn /\ LedgerBalances
    /\ IssuedIffFulfilled
    /\ \A w \in Workers : WorkerInv(w)
    /\ KeysDistinct
    /\ SweepInv

(* What makes ShortByDirectOnly inductive: the record a create has summed is *)
(* its own until it inserts, so the units it found free still are.           *)
CreatorInv(w) ==
    LET j == job[w] IN
    /\ pc[w] \in Creating => j.qty > 0
    /\ pc[w] \in {"create.sum", "create.insert"} => recLock[j.at] = w
    /\ pc[w] = "create.insert" => Reserved(j.at) + j.qty <= quantity[j.at]

PromiseInv ==
    /\ ShortByDirectOnly
    /\ \A rec \in StockRecord : TakenDirectly(rec) >= 0
    /\ \A w \in Workers : CreatorInv(w)
=============================================================================
