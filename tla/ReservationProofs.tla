--------------------------- MODULE ReservationProofs ---------------------------
(***************************************************************************)
(* Proofs about Reservation, for any number of reservations, workers, lots *)
(* and records: the inductive invariant ReservationInv, that a reservation *)
(* issues its stock exactly once, that a closed one never changes, that    *)
(* promises are covered, that the ledger is implemented and that no report *)
(* hides a shortage.                                                       *)
(*                                                                         *)
(* The argument is rely/guarantee: WorkerInv(v) speaks of rows v has       *)
(* locked (OtherWorkers), and every step of another session leaves alone   *)
(* the rows it has not locked itself.                                      *)
(***************************************************************************)
EXTENDS ReservationReports, MovementProofs

USE MovementAssumption, OpeningAssumption, ReservationAssumption

(* Posting a movement keeps every record non-negative and equal to the log. *)
LEMMA PostInv ==
    ASSUME LedgerInv, NEW m \in Movement, Post(m)
    PROVE  LedgerInv'
<1>1. /\ m \in Movement
      /\ HasSource(m) => quantity[Source(m)] >= m.quantity
      /\ quantity' = [rec \in StockRecord |->
                         quantity[rec] - Outgoing(m, rec) + Incoming(m, rec)]
      /\ inflow' = [rec \in StockRecord |-> inflow[rec] + Incoming(m, rec)]
      /\ outflow' = [rec \in StockRecord |-> outflow[rec] + Outgoing(m, rec)]
    BY DEF Post
<1>2. /\ quantity \in [StockRecord -> Int]
      /\ inflow \in [StockRecord -> Nat] /\ outflow \in [StockRecord -> Nat]
      /\ \A rec \in StockRecord : quantity[rec] >= 0 /\ quantity[rec] = inflow[rec] - outflow[rec]
    BY DEF LedgerInv, LedgerTypeOK, NonNegativeStock, LedgerBalances
<1>3. /\ quantity' \in [StockRecord -> Int]
      /\ inflow' \in [StockRecord -> Nat] /\ outflow' \in [StockRecord -> Nat]
      /\ \A rec \in StockRecord :
            quantity'[rec] >= 0 /\ quantity'[rec] = inflow'[rec] - outflow'[rec]
    BY ONLY <1>1, <1>2, MovementPosts
<1> QED
    BY <1>3 DEF LedgerInv, LedgerTypeOK, NonNegativeStock, LedgerBalances

LEMMA LedgerInitInv == LedgerInit => LedgerInv
BY DEF LedgerInit, LedgerInv, LedgerTypeOK, NonNegativeStock, LedgerBalances

LEMMA Defaults == NoJob \in Job /\ NoRow \in Row
BY DEF NoJob, Job, NoRow, Row, Status

-----------------------------------------------------------------------------
(* Type correctness, by kinds of step.                                       *)

(* A step that moves w on and changes no table, lock or sweep. *)
LocalStep(w) ==
    /\ \E j \in Job : job' = [job EXCEPT ![w] = j]
    /\ \E step \in Step : Goto(w, step)
    /\ UNCHANGED <<resLock, recLock, lotLock, due, sweep, direct>> /\ UNCHANGED tables

LEMMA LocalSteps ==
    ASSUME TypeOK, NEW w \in Workers,
           BeginCreate(w) \/ BeginFulfil(w) \/ BeginCancel(w) \/ CreateSum(w)
    PROVE  LocalStep(w)
<1>1. CASE BeginCreate(w)
    <2>1. PICK i \in FreshKeys, rec \in StockRecord, n \in Quantities, auto \in BOOLEAN,
              lot \in Lots \cup {NoLot} :
              /\ n > 0 /\ (auto => lot = NoLot)
              /\ TenantOf[rec[1]] = TenantOf[rec[2]]
              /\ job' = [job EXCEPT ![w] = [NoJob EXCEPT !.res = i, !.at = rec, !.qty = n,
                                                        !.auto = auto, !.lot = lot]]
        BY <1>1, ZenonT(60) DEF BeginCreate
    <2>2. [NoJob EXCEPT !.res = i, !.at = rec, !.qty = n,
                                                        !.auto = auto, !.lot = lot] \in Job
        BY Defaults DEF Job, FreshKeys
    <2> QED
        BY <1>1, <2>1, <2>2 DEF BeginCreate, LocalStep, Step
<1>2. CASE BeginFulfil(w)
    <2>1. PICK i \in Reservations : job' = [job EXCEPT ![w] = [NoJob EXCEPT !.res = i]]
        BY <1>2 DEF BeginFulfil
    <2>2. [NoJob EXCEPT !.res = i] \in Job
        BY Defaults DEF Job
    <2> QED
        BY <1>2, <2>1, <2>2 DEF BeginFulfil, LocalStep, Step
<1>3. CASE BeginCancel(w)
    <2>1. PICK i \in Reservations : job' = [job EXCEPT ![w] = [NoJob EXCEPT !.res = i]]
        BY <1>3 DEF BeginCancel
    <2>2. [NoJob EXCEPT !.res = i] \in Job
        BY Defaults DEF Job
    <2> QED
        BY <1>3, <2>1, <2>2 DEF BeginCancel, LocalStep, Step
<1>4. CASE CreateSum(w)
    <2>1. PICK lot \in Lots \cup {NoLot} : job' = [job EXCEPT ![w].lot = lot]
        BY <1>4 DEF CreateSum, AutoSelectLot, LotCandidates, TypeOK, Job
    <2>2. [job[w] EXCEPT !.lot = lot] \in Job
        BY DEF Job, TypeOK
    <2>3. job' = [job EXCEPT ![w] = [job[w] EXCEPT !.lot = lot]]
        BY <2>1 DEF TypeOK
    <2> QED
        BY <1>4, <2>2, <2>3 DEF CreateSum, LocalStep, Step
<1> QED
    BY <1>1, <1>2, <1>3, <1>4

(* A step that takes one more row lock for w. *)
LockStep(w) ==
    /\ \E step \in Step : Goto(w, step)
    /\ \/ \E i \in Reservations : LockReservation(w, i)
       \/ \E rec \in StockRecord : LockRecord(w, rec)
       \/ \E lot \in Lots : LockLot(w, lot)

LEMMA LockSteps ==
    ASSUME TypeOK, NEW w \in Workers,
           \/ CreateLock(w) \/ FulfilLock(w) \/ FulfilJoin(w) \/ FulfilRecord(w) \/ FulfilLot(w)
           \/ CancelLock(w),
           WorkerInv(w)
    PROVE  LockStep(w)
<1>1. job[w].res \in Reservations /\ job[w].at \in StockRecord
    BY DEF TypeOK, Job
<1>2. res[job[w].res].at \in StockRecord /\ res[job[w].res].lot \in Lots \cup {NoLot}
    BY <1>1 DEF TypeOK, Row
<1>3. CASE CreateLock(w)
    BY <1>1, <1>3 DEF CreateLock, LockStep, Step
<1>4. CASE FulfilLock(w)
    BY <1>1, <1>4 DEF FulfilLock, AfterLock, LockStep, Step
<1>8. CASE FulfilJoin(w)
    BY <1>1, <1>2, <1>8 DEF FulfilJoin, LockStep, Step, WorkerInv
<1>5. CASE FulfilRecord(w)
    BY <1>1, <1>2, <1>5 DEF FulfilRecord, LockStep, Step
<1>6. CASE FulfilLot(w)
    BY <1>1, <1>2, <1>6 DEF FulfilLot, LockStep, Step, WorkerInv, UsesLot
<1>7. CASE CancelLock(w)
    BY <1>1, <1>7 DEF CancelLock, LockStep, Step
<1> QED
    BY <1>3, <1>4, <1>5, <1>6, <1>7, <1>8

LEMMA AbandonSteps ==
    ASSUME NEW w \in Workers,
           \/ CreateRefused(w) \/ FulfilUnsupported(w) \/ FulfilConflict(w)
           \/ FulfilNoStock(w) \/ FulfilNoLot(w) \/ CancelConflict(w) \/ Crash(w)
    PROVE  Abandon(w)
BY DEF CreateRefused, FulfilUnsupported, FulfilConflict, FulfilNoStock, FulfilNoLot, CancelConflict, Crash

-----------------------------------------------------------------------------
(* What a worker relies on: nobody touches the rows it has locked, or the    *)
(* key it is about to insert.                                                *)

LEMMA OtherWorkers ==
    ASSUME ReservationInv, NEW v \in Workers,
           pc'[v] = pc[v], job'[v] = job[v],
           \A i \in Reservations : resLock[i] = v => resLock'[i] = v /\ res'[i] = res[i],
           \A rec \in StockRecord : recLock[rec] = v =>
                recLock'[rec] = v /\ quantity'[rec] = quantity[rec],
           \A lot \in Lots : lotLock[lot] = v =>
                lotLock'[lot] = v /\ remaining'[lot] = remaining[lot],
           pc[v] \in Creating => res'[job[v].res].status = "none"
    PROVE  WorkerInv(v)'
<1> DEFINE i == job[v].res
<1>1. WorkerInv(v) /\ i \in Reservations /\ res[i] \in Row
    BY DEF ReservationInv, TypeOK, Job
<1>2. res[i].at \in StockRecord /\ res[i].lot \in Lots \cup {NoLot}
    BY <1>1 DEF Row
<1>3. CASE pc[v] \in {"fulfil.join", "fulfil.record", "fulfil.lot", "fulfil.commit", "cancel.commit"}
    <2>1. resLock'[i] = v /\ res'[i] = res[i] /\ IsActive(i)
        BY <1>1, <1>3 DEF WorkerInv
    <2> QED
        BY <1>1, <1>2, <1>3, <2>1 DEF WorkerInv, IsActive, UsesLot, Creating
<1>4. CASE pc[v] \notin {"fulfil.join", "fulfil.record", "fulfil.lot", "fulfil.commit", "cancel.commit"}
    BY <1>1, <1>4 DEF WorkerInv
<1> QED
    BY <1>3, <1>4

(* The sweeper relies on the same. *)
LEMMA SweepKept ==
    ASSUME ReservationInv, UNCHANGED sweep,
           \A i \in Reservations : resLock[i] = Sweeper => resLock'[i] = Sweeper /\ res'[i] = res[i]
    PROVE  SweepInv'
BY DEF ReservationInv, TypeOK, SweepInv, IsActive

LEMMA KeysKept ==
    ASSUME ReservationInv, NEW w \in Workers,
           \A v \in Workers \ {w} : pc'[v] = pc[v] /\ job'[v] = job[v],
           pc'[w] \in Creating => pc[w] \in Creating /\ job'[w].res = job[w].res
    PROVE  KeysDistinct'
BY DEF ReservationInv, KeysDistinct

LEMMA LocalInv ==
    ASSUME ReservationInv, NEW w \in Workers,
           BeginCreate(w) \/ BeginFulfil(w) \/ BeginCancel(w) \/ CreateSum(w)
    PROVE  ReservationInv'
<1>1. LocalStep(w)
    BY LocalSteps DEF ReservationInv
<1>2. TypeOK'
    BY <1>1 DEF LocalStep, ReservationInv, TypeOK, LedgerTypeOK, Goto, tables
<1>3. NothingOverdrawn' /\ LedgerBalances' /\ IssuedIffFulfilled'
    BY <1>1 DEF LocalStep, ReservationInv, NothingOverdrawn, NonNegativeStock, LedgerBalances,
                IssuedIffFulfilled, tables
<1>4. \A v \in Workers \ {w} : pc'[v] = pc[v] /\ job'[v] = job[v]
    BY <1>1 DEF LocalStep, Goto, ReservationInv, TypeOK
<1>5. ASSUME NEW v \in Workers, v # w PROVE WorkerInv(v)'
    <2>1. pc[v] \in Creating => res'[job[v].res].status = "none"
        BY <1>1 DEF LocalStep, ReservationInv, WorkerInv, tables
    <2> QED
        BY <1>1, <1>4, <1>5, <2>1, OtherWorkers DEF LocalStep, tables
<1>6. WorkerInv(w)' /\ KeysDistinct'
    <2>1. CASE BeginCreate(w)
        <3>1. PICK i \in FreshKeys, rec \in StockRecord, n \in Quantities, auto \in BOOLEAN,
              lot \in Lots \cup {NoLot} :
                /\ n > 0 /\ (auto => lot = NoLot)
                /\ TenantOf[rec[1]] = TenantOf[rec[2]]
                /\ job' = [job EXCEPT ![w] = [NoJob EXCEPT !.res = i, !.at = rec, !.qty = n,
                                                        !.auto = auto, !.lot = lot]]
            BY <2>1, ZenonT(60) DEF BeginCreate
        <3>2. pc'[w] = "create.lock" /\ job'[w].res = i
            BY <2>1, <3>1, Defaults DEF BeginCreate, Goto, ReservationInv, TypeOK, Job
        <3>3. WorkerInv(w)'
            BY <1>1, <3>1, <3>2 DEF WorkerInv, Creating, FreshKeys, LocalStep, tables
        <3>4. KeysDistinct'
            BY <1>4, <3>1, <3>2 DEF ReservationInv, KeysDistinct, FreshKeys
        <3> QED BY <3>3, <3>4
    <2>2. CASE BeginFulfil(w) \/ BeginCancel(w)
        <3>1. pc'[w] \in {"fulfil.lock", "cancel.lock"}
            BY <2>2 DEF BeginFulfil, BeginCancel, Goto, ReservationInv, TypeOK
        <3> QED
            BY <1>4, <3>1, KeysKept DEF WorkerInv, Creating
    <2>3. CASE CreateSum(w)
        <3>1. pc'[w] = "create.insert" /\ pc[w] = "create.sum" /\ UNCHANGED res
            BY <2>3 DEF CreateSum, Goto, ReservationInv, TypeOK, tables
        <3>2. job'[w].res = job[w].res
            BY <2>3 DEF CreateSum, ReservationInv, TypeOK, Job
        <3>3. res[job[w].res].status = "none"
            BY <3>1 DEF ReservationInv, WorkerInv, Creating
        <3>4. WorkerInv(w)'
            BY <3>1, <3>2, <3>3 DEF WorkerInv, Creating
        <3> QED
            BY <1>4, <3>1, <3>2, <3>4, KeysKept DEF Creating
    <2> QED
        BY <2>1, <2>2, <2>3
<1>7. SweepInv'
    BY <1>1, SweepKept DEF LocalStep, tables
<1> QED
    BY <1>2, <1>3, <1>5, <1>6, <1>7 DEF ReservationInv

LEMMA LockInv ==
    ASSUME ReservationInv, NEW w \in Workers,
           \/ CreateLock(w) \/ FulfilLock(w) \/ FulfilJoin(w) \/ FulfilRecord(w) \/ FulfilLot(w)
           \/ CancelLock(w)
    PROVE  ReservationInv'
<1> DEFINE i == job[w].res
<1>0. WorkerInv(w) /\ TypeOK /\ i \in Reservations /\ res[i] \in Row
    BY DEF ReservationInv, TypeOK, Job
<1>1. LockStep(w)
    BY <1>0, LockSteps
<1>2. TypeOK'
    BY <1>0, <1>1 DEF LockStep, LockReservation, LockRecord, LockLot, TypeOK, LedgerTypeOK,
                      Goto, tables
<1>3. UNCHANGED <<job, sweep>> /\ UNCHANGED tables
    BY <1>1 DEF LockStep, LockReservation, LockRecord, LockLot
<1>4. NothingOverdrawn' /\ LedgerBalances' /\ IssuedIffFulfilled'
    BY <1>3 DEF ReservationInv, NothingOverdrawn, NonNegativeStock, LedgerBalances,
                IssuedIffFulfilled, tables
<1>5. /\ \A k \in Reservations : resLock[k] # Nobody => resLock'[k] = resLock[k]
      /\ \A rec \in StockRecord : recLock[rec] # Nobody => recLock'[rec] = recLock[rec]
      /\ \A lot \in Lots : lotLock[lot] # Nobody => lotLock'[lot] = lotLock[lot]
    BY <1>0, <1>1 DEF LockStep, LockReservation, LockRecord, LockLot, TypeOK
<1>6. \A v \in Workers \ {w} : pc'[v] = pc[v]
    BY <1>0, <1>1 DEF LockStep, Goto, TypeOK
<1>7. ASSUME NEW v \in Workers, v # w PROVE WorkerInv(v)'
    <2>1. pc[v] \in Creating => res'[job[v].res].status = "none"
        BY <1>3 DEF ReservationInv, WorkerInv, tables
    <2> QED
        BY <1>3, <1>5, <1>6, <1>7, <2>1, OtherWorkers DEF tables
<1>8. WorkerInv(w)' /\ (pc'[w] \in Creating => pc[w] \in Creating)
    <2>1. CASE CreateLock(w)
        BY <1>0, <1>3, <2>1 DEF CreateLock, Goto, WorkerInv, Creating, TypeOK, tables
    <2>2. CASE FulfilLock(w)
        <3>1. resLock'[i] = w /\ IsActive(i)
            BY <1>0, <2>2 DEF FulfilLock, LockReservation, TypeOK
        <3>2. pc'[w] = IF res[i].lot = NoLot THEN "fulfil.record" ELSE "fulfil.join"
            BY <1>0, <2>2 DEF FulfilLock, AfterLock, Goto, TypeOK
        <3> QED
            BY <1>3, <3>1, <3>2 DEF WorkerInv, Creating, IsActive, tables
    <2>6. CASE FulfilJoin(w)
        <3>1. resLock[i] = w /\ IsActive(i) /\ UNCHANGED resLock
            BY <1>0, <2>6 DEF FulfilJoin, LockLot, WorkerInv
        <3>2. pc'[w] = "fulfil.record"
            BY <1>0, <2>6 DEF FulfilJoin, Goto, TypeOK
        <3> QED
            BY <1>3, <3>1, <3>2 DEF WorkerInv, Creating, IsActive, tables
    <2>3. CASE FulfilRecord(w)
        <3>1. res[i].at \in StockRecord /\ resLock[i] = w /\ IsActive(i)
            BY <1>0, <2>3 DEF FulfilRecord, WorkerInv, Row
        <3>2. recLock'[res[i].at] = w /\ quantity[res[i].at] >= res[i].qty /\ UNCHANGED resLock
            BY <1>0, <2>3, <3>1 DEF FulfilRecord, LockRecord, TypeOK
        <3>3. pc'[w] = IF UsesLot(i) THEN "fulfil.lot" ELSE "fulfil.commit"
            BY <1>0, <2>3 DEF FulfilRecord, Goto, TypeOK
        <3> QED
            BY <1>3, <3>1, <3>2, <3>3 DEF WorkerInv, Creating, IsActive, UsesLot, tables
    <2>4. CASE FulfilLot(w)
        <3>1. /\ res[i].lot \in Lots /\ UsesLot(i) /\ resLock[i] = w /\ IsActive(i)
              /\ recLock[res[i].at] = w /\ quantity[res[i].at] >= res[i].qty
            BY <1>0, <2>4 DEF FulfilLot, WorkerInv, Row, UsesLot
        <3>2. /\ lotLock'[res[i].lot] = w /\ remaining[res[i].lot] >= res[i].qty
              /\ UNCHANGED <<resLock, recLock>>
            BY <1>0, <2>4, <3>1 DEF FulfilLot, LotSupplies, LockLot, TypeOK
        <3>3. pc'[w] = "fulfil.commit"
            BY <1>0, <2>4 DEF FulfilLot, Goto, TypeOK
        <3> QED
            BY <1>3, <3>1, <3>2, <3>3 DEF WorkerInv, Creating, IsActive, UsesLot, tables
    <2>5. CASE CancelLock(w)
        BY <1>0, <1>3, <2>5 DEF CancelLock, LockReservation, Goto, WorkerInv, Creating, IsActive, TypeOK, tables
    <2> QED
        BY <2>1, <2>2, <2>3, <2>4, <2>5, <2>6
<1>9. KeysDistinct'
    BY <1>3, <1>6, <1>8, KeysKept
<1>10. SweepInv'
    BY <1>3, <1>5, SweepKept DEF tables
<1> QED
    BY <1>2, <1>4, <1>7, <1>8, <1>9, <1>10 DEF ReservationInv

-----------------------------------------------------------------------------
(* The end of a call.  It gives up the worker's locks and nobody else's.     *)

LEMMA FinishFrees ==
    ASSUME ReservationInv, NEW w \in Workers, Finish(w)
    PROVE  /\ UNCHANGED <<due, sweep, direct>>
           /\ pc'[w] = "idle" /\ job'[w] = NoJob
           /\ \A v \in Workers \ {w} : pc'[v] = pc[v] /\ job'[v] = job[v]
           /\ \A i \in Reservations : resLock[i] # w => resLock'[i] = resLock[i]
           /\ \A rec \in StockRecord : recLock[rec] # w => recLock'[rec] = recLock[rec]
           /\ \A lot \in Lots : lotLock[lot] # w => lotLock'[lot] = lotLock[lot]
           /\ pc' \in [Workers -> Step] /\ job' \in [Workers -> Job]
           /\ resLock' \in [Reservations -> Workers \cup {Nobody, Sweeper}]
           /\ recLock' \in [StockRecord -> Workers \cup {Nobody}]
           /\ lotLock' \in [Lots -> Workers \cup {Nobody}]
           /\ WorkerInv(w)' /\ KeysDistinct'
<1>1. UNCHANGED <<due, sweep, direct>> /\ ReleaseAll(w) /\ Goto(w, "idle")
    BY DEF Finish
<1>2. pc' = [pc EXCEPT ![w] = "idle"] /\ job' = [job EXCEPT ![w] = NoJob]
    BY DEF Finish, Goto
<1>3. /\ pc'[w] = "idle" /\ job'[w] = NoJob
      /\ \A v \in Workers \ {w} : pc'[v] = pc[v] /\ job'[v] = job[v]
      /\ pc' \in [Workers -> Step] /\ job' \in [Workers -> Job]
    BY <1>2, Defaults DEF ReservationInv, TypeOK, Step
<1>4. WorkerInv(w)' /\ KeysDistinct'
    BY <1>3, KeysKept DEF WorkerInv, Creating
<1> QED
    BY <1>1, <1>3, <1>4 DEF ReleaseAll, ReservationInv, TypeOK

LEMMA AbandonInv ==
    ASSUME ReservationInv, NEW w \in Workers, Abandon(w)
    PROVE  ReservationInv'
<1> USE FinishFrees DEF Abandon
<1>1. TypeOK'
    BY DEF ReservationInv, TypeOK, LedgerTypeOK, tables
<1>2. NothingOverdrawn' /\ LedgerBalances' /\ IssuedIffFulfilled'
    BY DEF ReservationInv, NothingOverdrawn, NonNegativeStock, LedgerBalances,
           IssuedIffFulfilled, tables
<1>3. ASSUME NEW v \in Workers, v # w PROVE WorkerInv(v)'
    <2>1. pc[v] \in Creating => res'[job[v].res].status = "none"
        BY DEF ReservationInv, WorkerInv, tables
    <2> QED
        BY <1>3, <2>1, OtherWorkers DEF tables
<1>4. SweepInv'
    BY SweepKept DEF tables
<1> QED
    BY <1>1, <1>2, <1>3, <1>4 DEF ReservationInv

(* A commit writes rows its worker holds, or the key only it is creating.    *)

LEMMA CreateInsertInv ==
    ASSUME ReservationInv, NEW w \in Workers, CreateInsert(w)
    PROVE  ReservationInv'
<1> DEFINE j == job[w]
           row == [status |-> "pending", at |-> j.at, qty |-> j.qty, lot |-> j.lot]
<1>1. /\ Finish(w) /\ res' = [res EXCEPT ![j.res] = row]
      /\ UNCHANGED <<quantity, inflow, outflow, remaining, issues>>
      /\ pc[w] = "create.insert"
    BY DEF CreateInsert
<1>2. j \in Job /\ j.res \in Reservations /\ row \in Row
    BY DEF ReservationInv, TypeOK, Job, Row, Status
<1>3. res[j.res].status = "none"
    BY <1>1 DEF ReservationInv, WorkerInv, Creating
<1>4. TypeOK'
    BY <1>1, <1>2, FinishFrees DEF ReservationInv, TypeOK, LedgerTypeOK
<1>5. NothingOverdrawn' /\ LedgerBalances'
    BY <1>1 DEF ReservationInv, NothingOverdrawn, NonNegativeStock, LedgerBalances
<1>6. IssuedIffFulfilled'
    BY <1>1, <1>2, <1>3 DEF ReservationInv, IssuedIffFulfilled, TypeOK
<1>7. ASSUME NEW v \in Workers, v # w PROVE WorkerInv(v)'
    <2>1. pc[v] \in Creating => res'[job[v].res].status = "none"
        <3>1. pc[v] \in Creating => job[v].res # j.res /\ res[job[v].res].status = "none"
            BY <1>1, <1>7 DEF ReservationInv, KeysDistinct, WorkerInv, Creating
        <3> QED BY <1>1, <3>1 DEF ReservationInv, TypeOK, Job
    <2>2. ASSUME NEW i \in Reservations, resLock[i] = v
          PROVE  resLock'[i] = v
        BY <1>1, <1>7, <2>2, FinishFrees
    <2>3. CASE pc[v] \in {"fulfil.join", "fulfil.record", "fulfil.lot", "fulfil.commit", "cancel.commit"}
        <3>1. job[v].res # j.res
            BY <1>3, <2>3 DEF ReservationInv, WorkerInv, IsActive, Active
        <3> DEFINE i == job[v].res
        <3>2. i \in Reservations /\ res'[i] = res[i] /\ resLock'[i] = v /\ WorkerInv(v) /\ IsActive(i)
            BY <1>1, <2>2, <2>3, <3>1 DEF ReservationInv, WorkerInv, TypeOK, Job
        <3>3. res[i].at \in StockRecord /\ res[i].lot \in Lots \cup {NoLot}
            BY <3>2 DEF ReservationInv, TypeOK, Row
        <3>4. /\ recLock[res[i].at] = v => recLock'[res[i].at] = v
              /\ UsesLot(i) /\ lotLock[res[i].lot] = v => lotLock'[res[i].lot] = v
            BY <1>1, <1>7, <3>3, FinishFrees DEF UsesLot
        <3>5. pc'[v] = pc[v] /\ job'[v] = job[v]
            BY <1>1, <1>7, FinishFrees
        <3> QED
            BY <1>1, <2>3, <3>2, <3>3, <3>4, <3>5 DEF WorkerInv, IsActive, UsesLot, Creating
    <2>4. CASE pc[v] \notin {"fulfil.join", "fulfil.record", "fulfil.lot", "fulfil.commit", "cancel.commit"}
        BY <1>1, <1>7, <2>1, <2>4, FinishFrees DEF WorkerInv
    <2> QED BY <2>3, <2>4
<1>8. SweepInv'
    <2>1. ASSUME NEW i \in sweep.hits PROVE resLock'[i] = Sweeper /\ res'[i] = res[i] /\ IsActive(i)
        <3>1. i \in Reservations /\ resLock[i] = Sweeper /\ IsActive(i)
            BY DEF ReservationInv, SweepInv, TypeOK
        <3>2. i # j.res
            BY <1>3, <3>1 DEF IsActive, Active
        <3> QED BY <1>1, <3>1, <3>2, FinishFrees DEF ReservationInv, TypeOK
    <2> QED
        BY <1>1, <2>1, FinishFrees DEF SweepInv, IsActive
<1> QED
    BY <1>1, <1>4, <1>5, <1>6, <1>7, <1>8, FinishFrees DEF ReservationInv

LEMMA FulfilCommitInv ==
    ASSUME ReservationInv, NEW w \in Workers, FulfilCommit(w)
    PROVE  ReservationInv'
<1> DEFINE i == job[w].res
           row == res[i]
<1>1. /\ Finish(w) /\ UNCHANGED inflow /\ pc[w] = "fulfil.commit"
      /\ quantity' = [quantity EXCEPT ![row.at] = @ - row.qty]
      /\ outflow' = [outflow EXCEPT ![row.at] = @ + row.qty]
      /\ remaining' = IF UsesLot(i) THEN [remaining EXCEPT ![row.lot] = @ - row.qty]
                                    ELSE remaining
      /\ issues' = [issues EXCEPT ![i] = @ + 1]
      /\ res' = [res EXCEPT ![i].status = "fulfilled"]
    BY DEF FulfilCommit
<1>2. i \in Reservations /\ row \in Row /\ row.at \in StockRecord /\ row.qty \in Nat
    BY DEF ReservationInv, TypeOK, Job, Row
<1>3. /\ resLock[i] = w /\ IsActive(i)
      /\ recLock[row.at] = w /\ quantity[row.at] >= row.qty
      /\ UsesLot(i) => lotLock[row.lot] = w /\ remaining[row.lot] >= row.qty
    BY <1>1 DEF ReservationInv, WorkerInv
<1>4. UsesLot(i) => row.lot \in Lots
    BY <1>2 DEF UsesLot, Row
<1>5. remaining' \in [Lots -> Int] /\ \A lot \in Lots : remaining'[lot] >= 0
    BY <1>1, <1>2, <1>3, <1>4, SMTT(30) DEF ReservationInv, NothingOverdrawn, TypeOK
<1>6. LedgerTypeOK'
    BY <1>1, <1>2 DEF ReservationInv, TypeOK, LedgerTypeOK
<1>7. TypeOK'
    <2>1. [row EXCEPT !.status = "fulfilled"] \in Row
        BY <1>2 DEF Row, Status
    <2> QED
        BY <1>1, <1>2, <1>5, <1>6, <2>1, FinishFrees DEF ReservationInv, TypeOK
<1>8. NothingOverdrawn' /\ LedgerBalances'
    <2>1. LedgerTypeOK /\ NonNegativeStock /\ LedgerBalances
        BY DEF ReservationInv, TypeOK, NothingOverdrawn
    <2> DEFINE rec == row.at
               n == row.qty
    <2>2. /\ quantity' = [quantity EXCEPT ![rec] = @ - n] /\ outflow' = [outflow EXCEPT ![rec] = @ + n]
          /\ inflow' = inflow /\ rec \in StockRecord /\ n \in Nat /\ quantity[rec] >= n
        BY <1>1, <1>2, <1>3
    <2> HIDE DEF row, i, rec, n
    <2>3. NonNegativeStock'
        BY <2>1, <2>2 DEF NonNegativeStock, LedgerTypeOK
    <2>4. LedgerBalances'
        BY <2>1, <2>2 DEF LedgerBalances, LedgerTypeOK
    <2> QED BY <1>5, <2>3, <2>4 DEF NothingOverdrawn
<1>9. IssuedIffFulfilled'
    BY <1>1, <1>2, <1>3 DEF ReservationInv, IssuedIffFulfilled, TypeOK, IsActive, Active, Row
<1>10. ASSUME NEW v \in Workers, v # w PROVE WorkerInv(v)'
    <2>1. pc[v] \in Creating => res'[job[v].res].status = "none"
        <3>1. pc[v] \in Creating => job[v].res # i /\ res[job[v].res].status = "none"
            BY <1>3 DEF ReservationInv, WorkerInv, IsActive, Active
        <3> QED BY <1>1, <3>1 DEF ReservationInv, TypeOK, Job
    <2>2. \A k \in Reservations : resLock[k] = v => resLock'[k] = v /\ res'[k] = res[k]
        BY <1>1, <1>2, <1>3, <1>10, FinishFrees DEF ReservationInv, TypeOK
    <2>3. \A rec \in StockRecord : recLock[rec] = v =>
                recLock'[rec] = v /\ quantity'[rec] = quantity[rec]
        BY <1>1, <1>2, <1>3, <1>10, FinishFrees DEF ReservationInv, TypeOK, LedgerTypeOK
    <2>4. \A lot \in Lots : lotLock[lot] = v =>
                lotLock'[lot] = v /\ remaining'[lot] = remaining[lot]
        BY <1>1, <1>2, <1>3, <1>4, <1>10, FinishFrees DEF ReservationInv, TypeOK
    <2> QED
        BY <1>1, <1>10, <2>1, <2>2, <2>3, <2>4, FinishFrees, OtherWorkers
<1>11. SweepInv'
    <2>1. \A k \in Reservations : resLock[k] = Sweeper => resLock'[k] = Sweeper /\ res'[k] = res[k]
        BY <1>1, <1>2, <1>3, FinishFrees DEF ReservationInv, TypeOK
    <2> QED
        BY <1>1, <2>1, FinishFrees, SweepKept
<1> QED
    BY <1>1, <1>7, <1>8, <1>9, <1>10, <1>11, FinishFrees DEF ReservationInv

LEMMA CancelCommitInv ==
    ASSUME ReservationInv, NEW w \in Workers, CancelCommit(w)
    PROVE  ReservationInv'
<1> DEFINE i == job[w].res
<1>1. /\ Finish(w) /\ res' = [res EXCEPT ![i].status = "cancelled"] /\ pc[w] = "cancel.commit"
      /\ UNCHANGED <<quantity, inflow, outflow, remaining, issues>>
    BY DEF CancelCommit
<1>2. i \in Reservations /\ res[i] \in Row
    BY DEF ReservationInv, TypeOK, Job
<1>3. resLock[i] = w /\ IsActive(i)
    BY <1>1 DEF ReservationInv, WorkerInv
<1>4. TypeOK'
    <2>1. [res[i] EXCEPT !.status = "cancelled"] \in Row
        BY <1>2 DEF Row, Status
    <2> QED
        BY <1>1, <1>2, <2>1, FinishFrees DEF ReservationInv, TypeOK, LedgerTypeOK
<1>5. NothingOverdrawn' /\ LedgerBalances'
    BY <1>1 DEF ReservationInv, NothingOverdrawn, NonNegativeStock, LedgerBalances
<1>6. IssuedIffFulfilled'
    BY <1>1, <1>2, <1>3 DEF ReservationInv, IssuedIffFulfilled, TypeOK, IsActive, Active, Row
<1>7. ASSUME NEW v \in Workers, v # w PROVE WorkerInv(v)'
    <2>1. pc[v] \in Creating => res'[job[v].res].status = "none"
        <3>1. pc[v] \in Creating => job[v].res # i /\ res[job[v].res].status = "none"
            BY <1>3 DEF ReservationInv, WorkerInv, IsActive, Active
        <3> QED BY <1>1, <3>1 DEF ReservationInv, TypeOK, Job
    <2>2. \A k \in Reservations : resLock[k] = v => resLock'[k] = v /\ res'[k] = res[k]
        BY <1>1, <1>2, <1>3, <1>7, FinishFrees DEF ReservationInv, TypeOK
    <2> QED
        BY <1>1, <1>7, <2>1, <2>2, FinishFrees, OtherWorkers
<1>8. SweepInv'
    <2>1. \A k \in Reservations : resLock[k] = Sweeper => resLock'[k] = Sweeper /\ res'[k] = res[k]
        BY <1>1, <1>2, <1>3, FinishFrees DEF ReservationInv, TypeOK
    <2> QED
        BY <1>1, <2>1, FinishFrees, SweepKept
<1> QED
    BY <1>1, <1>4, <1>5, <1>6, <1>7, <1>8, FinishFrees DEF ReservationInv

-----------------------------------------------------------------------------
(* The sweep, and movements made without a reservation.                      *)

LEMMA SweepStepInv ==
    ASSUME ReservationInv,
           \/ SweepStart \/ SweepCommit \/ SweepCrash
           \/ \E i \in Reservations : FallDue(i) \/ SweepRow(i)
    PROVE  ReservationInv'
<1> DEFINE Guarantee ==
      /\ res' \in [Reservations -> Row] /\ due' \subseteq Reservations
      /\ resLock' \in [Reservations -> Workers \cup {Nobody, Sweeper}]
      /\ sweep' \in [on : BOOLEAN, todo : SUBSET Reservations, hits : SUBSET Reservations]
      /\ \A i \in Reservations :
            resLock[i] \in Workers => resLock'[i] = resLock[i] /\ res'[i] = res[i]
      /\ \A i \in Reservations : res[i].status = "none" => res'[i] = res[i]
      /\ \A i \in Reservations : res[i].status = "fulfilled" <=> res'[i].status = "fulfilled"
      /\ SweepInv'
<1>1. UNCHANGED <<quantity, inflow, outflow, remaining, issues, recLock, lotLock, pc, job, direct>>
    BY DEF SweepStart, SweepCommit, SweepCrash, SweepEnds, FallDue, SweepRow, tables
<1>2. Guarantee
    <2>0. TypeOK /\ SweepInv
        BY DEF ReservationInv
    <2>1. CASE SweepStart
        BY <2>0, <2>1 DEF SweepStart, TypeOK, SweepInv, tables
    <2>2. CASE SweepCommit
        <3>1. \A i \in Reservations : res'[i] = IF i \in sweep.hits
                                                THEN [res[i] EXCEPT !.status = "expired"] ELSE res[i]
            BY <2>2 DEF SweepCommit
        <3>2. \A i \in sweep.hits : i \in Reservations /\ resLock[i] = Sweeper /\ IsActive(i)
            BY <2>0 DEF TypeOK, SweepInv
        <3>3. \A i \in Reservations : [res[i] EXCEPT !.status = "expired"] \in Row
            BY <2>0 DEF TypeOK, Row, Status
        <3>4. res' \in [Reservations -> Row]
            BY <2>0, <2>2, <3>3 DEF SweepCommit, TypeOK
        <3>5. \A i \in Reservations : resLock'[i] = IF resLock[i] = Sweeper THEN Nobody ELSE resLock[i]
            BY <2>2 DEF SweepCommit, SweepEnds
        <3>6. /\ due' = due /\ sweep' = [on |-> FALSE, todo |-> {}, hits |-> {}]
              /\ resLock' \in [Reservations -> Workers \cup {Nobody, Sweeper}]
            BY <2>0, <2>2 DEF SweepCommit, SweepEnds, TypeOK
        <3>7. ASSUME NEW i \in Reservations, i \in sweep.hits
              PROVE  res[i].status \in Active /\ res'[i].status = "expired"
            BY <2>0, <3>1, <3>2, <3>7, ZenonT(60) DEF IsActive, TypeOK, Row
        <3> QED
            BY <2>0, <3>1, <3>2, <3>4, <3>5, <3>6, <3>7 DEF SweepInv, TypeOK, Active
    <2>3. CASE SweepCrash
        BY <2>0, <2>3 DEF SweepCrash, SweepEnds, TypeOK, SweepInv, tables
    <2>4. CASE \E i \in Reservations : FallDue(i)
        BY <2>0, <2>4 DEF FallDue, TypeOK, SweepInv, IsActive, tables
    <2>5. ASSUME NEW i \in Reservations, SweepRow(i)
          PROVE  Guarantee
        <3>0. UNCHANGED <<res, due>> /\ resLock[i] = Nobody
            BY <2>5 DEF SweepRow, tables
        <3>1. CASE IsActive(i)
            <4>1. /\ resLock' = [resLock EXCEPT ![i] = Sweeper]
                  /\ sweep' = [sweep EXCEPT !.todo = @ \ {i}, !.hits = @ \cup {i}]
                BY <2>5, <3>1 DEF SweepRow
            <4>2. /\ sweep'.hits = sweep.hits \cup {i}
                  /\ sweep' \in [on : BOOLEAN, todo : SUBSET Reservations, hits : SUBSET Reservations]
                BY <2>0, <4>1 DEF TypeOK
            <4>3. SweepInv'
                BY <2>0, <3>0, <3>1, <4>1, <4>2 DEF TypeOK, SweepInv, IsActive
            <4>4. \A k \in Reservations : resLock[k] \in Workers => resLock'[k] = resLock[k]
                BY <2>0, <3>0, <4>1 DEF TypeOK
            <4> QED
                BY <2>0, <3>0, <4>1, <4>2, <4>3, <4>4 DEF TypeOK
        <3>2. CASE ~IsActive(i)
            <4>1. UNCHANGED resLock /\ sweep' = [sweep EXCEPT !.todo = @ \ {i}]
                BY <2>5, <3>2 DEF SweepRow
            <4> QED
                BY <2>0, <3>0, <4>1 DEF TypeOK, SweepInv, IsActive
        <3> QED BY <3>1, <3>2
    <2> QED
        BY <2>1, <2>2, <2>3, <2>4, <2>5
<1>3. TypeOK'
    BY <1>1, <1>2 DEF ReservationInv, TypeOK, LedgerTypeOK
<1>4. NothingOverdrawn' /\ LedgerBalances'
    BY <1>1 DEF ReservationInv, NothingOverdrawn, NonNegativeStock, LedgerBalances
<1>5. IssuedIffFulfilled'
    BY <1>1, <1>2 DEF ReservationInv, IssuedIffFulfilled
<1>6. ASSUME NEW v \in Workers PROVE WorkerInv(v)'
    <2>1. pc[v] \in Creating => res'[job[v].res].status = "none"
        BY <1>2 DEF ReservationInv, WorkerInv, TypeOK, Job
    <2> QED
        BY <1>1, <1>2, <2>1, OtherWorkers
<1>7. KeysDistinct'
    BY <1>1 DEF ReservationInv, KeysDistinct
<1> QED
    BY <1>2, <1>3, <1>4, <1>5, <1>6, <1>7 DEF ReservationInv

(* A lot-aware movement takes from lots nobody holds, what they have. *)
LEMMA LotsStay ==
    ASSUME TypeOK, \A lot \in Lots : remaining[lot] >= 0, NEW m \in Movement, LotsMove(m)
    PROVE  /\ remaining' \in [Lots -> Int] /\ \A lot \in Lots : remaining'[lot] >= 0
           /\ \A lot \in Lots : lotLock[lot] # Nobody => remaining'[lot] = remaining[lot]
<1>1. m.quantity \in Nat
    BY DEF Movement
<1>2. PICK given \in Given(m), kept \in Kept(m) :
          /\ \A lot \in Lots :
                /\ given[lot] <= remaining[lot]
                /\ given[lot] + kept[lot] > 0 =>
                       LotProduct[lot] = m.product /\ lotLock[lot] = Nobody
          /\ remaining' = [lot \in Lots |-> (remaining[lot] - given[lot]) + kept[lot]]
    BY DEF LotsMove
<1>3. \A lot \in Lots : given[lot] \in Nat
    BY <1>1 DEF Given
<1>4. \A lot \in Lots : kept[lot] \in Nat
    BY <1>1 DEF Kept
<1>5. \A lot \in Lots : remaining[lot] \in Int
    BY DEF TypeOK
<1> QED BY ONLY <1>2, <1>3, <1>4, <1>5, \A lot \in Lots : remaining[lot] >= 0

LEMMA DirectInv ==
    ASSUME ReservationInv, DirectMovement
    PROVE  ReservationInv'
<1>1. PICK m \in Movement : /\ \A rec \in Touched(m) : recLock[rec] = Nobody
                            /\ Post(m)
                            /\ remaining' = remaining \/ LotsMove(m)
    BY DEF DirectMovement
<1>2. LedgerInv'
    BY <1>1, PostInv DEF ReservationInv, TypeOK, NothingOverdrawn, LedgerInv
<1>3. UNCHANGED <<res, due, issues, resLock, recLock, lotLock, pc, job, sweep>>
    BY DEF DirectMovement
<1>9. /\ remaining' \in [Lots -> Int] /\ \A lot \in Lots : remaining'[lot] >= 0
      /\ \A lot \in Lots : lotLock[lot] # Nobody => remaining'[lot] = remaining[lot]
    BY <1>1, LotsStay DEF ReservationInv, TypeOK, NothingOverdrawn
<1>4. TypeOK'
    BY <1>2, <1>3, <1>9 DEF DirectMovement, ReservationInv, TypeOK, LedgerInv
<1>5. NothingOverdrawn' /\ LedgerBalances' /\ IssuedIffFulfilled' /\ KeysDistinct'
    BY <1>2, <1>3, <1>9 DEF ReservationInv, NothingOverdrawn, LedgerInv, IssuedIffFulfilled, KeysDistinct
<1>6. \A rec \in StockRecord : recLock[rec] # Nobody => quantity'[rec] = quantity[rec]
    <2>1. ASSUME NEW rec \in StockRecord, recLock[rec] # Nobody
          PROVE  Outgoing(m, rec) = 0 /\ Incoming(m, rec) = 0
        BY <1>1, <2>1 DEF Touched, Outgoing, Incoming
    <2> QED
        BY <1>1, <2>1 DEF Post, ReservationInv, TypeOK, LedgerTypeOK
<1>7. ASSUME NEW v \in Workers PROVE WorkerInv(v)'
    <2>1. pc[v] \in Creating => res'[job[v].res].status = "none"
        BY <1>3 DEF ReservationInv, WorkerInv
    <2> QED
        BY <1>3, <1>6, <1>9, <2>1, OtherWorkers
<1>8. SweepInv'
    BY <1>3, SweepKept
<1> QED
    BY <1>4, <1>5, <1>7, <1>8 DEF ReservationInv

-----------------------------------------------------------------------------

LEMMA InitReservationInv == Init => ReservationInv
<1> SUFFICES ASSUME Init PROVE ReservationInv
    OBVIOUS
<1>1. LedgerInv
    BY LedgerInitInv DEF Init
<1>2. TypeOK
    BY <1>1, Defaults DEF Init, TypeOK, LedgerInv, Step
<1>3. NothingOverdrawn /\ LedgerBalances
    BY <1>1 DEF Init, LedgerInv, NothingOverdrawn
<1>4. IssuedIffFulfilled
    BY DEF Init, NoRow, IssuedIffFulfilled
<1>5. (\A w \in Workers : WorkerInv(w)) /\ KeysDistinct /\ SweepInv
    BY DEF Init, WorkerInv, KeysDistinct, SweepInv, Creating
<1> QED
    BY <1>2, <1>3, <1>4, <1>5 DEF ReservationInv

LEMMA StepReservationInv ==
    ASSUME ReservationInv, [Next]_reservationVars
    PROVE  ReservationInv'
<1>1. ASSUME NEW w \in Workers,
             \/ BeginCreate(w) \/ BeginFulfil(w) \/ BeginCancel(w)
             \/ CreateStep(w) \/ FulfilStep(w) \/ CancelStep(w) \/ Crash(w)
      PROVE  ReservationInv'
    BY <1>1, LocalInv, LockInv, AbandonSteps, AbandonInv, CreateInsertInv, FulfilCommitInv,
       CancelCommitInv
       DEF CreateStep, FulfilStep, CancelStep
<1>2. CASE UNCHANGED reservationVars
    BY <1>2 DEF reservationVars, ReservationInv, TypeOK, LedgerTypeOK, NothingOverdrawn,
                NonNegativeStock, LedgerBalances, IssuedIffFulfilled, WorkerInv, KeysDistinct,
                SweepInv, IsActive, UsesLot
<1> QED
    BY <1>1, <1>2, SweepStepInv, DirectInv DEF Next, Sweep

(* Whatever fulfilments, cancellations, sweeps, crashes and direct movements *)
(* interleave, the inductive invariant holds.                                *)
THEOREM ReservationInvariant == Spec => []ReservationInv
BY InitReservationInv, StepReservationInv, PTL DEF Spec

(* Neither a record nor a lot is ever overdrawn.                             *)
THEOREM ReservationNothingOverdrawn == Spec => []NothingOverdrawn
<1>1. ReservationInv => NothingOverdrawn
    BY DEF ReservationInv
<1> QED
    BY <1>1, ReservationInvariant, PTL

(* A reservation's issue movement is made exactly once, by the fulfilment    *)
(* that leaves the row fulfilled.                                            *)
THEOREM FulfilledOnce == Spec => []IssuedIffFulfilled
<1>1. ReservationInv => IssuedIffFulfilled
    BY DEF ReservationInv
<1> QED
    BY <1>1, ReservationInvariant, PTL

LEMMA ClosedKept ==
    ASSUME ReservationInv, [Next]_reservationVars, NEW i \in Reservations,
           res[i].status \in Closed
    PROVE  res'[i] = res[i]
<1>1. ~IsActive(i) /\ res[i].status # "none"
    BY DEF Closed, Active, IsActive
<1>2. ASSUME NEW w \in Workers,
             \/ BeginCreate(w) \/ BeginFulfil(w) \/ BeginCancel(w)
             \/ CreateStep(w) \/ FulfilStep(w) \/ CancelStep(w) \/ Crash(w)
      PROVE  res'[i] = res[i]
    <2>0. TypeOK /\ WorkerInv(w) /\ job[w].res \in Reservations
        BY DEF ReservationInv, TypeOK, Job
    <2>1. CASE BeginCreate(w) \/ BeginFulfil(w) \/ BeginCancel(w) \/ CreateSum(w)
        BY <2>0, <2>1, LocalSteps DEF LocalStep, tables
    <2>2. CASE \/ CreateLock(w) \/ FulfilLock(w) \/ FulfilJoin(w) \/ FulfilRecord(w) \/ FulfilLot(w)
               \/ CancelLock(w)
        BY <2>0, <2>2, LockSteps DEF LockStep, LockReservation, LockRecord, LockLot, tables
    <2>3. CASE \/ CreateRefused(w) \/ FulfilUnsupported(w) \/ FulfilConflict(w) \/ FulfilNoStock(w) \/ FulfilNoLot(w)
               \/ CancelConflict(w) \/ Crash(w)
        BY <2>3, AbandonSteps DEF Abandon, tables
    <2>4. CASE CreateInsert(w) \/ FulfilCommit(w) \/ CancelCommit(w)
        <3>1. i # job[w].res
            BY <1>1, <2>0, <2>4 DEF CreateInsert, FulfilCommit, CancelCommit, WorkerInv, Creating
        <3> QED
            BY <2>0, <2>4, <3>1 DEF CreateInsert, FulfilCommit, CancelCommit, TypeOK
    <2> QED
        BY <1>2, <2>1, <2>2, <2>3, <2>4 DEF CreateStep, FulfilStep, CancelStep
<1>3. CASE SweepCommit
    <2>1. i \notin sweep.hits
        BY <1>1 DEF ReservationInv, SweepInv
    <2> QED
        BY <1>3, <2>1 DEF SweepCommit
<1>4. CASE \/ SweepStart \/ SweepCrash \/ DirectMovement
           \/ \E k \in Reservations : FallDue(k) \/ SweepRow(k)
    BY <1>4 DEF SweepStart, SweepCrash, DirectMovement, FallDue, SweepRow, tables
<1>5. CASE UNCHANGED reservationVars
    BY <1>5 DEF reservationVars
<1> QED
    BY <1>2, <1>3, <1>4, <1>5 DEF Next, Sweep

(* A reservation that is fulfilled, cancelled or expired never changes: a    *)
(* sweep whose snapshot is old, a fulfilment and a cancellation that all saw *)
(* it open cannot each close it.                                             *)
THEOREM ReservationClosedIsFinal == Spec => ClosedIsFinal
<1>1. ReservationInv /\ [Next]_reservationVars =>
          [\A i \in Reservations : res[i].status \in Closed => res'[i] = res[i]]_reservationVars
    BY ClosedKept
<1> QED
    BY <1>1, ReservationInvariant, PTL DEF Spec, ClosedIsFinal

-----------------------------------------------------------------------------
(* What reservations promise.  The sums change by the row a step changes.    *)

Fulfilled(rec) == SumFunctionOnSet(FulfilledFrom(rec), Reservations)

(* The step takes stock out by fulfilments only. *)
TakenSame == \A rec \in StockRecord : TakenDirectly(rec)' = TakenDirectly(rec)

LEMMA SumTypes ==
    TypeOK => \A rec \in StockRecord :
                  /\ \A i \in Reservations : HeldBy(rec)[i] \in Nat /\ FulfilledFrom(rec)[i] \in Nat
                  /\ Reserved(rec) \in Nat /\ Fulfilled(rec) \in Nat
<1> SUFFICES ASSUME TypeOK, NEW rec \in StockRecord
             PROVE  /\ \A i \in Reservations : HeldBy(rec)[i] \in Nat /\ FulfilledFrom(rec)[i] \in Nat
                    /\ Reserved(rec) \in Nat /\ Fulfilled(rec) \in Nat
    OBVIOUS
<1>1. \A i \in Reservations : HeldBy(rec)[i] \in Nat /\ FulfilledFrom(rec)[i] \in Nat
    BY DEF HeldBy, FulfilledFrom, TypeOK, Row
<1> QED
    BY <1>1, SumNat DEF Reserved, Fulfilled

LEMMA RowChanges ==
    ASSUME TypeOK, TypeOK', NEW i \in Reservations,
           \A k \in Reservations : k # i => res'[k] = res[k],
           NEW rec \in StockRecord
    PROVE  /\ Reserved(rec)' = Reserved(rec) + HeldBy(rec)'[i] - HeldBy(rec)[i]
           /\ Fulfilled(rec)' = Fulfilled(rec) + FulfilledFrom(rec)'[i] - FulfilledFrom(rec)[i]
<1>1. \A k \in Reservations : HeldBy(rec)[k] \in Int /\ FulfilledFrom(rec)[k] \in Int
    BY SumTypes
<1>2. \A k \in Reservations : HeldBy(rec)'[k] \in Int /\ FulfilledFrom(rec)'[k] \in Int
    BY DEF HeldBy, FulfilledFrom, TypeOK, Row
<1>3. \A k \in Reservations : k # i => /\ HeldBy(rec)'[k] = HeldBy(rec)[k]
                                       /\ FulfilledFrom(rec)'[k] = FulfilledFrom(rec)[k]
    BY DEF HeldBy, FulfilledFrom, IsActive
<1>4. SumFunctionOnSet(HeldBy(rec)', Reservations)
          = SumFunctionOnSet(HeldBy(rec), Reservations) + HeldBy(rec)'[i] - HeldBy(rec)[i]
    BY <1>1, <1>2, <1>3, SumUpdate
<1>5. SumFunctionOnSet(FulfilledFrom(rec)', Reservations)
          = SumFunctionOnSet(FulfilledFrom(rec), Reservations)
            + FulfilledFrom(rec)'[i] - FulfilledFrom(rec)[i]
    BY <1>1, <1>2, <1>3, SumUpdate
<1> QED
    BY <1>4, <1>5 DEF Reserved, Fulfilled

LEMMA PromiseTypes ==
    ASSUME TypeOK
    PROVE  /\ \A rec \in StockRecord :
                  Reserved(rec) \in Int /\ quantity[rec] \in Int /\ TakenDirectly(rec) \in Int
           /\ \A w \in Workers : job[w].at \in StockRecord /\ job[w].qty \in Nat
<1>1. \A rec \in StockRecord : Reserved(rec) \in Nat /\ Fulfilled(rec) \in Nat
    BY SumTypes
<1> QED
    BY <1>1 DEF TypeOK, LedgerTypeOK, Job, TakenDirectly, Fulfilled

(* A creator keeps what it found while others leave its record alone. *)
LEMMA CreatorKept ==
    ASSUME ReservationInv, PromiseInv, NEW v \in Workers,
           pc'[v] = pc[v], job'[v] = job[v],
           \A rec \in StockRecord : recLock[rec] = v =>
                /\ recLock'[rec] = v
                /\ quantity'[rec] = quantity[rec] /\ Reserved(rec)' <= Reserved(rec),
           \A rec \in StockRecord : Reserved(rec)' \in Int
    PROVE  CreatorInv(v)'
<1>1. CreatorInv(v) /\ TypeOK
    BY DEF PromiseInv, ReservationInv
<1>2. job[v].at \in StockRecord /\ job[v].qty \in Nat
    BY <1>1, PromiseTypes
<1>3. Reserved(job[v].at) \in Int /\ quantity[job[v].at] \in Int
    BY <1>1, <1>2, PromiseTypes
<1>4. PICK j \in Job : j = job[v] /\ job'[v] = j
    BY <1>1 DEF TypeOK
<1>5. CASE pc[v] \in {"create.sum", "create.insert"}
    <2>1. /\ recLock'[j.at] = v /\ quantity'[j.at] = quantity[j.at]
          /\ Reserved(j.at)' <= Reserved(j.at)
        BY <1>1, <1>2, <1>4, <1>5 DEF CreatorInv
    <2>2. pc[v] = "create.insert" => Reserved(j.at)' + j.qty <= quantity'[j.at]
        BY <1>1, <1>2, <1>3, <1>4, <2>1 DEF CreatorInv
    <2> QED
        BY <1>1, <1>4, <2>1, <2>2 DEF CreatorInv
<1>6. CASE pc[v] \notin {"create.sum", "create.insert"}
    BY <1>1, <1>6 DEF CreatorInv
<1> QED
    BY <1>5, <1>6

(* A step that changes no reservation, record or sum. *)
LEMMA PromiseFrame ==
    ASSUME ReservationInv, PromiseInv, NEW w, UNCHANGED <<res, quantity, outflow>>,
           \A v \in Workers : v # w =>
                /\ pc'[v] = pc[v] /\ job'[v] = job[v]
                /\ \A rec \in StockRecord : recLock[rec] = v => recLock'[rec] = v,
           w \in Workers => CreatorInv(w)'
    PROVE  PromiseInv' /\ TakenSame
<1>1. \A rec \in StockRecord : /\ Reserved(rec)' = Reserved(rec)
                               /\ TakenDirectly(rec)' = TakenDirectly(rec)
    BY DEF Reserved, HeldBy, IsActive, TakenDirectly, FulfilledFrom
<1>2. \A rec \in StockRecord : Reserved(rec) \in Int
    BY PromiseTypes DEF ReservationInv
<1>3. ASSUME NEW v \in Workers, v # w PROVE CreatorInv(v)'
    BY <1>1, <1>2, <1>3, CreatorKept
<1>4. ShortByDirectOnly' /\ \A rec \in StockRecord : TakenDirectly(rec)' >= 0
    BY <1>1 DEF PromiseInv, ShortByDirectOnly
<1> QED
    BY <1>1, <1>3, <1>4 DEF PromiseInv, TakenSame

LEMMA PromiseLocal ==
    ASSUME ReservationInv, PromiseInv, NEW w \in Workers,
           BeginCreate(w) \/ BeginFulfil(w) \/ BeginCancel(w) \/ CreateSum(w)
    PROVE  PromiseInv' /\ TakenSame
<1>0. TypeOK /\ LocalStep(w) /\ CreatorInv(w)
    BY LocalSteps DEF ReservationInv, PromiseInv
<1>1. UNCHANGED <<res, quantity, outflow, recLock>>
    BY <1>0 DEF LocalStep, tables
<1>2. \A v \in Workers : v # w => pc'[v] = pc[v] /\ job'[v] = job[v]
    BY <1>0 DEF LocalStep, Goto, TypeOK
<1>3. CreatorInv(w)'
    <2>1. CASE BeginCreate(w)
        <3>1. PICK i \in FreshKeys, rec \in StockRecord, n \in Quantities, auto \in BOOLEAN,
              lot \in Lots \cup {NoLot} :
                /\ n > 0 /\ (auto => lot = NoLot)
                /\ TenantOf[rec[1]] = TenantOf[rec[2]]
                /\ job' = [job EXCEPT ![w] = [NoJob EXCEPT !.res = i, !.at = rec, !.qty = n,
                                                        !.auto = auto, !.lot = lot]]
            BY <2>1, ZenonT(60) DEF BeginCreate
        <3>2. pc'[w] = "create.lock" /\ job'[w].qty > 0
            BY <1>0, <2>1, <3>1, Defaults DEF BeginCreate, Goto, TypeOK, Job
        <3> QED BY <3>2 DEF CreatorInv
    <2>2. CASE BeginFulfil(w) \/ BeginCancel(w)
        <3>1. pc'[w] \in {"fulfil.lock", "cancel.lock"}
            BY <1>0, <2>2 DEF BeginFulfil, BeginCancel, Goto, TypeOK
        <3> QED BY <3>1 DEF CreatorInv, Creating
    <2>3. CASE CreateSum(w)
        <3>1. PICK j \in Job : j = job[w]
            BY <1>0 DEF TypeOK
        <3>2. /\ pc[w] = "create.sum" /\ pc'[w] = "create.insert"
              /\ Available(j.at) >= j.qty
              /\ \E lot : job' = [job EXCEPT ![w].lot = lot]
            BY <1>0, <2>3, <3>1 DEF CreateSum, Goto, TypeOK
        <3>3. job'[w].at = j.at /\ job'[w].qty = j.qty
            BY <1>0, <3>1, <3>2 DEF TypeOK, Job
        <3>4. recLock[j.at] = w /\ j.qty > 0
            BY <1>0, <3>1, <3>2 DEF CreatorInv, Creating
        <3>5. Reserved(j.at) \in Int /\ quantity[j.at] \in Int /\ j.qty \in Nat
            BY <1>0, <3>1, PromiseTypes
        <3>6. Reserved(j.at) + j.qty <= quantity[j.at]
            BY <3>2, <3>4, <3>5 DEF Available
        <3>7. Reserved(j.at)' = Reserved(j.at)
            BY <1>1 DEF Reserved, HeldBy, IsActive
        <3>8. Reserved(j.at)' + j.qty <= quantity'[j.at]
            BY <1>1, <3>6, <3>7
        <3> QED
            BY <1>1, <3>2, <3>3, <3>4, <3>8 DEF CreatorInv
    <2> QED
        BY <2>1, <2>2, <2>3
<1> QED
    BY <1>1, <1>2, <1>3, PromiseFrame

LEMMA PromiseLock ==
    ASSUME ReservationInv, PromiseInv, NEW w \in Workers,
           \/ CreateLock(w) \/ FulfilLock(w) \/ FulfilJoin(w) \/ FulfilRecord(w) \/ FulfilLot(w)
           \/ CancelLock(w)
    PROVE  PromiseInv' /\ TakenSame
<1>0. TypeOK /\ WorkerInv(w) /\ LockStep(w) /\ CreatorInv(w)
    BY LockSteps DEF ReservationInv, PromiseInv
<1>1. UNCHANGED <<job, res, quantity, outflow>>
    BY <1>0 DEF LockStep, LockReservation, LockRecord, LockLot, tables
<1>2. \A v \in Workers : v # w => pc'[v] = pc[v]
    BY <1>0 DEF LockStep, Goto, TypeOK
<1>3. \A rec \in StockRecord : recLock[rec] # Nobody => recLock'[rec] = recLock[rec]
    BY <1>0 DEF LockStep, LockReservation, LockRecord, LockLot, TypeOK
<1>4. CreatorInv(w)'
    <2>1. CASE CreateLock(w)
        BY <1>0, <1>1, <2>1 DEF CreateLock, LockRecord, Goto, CreatorInv, Creating, TypeOK, Job
    <2>2. CASE FulfilLock(w) \/ FulfilJoin(w) \/ FulfilRecord(w) \/ FulfilLot(w) \/ CancelLock(w)
        <3>1. pc'[w] \in {"fulfil.join", "fulfil.record", "fulfil.lot", "fulfil.commit", "cancel.commit"}
            BY <1>0, <2>2 DEF FulfilLock, FulfilJoin, AfterLock, FulfilRecord, FulfilLot, CancelLock, Goto, TypeOK
        <3> QED BY <3>1 DEF CreatorInv, Creating
    <2> QED
        BY <2>1, <2>2
<1> QED
    BY <1>1, <1>2, <1>3, <1>4, PromiseFrame

LEMMA PromiseAbandon ==
    ASSUME ReservationInv, PromiseInv, NEW w \in Workers, Abandon(w)
    PROVE  PromiseInv' /\ TakenSame
<1>1. CreatorInv(w)'
    BY FinishFrees DEF Abandon, CreatorInv, Creating
<1> QED
    BY <1>1, FinishFrees, PromiseFrame DEF Abandon, tables

(* The three commits of a worker, each on one row of StockReservation. *)
LEMMA PromiseCommit ==
    ASSUME ReservationInv, ReservationInv', PromiseInv, NEW w \in Workers,
           CreateInsert(w) \/ FulfilCommit(w) \/ CancelCommit(w)
    PROVE  PromiseInv' /\ TakenSame
<1>0. PICK j \in Job : j = job[w] /\ j.res \in Reservations /\ j.at \in StockRecord /\ j.qty \in Nat
    BY DEF ReservationInv, TypeOK, Job
<1>1. TypeOK /\ TypeOK' /\ WorkerInv(w) /\ CreatorInv(w) /\ Finish(w)
    BY DEF ReservationInv, PromiseInv, CreateInsert, FulfilCommit, CancelCommit
<1>2. PICK row \in Row : row = res[j.res]
    BY <1>0, <1>1 DEF TypeOK
<1>a. row.at \in StockRecord /\ row.qty \in Nat
    BY <1>2 DEF Row
<1>3. \A k \in Reservations : k # j.res => res'[k] = res[k]
    BY <1>0, <1>1 DEF CreateInsert, FulfilCommit, CancelCommit, TypeOK
<1>4. ASSUME NEW rec \in StockRecord
      PROVE  /\ Reserved(rec)' = Reserved(rec) + HeldBy(rec)'[j.res] - HeldBy(rec)[j.res]
             /\ Fulfilled(rec)' = Fulfilled(rec) + FulfilledFrom(rec)'[j.res] - FulfilledFrom(rec)[j.res]
             /\ Reserved(rec) \in Nat /\ Fulfilled(rec) \in Nat
             /\ quantity[rec] \in Int /\ outflow[rec] \in Int
    <2>1. /\ Reserved(rec)' = Reserved(rec) + HeldBy(rec)'[j.res] - HeldBy(rec)[j.res]
          /\ Fulfilled(rec)' = Fulfilled(rec) + FulfilledFrom(rec)'[j.res] - FulfilledFrom(rec)[j.res]
        BY <1>0, <1>1, <1>3, RowChanges
    <2>2. Reserved(rec) \in Nat /\ Fulfilled(rec) \in Nat
        BY <1>1, SumTypes
    <2>3. quantity[rec] \in Int /\ outflow[rec] \in Int
        BY <1>1 DEF TypeOK, LedgerTypeOK
    <2> QED
        BY <2>1, <2>2, <2>3
<1>5. ASSUME NEW rec \in StockRecord
      PROVE  /\ HeldBy(rec)[j.res] = IF row.status \in Active /\ row.at = rec THEN row.qty ELSE 0
             /\ FulfilledFrom(rec)[j.res] = IF row.status = "fulfilled" /\ row.at = rec THEN row.qty ELSE 0
             /\ HeldBy(rec)'[j.res] = IF res'[j.res].status \in Active /\ res'[j.res].at = rec
                                      THEN res'[j.res].qty ELSE 0
             /\ FulfilledFrom(rec)'[j.res] = IF res'[j.res].status = "fulfilled" /\ res'[j.res].at = rec
                                             THEN res'[j.res].qty ELSE 0
    BY <1>0, <1>2 DEF HeldBy, FulfilledFrom, IsActive
(* What the commit does to each record. *)
<1>6. ASSUME NEW rec \in StockRecord
      PROVE  /\ Reserved(rec)' + Fulfilled(rec)' - outflow'[rec] - quantity'[rec] <= 0
             /\ outflow'[rec] - Fulfilled(rec)' = outflow[rec] - Fulfilled(rec)
             /\ recLock[rec] \in Workers \ {w} =>
                    quantity'[rec] = quantity[rec] /\ Reserved(rec)' <= Reserved(rec)
    <2>0. Reserved(rec) <= quantity[rec] + outflow[rec] - Fulfilled(rec) /\ outflow[rec] - Fulfilled(rec) >= 0
        BY <1>4 DEF PromiseInv, ShortByDirectOnly, TakenDirectly, Fulfilled
    <2>1. CASE CreateInsert(w)
        <3>1. /\ row.status = "none"
              /\ res'[j.res].status = "pending" /\ res'[j.res].at = j.at /\ res'[j.res].qty = j.qty
              /\ UNCHANGED <<quantity, outflow>>
            BY <1>0, <1>1, <1>2, <2>1 DEF CreateInsert, WorkerInv, Creating, TypeOK
        <3>2. recLock[j.at] = w /\ Reserved(j.at) + j.qty <= quantity[j.at]
            BY <1>0, <1>1, <2>1 DEF CreateInsert, CreatorInv
        <3>3. /\ HeldBy(rec)[j.res] = 0 /\ FulfilledFrom(rec)[j.res] = 0
              /\ HeldBy(rec)'[j.res] = (IF j.at = rec THEN j.qty ELSE 0)
              /\ FulfilledFrom(rec)'[j.res] = 0
            BY <1>5, <3>1 DEF Active
        <3>4. /\ Reserved(rec)' = Reserved(rec) + (IF j.at = rec THEN j.qty ELSE 0)
              /\ Fulfilled(rec)' = Fulfilled(rec)
            BY <1>0, <1>4, <3>3
        <3>5. CASE rec = j.at
            BY <1>0, <1>4, <2>0, <3>1, <3>2, <3>4, <3>5
        <3>6. CASE rec # j.at
            BY <1>4, <2>0, <3>1, <3>4, <3>6
        <3> QED
            BY <3>5, <3>6
    <2>2. CASE FulfilCommit(w)
        <3>1. row.status \in Active /\ recLock[row.at] = w
            BY <1>0, <1>1, <1>2, <2>2 DEF FulfilCommit, WorkerInv, IsActive
        <3>2. /\ res'[j.res].status = "fulfilled" /\ res'[j.res].at = row.at /\ res'[j.res].qty = row.qty
              /\ quantity' = [quantity EXCEPT ![row.at] = @ - row.qty]
              /\ outflow' = [outflow EXCEPT ![row.at] = @ + row.qty]
            BY <1>0, <1>1, <1>2, <2>2 DEF FulfilCommit, TypeOK, Row
        <3>3. /\ HeldBy(rec)[j.res] = (IF row.at = rec THEN row.qty ELSE 0)
              /\ FulfilledFrom(rec)[j.res] = 0
              /\ HeldBy(rec)'[j.res] = 0
              /\ FulfilledFrom(rec)'[j.res] = (IF row.at = rec THEN row.qty ELSE 0)
            BY <1>5, <3>1, <3>2 DEF Active
        <3>4. /\ quantity'[rec] = quantity[rec] - (IF row.at = rec THEN row.qty ELSE 0)
              /\ outflow'[rec] = outflow[rec] + (IF row.at = rec THEN row.qty ELSE 0)
            BY <1>1, <1>a, <3>2 DEF TypeOK, LedgerTypeOK
        <3> QED
            BY <1>a, <1>4, <2>0, <3>1, <3>3, <3>4
    <2>3. CASE CancelCommit(w)
        <3>1. row.status \in Active
            BY <1>0, <1>1, <1>2, <2>3 DEF CancelCommit, WorkerInv, IsActive
        <3>2. res'[j.res].status = "cancelled" /\ UNCHANGED <<quantity, outflow>>
            BY <1>0, <1>1, <1>2, <2>3 DEF CancelCommit, TypeOK, Row
        <3>3. /\ HeldBy(rec)[j.res] \in Nat /\ FulfilledFrom(rec)[j.res] = 0
              /\ HeldBy(rec)'[j.res] = 0 /\ FulfilledFrom(rec)'[j.res] = 0
            BY <1>a, <1>5, <3>1, <3>2 DEF Active
        <3> QED
            BY <1>4, <2>0, <3>2, <3>3
    <2> QED
        BY <2>1, <2>2, <2>3
<1>7. \A rec \in StockRecord : /\ Reserved(rec)' \in Int /\ Fulfilled(rec)' \in Int
                               /\ quantity'[rec] \in Int /\ outflow'[rec] \in Int
    <2>1. (TypeOK => \A rec \in StockRecord :
                        /\ \A i \in Reservations : HeldBy(rec)[i] \in Nat /\ FulfilledFrom(rec)[i] \in Nat
                        /\ Reserved(rec) \in Nat /\ Fulfilled(rec) \in Nat)'
        BY SumTypes, PTL
    <2> QED
        BY <1>1, <2>1 DEF TypeOK, LedgerTypeOK
<1>8. ShortByDirectOnly' /\ \A rec \in StockRecord : TakenDirectly(rec)' >= 0
    <2>1. ASSUME NEW rec \in StockRecord
          PROVE  Reserved(rec)' <= quantity'[rec] + (outflow'[rec] - Fulfilled(rec)')
                 /\ outflow'[rec] - Fulfilled(rec)' >= 0
        <3>1. outflow[rec] - Fulfilled(rec) >= 0
            BY DEF PromiseInv, TakenDirectly, Fulfilled
        <3> QED BY <1>6, <1>7, <3>1
    <2> QED
        BY <2>1 DEF ShortByDirectOnly, TakenDirectly, Fulfilled
<1>9. ASSUME NEW v \in Workers PROVE CreatorInv(v)'
    <2>1. CASE v = w
        BY <1>1, <2>1, FinishFrees DEF CreatorInv, Creating
    <2>2. CASE v # w
        <3>1. \A rec \in StockRecord : recLock[rec] = v =>
                /\ recLock'[rec] = v
                /\ quantity'[rec] = quantity[rec] /\ Reserved(rec)' <= Reserved(rec)
            BY <1>1, <1>6, <2>2, FinishFrees
        <3>2. pc'[v] = pc[v] /\ job'[v] = job[v]
            BY <1>1, <2>2, FinishFrees
        <3> QED
            BY <1>7, <3>1, <3>2, CreatorKept
    <2> QED BY <2>1, <2>2
<1> QED
    BY <1>6, <1>8, <1>9 DEF PromiseInv, TakenSame, TakenDirectly, Fulfilled

(* The sweep closes any number of rows in one step. *)
LEMMA PromiseSweep ==
    ASSUME ReservationInv, ReservationInv', PromiseInv,
           \/ SweepStart \/ SweepCommit \/ SweepCrash
           \/ \E i \in Reservations : FallDue(i) \/ SweepRow(i)
    PROVE  PromiseInv' /\ TakenSame
<1>1. UNCHANGED <<quantity, outflow, recLock, pc, job>> /\ TypeOK /\ TypeOK'
    BY DEF SweepStart, SweepCommit, SweepCrash, SweepEnds, FallDue, SweepRow, tables, ReservationInv
<1>2. CASE UNCHANGED res
    <2>1. \A w \in Workers : CreatorInv(w)'
        <3>1. \A rec \in StockRecord : Reserved(rec)' = Reserved(rec) /\ Reserved(rec) \in Int
            BY <1>1, <1>2, PromiseTypes DEF Reserved, HeldBy, IsActive
        <3> QED BY <1>1, <3>1, CreatorKept
    <2> QED
        BY <1>1, <1>2, <2>1, PromiseFrame
<1>3. CASE SweepCommit
    <2>1. ASSUME NEW i \in Reservations
          PROVE  /\ i \in sweep.hits => res[i].status \in Active /\ res'[i].status = "expired"
                 /\ i \notin sweep.hits => res'[i] = res[i]
        <3>1. res'[i] = IF i \in sweep.hits THEN [res[i] EXCEPT !.status = "expired"] ELSE res[i]
            BY <1>3 DEF SweepCommit
        <3>2. i \in sweep.hits => IsActive(i)
            BY DEF ReservationInv, SweepInv
        <3>3. res[i] \in Row
            BY <1>1 DEF TypeOK
        <3> QED BY <3>1, <3>2, <3>3 DEF IsActive, Row
    <2>2. ASSUME NEW rec \in StockRecord
          PROVE  Reserved(rec)' <= Reserved(rec) /\ Fulfilled(rec)' = Fulfilled(rec)
        <3>1. \A i \in Reservations : /\ HeldBy(rec)'[i] \in Int /\ HeldBy(rec)[i] \in Int
                                      /\ FulfilledFrom(rec)[i] \in Int
                                      /\ HeldBy(rec)'[i] <= HeldBy(rec)[i]
                                      /\ FulfilledFrom(rec)[i] = FulfilledFrom(rec)'[i]
            <4> SUFFICES ASSUME NEW i \in Reservations
                         PROVE  /\ HeldBy(rec)'[i] \in Int /\ HeldBy(rec)[i] \in Int
                                /\ FulfilledFrom(rec)[i] \in Int
                                /\ HeldBy(rec)'[i] <= HeldBy(rec)[i]
                                /\ FulfilledFrom(rec)[i] = FulfilledFrom(rec)'[i]
                OBVIOUS
            <4>1. res[i].qty \in Nat /\ res'[i].qty \in Nat
                BY <1>1 DEF TypeOK, Row
            <4> QED
                BY <2>1, <4>1 DEF HeldBy, FulfilledFrom, IsActive, Active
        <3>2. SumFunctionOnSet(HeldBy(rec)', Reservations) <= SumFunctionOnSet(HeldBy(rec), Reservations)
            BY <3>1, SumMonotone
        <3>3. SumFunctionOnSet(FulfilledFrom(rec), Reservations)
                  = SumFunctionOnSet(FulfilledFrom(rec)', Reservations)
            BY <3>1, SumEqual
        <3> QED BY <3>2, <3>3 DEF Reserved, Fulfilled
    <2>3. \A rec \in StockRecord : /\ Reserved(rec)' \in Int /\ Reserved(rec) \in Int
                                   /\ quantity[rec] \in Int /\ TakenDirectly(rec) \in Int
        <3>1. (TypeOK => \A rec \in StockRecord :
                        /\ \A i \in Reservations : HeldBy(rec)[i] \in Nat /\ FulfilledFrom(rec)[i] \in Nat
                        /\ Reserved(rec) \in Nat /\ Fulfilled(rec) \in Nat)'
            BY SumTypes, PTL
        <3> QED BY <1>1, <3>1, PromiseTypes
    <2>4. \A rec \in StockRecord : TakenDirectly(rec)' = TakenDirectly(rec)
        BY <1>1, <2>2 DEF TakenDirectly, Fulfilled
    <2>5. ShortByDirectOnly' /\ \A rec \in StockRecord : TakenDirectly(rec)' >= 0
        BY <1>1, <2>2, <2>3, <2>4 DEF PromiseInv, ShortByDirectOnly
    <2>6. ASSUME NEW v \in Workers PROVE CreatorInv(v)'
        BY <1>1, <2>2, <2>3, CreatorKept
    <2> QED
        BY <2>4, <2>5, <2>6 DEF PromiseInv, TakenSame
<1>4. UNCHANGED res \/ SweepCommit
    BY DEF SweepStart, SweepCrash, FallDue, SweepRow, tables
<1> QED
    BY <1>2, <1>3, <1>4

LEMMA PromiseDirect ==
    ASSUME ReservationInv, PromiseInv, DirectMovement
    PROVE  PromiseInv'
<1>1. PICK m \in Movement : (\A rec \in Touched(m) : recLock[rec] = Nobody) /\ Post(m)
    BY DEF DirectMovement
<1>2. UNCHANGED <<res, recLock, pc, job>> /\ TypeOK
    BY DEF DirectMovement, ReservationInv
<1>3. ASSUME NEW rec \in StockRecord
      PROVE  /\ Reserved(rec)' = Reserved(rec) /\ Fulfilled(rec)' = Fulfilled(rec)
             /\ quantity'[rec] = quantity[rec] - Outgoing(m, rec) + Incoming(m, rec)
             /\ outflow'[rec] = outflow[rec] + Outgoing(m, rec)
             /\ Outgoing(m, rec) \in Nat /\ Incoming(m, rec) \in Nat
    BY <1>1, <1>2, MovementTypes
       DEF Post, Reserved, Fulfilled, HeldBy, FulfilledFrom, IsActive
<1>4. \A rec \in StockRecord : recLock[rec] # Nobody => quantity'[rec] = quantity[rec]
    <2>1. ASSUME NEW rec \in StockRecord, recLock[rec] # Nobody
          PROVE  Outgoing(m, rec) = 0 /\ Incoming(m, rec) = 0
        BY <1>1, <2>1 DEF Touched, Outgoing, Incoming
    <2> QED
        BY <1>2, <1>3, <2>1 DEF TypeOK, LedgerTypeOK
<1>5. \A rec \in StockRecord : /\ Reserved(rec) \in Int /\ Fulfilled(rec) \in Int
                               /\ quantity[rec] \in Int /\ outflow[rec] \in Int
    <2>1. \A rec \in StockRecord : Reserved(rec) \in Nat /\ Fulfilled(rec) \in Nat
        BY <1>2, SumTypes
    <2> QED BY <1>2, <2>1 DEF TypeOK, LedgerTypeOK
<1>6. ASSUME NEW rec \in StockRecord
      PROVE  /\ Reserved(rec)' <= quantity'[rec] + (outflow'[rec] - Fulfilled(rec)')
             /\ outflow'[rec] - Fulfilled(rec)' >= 0
    <2>1. Reserved(rec) <= quantity[rec] + (outflow[rec] - Fulfilled(rec)) /\ outflow[rec] - Fulfilled(rec) >= 0
        BY DEF PromiseInv, ShortByDirectOnly, TakenDirectly, Fulfilled
    <2> QED BY <1>3, <1>5, <2>1
<1>7. ShortByDirectOnly' /\ \A rec \in StockRecord : TakenDirectly(rec)' >= 0
    BY <1>6 DEF ShortByDirectOnly, TakenDirectly, Fulfilled
<1>8. ASSUME NEW v \in Workers PROVE CreatorInv(v)'
    BY <1>2, <1>3, <1>4, <1>5, CreatorKept
<1> QED
    BY <1>7, <1>8 DEF PromiseInv

LEMMA InitPromiseInv == Init => PromiseInv
<1> SUFFICES ASSUME Init PROVE PromiseInv
    OBVIOUS
<1>1. ASSUME NEW rec \in StockRecord
      PROVE  Reserved(rec) = 0 /\ Fulfilled(rec) = 0 /\ outflow[rec] = 0 /\ quantity[rec] \in Nat
    <2>1. \A i \in Reservations : HeldBy(rec)[i] = 0 /\ FulfilledFrom(rec)[i] = 0
        BY DEF Init, NoRow, HeldBy, FulfilledFrom, IsActive, Active
    <2>2. Reserved(rec) = 0 /\ Fulfilled(rec) = 0
        BY <2>1, SumZero DEF Reserved, Fulfilled
    <2> QED BY <2>2 DEF Init, LedgerInit
<1>2. ShortByDirectOnly /\ \A rec \in StockRecord : TakenDirectly(rec) >= 0
    BY <1>1 DEF ShortByDirectOnly, TakenDirectly, Fulfilled
<1> QED
    BY <1>2 DEF Init, PromiseInv, CreatorInv, Creating

LEMMA StepPromiseInv ==
    ASSUME ReservationInv, ReservationInv', PromiseInv, [Next]_reservationVars
    PROVE  PromiseInv' /\ (TakenSame \/ DirectMovement)
<1>1. ASSUME NEW w \in Workers,
             \/ BeginCreate(w) \/ BeginFulfil(w) \/ BeginCancel(w)
             \/ CreateStep(w) \/ FulfilStep(w) \/ CancelStep(w) \/ Crash(w)
      PROVE  PromiseInv' /\ TakenSame
    BY <1>1, PromiseLocal, PromiseLock, AbandonSteps, PromiseAbandon, PromiseCommit
       DEF CreateStep, FulfilStep, CancelStep
<1>2. CASE UNCHANGED reservationVars
    <2>1. \A rec \in StockRecord : /\ Reserved(rec)' = Reserved(rec)
                                   /\ TakenDirectly(rec)' = TakenDirectly(rec)
        BY <1>2 DEF reservationVars, Reserved, HeldBy, IsActive, TakenDirectly, FulfilledFrom
    <2>2. \A rec \in StockRecord : Reserved(rec)' \in Int
        BY <2>1, PromiseTypes DEF ReservationInv
    <2>3. ASSUME NEW v \in Workers PROVE CreatorInv(v)'
        <3>1. \A rec \in StockRecord : Reserved(rec)' <= Reserved(rec)
            BY <2>1, <2>2
        <3> QED BY <1>2, <2>2, <3>1, CreatorKept DEF reservationVars
    <2> QED
        BY <1>2, <2>1, <2>3 DEF PromiseInv, ShortByDirectOnly, TakenSame, reservationVars
<1> QED
    BY <1>1, <1>2, PromiseSweep, PromiseDirect DEF Next, Sweep

LEMMA PromiseKept == Spec => []PromiseInv
<1>1. ReservationInv /\ ReservationInv' /\ PromiseInv /\ [Next]_reservationVars => PromiseInv'
    BY StepPromiseInv
<1> QED
    BY <1>1, InitPromiseInv, ReservationInvariant, PTL DEF Spec

(* A unit is never promised twice: what active reservations hold of a record *)
(* and the record does not, movements that fulfil no reservation have taken; *)
(* creates that overlap, sweeps, crashes and cancellations are not the cause.*)
THEOREM PromisedOnce == Spec => []ShortByDirectOnly
<1>1. PromiseInv => ShortByDirectOnly
    BY DEF PromiseInv
<1> QED
    BY <1>1, PromiseKept, PTL

-----------------------------------------------------------------------------
(* The refinement of the ledger.  A row, and a create about to insert one,   *)
(* asks for units a movement may issue from its record.                      *)

Issuable(rec, n) == n \in Quantities /\ TenantOf[rec[1]] = TenantOf[rec[2]]

RequestsValid ==
    /\ \A i \in Reservations : res[i].status # "none" => Issuable(res[i].at, res[i].qty)
    /\ \A w \in Workers : pc[w] \in Creating => Issuable(job[w].at, job[w].qty)

LEMMA InitRequests == Init => RequestsValid
BY DEF Init, RequestsValid, NoRow, Creating

LEMMA RequestsFrame ==
    ASSUME RequestsValid,
           \A i \in Reservations : res'[i].status # "none" =>
               \/ res[i].status # "none" /\ res'[i].at = res[i].at /\ res'[i].qty = res[i].qty
               \/ Issuable(res'[i].at, res'[i].qty),
           \A v \in Workers : pc'[v] \in Creating =>
               \/ pc[v] \in Creating /\ job'[v].at = job[v].at /\ job'[v].qty = job[v].qty
               \/ Issuable(job'[v].at, job'[v].qty)
    PROVE  RequestsValid'
<1>1. \A i \in Reservations : res'[i].status # "none" => Issuable(res'[i].at, res'[i].qty)
    BY DEF RequestsValid
<1>2. \A v \in Workers : pc'[v] \in Creating => Issuable(job'[v].at, job'[v].qty)
    BY DEF RequestsValid
<1> QED BY <1>1, <1>2 DEF RequestsValid, Issuable

LEMMA StepRequests ==
    ASSUME ReservationInv, RequestsValid, [Next]_reservationVars
    PROVE  RequestsValid'
<1>0. TypeOK /\ (\A w \in Workers : WorkerInv(w)) /\ SweepInv
    BY DEF ReservationInv
<1>1. ASSUME NEW w \in Workers, BeginCreate(w) PROVE RequestsValid'
    <2>1. PICK i \in FreshKeys, rec \in StockRecord, n \in Quantities, auto \in BOOLEAN,
              lot \in Lots \cup {NoLot} :
              /\ n > 0 /\ (auto => lot = NoLot)
              /\ TenantOf[rec[1]] = TenantOf[rec[2]]
              /\ job' = [job EXCEPT ![w] = [NoJob EXCEPT !.res = i, !.at = rec, !.qty = n,
                                                        !.auto = auto, !.lot = lot]]
        BY <1>1, ZenonT(60) DEF BeginCreate
    <2>2. /\ job'[w].at = rec /\ job'[w].qty = n
          /\ \A v \in Workers : v # w => job'[v] = job[v] /\ pc'[v] = pc[v]
        BY <1>0, <1>1, <2>1 DEF BeginCreate, Goto, TypeOK, NoJob
    <2>3. res' = res
        BY <1>1 DEF BeginCreate, tables
    <2> QED BY <2>1, <2>2, <2>3, RequestsFrame DEF Issuable
<1>2. ASSUME NEW w \in Workers, CreateSum(w) PROVE RequestsValid'
    <2>1. PICK lot : job' = [job EXCEPT ![w].lot = lot]
        BY <1>2 DEF CreateSum
    <2>2. \A v \in Workers : job'[v].at = job[v].at /\ job'[v].qty = job[v].qty
        BY <1>0, <2>1 DEF TypeOK, Job
    <2>3. res' = res /\ pc[w] \in Creating /\ \A v \in Workers : v # w => pc'[v] = pc[v]
        BY <1>0, <1>2 DEF CreateSum, tables, Goto, Creating, TypeOK
    <2> QED BY <2>2, <2>3, RequestsFrame
<1>3. ASSUME NEW w \in Workers, BeginFulfil(w) \/ BeginCancel(w) PROVE RequestsValid'
    <2>1. /\ res' = res /\ pc'[w] \notin Creating
          /\ \A v \in Workers : v # w => job'[v] = job[v] /\ pc'[v] = pc[v]
        BY <1>0, <1>3 DEF BeginFulfil, BeginCancel, tables, Goto, Creating, TypeOK
    <2> QED BY <2>1, RequestsFrame
<1>4. ASSUME NEW w \in Workers,
             CreateLock(w) \/ FulfilLock(w) \/ FulfilJoin(w) \/ FulfilRecord(w) \/ FulfilLot(w) \/ CancelLock(w)
      PROVE  RequestsValid'
    <2>1. res' = res /\ job' = job /\ \A v \in Workers : v # w => pc'[v] = pc[v]
        BY <1>0, <1>4 DEF CreateLock, FulfilLock, FulfilJoin, AfterLock, FulfilRecord, FulfilLot, CancelLock, LockReservation,
                          LockRecord, LockLot, tables, Goto, TypeOK
    <2>2. pc'[w] \in Creating => pc[w] \in Creating
        BY <1>0, <1>4 DEF CreateLock, FulfilLock, FulfilJoin, AfterLock, FulfilRecord, FulfilLot, CancelLock, Goto, Creating, TypeOK
    <2> QED BY <2>1, <2>2, RequestsFrame
<1>5. ASSUME NEW w \in Workers, Abandon(w) PROVE RequestsValid'
    <2>1. /\ res' = res /\ pc'[w] \notin Creating
          /\ \A v \in Workers : v # w => job'[v] = job[v] /\ pc'[v] = pc[v]
        BY <1>0, <1>5 DEF Abandon, Finish, tables, Goto, Creating, TypeOK
    <2> QED BY <2>1, RequestsFrame
<1>6. ASSUME NEW w \in Workers, CreateInsert(w) PROVE RequestsValid'
    <2>1. /\ pc'[w] \notin Creating /\ pc[w] \in Creating
          /\ \A v \in Workers : v # w => job'[v] = job[v] /\ pc'[v] = pc[v]
        BY <1>0, <1>6 DEF CreateInsert, Finish, Goto, Creating, TypeOK
    <2>2. Issuable(job[w].at, job[w].qty)
        BY <2>1 DEF RequestsValid
    <2>3. \A i \in Reservations : /\ i # job[w].res => res'[i] = res[i]
                                  /\ i = job[w].res => /\ res'[i].at = job[w].at
                                                       /\ res'[i].qty = job[w].qty
        BY <1>0, <1>6 DEF CreateInsert, TypeOK
    <2> QED BY <2>1, <2>2, <2>3, RequestsFrame
<1>7. ASSUME NEW w \in Workers, FulfilCommit(w) \/ CancelCommit(w) PROVE RequestsValid'
    <2>1. PICK i \in Reservations : i = job[w].res
        BY <1>0 DEF TypeOK, Job
    <2>2. /\ res[i].status # "none" /\ pc'[w] \notin Creating
          /\ \A v \in Workers : v # w => job'[v] = job[v] /\ pc'[v] = pc[v]
        <3>1. CASE FulfilCommit(w)
            BY <1>0, <2>1, <3>1, SMTT(30)
               DEF WorkerInv, IsActive, Active, FulfilCommit, Finish, Goto, Creating, TypeOK
        <3>2. CASE CancelCommit(w)
            BY <1>0, <2>1, <3>2, SMTT(30)
               DEF WorkerInv, IsActive, Active, CancelCommit, Finish, Goto, Creating, TypeOK
        <3> QED BY <1>7, <3>1, <3>2
    <2>3. PICK st : res' = [res EXCEPT ![i].status = st]
        <3>1. CASE FulfilCommit(w)
            BY <2>1, <3>1 DEF FulfilCommit
        <3>2. CASE CancelCommit(w)
            BY <2>1, <3>2 DEF CancelCommit
        <3> QED BY <1>7, <3>1, <3>2
    <2>4. \A k \in Reservations : /\ res'[k].at = res[k].at /\ res'[k].qty = res[k].qty
                                  /\ k # i => res'[k] = res[k]
        BY <1>0, <2>3 DEF TypeOK, Row
    <2> QED BY <2>2, <2>4, RequestsFrame
<1>8. CASE SweepCommit
    <2>1. UNCHANGED <<pc, job>>
        BY <1>8 DEF SweepCommit, SweepEnds
    <2>2. \A i \in Reservations : /\ res'[i].at = res[i].at /\ res'[i].qty = res[i].qty
                                  /\ i \notin sweep.hits => res'[i] = res[i]
        BY <1>0, <1>8 DEF SweepCommit, TypeOK, Row
    <2>3. \A i \in Reservations : i \in sweep.hits => res[i].status # "none"
        BY <1>0 DEF SweepInv, IsActive, Active
    <2> QED BY <2>1, <2>2, <2>3, RequestsFrame
<1>9. CASE UNCHANGED <<res, pc, job>>
    BY <1>9, RequestsFrame
<1>10. DirectMovement \/ SweepStart \/ SweepCrash \/ (\E i \in Reservations : FallDue(i) \/ SweepRow(i))
       \/ UNCHANGED reservationVars
           => UNCHANGED <<res, pc, job>>
    BY DEF DirectMovement, SweepStart, SweepCrash, SweepEnds, FallDue, SweepRow, tables, reservationVars
<1>11. ASSUME NEW w \in Workers, CreateStep(w) \/ FulfilStep(w) \/ CancelStep(w) \/ Crash(w)
       PROVE  RequestsValid'
    BY <1>2, <1>4, <1>5, <1>6, <1>7, <1>11, AbandonSteps DEF CreateStep, FulfilStep, CancelStep
<1> QED
    BY <1>1, <1>3, <1>8, <1>9, <1>10, <1>11 DEF Next, Sweep

(* A fulfilment is the issue of its reservation. *)
LEMMA FulfilPosts ==
    ASSUME ReservationInv, RequestsValid, NEW w \in Workers, FulfilCommit(w)
    PROVE  \E m \in Movement : Post(m)
<1>0. TypeOK /\ WorkerInv(w)
    BY DEF ReservationInv
<1>1. PICK i \in Reservations : i = job[w].res
    BY <1>0 DEF TypeOK, Job
<1>2. PICK p \in Products, l \in Locations, n \in Nat :
          res[i].at = <<p, l>> /\ n = res[i].qty
    BY <1>0, SMTT(30) DEF TypeOK, Row, StockRecord
<1>3. /\ IsActive(i) /\ quantity[<<p, l>>] >= n
      /\ n \in Quantities /\ TenantOf[p] = TenantOf[l]
    BY <1>0, <1>1, <1>2 DEF FulfilCommit, WorkerInv, RequestsValid, Issuable, IsActive, Active
<1> DEFINE m == [product |-> p, type |-> "issue", from |-> l, to |-> NoLocation, quantity |-> n]
<1>4. m \in Movement /\ ValidMovement(m) /\ HasSource(m) /\ ~HasDest(m) /\ Source(m) = <<p, l>>
    BY <1>3, MovementAssumption
       DEF Movement, MovementType, ValidMovement, Clean, SameTenant, SameScope, HasSource, HasDest, Source
<1>5. /\ quantity' = [quantity EXCEPT ![<<p, l>>] = @ - n]
      /\ outflow' = [outflow EXCEPT ![<<p, l>>] = @ + n] /\ inflow' = inflow
    BY <1>1, <1>2 DEF FulfilCommit
<1>6. m.quantity = n
    OBVIOUS
<1> HIDE DEF m
<1>7. ASSUME NEW rec \in StockRecord
      PROVE  Outgoing(m, rec) = (IF rec = <<p, l>> THEN n ELSE 0) /\ Incoming(m, rec) = 0
    BY <1>4, <1>6 DEF Outgoing, Incoming
<1>8. LedgerTypeOK /\ <<p, l>> \in StockRecord
    BY <1>0 DEF TypeOK, StockRecord
<1>9. quantity' = [rec \in StockRecord |-> quantity[rec] - Outgoing(m, rec) + Incoming(m, rec)]
    <2>1. quantity = [rec \in StockRecord |-> quantity[rec]] /\ \A rec \in StockRecord : quantity[rec] \in Int
        BY <1>8 DEF LedgerTypeOK
    <2>2. quantity' = [rec \in StockRecord |-> IF rec = <<p, l>> THEN quantity[rec] - n ELSE quantity[rec]]
        BY ONLY <1>5, <2>1
    <2>3. ASSUME NEW rec \in StockRecord
          PROVE  (IF rec = <<p, l>> THEN quantity[rec] - n ELSE quantity[rec])
                     = quantity[rec] - Outgoing(m, rec) + Incoming(m, rec)
        BY ONLY <1>7, <2>1, <2>3, n \in Nat
    <2> QED BY ONLY <2>2, <2>3
<1>10. inflow' = [rec \in StockRecord |-> inflow[rec] + Incoming(m, rec)]
    BY <1>5, <1>7, <1>8 DEF LedgerTypeOK
<1>11. outflow' = [rec \in StockRecord |-> outflow[rec] + Outgoing(m, rec)]
    <2>1. outflow = [rec \in StockRecord |-> outflow[rec]] /\ \A rec \in StockRecord : outflow[rec] \in Int
        BY <1>8 DEF LedgerTypeOK
    <2>2. outflow' = [rec \in StockRecord |-> IF rec = <<p, l>> THEN outflow[rec] + n ELSE outflow[rec]]
        BY ONLY <1>5, <2>1
    <2>3. ASSUME NEW rec \in StockRecord
          PROVE  (IF rec = <<p, l>> THEN outflow[rec] + n ELSE outflow[rec])
                     = outflow[rec] + Outgoing(m, rec)
        BY ONLY <1>7, <2>1, <2>3, n \in Nat
    <2> QED BY ONLY <2>2, <2>3
<1> QED BY <1>3, <1>4, <1>6, <1>9, <1>10, <1>11 DEF Post

LEMMA OtherStepsPostNothing ==
    ASSUME ReservationInv, [Next]_reservationVars,
           ~DirectMovement, ~\E w \in Workers : FulfilCommit(w)
    PROVE  UNCHANGED ledgerVars
<1>0. TypeOK /\ \A w \in Workers : WorkerInv(w)
    BY DEF ReservationInv
<1>1. ASSUME NEW w \in Workers,
             LocalStep(w) \/ LockStep(w) \/ Abandon(w) \/ CreateInsert(w) \/ CancelCommit(w)
      PROVE  UNCHANGED ledgerVars
    BY <1>1 DEF LocalStep, LockStep, LockReservation, LockRecord, LockLot, Abandon, Finish,
                CreateInsert, CancelCommit, tables, ledgerVars
<1>2. ASSUME NEW w \in Workers,
             \/ BeginCreate(w) \/ BeginFulfil(w) \/ BeginCancel(w)
             \/ CreateStep(w) \/ FulfilStep(w) \/ CancelStep(w) \/ Crash(w)
      PROVE  UNCHANGED ledgerVars
    BY <1>0, <1>1, <1>2, LocalSteps, LockSteps, AbandonSteps
       DEF CreateStep, FulfilStep, CancelStep
<1>3. ASSUME \/ SweepStart \/ SweepCommit \/ SweepCrash
             \/ \E i \in Reservations : FallDue(i) \/ SweepRow(i)
      PROVE  UNCHANGED ledgerVars
    BY <1>3 DEF SweepStart, SweepCommit, SweepCrash, SweepEnds, FallDue, SweepRow, tables, ledgerVars
<1>4. CASE UNCHANGED reservationVars
    BY <1>4 DEF reservationVars, ledgerVars
<1> QED BY <1>2, <1>3, <1>4 DEF Next, Sweep

(* Reservations implement the ledger: a fulfilment and a movement of others  *)
(* are each one Post of a valid movement, and creating, cancelling and       *)
(* expiring move no stock.                                                   *)
THEOREM ReservationImplementsLedger == Spec => LedgerSpec
<1>1. Init => LedgerInit
    BY DEF Init
<1>2. ReservationInv /\ RequestsValid /\ [Next]_reservationVars => [LedgerNext]_ledgerVars
    <2> SUFFICES ASSUME ReservationInv, RequestsValid, [Next]_reservationVars
                 PROVE  [LedgerNext]_ledgerVars
        OBVIOUS
    <2>1. CASE DirectMovement
        BY <2>1 DEF DirectMovement, LedgerNext
    <2>2. CASE \E w \in Workers : FulfilCommit(w)
        BY <2>2, FulfilPosts DEF LedgerNext
    <2> QED BY <2>1, <2>2, OtherStepsPostNothing
<1>3. Spec => []RequestsValid
    <2>1. ReservationInv /\ RequestsValid /\ [Next]_reservationVars => RequestsValid'
        BY StepRequests
    <2> QED BY <2>1, InitRequests, ReservationInvariant, PTL DEF Spec
<1> QED BY <1>1, <1>2, <1>3, ReservationInvariant, PTL DEF Spec, LedgerSpec

-----------------------------------------------------------------------------
(* Reports while the rows change.                                            *)

(* What stock does in one step: it leaves records, and without a direct      *)
(* movement it comes into none.                                              *)
LEMMA StockSteps ==
    ASSUME ReservationInv, [Next]_reservationVars
    PROVE  /\ \A rec \in StockRecord : outflow[rec] <= outflow'[rec]
           /\ DirectMovement \/ \A rec \in StockRecord : quantity'[rec] <= quantity[rec]
           /\ direct' = 0 => direct = 0 /\ ~DirectMovement
<1>0. TypeOK /\ \A w \in Workers : WorkerInv(w)
    BY DEF ReservationInv
<1>1. CASE DirectMovement
    <2>1. PICK m \in Movement : Post(m)
        BY <1>1 DEF DirectMovement
    <2>2. \A rec \in StockRecord : outflow'[rec] = outflow[rec] + Outgoing(m, rec)
        BY <2>1 DEF Post
    <2>3. \A rec \in StockRecord : outflow[rec] <= outflow'[rec]
        BY <1>0, <2>2, MovementTypes DEF TypeOK, LedgerTypeOK
    <2>4. direct' # 0
        BY <1>0, <1>1 DEF DirectMovement, TypeOK
    <2> QED BY <1>1, <2>3, <2>4
<1>2. CASE UNCHANGED <<quantity, outflow, direct>> /\ ~DirectMovement
    BY <1>0, <1>2 DEF TypeOK, LedgerTypeOK
<1>3. ASSUME NEW w \in Workers, FulfilCommit(w)
      PROVE  /\ \A rec \in StockRecord : outflow[rec] <= outflow'[rec] /\ quantity'[rec] <= quantity[rec]
             /\ UNCHANGED direct
    <2>1. PICK row \in Row : row = res[job[w].res]
        BY <1>0 DEF TypeOK, Job
    <2>2. row.at \in StockRecord /\ row.qty \in Nat
        BY <2>1 DEF Row
    <2>3. /\ quantity' = [quantity EXCEPT ![row.at] = @ - row.qty]
          /\ outflow' = [outflow EXCEPT ![row.at] = @ + row.qty]
          /\ UNCHANGED direct
        BY <1>3, <2>1 DEF FulfilCommit, Finish
    <2>4. ASSUME NEW rec \in StockRecord
          PROVE  outflow[rec] <= outflow'[rec] /\ quantity'[rec] <= quantity[rec]
        BY <1>0, <2>2, <2>3 DEF TypeOK, LedgerTypeOK
    <2> QED BY <2>3, <2>4
<1>4. ASSUME ~DirectMovement, ~\E w \in Workers : FulfilCommit(w)
      PROVE  UNCHANGED <<quantity, outflow, direct>>
    <2>1. ASSUME NEW w \in Workers, LocalStep(w) \/ LockStep(w) \/ Abandon(w) \/ CreateInsert(w) \/ CancelCommit(w)
          PROVE  UNCHANGED <<quantity, outflow, direct>>
        BY <2>1 DEF LocalStep, LockStep, LockReservation, LockRecord, LockLot, Abandon, Finish,
                    CreateInsert, CancelCommit, tables
    <2>2. ASSUME NEW w \in Workers,
                 \/ BeginCreate(w) \/ BeginFulfil(w) \/ BeginCancel(w)
                 \/ CreateStep(w) \/ FulfilStep(w) \/ CancelStep(w) \/ Crash(w)
          PROVE  UNCHANGED <<quantity, outflow, direct>>
        BY <1>0, <1>4, <2>1, <2>2, LocalSteps, LockSteps, AbandonSteps
           DEF CreateStep, FulfilStep, CancelStep
    <2>3. ASSUME \/ SweepStart \/ SweepCommit \/ SweepCrash
                 \/ \E i \in Reservations : FallDue(i) \/ SweepRow(i)
          PROVE  UNCHANGED <<quantity, outflow, direct>>
        BY <2>3 DEF SweepStart, SweepCommit, SweepCrash, SweepEnds, FallDue, SweepRow, tables
    <2>4. CASE UNCHANGED reservationVars
        BY <2>4 DEF reservationVars
    <2> QED BY <1>4, <2>2, <2>3, <2>4 DEF Next, Sweep
<1> QED
    BY <1>1, <1>2, <1>3, <1>4

(* Sums over the records a report takes in. *)
LEMMA ScopeFinite ==
    /\ IsFiniteSet(StockRecord)
    /\ \A p, s : ScopedRecords(p, s) \in SUBSET StockRecord /\ IsFiniteSet(ScopedRecords(p, s))
<1>1. IsFiniteSet(StockRecord)
    BY ReportAssumption, FS_Product DEF StockRecord
<1> QED
    BY <1>1, FS_Subset DEF ScopedRecords

LEMMA ScopedOrder ==
    ASSUME NEW f \in [StockRecord -> Int], NEW g \in [StockRecord -> Int],
           \A rec \in StockRecord : f[rec] <= g[rec], NEW p, NEW s
    PROVE  SumFunctionOnSet(f, ScopedRecords(p, s)) <= SumFunctionOnSet(g, ScopedRecords(p, s))
<1> DEFINE R == ScopedRecords(p, s)
<1>1. IsFiniteSet(R) /\ \A rec \in R : f[rec] \in Int /\ g[rec] \in Int /\ f[rec] <= g[rec]
    BY ScopeFinite
<1> HIDE DEF R
<1>2. SumFunctionOnSet(f, R) <= SumFunctionOnSet(g, R)
    BY ONLY <1>1, SumMonotone
<1> QED BY <1>2 DEF R

LEMMA ScopedBalance ==
    ASSUME NEW q \in [StockRecord -> Int], NEW in \in [StockRecord -> Int],
           NEW out \in [StockRecord -> Int],
           \A rec \in StockRecord : q[rec] = in[rec] - out[rec], NEW p, NEW s
    PROVE  SumFunctionOnSet(q, ScopedRecords(p, s))
               = SumFunctionOnSet(in, ScopedRecords(p, s)) - SumFunctionOnSet(out, ScopedRecords(p, s))
<1> DEFINE R == ScopedRecords(p, s)
<1>1. /\ IsFiniteSet(R)
      /\ \A rec \in R : in[rec] \in Int /\ out[rec] \in Int /\ q[rec] = in[rec] - out[rec]
    BY ScopeFinite
<1> HIDE DEF R
<1>2. SumFunctionOnSet(q, R) = SumFunctionOnSet(in, R) - SumFunctionOnSet(out, R)
    BY ONLY <1>1, SumMinus
<1> QED BY <1>2 DEF R

LEMMA ScopedInt ==
    ASSUME NEW f \in [StockRecord -> Int], NEW p, NEW s
    PROVE  SumFunctionOnSet(f, ScopedRecords(p, s)) \in Int
<1> DEFINE R == ScopedRecords(p, s)
<1>1. IsFiniteSet(R) /\ \A rec \in R : f[rec] \in Int
    BY ScopeFinite
<1> HIDE DEF R
<1>2. SumFunctionOnSet(f, R) \in Int
    BY ONLY <1>1, SumInt
<1> QED BY <1>2 DEF R

LEMMA UnitsNat ==
    ASSUME TypeOK, NEW rows \in SUBSET Reservations
    PROVE  IsFiniteSet(rows) /\ Units(rows) \in Nat
<1> DEFINE f == [i \in Reservations |-> res[i].qty]
<1>1. IsFiniteSet(rows) /\ \A i \in rows : f[i] \in Nat
    BY FS_Subset DEF TypeOK, Row
<1> HIDE DEF f
<1>2. SumFunctionOnSet(f, rows) \in Nat
    BY ONLY <1>1, SumNat
<1> QED BY <1>1, <1>2 DEF f, Units

LEMMA ReadingTypes ==
    ASSUME TypeOK, NEW p, NEW s
    PROVE  /\ OnHand(p, s) \in Int /\ Received(p, s) \in Int /\ ReservedIn(p, s) \in Nat
           /\ Free(p, s) \in Int /\ FreeNet(p, s) \in Int
<1>1. quantity \in [StockRecord -> Int] /\ inflow \in [StockRecord -> Int]
    BY DEF TypeOK, LedgerTypeOK
<1>2. OnHand(p, s) \in Int /\ Received(p, s) \in Int
    BY <1>1, ScopedInt DEF OnHand, Received
<1>3. ActiveIn(p, s) \in SUBSET Reservations
    BY DEF ActiveIn
<1>4. ReservedIn(p, s) \in Nat
    BY <1>3, UnitsNat DEF ReservedIn
<1> QED BY <1>2, <1>4 DEF Free, FreeNet

(* A report under way: with what it has read, what it would say is bounded   *)
(* by what was free when it began.                                           *)
ReadingInv ==
    /\ reading \in [kind : Kinds \cup {"none"}, scope : Partitions,
                    read : [Products -> Int], free : [Products -> Int]]
    /\ direct = 0 => \A rec \in StockRecord : TakenDirectly(rec) = 0
    /\ \A p \in Products :
          /\ reading.kind = "availability" =>
                 OnHand(p, reading.scope) - reading.read[p]
                     <= reading.free[p] + Received(p, reading.scope)
          /\ reading.kind = "dashboard" /\ direct = 0 =>
                 OnHand(p, reading.scope) <= reading.read[p]

LEMMA NoReadingType ==
    NoReading \in [kind : Kinds \cup {"none"}, scope : Partitions,
                   read : [Products -> Int], free : [Products -> Int]]
BY DEF NoReading, Partitions

LEMMA InitReading ==
    ASSUME ReportInit, ReservationInv
    PROVE  ReadingInv
<1>1. reading = NoReading /\ reading.kind = "none"
    BY DEF ReportInit, NoReading
<1>2. ASSUME NEW rec \in StockRecord PROVE TakenDirectly(rec) = 0
    <2>1. \A i \in Reservations : FulfilledFrom(rec)[i] = 0
        BY DEF ReportInit, Init, NoRow, FulfilledFrom
    <2>2. Fulfilled(rec) = 0
        BY <2>1, SumZero DEF Fulfilled
    <2> QED BY <2>2 DEF ReportInit, Init, LedgerInit, TakenDirectly, Fulfilled
<1> QED BY <1>1, <1>2, NoReadingType DEF ReadingInv

LEMMA ReadingKept ==
    ASSUME ReservationInv, ReservationInv', TakenSame \/ DirectMovement,
           [Next]_reservationVars, UNCHANGED reading, ReadingInv
    PROVE  ReadingInv'
<1>s. PICK s \in Partitions : s = reading.scope
    BY DEF ReadingInv
<1>0. /\ TypeOK /\ LedgerBalances /\ TypeOK' /\ LedgerBalances'
      /\ \A rec \in StockRecord : outflow[rec] <= outflow'[rec]
      /\ DirectMovement \/ \A rec \in StockRecord : quantity'[rec] <= quantity[rec]
      /\ direct' = 0 => direct = 0 /\ ~DirectMovement
    BY StockSteps DEF ReservationInv
<1>1. /\ quantity \in [StockRecord -> Int] /\ inflow \in [StockRecord -> Int]
      /\ outflow \in [StockRecord -> Int]
      /\ quantity' \in [StockRecord -> Int] /\ inflow' \in [StockRecord -> Int]
      /\ outflow' \in [StockRecord -> Int]
      /\ \A rec \in StockRecord : quantity[rec] = inflow[rec] - outflow[rec]
      /\ \A rec \in StockRecord : quantity'[rec] = inflow'[rec] - outflow'[rec]
    BY <1>0 DEF TypeOK, LedgerTypeOK, LedgerBalances
<1>2. direct' = 0 => \A rec \in StockRecord : TakenDirectly(rec)' = 0
    BY <1>0 DEF ReadingInv, TakenSame
<1>3. ASSUME NEW p \in Products, reading.kind = "availability"
      PROVE  OnHand(p, s)' - reading'.read[p] <= reading'.free[p] + Received(p, s)'
    <2> DEFINE o == SumFunctionOnSet(outflow, ScopedRecords(p, s))
               o1 == SumFunctionOnSet(outflow', ScopedRecords(p, s))
    <2>1. OnHand(p, s) = Received(p, s) - o
        BY ONLY <1>1, ScopedBalance, SMTT(30) DEF OnHand, Received
    <2>2. OnHand(p, s)' = Received(p, s)' - o1
        <3>1. SumFunctionOnSet(quantity', ScopedRecords(p, s))
                  = SumFunctionOnSet(inflow', ScopedRecords(p, s)) - o1
            BY ONLY <1>1, ScopedBalance
        <3> QED BY <3>1 DEF OnHand, Received
    <2>3. o <= o1
        BY <1>0, <1>1, ScopedOrder
    <2>4. /\ OnHand(p, s) \in Int /\ Received(p, s) \in Int /\ o \in Int
          /\ OnHand(p, s)' \in Int /\ Received(p, s)' \in Int /\ o1 \in Int
        BY <1>1, ScopedInt DEF OnHand, Received
    <2>5. reading.read[p] \in Int /\ reading.free[p] \in Int
        BY DEF ReadingInv
    <2>6. OnHand(p, s) - reading.read[p] <= reading.free[p] + Received(p, s)
        BY <1>s, <1>3 DEF ReadingInv
    <2> HIDE DEF o, o1
    <2>7. OnHand(p, s)' - reading.read[p] <= reading.free[p] + Received(p, s)'
        BY <2>1, <2>2, <2>3, <2>4, <2>5, <2>6
    <2> QED BY <2>7
<1>4. ASSUME NEW p \in Products, reading.kind = "dashboard", direct' = 0
      PROVE  OnHand(p, s)' <= reading'.read[p]
    <2>1. OnHand(p, s)' <= OnHand(p, s)
        BY <1>0, <1>1, <1>4, ScopedOrder DEF OnHand
    <2>2. OnHand(p, s)' \in Int /\ OnHand(p, s) \in Int
        BY <1>1, ScopedInt DEF OnHand
    <2>3. OnHand(p, s) <= reading.read[p] /\ reading.read[p] \in Int
        BY <1>s, <1>0, <1>4 DEF ReadingInv
    <2> QED BY <2>1, <2>2, <2>3
<1> QED
    BY <1>s, <1>2, <1>3, <1>4 DEF ReadingInv, OnHand, Received

-----------------------------------------------------------------------------
(* What the reports of one statement add up.                                 *)

(* What reservations hold of a record is the units of the active ones there. *)
LEMMA ReservedIsUnits ==
    ASSUME TypeOK, NEW rec \in StockRecord
    PROVE  Units({i \in Reservations : IsActive(i) /\ res[i].at = rec}) = Reserved(rec)
<1> DEFINE T == {i \in Reservations : IsActive(i) /\ res[i].at = rec}
           f == [i \in Reservations |-> res[i].qty]
           h == HeldBy(rec)
<1>1. /\ T \in SUBSET Reservations
      /\ \A i \in T : f[i] \in Int /\ h[i] = f[i]
      /\ \A i \in Reservations \ T : h[i] = 0
    BY DEF HeldBy, TypeOK, Row
<1>2. IsFiniteSet(Reservations)
    OBVIOUS
<1> HIDE DEF T, f, h
<1>3. SumFunctionOnSet(f, T) = SumFunctionOnSet(h, Reservations)
    BY ONLY <1>1, <1>2, SumPart
<1> QED BY <1>3 DEF T, f, h, Units, Reserved

(* Units added up key by key. *)
LEMMA UnitsByKey ==
    ASSUME TypeOK, NEW rows \in SUBSET Reservations, NEW K, IsFiniteSet(K), NEW key, NEW total,
           \A i \in rows : key[i] \in K,
           \A k \in K : total[k] = Units(Class(rows, key, k))
    PROVE  Units(rows) = SumFunctionOnSet(total, K)
<1> DEFINE f == [i \in Reservations |-> res[i].qty]
<1>1. IsFiniteSet(rows) /\ \A i \in rows : f[i] \in Int /\ key[i] \in K
    BY FS_Subset DEF TypeOK, Row
<1>2. \A k \in K : total[k] = SumFunctionOnSet(f, Class(rows, key, k))
    BY DEF Units
<1> HIDE DEF f
<1>3. SumFunctionOnSet(f, rows) = SumFunctionOnSet(total, K)
    BY <1>1, <1>2, SumClasses, SMTT(30)
<1> QED BY <1>3 DEF f, Units

LEMMA ReservedByRecord ==
    ASSUME TypeOK, NEW p, NEW s
    PROVE  ReservedIn(p, s)
               = SumFunctionOnSet([rec \in StockRecord |-> Reserved(rec)], ScopedRecords(p, s))
<1> DEFINE rows == ActiveIn(p, s)
           K == ScopedRecords(p, s)
           key == [i \in Reservations |-> res[i].at]
           total == [rec \in StockRecord |-> Reserved(rec)]
<1>1. rows \in SUBSET Reservations /\ IsFiniteSet(K)
    BY ScopeFinite DEF ActiveIn
<1>2. \A i \in rows : key[i] \in K
    BY DEF ActiveIn, ScopedRecords, TypeOK, Row
<1>3. ASSUME NEW rec \in K PROVE total[rec] = Units(Class(rows, key, rec))
    <2>1. rec \in StockRecord /\ rec[1] = p /\ InScope(rec[2], s)
        BY DEF ScopedRecords
    <2>2. Class(rows, key, rec) = {i \in Reservations : IsActive(i) /\ res[i].at = rec}
        BY <2>1 DEF Class, ActiveIn
    <2> QED BY <2>1, <2>2, ReservedIsUnits
<1> HIDE DEF rows, K, key, total
<1>4. Units(rows) = SumFunctionOnSet(total, K)
    BY <1>1, <1>2, <1>3, UnitsByKey
<1> QED BY <1>4 DEF rows, K, total, ReservedIn

(* Free is what the records in scope have available, one by one. *)
LEMMA FreeByRecord ==
    ASSUME TypeOK, NEW p, NEW s, NEW avail,
           avail = [rec \in StockRecord |-> quantity[rec] - Reserved(rec)]
    PROVE  Free(p, s) = SumFunctionOnSet(avail, ScopedRecords(p, s))
<1> DEFINE held == [rec \in StockRecord |-> Reserved(rec)]
           K == ScopedRecords(p, s)
<1>1. \A rec \in StockRecord : Reserved(rec) \in Int /\ quantity[rec] \in Int
    BY PromiseTypes
<1>2. /\ IsFiniteSet(K)
      /\ \A rec \in K : quantity[rec] \in Int /\ held[rec] \in Int /\ avail[rec] = quantity[rec] - held[rec]
    BY <1>1, ScopeFinite
<1> HIDE DEF held, K
<1>3. SumFunctionOnSet(avail, K) = SumFunctionOnSet(quantity, K) - SumFunctionOnSet(held, K)
    BY ONLY <1>2, SumMinus
<1>4. ReservedIn(p, s) = SumFunctionOnSet(held, K)
    BY ReservedByRecord DEF held, K
<1> QED BY <1>3, <1>4 DEF K, Free, OnHand

(* A location without a StockRecord row has neither stock nor reservations.  *)
LEMMA Unstocked ==
    ASSUME ReservationInv, PromiseInv, NEW rec \in StockRecord, ~Stocked(rec)
    PROVE  quantity[rec] = 0 /\ Reserved(rec) = 0
<1>1. /\ Opening[rec] \in Nat /\ inflow[rec] \in Nat /\ outflow[rec] \in Nat
      /\ quantity[rec] \in Int /\ quantity[rec] >= 0 /\ quantity[rec] = inflow[rec] - outflow[rec]
    BY DEF ReservationInv, TypeOK, LedgerTypeOK, NothingOverdrawn, NonNegativeStock, LedgerBalances
<1>2. quantity[rec] = 0 /\ outflow[rec] = 0
    BY <1>1 DEF Stocked
<1>3. Reserved(rec) \in Nat /\ Fulfilled(rec) \in Nat
    BY SumTypes DEF ReservationInv
<1>4. Reserved(rec) <= quantity[rec] + (outflow[rec] - Fulfilled(rec))
    BY DEF PromiseInv, ShortByDirectOnly, TakenDirectly, Fulfilled
<1> QED BY <1>2, <1>3, <1>4

(* A shortage of a partition is one of a record there. *)
LEMMA ShortageListed ==
    ASSUME ReservationInv, PromiseInv, NEW p \in Products, NEW s, Reorder[p] > 0,
           NEW rec \in ScopedRecords(p, s), Stocked(rec), Free(p, s) <= Reorder[p]
    PROVE  p \in LowStock(s)
<1> SUFFICES ASSUME p \notin LowStock(s) PROVE FALSE
    OBVIOUS
<1> DEFINE avail == [x \in StockRecord |-> quantity[x] - Reserved(x)]
           K == ScopedRecords(p, s)
<1>0. TypeOK /\ Reorder[p] \in Nat
    BY ReportAssumption DEF ReservationInv
<1>1. \A x \in StockRecord : Reserved(x) \in Int /\ quantity[x] \in Int
    BY <1>0, PromiseTypes
<1>2. ASSUME NEW x \in K, Stocked(x) PROVE avail[x] > Reorder[p]
    <2>1. x \in StockRecord /\ x[1] = p /\ InScope(x[2], s)
        BY DEF ScopedRecords
    <2>2. x \notin LowRecords(s)
        BY <2>1 DEF LowStock
    <2>3. ~(quantity[x] - Reserved(x) <= Reorder[p])
        BY <1>2, <2>1, <2>2 DEF LowRecords
    <2> QED BY <1>0, <1>1, <2>1, <2>3
<1>3. ASSUME NEW x \in K PROVE avail[x] \in Nat
    <2>1. x \in StockRecord /\ avail[x] = quantity[x] - Reserved(x)
        BY DEF ScopedRecords
    <2>2. avail[x] >= 0
        <3>1. CASE Stocked(x)
            <4>1. avail[x] > Reorder[p]
                BY <1>2, <3>1
            <4>2. avail[x] \in Int
                BY <1>1, <2>1
            <4> HIDE DEF avail
            <4> QED BY <1>0, <4>1, <4>2
        <3>2. CASE ~Stocked(x)
            <4>1. quantity[x] = 0 /\ Reserved(x) = 0
                BY <2>1, <3>2, Unstocked
            <4> QED BY <2>1, <4>1
        <3> QED BY <3>1, <3>2
    <2> QED BY <1>1, <2>1, <2>2
<1>4. IsFiniteSet(K) /\ rec \in K
    BY ScopeFinite
<1>5. Free(p, s) = SumFunctionOnSet(avail, K)
    BY <1>0, FreeByRecord
<1>6. avail[rec] > Reorder[p]
    BY <1>2, <1>4
<1> HIDE DEF avail, K
<1>7. avail[rec] <= SumFunctionOnSet(avail, K) /\ SumFunctionOnSet(avail, K) \in Nat
    BY <1>3, <1>4, SumNat
<1>8. avail[rec] \in Nat
    BY <1>3, <1>4
<1> QED BY <1>0, <1>5, <1>6, <1>7, <1>8

(* Without direct movements every held unit is there. *)
LEMMA FreeCovered ==
    ASSUME TypeOK, ShortByDirectOnly, \A rec \in StockRecord : TakenDirectly(rec) = 0,
           NEW p, NEW s
    PROVE  Free(p, s) >= 0
<1> DEFINE held == [rec \in StockRecord |-> Reserved(rec)]
<1>1. \A rec \in StockRecord : Reserved(rec) \in Int /\ quantity[rec] \in Int
    BY PromiseTypes
<1>2. \A rec \in StockRecord : Reserved(rec) <= quantity[rec]
    BY <1>1 DEF ShortByDirectOnly
<1>3. held \in [StockRecord -> Int] /\ quantity \in [StockRecord -> Int]
    BY <1>1 DEF TypeOK, LedgerTypeOK
<1>4. SumFunctionOnSet(held, ScopedRecords(p, s)) <= SumFunctionOnSet(quantity, ScopedRecords(p, s))
    BY <1>2, <1>3, ScopedOrder
<1>5. ReservedIn(p, s) <= OnHand(p, s)
    BY <1>4, ReservedByRecord DEF OnHand
<1> QED BY <1>5, ReadingTypes DEF Free

(* The active reservations of a scope, and what they hold. *)
ActiveRows(s) == {i \in Reservations : IsActive(i) /\ InScope(res[i].at[2], s)}

LEMMA RowTypes ==
    ASSUME TypeOK, NEW i \in Reservations
    PROVE  /\ res[i].qty \in Nat /\ res[i].at \in StockRecord
           /\ res[i].at[1] \in Products /\ res[i].at[2] \in Locations
           /\ res[i].at = <<res[i].at[1], res[i].at[2]>>
<1>1. res[i].qty \in Nat /\ res[i].at \in StockRecord
    BY DEF TypeOK, Row
<1> QED BY <1>1 DEF StockRecord

LEMMA TwoParts ==
    ASSUME TypeOK, NEW S \in SUBSET Reservations, NEW T \in SUBSET Reservations, S \cap T = {}
    PROVE  Units(S \cup T) = Units(S) + Units(T)
<1> DEFINE f == [i \in Reservations |-> res[i].qty]
<1>1. IsFiniteSet(S) /\ IsFiniteSet(T) /\ \A i \in S \cup T : f[i] \in Int
    BY FS_Subset, RowTypes
<1> HIDE DEF f
<1>2. SumFunctionOnSet(f, S \cup T) = SumFunctionOnSet(f, S) + SumFunctionOnSet(f, T)
    BY ONLY S \cap T = {}, <1>1, SumDisjoint
<1> QED BY <1>2 DEF f, Units

LEMMA TotalsAreActive ==
    ASSUME TypeOK, NEW s
    PROVE  ActiveTotals(s).units = Units(ActiveRows(s))
<1> DEFINE S == {i \in Reservations : res[i].status = "pending" /\ InScope(res[i].at[2], s)}
           T == {i \in Reservations : res[i].status = "confirmed" /\ InScope(res[i].at[2], s)}
<1>1. ActiveTotals(s).units = Units(S) + Units(T)
    BY DEF ActiveTotals, ByStatus, Status
<1>2. S \in SUBSET Reservations /\ T \in SUBSET Reservations /\ S \cap T = {}
    OBVIOUS
<1>3. ActiveRows(s) = S \cup T
    BY DEF ActiveRows, IsActive, Active
<1> HIDE DEF S, T
<1>4. Units(S \cup T) = Units(S) + Units(T)
    BY <1>2, TwoParts
<1> QED BY <1>1, <1>3, <1>4

LEMMA PendingIsActive ==
    ASSUME TypeOK
    PROVE  PendingReservations.units = Units(ActiveRows("all"))
<1>1. ActiveRows("all") = {i \in Reservations : IsActive(i)}
    BY DEF ActiveRows, InScope
<1> QED BY <1>1 DEF PendingReservations

LEMMA ProductsAddUp ==
    ASSUME TypeOK, NEW s
    PROVE  SumOf([p \in Products |-> ReservedIn(p, s)]) = Units(ActiveRows(s))
<1> DEFINE rows == ActiveRows(s)
           key == [i \in Reservations |-> res[i].at[1]]
           total == [p \in Products |-> ReservedIn(p, s)]
<1>1. rows \in SUBSET Reservations /\ IsFiniteSet(Products)
    BY ReportAssumption DEF ActiveRows
<1>2. \A i \in rows : key[i] \in Products
    BY RowTypes DEF ActiveRows
<1>3. ASSUME NEW p \in Products PROVE total[p] = Units(Class(rows, key, p))
    <2>1. Class(rows, key, p) = ActiveIn(p, s)
        BY DEF Class, ActiveRows, ActiveIn
    <2> QED BY <2>1 DEF ReservedIn
<1> HIDE DEF rows, key, total
<1>4. Units(rows) = SumFunctionOnSet(total, Products)
    BY <1>1, <1>2, <1>3, UnitsByKey
<1> QED BY <1>4 DEF rows, total, SumOf

(* A reserved unit is retail's or one facility's. *)
LEMMA PartitionsAddUp ==
    ASSUME TypeOK
    PROVE  PendingReservations.units =
               ActiveTotals("retail").units
                   + SumFunctionOnSet([w \in Warehouses |-> QuickStats(w).reserved], Warehouses)
<1> DEFINE retail == ActiveRows("retail")
           rows == {i \in Reservations : IsActive(i) /\ res[i].at[2] \in Facility}
           key == [i \in Reservations |-> WarehouseOf[res[i].at[2]]]
           total == [w \in Warehouses |-> QuickStats(w).reserved]
<1>1. /\ retail \in SUBSET Reservations /\ rows \in SUBSET Reservations
      /\ retail \cap rows = {} /\ ActiveRows("all") = retail \cup rows
    BY DEF ActiveRows, InScope
<1>2. IsFiniteSet(Warehouses) /\ \A i \in rows : key[i] \in Warehouses
    BY ReportAssumption, ScopeAssumption
<1>3. ASSUME NEW w \in Warehouses PROVE total[w] = Units(Class(rows, key, w))
    <2>1. Class(rows, key, w) = ActiveRows(w)
        <3>1. w # "all" /\ w # "retail"
            BY ScopeAssumption
        <3> QED BY <3>1 DEF Class, ActiveRows, InScope
    <2>2. total[w] = Units(ActiveRows(w))
        BY ProductsAddUp DEF QuickStats
    <2> QED BY <2>1, <2>2
<1>5. PendingReservations.units = Units(ActiveRows("all"))
    BY PendingIsActive
<1>6. ActiveTotals("retail").units = Units(retail)
    BY TotalsAreActive
<1> HIDE DEF retail, rows, key, total
<1>4. Units(rows) = SumFunctionOnSet(total, Warehouses)
    BY <1>1, <1>2, <1>3, UnitsByKey
<1>7. Units(retail \cup rows) = Units(retail) + Units(rows)
    BY <1>1, TwoParts
<1> QED BY <1>1, <1>4, <1>5, <1>6, <1>7 DEF total

(* A reserved unit is in the bar of its location. *)
LEMMA LocationsAddUp ==
    ASSUME ReservationInv, PromiseInv
    PROVE  PendingReservations.units =
               SumFunctionOnSet([l \in DOMAIN ByLocation |-> ByLocation[l].reserved], DOMAIN ByLocation)
<1> DEFINE rows == ActiveRows("all")
           key == [i \in Reservations |-> res[i].at[2]]
           of(l) == [p \in Products |-> Reserved(<<p, l>>)]
           total == [l \in Locations |-> SumOf(of(l))]
           D == {rec[2] : rec \in {x \in StockRecord : Stocked(x)}}
           bars == [l \in D |-> ByLocation[l].reserved]
<1>0. TypeOK
    BY DEF ReservationInv
<1>1. /\ rows \in SUBSET Reservations /\ IsFiniteSet(Locations)
      /\ \A i \in rows : key[i] \in Locations
    BY <1>0, RowTypes, ReportAssumption DEF ActiveRows
<1>2. ASSUME NEW l \in Locations PROVE total[l] = Units(Class(rows, key, l))
    <2> DEFINE here == Class(rows, key, l)
               product == [i \in Reservations |-> res[i].at[1]]
    <2>1. here \in SUBSET Reservations /\ IsFiniteSet(Products)
        BY ReportAssumption DEF ActiveRows, Class
    <2>2. \A i \in here : product[i] \in Products
        BY <1>0, RowTypes DEF ActiveRows, Class
    <2>3. ASSUME NEW p \in Products PROVE of(l)[p] = Units(Class(here, product, p))
        <3>1. <<p, l>> \in StockRecord
            BY DEF StockRecord
        <3>2. Class(here, product, p) = {i \in Reservations : IsActive(i) /\ res[i].at = <<p, l>>}
            BY <1>0, RowTypes DEF Class, ActiveRows, InScope
        <3> QED BY <1>0, <3>1, <3>2, ReservedIsUnits
    <2>5. total[l] = SumFunctionOnSet(of(l), Products)
        BY DEF SumOf
    <2> HIDE DEF here, product, of, total
    <2>4. Units(here) = SumFunctionOnSet(of(l), Products)
        BY <1>0, <2>1, <2>2, <2>3, UnitsByKey
    <2> QED BY <2>4, <2>5 DEF here
<1>3. D \in SUBSET Locations /\ DOMAIN ByLocation = D
    BY DEF StockRecord, ByLocation
<1>4. ASSUME NEW l \in D PROVE bars[l] = total[l]
    BY <1>3 DEF ByLocation
<1>5. ASSUME NEW l \in Locations \ D PROVE total[l] = 0
    <2>1. \A p \in Products : of(l)[p] = 0
        <3> SUFFICES ASSUME NEW p \in Products PROVE Reserved(<<p, l>>) = 0
            OBVIOUS
        <3>1. <<p, l>> \in StockRecord /\ ~Stocked(<<p, l>>)
            BY <1>5 DEF StockRecord
        <3> QED BY <3>1, Unstocked
    <2>2. SumFunctionOnSet(of(l), Products) = 0
        <3> HIDE DEF of
        <3> QED BY <2>1, ReportAssumption, SumZero
    <2> QED BY <2>2 DEF SumOf
<1>6. \A l \in Locations : total[l] \in Int
    <2> SUFFICES ASSUME NEW l \in Locations PROVE total[l] \in Int
        OBVIOUS
    <2>1. Class(rows, key, l) \in SUBSET Reservations
        BY DEF ActiveRows, Class
    <2>2. Units(Class(rows, key, l)) \in Nat
        BY <1>0, <2>1, UnitsNat
    <2> HIDE DEF total, rows, key
    <2> QED BY <1>2, <2>2
<1>7. PendingReservations.units = Units(rows)
    BY <1>0, PendingIsActive
<1>8. bars = [l \in DOMAIN ByLocation |-> ByLocation[l].reserved]
    BY <1>3
<1> HIDE DEF rows, key, total, D, bars, of
<1>9. Units(rows) = SumFunctionOnSet(total, Locations)
    BY <1>0, <1>1, <1>2, UnitsByKey
<1>10. (\A l \in D : bars[l] \in Int /\ total[l] = bars[l]) /\ (\A l \in Locations \ D : total[l] = 0)
    BY <1>3, <1>4, <1>5, <1>6
<1>11. SumFunctionOnSet(bars, D) = SumFunctionOnSet(total, Locations)
    BY ONLY <1>1, <1>3, <1>10, SumPart
<1> QED BY <1>3, <1>7, <1>8, <1>9, <1>11

(* What the reserved stock of a scope is worth is part of what all of it is. *)
LEMMA ValueOfPart ==
    ASSUME TypeOK, NEW s, \A p \in Products : UnitCost[p] >= 0
    PROVE  SumOf([p \in Products |-> ReservedIn(p, s) * UnitCost[p]]) <= PendingReservations.value
<1> DEFINE rows == ActiveRows(s)
           all == {i \in Reservations : IsActive(i)}
           f == [i \in Reservations |-> res[i].qty]
           v == [i \in Reservations |-> res[i].qty * UnitCost[res[i].at[1]]]
           key == [i \in Reservations |-> res[i].at[1]]
           total == [p \in Products |-> ReservedIn(p, s) * UnitCost[p]]
<1>1. /\ rows \in SUBSET all /\ IsFiniteSet(rows) /\ IsFiniteSet(all) /\ IsFiniteSet(Products)
      /\ all \in SUBSET Reservations /\ rows \in SUBSET Reservations
    BY ReportAssumption, FS_Subset DEF ActiveRows
<1>2. ASSUME NEW i \in Reservations
      PROVE  key[i] \in Products /\ v[i] \in Nat /\ f[i] \in Nat /\ v[i] = f[i] * UnitCost[key[i]]
    <2>1. res[i].qty \in Nat /\ res[i].at[1] \in Products
        BY RowTypes
    <2>2. UnitCost[res[i].at[1]] \in Nat
        BY <2>1, ReportAssumption
    <2> QED BY <2>1, <2>2, TimesNat
<1>3. ASSUME NEW p \in Products PROVE total[p] = SumFunctionOnSet(v, Class(rows, key, p))
    <2> DEFINE here == Class(rows, key, p)
    <2>1. here = ActiveIn(p, s)
        BY DEF Class, ActiveRows, ActiveIn
    <2>2. here \in SUBSET Reservations /\ UnitCost[p] \in Int
        BY <1>1, ReportAssumption DEF Class
    <2>3. ASSUME NEW i \in here PROVE f[i] \in Int /\ v[i] = f[i] * UnitCost[p]
        <3>1. i \in Reservations /\ key[i] = p
            BY <2>2 DEF Class
        <3> HIDE DEF f, v, key
        <3> QED BY <1>2, <3>1
    <2>4. IsFiniteSet(here)
        BY <2>2, FS_Subset
    <2>5. total[p] = SumFunctionOnSet(f, here) * UnitCost[p]
        BY <2>1 DEF ReservedIn, Units
    <2> HIDE DEF here, f, v, key, total
    <2>6. SumFunctionOnSet(v, here) = SumFunctionOnSet(f, here) * UnitCost[p]
        BY ONLY <2>2, <2>3, <2>4, SumScale
    <2> QED BY <2>5, <2>6 DEF here
<1>4. PendingReservations.value = SumFunctionOnSet(v, all)
    BY DEF PendingReservations
<1> HIDE DEF rows, all, f, v, key, total
<1>5. \A i \in rows : v[i] \in Int /\ key[i] \in Products
    BY <1>1, <1>2
<1>6. SumFunctionOnSet(v, rows) = SumFunctionOnSet(total, Products)
    BY ONLY <1>1, <1>3, <1>5, SumClasses
<1>7. \A i \in all : v[i] \in Nat
    BY <1>1, <1>2
<1>8. SumFunctionOnSet(v, rows) <= SumFunctionOnSet(v, all)
    BY ONLY <1>1, <1>7, SumSubset
<1> QED BY <1>4, <1>6, <1>8 DEF total, SumOf

LEMMA OneStatement ==
    ASSUME ReservationInv, PromiseInv
    PROVE  OneStatementReportsAgree
<1>0. TypeOK
    BY DEF ReservationInv
<1>1. ASSUME NEW s \in Partitions, NEW p \in Products,
             Reorder[p] > 0, \E rec \in ScopedRecords(p, s) : Stocked(rec), Free(p, s) <= Reorder[p]
      PROVE  p \in LowStock(s)
    BY <1>1, ShortageListed
<1>2. ASSUME NEW s, NEW p \in LowStock(s) PROVE QuickStats(s).lowLines > 0
    <2>1. LowRecords(s) # {}
        BY DEF LowStock
    <2>2. IsFiniteSet(LowRecords(s))
        BY ScopeFinite, FS_Subset DEF LowRecords
    <2>3. Cardinality(LowRecords(s)) \in Nat /\ Cardinality(LowRecords(s)) # 0
        BY <2>1, <2>2, FS_CardinalityType, FS_EmptySet
    <2> QED BY <2>3 DEF QuickStats
<1>3. ASSUME NEW q PROVE {row.product : row \in LowStockRows(q)} = LowStock(Asked(q))
    <2> DEFINE line(p) == [product |-> p, total |-> OnHand(p, "all"),
                           deficit |-> Reorder[p] - OnHand(p, "all")]
    <2>1. LowStockRows(q) = {line(p) : p \in LowStock(Asked(q))}
        BY DEF LowStockRows, LowStockProducts
    <2>2. \A p : line(p).product = p
        OBVIOUS
    <2> HIDE DEF line
    <2> QED BY <2>1, <2>2
<1> QED
    BY <1>0, <1>1, <1>2, <1>3, PartitionsAddUp, LocationsAddUp DEF OneStatementReportsAgree

-----------------------------------------------------------------------------
(* What a report under way would say now.                                    *)
LEMMA LinesSound ==
    ASSUME ReservationInv, PromiseInv, ReadingInv
    PROVE  ShortagesShow
<1>s. PICK s \in Partitions : s = reading.scope
    BY DEF ReadingInv
<1>0. TypeOK /\ ShortByDirectOnly
    BY DEF ReservationInv, PromiseInv
<1>1. ASSUME NEW p \in Products, reading.kind = "availability"
      PROVE  Line(p).available <= reading.free[p] + Received(p, reading.scope)
    <2>1. Line(p).available = OnHand(p, reading.scope) - reading.read[p]
        BY <1>1 DEF Line, First
    <2> QED BY <1>1, <2>1 DEF ReadingInv
<1>2. ASSUME NEW p \in Products, reading.kind = "dashboard", direct = 0
      PROVE  Line(p).available >= Free(p, s) /\ Line(p).available >= 0
    <2>1. Line(p).available = reading.read[p] - ReservedIn(p, s)
        BY <1>s, <1>2 DEF Line, First
    <2>2. OnHand(p, s) <= reading.read[p] /\ reading.read[p] \in Int
        BY <1>s, <1>2 DEF ReadingInv
    <2>3. OnHand(p, s) \in Int /\ ReservedIn(p, s) \in Int
        BY <1>0, ReadingTypes
    <2>4. OnHand(p, s) - ReservedIn(p, s) >= 0
        <3>1. \A rec \in StockRecord : TakenDirectly(rec) = 0
            BY <1>2 DEF ReadingInv
        <3> QED BY <1>0, <3>1, FreeCovered DEF Free
    <2> QED BY <2>1, <2>2, <2>3, <2>4 DEF Free
<1>3. ASSUME reading.kind = "dashboard", reading.scope = "all"
      PROVE  DashboardTotals.reserved = PendingReservations.units
    <2>1. [p \in Products |-> Line(p).reserved] = [p \in Products |-> ReservedIn(p, "all")]
        BY <1>3 DEF Line, First
    <2>2. SumOf([p \in Products |-> ReservedIn(p, "all")]) = PendingReservations.units
        BY <1>0, ProductsAddUp, PendingIsActive
    <2> QED BY <2>1, <2>2 DEF DashboardTotals
<1>4. ASSUME reading.kind = "availability", reading.read = AllOf(ReservedIn, reading.scope),
             \A p \in Products : UnitCost[p] >= 0
      PROVE  ReservedValue <= PendingReservations.value
    <2>1. \A p \in Products : reading.read[p] = ReservedIn(p, s)
        BY <1>s, <1>4 DEF AllOf
    <2>2. \A p \in Products : Availability[p].value = ReservedIn(p, s) * UnitCost[p]
        BY <1>4, <2>1 DEF Availability, Line, First
    <2>3. [p \in Products |-> Availability[p].value] = [p \in Products |-> ReservedIn(p, s) * UnitCost[p]]
        BY <2>2
    <2> QED BY <1>0, <1>4, <2>3, ValueOfPart DEF ReservedValue
<1> QED
    BY <1>s, <1>1, <1>2, <1>3, <1>4, OneStatement DEF ShortagesShow

LEMMA ReadingStep ==
    ASSUME ReservationInv, ReservationInv', PromiseInv, ReadingInv, [ReportNext]_reportVars
    PROVE  ReadingInv'
<1>0. TypeOK
    BY DEF ReservationInv
<1>1. CASE [Next]_reservationVars /\ UNCHANGED reading
    BY <1>1, ReadingKept, StepPromiseInv
<1>2. ASSUME NEW kind \in Kinds, NEW q \in Asking, StartReport(kind, Asked(q))
      PROVE  ReadingInv'
    <2> DEFINE s == Asked(q)
    <2>1. s \in Partitions
        BY ReportAssumption
            DEF Asked, ScopeOf, ScopeParams, Partitions, Query, QueryString, Understood
    <2>2. \A p \in Products : /\ OnHand(p, s) \in Int /\ Received(p, s) \in Int
                              /\ ReservedIn(p, s) \in Int
        BY <1>0, ReadingTypes
    <2> DEFINE read == IF First(kind) = "stock" THEN AllOf(OnHand, s) ELSE AllOf(ReservedIn, s)
               free == IF kind = "availability" THEN AllOf(FreeNet, s) ELSE NoReading.free
    <2>3. reading' = [kind |-> kind, scope |-> s, read |-> read, free |-> free]
        BY <1>2 DEF StartReport
    <2>4. read \in [Products -> Int] /\ free \in [Products -> Int]
        BY <1>0, <2>2, ReadingTypes DEF AllOf, NoReading
    <2>5. UNCHANGED reservationVars
        BY <1>2 DEF StartReport
    <2>6. direct' = 0 => \A rec \in StockRecord : TakenDirectly(rec)' = 0
        BY <2>5 DEF ReadingInv, reservationVars, TakenDirectly, FulfilledFrom
    <2>7. ASSUME NEW p \in Products, kind = "availability"
          PROVE  OnHand(p, s) - read[p] <= free[p] + Received(p, s)
        <3>1. read[p] = ReservedIn(p, s)
            BY <2>7 DEF AllOf, First
        <3>2. free[p] = (OnHand(p, s) - ReservedIn(p, s)) - Received(p, s)
            BY <2>7 DEF AllOf, FreeNet, Free
        <3> HIDE DEF s, read, free
        <3> QED BY <2>2, <3>1, <3>2
    <2>8. ASSUME NEW p \in Products, kind = "dashboard"
          PROVE  OnHand(p, s) <= read[p]
        <3>1. read[p] = OnHand(p, s)
            BY <2>8 DEF AllOf, First
        <3> HIDE DEF s, read
        <3> QED BY <2>2, <3>1
    <2>9. \A p \in Products : OnHand(p, s)' = OnHand(p, s) /\ Received(p, s)' = Received(p, s)
        BY <2>5 DEF OnHand, Received, reservationVars
    <2> HIDE DEF s, read, free
    <2> QED
        BY <2>1, <2>3, <2>4, <2>6, <2>7, <2>8, <2>9 DEF ReadingInv
<1>3. CASE FinishReport
    <2>1. reading' = NoReading /\ UNCHANGED reservationVars /\ reading'.kind = "none"
        BY <1>3 DEF FinishReport, NoReading
    <2>2. direct' = 0 => \A rec \in StockRecord : TakenDirectly(rec)' = 0
        BY <2>1 DEF ReadingInv, reservationVars, TakenDirectly, FulfilledFrom
    <2> QED BY <2>1, <2>2, NoReadingType DEF ReadingInv
<1> QED
    BY <1>1, <1>2, <1>3 DEF ReportNext, reportVars

(* The reader changes nothing of what it reads. *)
LEMMA ReaderOnlyReads == ReportSpec => Spec
<1>1. ReportInit => Init
    BY DEF ReportInit
<1>2. [ReportNext]_reportVars => [Next]_reservationVars
    BY DEF ReportNext, StartReport, FinishReport, reportVars
<1> QED
    BY <1>1, <1>2, PTL DEF ReportSpec, Spec

(* No report hides a shortage: whichever commits come between the two        *)
(* statements of the availability report or the dashboard, and whatever the  *)
(* low stock report, the quick stats and the charts add up in one.           *)
THEOREM ShortagesShown == ReportSpec => []ShortagesShow
<1>1. ReportSpec => []ReservationInv
    BY ReaderOnlyReads, ReservationInvariant, PTL
<1>2. ReportSpec => []PromiseInv
    BY ReaderOnlyReads, PromiseKept, PTL
<1>3. ReportInit /\ ReservationInv => ReadingInv
    BY InitReading
<1>4. /\ ReservationInv /\ ReservationInv' /\ PromiseInv /\ ReadingInv /\ [ReportNext]_reportVars
      => ReadingInv'
    BY ReadingStep
<1>5. ReservationInv /\ PromiseInv /\ ReadingInv => ShortagesShow
    BY LinesSound
<1> QED
    BY <1>1, <1>2, <1>3, <1>4, <1>5, PTL DEF ReportSpec
=============================================================================
