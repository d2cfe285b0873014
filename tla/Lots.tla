---------------------------------- MODULE Lots ---------------------------------
(***************************************************************************)
(* StockService.process_movement_with_lots run by concurrent requests.     *)
(*                                                                         *)
(* In one transaction a request locks the StockRecord rows of its          *)
(* movement, then selects the lots it will take from (FIFO, LIFO, MANUAL   *)
(* or the one an adjustment names), locking each, then locks or inserts    *)
(* the lot it adds to, and commits.  Every value it computes comes from a  *)
(* row it has locked, which nobody changes before it ends; its writes are  *)
(* therefore made at the commit.  Capacity is left to module Stock.        *)
(***************************************************************************)
EXTENDS StockMovements, FiniteSetsExt, SequencesExt

CONSTANTS
    Opening,      \* what earlier receipts put in each record
    Lots, LotProduct, LotOpening,
    Age,          \* StockLot.received_date, as an order of the lots
    NoLot,        \* no lot_number given
    Tracking,     \* Product.tracking_mode
    Requests,     \* the concurrent requests, each making one call
    Nobody,       \* no owner of a row lock
    Calls,        \* the calls a request may make
    NoCall        \* a request that has not begun

Strategy == {"FIFO", "LIFO", "MANUAL"}

(* One element of manual_lot_allocations, or one lot to lock. *)
Share == [lot : Lots, quantity : Nat]

(* A call: its movement, whether the view found lot fields in the request    *)
(* (has_lot_fields), the lot_number, the strategy and the manual shares.     *)
IsCall(c) ==
    /\ DOMAIN c = {"move", "aware", "lot", "strategy", "manual"}
    /\ c.move \in Movement
    /\ c.aware \in BOOLEAN
    /\ c.lot \in Lots \cup {NoLot}
    /\ c.lot # NoLot => LotProduct[c.lot] = c.move.product   \* looked up by both
    /\ c.strategy \in Strategy
    /\ c.manual \in Seq(Share)

ASSUME LotsAssumption ==
    /\ Opening \in [StockRecord -> Nat]
    /\ LotProduct \in [Lots -> Products]
    /\ LotOpening \in [Lots -> Nat]
    /\ Age \in [Lots -> Nat]
    /\ NoLot \notin Lots
    /\ Tracking \in [Products -> {"none", "optional", "required"}]
    /\ Nobody \notin Requests
    /\ NoCall \notin Calls
    /\ \A c \in Calls : IsCall(c)
    /\ StockRecord \cap Lots = {}
    /\ IsFiniteSet(Lots) /\ IsFiniteSet(Locations) /\ IsFiniteSet(Requests)

VARIABLES
    quantity,    \* StockRecord.quantity
    inflow,      \* total of the StockMovement rows into each record
    outflow,     \* total of the StockMovement rows out of each record
    received,    \* StockLot.quantity_received; the row exists once it is > 0
    remaining,   \* StockLot.quantity_remaining
    links,       \* links[r][lot]: StockMovementLot.quantity of r's movement
    pc, call,    \* where each request is, and its call
    lock,        \* the request holding the row lock of a record or a lot
    queue,       \* the shares r has still to lock and test
    need,        \* the units r has still to find (_allocate_from_lots.remaining)
    plan         \* plan[r][lot]: the units r has found in lot

lotVars == <<quantity, inflow, outflow, received, remaining, links, pc, call,
             lock, queue, need, plan>>
dataVars == <<quantity, inflow, outflow, received, remaining, links>>

Row == StockRecord \cup Lots
InTransaction == {"source", "dest", "select", "lots", "put", "commit"}
Final == {"committed", "refused", "aborted"}

Init ==
    /\ quantity = Opening
    /\ inflow = Opening
    /\ outflow = [rec \in StockRecord |-> 0]
    /\ received = LotOpening
    /\ remaining = LotOpening
    /\ links = [r \in Requests |-> [lot \in Lots |-> 0]]
    /\ pc = [r \in Requests |-> "idle"]
    /\ call = [r \in Requests |-> NoCall]
    /\ lock = [row \in Row |-> Nobody]
    /\ queue = [r \in Requests |-> <<>>]
    /\ need = [r \in Requests |-> 0]
    /\ plan = [r \in Requests |-> [lot \in Lots |-> 0]]

Move(r) == call[r].move
Exists(lot) == received[lot] > 0

-----------------------------------------------------------------------------
(* Transactions.                                                             *)

Goto(r, step) == pc' = [pc EXCEPT ![r] = step]

(* Faulty: the lots are read without select_for_update. *)
FreeUnlocked(r, row) == row \in Lots \/ lock[row] \in {r, Nobody}

(* select_for_update, and the unique key of an insert, wait for the holder. *)
Free(r, row) == lock[row] \in {r, Nobody}
Take(r, row) == lock' = [lock EXCEPT ![row] = r]

(* Faulty: the transaction is left open. *)
EndKeepingLocks(r, outcome) ==
    /\ Goto(r, outcome)
    /\ queue' = [queue EXCEPT ![r] = <<>>]
    /\ need' = [need EXCEPT ![r] = 0]
    /\ plan' = [plan EXCEPT ![r] = [lot \in Lots |-> 0]]
    /\ UNCHANGED <<call, lock>>

(* COMMIT and ROLLBACK release the locks. *)
End(r, outcome) ==
    /\ Goto(r, outcome)
    /\ lock' = [row \in Row |-> IF lock[row] = r THEN Nobody ELSE lock[row]]
    /\ queue' = [queue EXCEPT ![r] = <<>>]
    /\ need' = [need EXCEPT ![r] = 0]
    /\ plan' = [plan EXCEPT ![r] = [lot \in Lots |-> 0]]
    /\ UNCHANGED call

Rollback(r, outcome) == End(r, outcome) /\ UNCHANGED dataVars

-----------------------------------------------------------------------------
(* Which lot operations a call runs.                                         *)

(* Lot fields were sent, and the product's tracking_mode is not "none". *)
UsesLots(c) == c.aware /\ Tracking[c.move.product] # "none"

(* LotTrackingRequiredError *)
LotMissing(c) ==
    /\ c.aware
    /\ Tracking[c.move.product] = "required"
    /\ c.move.type = "receive"
    /\ c.lot = NoLot

(* _process_lot_operations: a transfer takes from lots to record lineage. *)
TakesLots(c) == UsesLots(c) /\ HasSource(c.move)
PutsLot(c) ==
    /\ UsesLots(c)
    /\ c.move.type \in {"receive", "adjustment"}
    /\ HasDest(c.move)
    /\ c.lot # NoLot

(* Faulty: a transfer decrements the lots it moves. *)
ConsumesAnySource(c) == TakesLots(c)
ConsumesLots(c) == TakesLots(c) /\ c.move.type \in {"issue", "adjustment"}

(* The adjustment that names its lot, without manual shares. *)
NamesLot(c) == c.move.type = "adjustment" /\ c.lot # NoLot /\ c.manual = <<>>

AfterTaking(c) == IF PutsLot(c) THEN "put" ELSE "commit"
AfterRecords(c) == IF TakesLots(c) THEN "select" ELSE AfterTaking(c)
AfterSource(c) == IF HasDest(c.move) THEN "dest" ELSE AfterRecords(c)

-----------------------------------------------------------------------------
(* The steps of process_movement_with_lots.                                  *)

Begin(r) ==
    /\ pc[r] = "idle"
    /\ \E c \in Calls :
          /\ ValidMovement(c.move) /\ ~LotMissing(c)
          /\ call' = [call EXCEPT ![r] = c]
          /\ Goto(r, IF HasSource(c.move) THEN "source" ELSE "dest")
    /\ UNCHANGED <<dataVars, lock, queue, need, plan>>

(* Refused before the transaction: LotTrackingRequiredError, ValidationError. *)
Reject(r) ==
    /\ pc[r] = "idle"
    /\ \E c \in Calls : LotMissing(c) \/ ~ValidMovement(c.move)
    /\ Goto(r, "refused")
    /\ UNCHANGED <<dataVars, call, lock, queue, need, plan>>

(* _get_record_for_decrement *)
LockSource(r) ==
    /\ pc[r] = "source"
    /\ Free(r, Source(Move(r)))
    /\ quantity[Source(Move(r))] >= Move(r).quantity
    /\ Take(r, Source(Move(r)))
    /\ Goto(r, AfterSource(call[r]))
    /\ UNCHANGED <<dataVars, call, queue, need, plan>>

RefuseSource(r) ==
    /\ pc[r] = "source"
    /\ Free(r, Source(Move(r)))
    /\ quantity[Source(Move(r))] < Move(r).quantity
    /\ Rollback(r, "refused")

(* _get_or_create_record *)
LockDest(r) ==
    /\ pc[r] = "dest"
    /\ Free(r, Dest(Move(r)))
    /\ Take(r, Dest(Move(r)))
    /\ Goto(r, AfterRecords(call[r]))
    /\ UNCHANGED <<dataVars, call, queue, need, plan>>

(* The lots of the query's snapshot, in the order the strategy asks for; lots *)
(* with one received_date come in any order.                                  *)
InStock(p) == {lot \in Lots : LotProduct[lot] = p /\ remaining[lot] > 0}
(* Faulty: the two orders are swapped. *)
OrderedReversed(c, s) ==
    \A i, j \in DOMAIN s : i < j =>
        IF c.strategy = "FIFO" THEN Age[s[i]] >= Age[s[j]] ELSE Age[s[i]] <= Age[s[j]]
Ordered(c, s) ==
    \A i, j \in DOMAIN s : i < j =>
        IF c.strategy = "FIFO" THEN Age[s[i]] <= Age[s[j]] ELSE Age[s[i]] >= Age[s[j]]

Total(shares) == SumFunctionOnSet([i \in DOMAIN shares |-> shares[i].quantity], DOMAIN shares)

(* A share that must be there in full, not as far as it goes. *)
Exact(c) == NamesLot(c) \/ c.strategy = "MANUAL"

(* _allocate_from_lots, or the named lot of _lot_adjustment: what to lock. *)
Candidates(r) ==
    LET c == call[r]
        Whole(lot) == [lot |-> lot, quantity |-> c.move.quantity]
    IN IF NamesLot(c) THEN {<<Whole(c.lot)>>}
       ELSE IF c.strategy = "MANUAL" THEN {c.manual}
       ELSE {[i \in DOMAIN s |-> Whole(s[i])] :
                s \in {t \in SetToSeqs(InStock(c.move.product)) : Ordered(c, t)}}

(* ValueError (no shares, or shares that do not add up), StockLot.DoesNotExist *)
Unselectable(c) ==
    IF NamesLot(c) THEN ~Exists(c.lot)
    ELSE c.strategy = "MANUAL" /\ (c.manual = <<>> \/ Total(c.manual) # c.move.quantity)

Select(r) ==
    /\ pc[r] = "select"
    /\ ~Unselectable(call[r])
    /\ \E s \in Candidates(r) : queue' = [queue EXCEPT ![r] = s]
    /\ need' = [need EXCEPT ![r] = Move(r).quantity]
    /\ Goto(r, "lots")
    /\ UNCHANGED <<dataVars, call, lock, plan>>

RefuseSelect(r) ==
    /\ pc[r] = "select"
    /\ Unselectable(call[r])
    /\ Rollback(r, "refused")

(* What the share at the head of the queue gives: a FIFO or LIFO lot as much  *)
(* as it holds by the time it is locked, any other share all or nothing.      *)
Give(r) ==
    LET s == Head(queue[r]) IN
    IF Exact(call[r]) THEN s.quantity
    ELSE Min({remaining[s.lot], need[r]})

LockLot(r) ==
    /\ pc[r] = "lots" /\ queue[r] # <<>>
    /\ LET lot == Head(queue[r]).lot IN
       /\ Free(r, lot)
       /\ Exact(call[r]) => /\ LotProduct[lot] = Move(r).product
                            /\ remaining[lot] >= Head(queue[r]).quantity
       /\ Take(r, lot)
       /\ plan' = [plan EXCEPT ![r][lot] = @ + Give(r)]
    /\ need' = [need EXCEPT ![r] = @ - Give(r)]
    /\ queue' = [queue EXCEPT ![r] = Tail(@)]
    /\ UNCHANGED <<dataVars, pc, call>>

(* A share that is not there in full; or too little in all the lots together. *)
RefuseLots(r) ==
    /\ pc[r] = "lots"
    /\ IF queue[r] = <<>> THEN need[r] > 0
       ELSE LET s == Head(queue[r]) IN
            /\ Exact(call[r])
            /\ Free(r, s.lot)
            /\ LotProduct[s.lot] # Move(r).product \/ remaining[s.lot] < s.quantity
    /\ Rollback(r, "refused")

(* Faulty: nothing keeps a movement from linking one lot twice. *)
NeverTwice(r) == FALSE
(* A lot named twice: unique_together of StockMovementLot. *)
LinkedTwice(r) ==
    /\ call[r].strategy = "MANUAL" /\ ~NamesLot(call[r])
    /\ \E i, j \in DOMAIN call[r].manual :
          i # j /\ call[r].manual[i].lot = call[r].manual[j].lot

(* Faulty: nobody looks whether the lots held enough. *)
LotsFoundShort(r) ==
    /\ pc[r] = "lots" /\ queue[r] = <<>>
    /\ ~LinkedTwice(r)
    /\ Goto(r, AfterTaking(call[r]))
    /\ UNCHANGED <<dataVars, call, lock, queue, need, plan>>

(* The loop that decrements the lots and creates the links. *)
LotsFound(r) ==
    /\ pc[r] = "lots" /\ queue[r] = <<>> /\ need[r] = 0
    /\ ~LinkedTwice(r)
    /\ Goto(r, AfterTaking(call[r]))
    /\ UNCHANGED <<dataVars, call, lock, queue, need, plan>>

RefuseDuplicate(r) ==
    /\ pc[r] = "lots" /\ queue[r] = <<>> /\ need[r] = 0
    /\ LinkedTwice(r)
    /\ Rollback(r, "refused")

(* _lot_receive: get_or_create waits for whoever holds or inserts the lot. *)
PutInLot(r) ==
    /\ pc[r] = "put"
    /\ Free(r, call[r].lot)
    /\ Take(r, call[r].lot)
    /\ Goto(r, "commit")
    /\ UNCHANGED <<dataVars, call, queue, need, plan>>

Drawn(r, lot) == IF ConsumesLots(call[r]) THEN plan[r][lot] ELSE 0
Added(r, lot) == IF PutsLot(call[r]) /\ lot = call[r].lot THEN Move(r).quantity ELSE 0

Commit(r) ==
    /\ pc[r] = "commit"
    /\ quantity' = [rec \in StockRecord |->
                       quantity[rec] - Outgoing(Move(r), rec) + Incoming(Move(r), rec)]
    /\ inflow' = [rec \in StockRecord |-> inflow[rec] + Incoming(Move(r), rec)]
    /\ outflow' = [rec \in StockRecord |-> outflow[rec] + Outgoing(Move(r), rec)]
    /\ received' = [lot \in Lots |-> received[lot] + Added(r, lot)]
    /\ remaining' = [lot \in Lots |-> remaining[lot] - Drawn(r, lot) + Added(r, lot)]
    /\ links' = [links EXCEPT ![r] = [lot \in Lots |-> plan[r][lot] + Added(r, lot)]]
    /\ End(r, "committed")

Crash(r) == pc[r] \in InTransaction /\ Rollback(r, "aborted")

-----------------------------------------------------------------------------
(* Deadlock: FIFO and LIFO lock the same lots from opposite ends.            *)

Wanted(r) ==
    CASE pc[r] = "source" -> {Source(Move(r))}
      [] pc[r] = "dest"   -> {Dest(Move(r))}
      [] pc[r] = "put"    -> {call[r].lot}
      [] pc[r] = "lots" /\ queue[r] # <<>> -> {Head(queue[r]).lot}
      [] OTHER -> {}

WaitsFor(r, s) == r # s /\ \E row \in Wanted(r) : lock[row] = s

Deadlocked(r) ==
    \E S \in SUBSET Requests :
        /\ r \in S
        /\ \A s \in S : (\E t \in S : WaitsFor(s, t)) /\ (\E t \in S : WaitsFor(t, s))

DeadlockVictim(r) == Deadlocked(r) /\ Rollback(r, "aborted")

Terminated == (\A r \in Requests : pc[r] \in Final) /\ UNCHANGED lotVars

Step(r) ==
    \/ LockSource(r) \/ RefuseSource(r) \/ LockDest(r)
    \/ Select(r) \/ RefuseSelect(r) \/ LockLot(r) \/ RefuseLots(r)
    \/ LotsFound(r) \/ RefuseDuplicate(r) \/ PutInLot(r) \/ Commit(r)
    \/ DeadlockVictim(r)

Next ==
    \/ \E r \in Requests : Begin(r) \/ Reject(r) \/ Step(r) \/ Crash(r)
    \/ Terminated

Spec == Init /\ [][Next]_lotVars
FairSpec == Spec /\ \A r \in Requests : WF_lotVars(Step(r))

-----------------------------------------------------------------------------
(* Properties.                                                               *)

Done(r) == pc[r] = "committed"
UsedBy(r, lot) ==
    IF Done(r) /\ ConsumesLots(call[r])
    THEN links[r][lot] - Added(r, lot) ELSE 0

(* The refinement: what each lot has given is read off the StockMovementLot  *)
(* rows of consuming movements, and the lot ledger is implemented if that    *)
(* reading explains quantity_remaining at every plan it accepts.             *)
Used(lot) == SumFunctionOnSet([r \in Requests |-> UsedBy(r, lot)], Requests)
Ledger == INSTANCE LotLedger WITH used <- [lot \in Lots |-> Used(lot)]

(* Concurrent calls implement the atomic lot ledger: a committed movement    *)
(* took from lots that held its units, and posted both records, in one step  *)
(* (process_movement_with_lots).                                             *)
ImplementsLotLedger == Ledger!LotLedgerSpec

(* The StockMovementLot rows explain every lot: what it received, less what  *)
(* consuming movements are linked to, is quantity_remaining, never negative  *)
(* (_lot_receive, _lot_allocate_and_decrement, _lot_adjustment).             *)
LotsMatchLinks ==
    \A lot \in Lots :
        /\ remaining[lot] = received[lot] - Used(lot)
        /\ remaining[lot] >= 0

(* Lineage is complete: a committed lot-aware movement that leaves a record  *)
(* is linked to lots for all its units, no more and no less, whatever other  *)
(* requests took while it waited for a lot (_allocate_from_lots).            *)
LineageComplete ==
    \A r \in Requests : Done(r) /\ TakesLots(call[r]) =>
        SumFunctionOnSet([lot \in Lots |-> links[r][lot] - Added(r, lot)], Lots) = Move(r).quantity

(* FIFO and LIFO drain a lot before they touch one that comes after it, even *)
(* when the lots changed between the query and the locks.                    *)
DrainedInOrder ==
    \A r \in Requests : pc[r] = "lots" /\ ~Exact(call[r]) =>
        \A a, b \in Lots :
            /\ lock[a] = r /\ lock[b] = r /\ plan[r][b] > 0
            /\ IF call[r].strategy = "FIFO" THEN Age[a] < Age[b] ELSE Age[a] > Age[b]
            => plan[r][a] = remaining[a]

(* Units of product p that moved without their lots: process_movement, a     *)
(* receipt without a lot, the gaining leg of an adjustment that names none.  *)
Untracked(p, r) ==
    LET c == call[r]
        in == IF HasDest(c.move) /\ c.move.type # "transfer" /\ ~PutsLot(c)
              THEN c.move.quantity ELSE 0
        out == IF HasSource(c.move) /\ c.move.type # "transfer" /\ ~TakesLots(c)
               THEN c.move.quantity ELSE 0
    IN IF Done(r) /\ c.move.product = p THEN in - out ELSE 0

RecordDrift(p) == [l \in Locations |-> quantity[<<p, l>>] - Opening[<<p, l>>]]
LotDrift(p) ==
    [lot \in Lots |-> IF LotProduct[lot] = p THEN remaining[lot] - LotOpening[lot] ELSE 0]

(* Lots and records drift apart by exactly the movements that bypassed the   *)
(* lots: transfers, and adjustments of one lot on both legs, keep the sum of *)
(* a product's lots in step with the sum of its records.                     *)
DriftIsUntracked ==
    \A p \in Products :
        SumFunctionOnSet(RecordDrift(p), Locations)
        = SumFunctionOnSet(LotDrift(p), Lots)
          + SumFunctionOnSet([r \in Requests |-> Untracked(p, r)], Requests)

(* Every call that has begun ends: FIFO against LIFO, or lots against        *)
(* records, is broken by the deadlock detector.                              *)
CallsEnd == \A r \in Requests : pc[r] \in InTransaction ~> pc[r] \in Final

(* The inductive invariant.                                                  *)

Steps == {"idle"} \cup InTransaction \cup Final
AfterSelect == {"lots", "put", "commit"}

TypeOK ==
    /\ quantity \in [StockRecord -> Int]
    /\ inflow \in [StockRecord -> Nat] /\ outflow \in [StockRecord -> Nat]
    /\ received \in [Lots -> Nat] /\ remaining \in [Lots -> Int]
    /\ links \in [Requests -> [Lots -> Nat]]
    /\ pc \in [Requests -> Steps]
    /\ call \in [Requests -> Calls \cup {NoCall}]
    /\ lock \in [Row -> Requests \cup {Nobody}]
    /\ queue \in [Requests -> Seq(Share)]
    /\ need \in [Requests -> Nat]
    /\ plan \in [Requests -> [Lots -> Nat]]

(* Where a request is says what its call asks for. *)
CallInv(r) ==
    LET c == call[r] IN
    /\ pc[r] = "idle" => c = NoCall
    /\ pc[r] \in InTransaction \cup {"committed"} => c # NoCall /\ ValidMovement(c.move)
    /\ pc[r] = "source" => HasSource(c.move)
    /\ pc[r] = "dest" => HasDest(c.move)
    /\ pc[r] \in {"select", "lots"} => TakesLots(c)
    /\ pc[r] = "put" => PutsLot(c)

(* A request holds what it has locked until it ends, and only that. *)
LockInv(r) ==
    LET c == call[r] IN
    /\ pc[r] \in {"dest", "select"} \cup AfterSelect /\ HasSource(c.move) =>
           lock[Source(c.move)] = r /\ quantity[Source(c.move)] >= c.move.quantity
    /\ pc[r] \in {"select"} \cup AfterSelect /\ HasDest(c.move) => lock[Dest(c.move)] = r
    /\ pc[r] = "commit" /\ PutsLot(c) => lock[c.lot] = r
    /\ pc[r] \notin AfterSelect => \A lot \in Lots : lock[lot] # r
    /\ pc[r] \notin InTransaction => \A row \in Row : lock[row] # r

(* The units found so far are in locked lots and, with those still needed,   *)
(* are the movement's.                                                       *)
PlanInv(r) ==
    LET c == call[r] IN
    /\ pc[r] # "lots" => queue[r] = <<>> /\ need[r] = 0
    /\ pc[r] \notin AfterSelect => \A lot \in Lots : plan[r][lot] = 0
    /\ pc[r] \in AfterSelect /\ ~TakesLots(c) => \A lot \in Lots : plan[r][lot] = 0
    /\ \A lot \in Lots : plan[r][lot] > 0 => lock[lot] = r
    /\ pc[r] \in AfterSelect /\ TakesLots(c) =>
           SumFunctionOnSet(plan[r], Lots) + need[r] = c.move.quantity
    /\ pc[r] = "lots" /\ Exact(c) => need[r] = Total(queue[r])

(* Until a lot is linked twice, no lot gives more than it holds. *)
ShareInv(r) ==
    LET c == call[r] IN
    /\ pc[r] \in {"put", "commit"} /\ TakesLots(c) => ~LinkedTwice(r)
    /\ pc[r] \in AfterSelect /\ TakesLots(c) /\ ~LinkedTwice(r) =>
           /\ \A lot \in Lots : plan[r][lot] > 0 =>
                 LotProduct[lot] = c.move.product /\ plan[r][lot] <= remaining[lot]
           /\ \A i \in DOMAIN queue[r] : plan[r][queue[r][i].lot] = 0
           /\ \A i, j \in DOMAIN queue[r] : i # j => queue[r][i].lot # queue[r][j].lot

Before(c, a, b) == IF c.strategy = "FIFO" THEN Age[a] <= Age[b] ELSE Age[a] >= Age[b]

(* FIFO and LIFO: the lots locked come before those still to lock, and are   *)
(* drained unless nothing is needed any more.                                *)
QueueInv(r) ==
    LET c == call[r]
        q == queue[r] IN
    pc[r] = "lots" /\ ~Exact(c) =>
        /\ \A i \in DOMAIN q : LotProduct[q[i].lot] = c.move.product
        /\ \A i, j \in DOMAIN q : i < j => Before(c, q[i].lot, q[j].lot)
        /\ \A lot \in Lots : lock[lot] = r =>
               /\ \A i \in DOMAIN q : q[i].lot # lot /\ Before(c, lot, q[i].lot)
               /\ plan[r][lot] = remaining[lot] \/ need[r] = 0

RequestInv(r) ==
    /\ CallInv(r) /\ LockInv(r) /\ PlanInv(r) /\ ShareInv(r) /\ QueueInv(r)
    /\ ~Done(r) => \A lot \in Lots : links[r][lot] = 0

LotsInv ==
    /\ TypeOK
    /\ \A rec \in StockRecord : quantity[rec] >= 0
    /\ LotsMatchLinks /\ LineageComplete /\ DrainedInOrder /\ DriftIsUntracked
    /\ \A r \in Requests : RequestInv(r)
=============================================================================
