------------------------------- MODULE BulkStock -------------------------------
(***************************************************************************)
(* BulkStockService and the importers: batches of many items in one        *)
(* transaction, run by concurrent callers.                                 *)
(*                                                                         *)
(* Each item runs in a savepoint, so that one that fails is undone alone   *)
(* and reported; with fail_fast the first failure rolls the whole batch    *)
(* back.  An import validates every row and then inserts all or none.  An  *)
(* item's movement takes all its rows in one step: its inner interleavings *)
(* are module Stock's.  What a batch has written and not committed is in   *)
(* draft, price and rows it holds locked.                                  *)
(***************************************************************************)
EXTENDS StockMovements, Functions, Sequences

CONSTANTS
    Opening,      \* StockRecord.quantity at the start
    Missing,      \* a product_id without a row
    Unlimited,    \* StockLocation.max_capacity is null
    Capacity,     \* StockLocation.max_capacity
    Keys,         \* the unique keys (sku or code) imports create
    Callers,      \* the concurrent callers, each running one batch
    Nobody,       \* no owner of a row lock
    Batches,      \* the batches callers may run
    NoBatch       \* a caller that has not begun

Kind == {"transfer", "adjustment", "revalue", "import"}

(* amount is quantity, new_quantity, new_unit_cost, or 1 for an import row   *)
(* that validates and 0 for one that does not.  Only an import's items name  *)
(* keys, and the location of an adjustment has been looked up.               *)
IsBatch(b) ==
    /\ DOMAIN b = {"kind", "items", "from", "to", "failFast"}
    /\ b.kind \in Kind
    /\ b.from \in Locations \cup {NoLocation}
    /\ b.to \in Locations \cup {NoLocation}
    /\ b.kind = "adjustment" => b.to \in Locations
    /\ b.failFast \in BOOLEAN
    /\ b.items # <<>>
    /\ b.items \in Seq([product : IF b.kind = "import" THEN Keys ELSE Products \cup {Missing},
                        amount : Int])

ASSUME BulkAssumption ==
    /\ Opening \in [StockRecord -> Nat]
    /\ Missing \notin Products
    /\ Unlimited \notin Nat
    /\ Capacity \in [Locations -> Nat \cup {Unlimited}]
    /\ Nobody \notin Callers
    /\ NoBatch \notin Batches
    /\ \A b \in Batches : IsBatch(b)
    /\ IsFiniteSet(Callers)

VARIABLES
    quantity,    \* StockRecord.quantity
    cost,        \* Product.unit_cost
    created,     \* how many catalogue rows each imported key has
    pc, batch,   \* where each caller is, and its batch
    delta,       \* the change the current item of an adjustment asks for
    lock,        \* the caller holding the lock of a record, product or key
    draft,       \* draft[c][rec]: what c's open transaction adds to rec
    price,       \* price[c]: the unit costs c's open transaction has written
    report,      \* report[c]: one entry per item done (BulkOperationResult)
    broken,      \* callers whose transaction the database has aborted
    disturbed    \* <<caller, item>> whose record changed since the item read it

bulkVars == <<quantity, cost, created, pc, batch, delta, lock, draft, price,
              report, broken, disturbed>>
rowVars == <<quantity, cost, created>>

Row == StockRecord \cup Products \cup Keys
InBatch == {"item", "move", "insert", "commit"}
Outcome == {"committed", "undone", "refused", "invalid", "aborted"}

Init ==
    /\ quantity = Opening
    /\ cost = [p \in Products |-> 0]
    /\ created = [k \in Keys |-> 0]
    /\ pc = [c \in Callers |-> "idle"]
    /\ batch = [c \in Callers |-> NoBatch]
    /\ delta = [c \in Callers |-> 0]
    /\ lock = [row \in Row |-> Nobody]
    /\ draft = [c \in Callers |-> [rec \in StockRecord |-> 0]]
    /\ price = [c \in Callers |-> <<>>]
    /\ report = [c \in Callers |-> <<>>]
    /\ broken = {}
    /\ disturbed = {}

-----------------------------------------------------------------------------
ItemsOf(b) == {b.items[i] : i \in DOMAIN b.items}

Item(c) == batch[c].items[Len(report[c]) + 1]

(* What a query of c's transaction sees of a record. *)
View(c, rec) == quantity[rec] + draft[c][rec]

(* The movement the current item asks for (process_movement's arguments). *)
Move(c) ==
    LET b == batch[c] IN
    IF b.kind = "transfer"
    THEN [product |-> Item(c).product, type |-> "transfer", from |-> b.from,
          to |-> b.to, quantity |-> Item(c).amount]
    ELSE [product |-> Item(c).product, type |-> "adjustment",
          from |-> IF delta[c] < 0 THEN b.to ELSE NoLocation,
          to |-> IF delta[c] > 0 THEN b.to ELSE NoLocation,
          quantity |-> IF delta[c] < 0 THEN -delta[c] ELSE delta[c]]

(* full_clean of the movement: its locations, and no negative quantity.      *)
Valid(m) == ValidMovement(m) /\ m.quantity >= 0

Free(c, rows) == \A row \in rows : lock[row] \in {c, Nobody}
Take(c, rows) == lock' = [row \in Row |-> IF row \in rows THEN c ELSE lock[row]]

End(c, outcome) ==
    /\ pc' = [pc EXCEPT ![c] = outcome]
    /\ lock' = [row \in Row |-> IF lock[row] = c THEN Nobody ELSE lock[row]]
    /\ draft' = [draft EXCEPT ![c] = [rec \in StockRecord |-> 0]]
    /\ price' = [price EXCEPT ![c] = <<>>]
    /\ UNCHANGED <<batch, delta>>

(* Faulty: the batch is not one transaction, and what its items did stays.    *)
RollbackNothing(c, outcome) ==
    /\ quantity' = [rec \in StockRecord |-> View(c, rec)]
    /\ End(c, outcome)
    /\ UNCHANGED <<cost, created, report, broken, disturbed>>

Rollback(c, outcome) ==
    End(c, outcome) /\ UNCHANGED <<rowVars, report, broken, disturbed>>

(* The item is done: its entry in the result, and on to the next. *)
Report(c, status, change) ==
    /\ report' = [report EXCEPT ![c] = Append(@, [status |-> status, change |-> change])]
    /\ pc' = [pc EXCEPT ![c] =
                 IF Len(report[c]) + 1 = Len(batch[c].items) THEN "commit" ELSE "item"]

(* Faulty: fail_fast is not looked at. *)
FailItemAlone(c) ==
    /\ Report(c, "failure", 0)
    /\ UNCHANGED <<rowVars, batch, delta, lock, draft, price, broken, disturbed>>

(* The item fails: fail_fast raises and the batch is undone; otherwise the    *)
(* savepoint is rolled back, with the locks taken in it, and the batch goes on.*)
FailItem(c) ==
    IF batch[c].failFast THEN Rollback(c, "refused")
    ELSE /\ Report(c, "failure", 0)
         /\ UNCHANGED <<rowVars, batch, delta, lock, draft, price, broken, disturbed>>

-----------------------------------------------------------------------------
(* The calls.                                                                *)

(* What the serializers let through to the service; a task skips them.       *)
TransferAccepted(b) ==
    /\ b.kind = "transfer"
    /\ b.from # b.to
    /\ \A item \in ItemsOf(b) : item.amount >= 1

AdjustmentAccepted(b) == b.kind = "adjustment" /\ \A item \in ItemsOf(b) : item.amount >= 0

RevalueAccepted(b) == b.kind = "revalue" /\ \A item \in ItemsOf(b) : item.amount >= 0

Accepted(b) ==
    \/ TransferAccepted(b) \/ AdjustmentAccepted(b)
    \/ RevalueAccepted(b) \/ b.kind = "import"

(* The service is called with one of these batches. *)
Begin(c, batches) ==
    /\ pc[c] = "idle"
    /\ \E b \in batches :
          /\ batch' = [batch EXCEPT ![c] = b]
          /\ pc' = [pc EXCEPT ![c] = IF b.kind = "import" THEN "insert" ELSE "item"]
    /\ UNCHANGED <<rowVars, delta, lock, draft, price, report, broken, disturbed>>

Moving(c) == pc[c] = "item" /\ batch[c].kind \in {"transfer", "adjustment"}

(* Product.DoesNotExist *)
NoProduct(c) ==
    /\ pc[c] = "item" /\ c \notin broken
    /\ Item(c).product = Missing
    /\ FailItem(c)

(* bulk_transfer goes straight to the movement. *)
StartTransfer(c) ==
    /\ Moving(c) /\ batch[c].kind = "transfer" /\ Item(c).product # Missing
    /\ pc' = [pc EXCEPT ![c] = "move"]
    /\ UNCHANGED <<rowVars, batch, delta, lock, draft, price, report, broken, disturbed>>

(* Faulty: the records are read once, before the loop over the items. *)
ReadBeforeLoop(c) ==
    LET rec == <<Item(c).product, batch[c].to>>
        d == Item(c).amount - quantity[rec]
    IN
    /\ Moving(c) /\ batch[c].kind = "adjustment" /\ Item(c).product # Missing
    /\ delta' = [delta EXCEPT ![c] = d]
    /\ IF d = 0 THEN Report(c, "no_change", 0)
       ELSE pc' = [pc EXCEPT ![c] = "move"] /\ UNCHANGED report
    /\ UNCHANGED <<rowVars, batch, lock, draft, price, broken, disturbed>>

(* bulk_adjustment reads the record without a lock and computes the delta. *)
ReadCurrent(c) ==
    LET rec == <<Item(c).product, batch[c].to>>
        d == Item(c).amount - View(c, rec)
    IN
    /\ Moving(c) /\ batch[c].kind = "adjustment" /\ Item(c).product # Missing
    /\ delta' = [delta EXCEPT ![c] = d]
    /\ IF d = 0 THEN Report(c, "no_change", 0)
       ELSE pc' = [pc EXCEPT ![c] = "move"] /\ UNCHANGED report
    /\ UNCHANGED <<rowVars, batch, lock, draft, price, broken, disturbed>>

(* Faulty: process_movement's lock is taken, its test of the stock is not. *)
EnoughAlways(c) == TRUE

Enough(c) == HasSource(Move(c)) => View(c, Source(Move(c))) >= Move(c).quantity

(* _check_capacity of the destination: an aggregate that locks nothing, over  *)
(* the records as c's transaction sees them.                                 *)
Utilization(c, l) == SumFunctionOnSet([p \in Products |-> View(c, <<p, l>>)], Products)

Fits(c) ==
    LET m == Move(c) IN
    HasDest(m) /\ Capacity[m.to] # Unlimited =>
        Utilization(c, m.to) + m.quantity <= Capacity[m.to]

(* process_movement, in the item's savepoint. *)
MoveItem(c) ==
    LET m == Move(c) IN
    /\ pc[c] = "move"
    /\ Valid(m) /\ Fits(c) /\ Free(c, Touched(m)) /\ Enough(c)
    /\ Take(c, Touched(m))
    /\ draft' = [draft EXCEPT ![c] =
                    [rec \in StockRecord |-> @[rec] - Outgoing(m, rec) + Incoming(m, rec)]]
    /\ Report(c, "success", delta[c])
    /\ UNCHANGED <<rowVars, batch, delta, price, broken, disturbed>>

(* It raises: without waiting for a row if the movement is not valid or its   *)
(* destination is full.                                                      *)
MoveRefused(c) ==
    /\ pc[c] = "move"
    /\ \/ ~Valid(Move(c))
       \/ ~Fits(c)
       \/ Free(c, Touched(Move(c))) /\ ~Enough(c)
    /\ FailItem(c)

(* bulk_revalue locks the product row outside the item's savepoint, refuses a *)
(* negative cost, writes any other.                                          *)
Revalue(c) ==
    LET p == Item(c).product
        n == Item(c).amount
    IN
    /\ pc[c] = "item" /\ batch[c].kind = "revalue" /\ p # Missing /\ c \notin broken
    /\ Free(c, {p})
    /\ IF n < 0 /\ batch[c].failFast THEN Rollback(c, "refused")
       ELSE /\ Take(c, {p})
            /\ IF n < 0 THEN Report(c, "failure", 0) /\ UNCHANGED price
               ELSE /\ Report(c, "success", n)
                    /\ price' = [price EXCEPT ![c] =
                                    [q \in DOMAIN @ \cup {p} |-> IF q = p THEN n ELSE @[q]]]
            /\ UNCHANGED <<rowVars, batch, delta, draft, broken, disturbed>>

(* BaseImporter.run: every row validates, then bulk_create in a transaction;  *)
(* a key that exists, or comes twice, is an IntegrityError.                   *)
KeysOf(b) == {item.product : item \in ItemsOf(b)}
RowsValid(b) == \A item \in ItemsOf(b) : item.amount = 1
KeysNew(b) ==
    /\ Cardinality(KeysOf(b)) = Len(b.items)
    /\ \A k \in KeysOf(b) : created[k] = 0

InsertRows(c) ==
    /\ pc[c] = "insert"
    /\ RowsValid(batch[c]) /\ Free(c, KeysOf(batch[c])) /\ KeysNew(batch[c])
    /\ Take(c, KeysOf(batch[c]))
    /\ pc' = [pc EXCEPT ![c] = "commit"]
    /\ UNCHANGED <<rowVars, batch, delta, draft, price, report, broken, disturbed>>

(* A row that does not validate is in the result; an IntegrityError is raised.*)
InsertRefused(c) ==
    /\ pc[c] = "insert"
    /\ \/ ~RowsValid(batch[c]) /\ Rollback(c, "invalid")
       \/ /\ RowsValid(batch[c]) /\ Free(c, KeysOf(batch[c])) /\ ~KeysNew(batch[c])
          /\ Rollback(c, "refused")

(* d has read rec for the item of an adjustment and not locked it yet. *)
Reading(d, rec) ==
    /\ pc[d] = "move" /\ batch[d].kind = "adjustment"
    /\ rec = <<Item(d).product, batch[d].to>>

Commit(c) ==
    LET b == batch[c] IN
    /\ pc[c] = "commit" /\ c \notin broken
    /\ quantity' = [rec \in StockRecord |-> View(c, rec)]
    /\ cost' = [p \in Products |-> IF p \in DOMAIN price[c] THEN price[c][p] ELSE cost[p]]
    /\ created' = [k \in Keys |->
                      created[k] + IF b.kind = "import" /\ k \in KeysOf(b) THEN 1 ELSE 0]
    /\ disturbed' = disturbed \cup
           {<<d, Len(report[d]) + 1>> : d \in
               {e \in Callers : \E rec \in StockRecord :
                                  Reading(e, rec) /\ draft[c][rec] # 0}}
    /\ End(c, "committed")
    /\ UNCHANGED <<report, broken>>

Crash(c) == pc[c] \in InBatch /\ Rollback(c, "aborted")

-----------------------------------------------------------------------------
(* A statement outside every savepoint fails in the database, is caught, and  *)
(* leaves the transaction aborted: each later item fails, and the COMMIT at   *)
(* the end rolls back, though the result still lists the earlier successes.   *)
BrokenItem(c) ==
    /\ pc[c] = "item" /\ c \in broken
    /\ FailItem(c)

BrokenCommit(c) ==
    /\ pc[c] = "commit" /\ c \in broken
    /\ Rollback(c, "undone")

(* Batches that take the same rows in opposite orders wait for each other.    *)
Wanted(c) ==
    CASE pc[c] = "move" -> Touched(Move(c))
      [] pc[c] = "item" /\ batch[c].kind = "revalue" -> {Item(c).product} \ {Missing}
      [] pc[c] = "insert" -> KeysOf(batch[c])
      [] OTHER -> {}

WaitsFor(c, d) == c # d /\ \E row \in Wanted(c) : lock[row] = d

Deadlocked(c) ==
    \E S \in SUBSET Callers :
        /\ c \in S
        /\ \A d \in S : (\E e \in S : WaitsFor(d, e)) /\ (\E e \in S : WaitsFor(e, d))

(* The victim's movement is in a savepoint: one more failed item.             *)
MoveVictim(c) == pc[c] = "move" /\ Deadlocked(c) /\ FailItem(c)

(* bulk_revalue waits for the product before its savepoint.  The aborted      *)
(* transaction holds no locks.                                                *)
RevalueVictim(c) ==
    /\ pc[c] = "item" /\ batch[c].kind = "revalue" /\ Deadlocked(c)
    /\ IF batch[c].failFast THEN Rollback(c, "refused")
       ELSE /\ Report(c, "failure", 0)
            /\ broken' = broken \cup {c}
            /\ lock' = [row \in Row |-> IF lock[row] = c THEN Nobody ELSE lock[row]]
            /\ UNCHANGED <<rowVars, batch, delta, draft, price, disturbed>>

(* Everything a batch does but the steps that move stock. *)
OtherStep(c) ==
    \/ NoProduct(c) \/ StartTransfer(c) \/ ReadCurrent(c) \/ MoveRefused(c)
    \/ Revalue(c) \/ InsertRows(c) \/ InsertRefused(c) \/ Commit(c)
    \/ BrokenItem(c) \/ BrokenCommit(c) \/ MoveVictim(c) \/ RevalueVictim(c)

Step(c) == MoveItem(c) \/ OtherStep(c)

-----------------------------------------------------------------------------
(* Properties.                                                               *)

(* An entry of a result. *)
Entry == [status : {"success", "failure", "no_change"}, change : Int]

BulkTypeOK ==
    /\ quantity \in [StockRecord -> Nat]
    /\ cost \in [Products -> Nat]
    /\ created \in [Keys -> {0, 1}]
    /\ pc \in [Callers -> {"idle"} \cup InBatch \cup Outcome]
    /\ batch \in [Callers -> Batches \cup {NoBatch}]
    /\ delta \in [Callers -> Int]
    /\ lock \in [Row -> Callers \cup {Nobody}]
    /\ draft \in [Callers -> [StockRecord -> Int]]
    /\ \A c \in Callers, rec \in StockRecord : View(c, rec) >= 0
    /\ report \in [Callers -> Seq(Entry)]
    /\ price = [c \in Callers |-> price[c]]
    /\ broken \subseteq Callers

(* What an entry of a result says its item did to a record.                  *)
Change(b, i, entry, rec) ==
    LET item == b.items[i] IN
    IF entry.status # "success" \/ rec[1] # item.product THEN 0
    ELSE CASE b.kind = "transfer" ->
                 (IF rec[2] = b.to THEN item.amount ELSE 0)
                   - (IF rec[2] = b.from THEN item.amount ELSE 0)
           [] b.kind = "adjustment" -> IF rec[2] = b.to THEN entry.change ELSE 0
           [] OTHER -> 0

Told(c, i, rec) == Change(batch[c], i, report[c][i], rec)

(* What c's result says was done to a record in all. *)
Reported(c, rec) ==
    SumFunctionOnSet([i \in DOMAIN report[c] |-> Told(c, i, rec)], DOMAIN report[c])

StockExplained ==
    \A rec \in StockRecord :
        quantity[rec] = Opening[rec] +
            SumFunctionOnSet([c \in Callers |-> IF pc[c] = "committed" THEN Reported(c, rec) ELSE 0],
                             Callers)

(* The items c's result says have set p's cost, and what the last of them set.*)
Repriced(c, p) ==
    {i \in DOMAIN report[c] : /\ batch[c].kind = "revalue"
                              /\ report[c][i].status = "success"
                              /\ batch[c].items[i].product = p}

PricedLast(c, p, value) ==
    \E i \in Repriced(c, p) :
        value = batch[c].items[i].amount /\ \A j \in Repriced(c, p) : j <= i

CostsExplained ==
    \A p \in Products :
        \/ \E c \in Callers : pc[c] = "committed" /\ PricedLast(c, p, cost[p])
        \/ /\ cost[p] = 0
           /\ \A c \in Callers : pc[c] = "committed" => Repriced(c, p) = {}

(* The results of the committed batches explain the stock and the costs: an   *)
(* item reported as moved (a transfer's quantity, an adjustment's new minus   *)
(* previous) was, one reported as failed left nothing, and a batch the        *)
(* database undid left nothing, whatever successes its result still lists; a  *)
(* cost is the last one some committed batch reports to have set.            *)
ReportsExplainStock == StockExplained /\ CostsExplained

(* A committed adjustment leaves the new_quantity its last entry for the     *)
(* record asked for, unless another commit came between its read and lock.   *)
AdjustedAsAsked ==
    [][\A c \in Callers : pc[c] # "committed" /\ pc'[c] = "committed" =>
          \A i \in DOMAIN report[c] :
             LET item == batch[c].items[i] IN
             /\ batch[c].kind = "adjustment"
             /\ report[c][i].status = "success"
             /\ <<c, i>> \notin disturbed
             /\ \A j \in DOMAIN report[c] :
                    j > i => batch[c].items[j].product # item.product
             => quantity'[<<item.product, batch[c].to>>] = item.amount]_bulkVars

(* fail_fast is all or nothing: a committed batch has no failed item.        *)
FailFastIsWhole ==
    \A c \in Callers : pc[c] = "committed" /\ batch[c].failFast =>
        \A i \in DOMAIN report[c] : report[c][i].status # "failure"

-----------------------------------------------------------------------------
(* The inductive invariant.                                                  *)

(* Where a caller is says what its batch and its result so far look like. *)
BatchInv(c) ==
    /\ report[c] \in Seq(Entry)
    /\ pc[c] = "idle" => report[c] = <<>> /\ price[c] = <<>>
    /\ pc[c] # "idle" => batch[c] \in Batches
    /\ pc[c] \in {"item", "move"} =>
           batch[c].kind # "import" /\ Len(report[c]) < Len(batch[c].items)
    /\ pc[c] \in {"insert", "commit", "committed"} => Len(report[c]) <= Len(batch[c].items)
    /\ pc[c] = "insert" => batch[c].kind = "import"
    /\ pc[c] = "move" => batch[c].kind \in {"transfer", "adjustment"} /\ Item(c).product # Missing
    /\ pc[c] \in InBatch \cup {"committed"} /\ batch[c].failFast =>
           \A i \in DOMAIN report[c] : report[c][i].status # "failure"
    /\ pc[c] # "idle" => \A i \in DOMAIN report[c] :
           report[c][i].status = "success" => batch[c].items[i].product # Missing
    /\ DOMAIN price[c] \subseteq Products /\ price[c] \in [DOMAIN price[c] -> Nat]
    /\ c \in broken => /\ pc[c] # "idle" /\ batch[c].kind = "revalue"
                      /\ \E i \in DOMAIN report[c] : report[c][i].status = "failure"
    /\ pc[c] = "undone" => c \in broken

(* What a batch has done and not committed is what its result says, to rows  *)
(* it holds locked.                                                          *)
DraftInv(c) ==
    \A rec \in StockRecord :
        /\ pc[c] \in InBatch => draft[c][rec] = Reported(c, rec)
        /\ pc[c] \notin InBatch => draft[c][rec] = 0
        /\ draft[c][rec] # 0 => lock[rec] = c

(* What a batch has priced and not committed is what its result says. *)
PriceInv(c) ==
    pc[c] \in InBatch =>
        \A p \in Products :
            IF p \in DOMAIN price[c] THEN PricedLast(c, p, price[c][p])
            ELSE Repriced(c, p) = {}

(* What an adjustment read, and what its last entry for a record says, stays *)
(* so until another commit changes the record.                               *)
AdjustInv(c) ==
    LET b == batch[c] IN
    pc[c] \in InBatch /\ b.kind = "adjustment" =>
        /\ pc[c] = "move" /\ <<c, Len(report[c]) + 1>> \notin disturbed =>
               delta[c] = Item(c).amount - View(c, <<Item(c).product, b.to>>)
        /\ \A i \in DOMAIN report[c] :
               /\ report[c][i].status = "success"
               /\ <<c, i>> \notin disturbed
               /\ \A j \in DOMAIN report[c] : j > i => b.items[j].product # b.items[i].product
               => /\ lock[<<b.items[i].product, b.to>>] = c
                  /\ View(c, <<b.items[i].product, b.to>>) = b.items[i].amount

(* An import that has inserted its rows keeps their keys to itself. *)
ImportInv(c) ==
    pc[c] = "commit" /\ batch[c].kind = "import" =>
        \A k \in KeysOf(batch[c]) : lock[k] = c /\ created[k] = 0

BulkInv ==
    /\ BulkTypeOK
    /\ ReportsExplainStock
    /\ \A c \in Callers :
           BatchInv(c) /\ DraftInv(c) /\ PriceInv(c) /\ AdjustInv(c) /\ ImportInv(c)
=============================================================================
