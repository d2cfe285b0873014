--------------------------------- MODULE Stock ---------------------------------
(***************************************************************************)
(* StockService.process_movement run by concurrent requests (API workers,  *)
(* Celery tasks) against PostgreSQL at READ COMMITTED.                     *)
(*                                                                         *)
(* Each request runs one movement: it is validated, then inside            *)
(* transaction.atomic() it checks the destination's capacity with an       *)
(* unlocked aggregate, takes row locks with select_for_update in the order *)
(* the handler of its type takes them, computes the new quantities from    *)
(* what it read under the lock, and commits.  An exception, a lost worker  *)
(* or the deadlock detector rolls the whole transaction back.              *)
(*                                                                         *)
(* What a transaction wrote and has not committed is in draft/dirty: other *)
(* transactions cannot see it, its own later reads do.                     *)
(***************************************************************************)
EXTENDS StockLedger, FiniteSetsExt

CONSTANTS
    Requests,    \* the concurrent requests, each running one movement
    NoRequest,   \* no owner of a row lock
    NoMovement,  \* a request that has not begun
    Unlimited,   \* StockLocation.max_capacity is null
    Capacity     \* StockLocation.max_capacity

ASSUME StockAssumption ==
    /\ NoRequest \notin Requests
    /\ NoMovement \notin Movement
    /\ Unlimited \notin Nat
    /\ Capacity \in [Locations -> Nat \cup {Unlimited}]

VARIABLES
    exists,   \* committed StockRecord rows
    pc,       \* pc[r]: the next step of request r
    move,     \* move[r]: the movement r is processing
    lock,     \* lock[rec]: the request holding the row lock of rec
    draft,    \* draft[r][rec]: the value r's open transaction gave rec
    dirty     \* dirty[r]: the records r's open transaction has written

stockVars == <<quantity, inflow, outflow, exists, pc, move, lock, draft, dirty>>

InTransaction == {"capacity", "source", "dest", "commit"}
Final == {"committed", "refused", "aborted"}

TypeOK ==
    /\ LedgerTypeOK
    /\ exists \subseteq StockRecord
    /\ pc \in [Requests -> {"idle"} \cup InTransaction \cup Final]
    /\ move \in [Requests -> Movement \cup {NoMovement}]
    /\ lock \in [StockRecord -> Requests \cup {NoRequest}]
    /\ draft \in [Requests -> [StockRecord -> Int]]
    /\ dirty \in [Requests -> SUBSET StockRecord]

Init ==
    /\ LedgerInit
    /\ exists = {rec \in StockRecord : Opening[rec] > 0}
    /\ pc = [r \in Requests |-> "idle"]
    /\ move = [r \in Requests |-> NoMovement]
    /\ lock = [rec \in StockRecord |-> NoRequest]
    /\ draft = [r \in Requests |-> [rec \in StockRecord |-> 0]]
    /\ dirty = [r \in Requests |-> {}]

-----------------------------------------------------------------------------
(* Reads.                                                                    *)

(* What a query of r's transaction returns for rec. *)
View(r, rec) == IF rec \in dirty[r] THEN draft[r][rec] ELSE quantity[rec]

(* StockLocation.current_utilization: the units of every product there. *)
Utilization(r, l) ==
    MapThenSumSet(LAMBDA p : View(r, <<p, l>>), Products)

(* StockLocation.can_accept *)
CanAccept(r, l, n) ==
    Capacity[l] # Unlimited => Utilization(r, l) + n <= Capacity[l]

(* The order of the steps in _process_receive, _issue, _transfer, _adjustment. *)
FirstStep(m) ==
    IF m.type \in {"receive", "transfer"} THEN "capacity"
    ELSE IF HasSource(m) THEN "source" ELSE "capacity"

AfterCapacity(m) == IF m.type = "transfer" THEN "source" ELSE "dest"

(* Faulty: a transfer that returns once its source is decremented. *)
AfterSourceDone(m) == IF m.type = "adjustment" /\ HasDest(m) THEN "capacity" ELSE "commit"

AfterSource(m) ==
    IF ~HasDest(m) THEN "commit"
    ELSE IF m.type = "transfer" THEN "dest" ELSE "capacity"

-----------------------------------------------------------------------------
(* Transactions.                                                             *)

Unlocked(r) == [rec \in StockRecord |-> IF lock[rec] = r THEN NoRequest ELSE lock[rec]]

(* Faulty: the failed transaction stays open and keeps its locks. *)
RollbackKeepingLocks(r, outcome) ==
    /\ pc' = [pc EXCEPT ![r] = outcome]
    /\ draft' = [draft EXCEPT ![r] = [rec \in StockRecord |-> 0]]
    /\ dirty' = [dirty EXCEPT ![r] = {}]
    /\ UNCHANGED <<quantity, inflow, outflow, exists, move, lock>>

(* A rollback releases the locks and forgets the writes. *)
Rollback(r, outcome) ==
    /\ pc' = [pc EXCEPT ![r] = outcome]
    /\ lock' = Unlocked(r)
    /\ draft' = [draft EXCEPT ![r] = [rec \in StockRecord |-> 0]]
    /\ dirty' = [dirty EXCEPT ![r] = {}]
    /\ UNCHANGED <<quantity, inflow, outflow, exists, move>>

(* Faulty: get() instead of select_for_update().get(). *)
LockNotAwaited(r, rec) == TRUE

(* select_for_update waits while another transaction holds the row. *)
LockFree(r, rec) == lock[rec] \in {r, NoRequest}

(* Faulty: autocommit ends the lock with the statement that took it. *)
LockAndWriteReleased(r, rec, value, next) ==
    /\ LockFree(r, rec)
    /\ draft' = [draft EXCEPT ![r][rec] = value]
    /\ dirty' = [dirty EXCEPT ![r] = @ \cup {rec}]
    /\ pc' = [pc EXCEPT ![r] = next]
    /\ UNCHANGED <<quantity, inflow, outflow, exists, move, lock>>

(* Having locked rec, r writes value to it. *)
LockAndWrite(r, rec, value, next) ==
    /\ LockFree(r, rec)
    /\ lock' = [lock EXCEPT ![rec] = r]
    /\ draft' = [draft EXCEPT ![r][rec] = value]
    /\ dirty' = [dirty EXCEPT ![r] = @ \cup {rec}]
    /\ pc' = [pc EXCEPT ![r] = next]
    /\ UNCHANGED <<quantity, inflow, outflow, exists, move>>

-----------------------------------------------------------------------------
(* The steps of process_movement.                                            *)

(* The movement passes validate_movement_location_scope and full_clean. *)
Begin(r) ==
    /\ pc[r] = "idle"
    /\ \E m \in Movement :
          /\ ValidMovement(m)
          /\ move' = [move EXCEPT ![r] = m]
          /\ pc' = [pc EXCEPT ![r] = FirstStep(m)]
    /\ UNCHANGED <<quantity, inflow, outflow, exists, lock, draft, dirty>>

(* The movement is refused before a transaction opens. *)
RejectInvalid(r) ==
    /\ pc[r] = "idle"
    /\ \E m \in Movement : ~ValidMovement(m)
    /\ pc' = [pc EXCEPT ![r] = "refused"]
    /\ UNCHANGED <<quantity, inflow, outflow, exists, move, lock, draft, dirty>>

(* _check_capacity: an aggregate over committed rows, no lock taken. *)
CheckCapacity(r) ==
    /\ pc[r] = "capacity"
    /\ CanAccept(r, move[r].to, move[r].quantity)
    /\ pc' = [pc EXCEPT ![r] = AfterCapacity(move[r])]
    /\ UNCHANGED <<quantity, inflow, outflow, exists, move, lock, draft, dirty>>

RefuseCapacity(r) ==
    /\ pc[r] = "capacity"
    /\ ~CanAccept(r, move[r].to, move[r].quantity)
    /\ Rollback(r, "refused")

(* Faulty: the test for sufficient stock is missing. *)
TakeFromSourceUnchecked(r) ==
    LET src == Source(move[r]) IN
    /\ pc[r] = "source"
    /\ src \in exists
    /\ LockAndWrite(r, src, View(r, src) - move[r].quantity, AfterSource(move[r]))

(* _get_record_for_decrement found the row, locked it and it holds enough. *)
TakeFromSource(r) ==
    LET src == Source(move[r]) IN
    /\ pc[r] = "source"
    /\ src \in exists
    /\ View(r, src) >= move[r].quantity
    /\ LockAndWrite(r, src, View(r, src) - move[r].quantity, AfterSource(move[r]))

(* No row (a row another transaction is still creating is invisible and is   *)
(* not waited for), or a locked row that holds too little.                   *)
RefuseSource(r) ==
    LET src == Source(move[r]) IN
    /\ pc[r] = "source"
    /\ \/ src \notin exists
       \/ LockFree(r, src) /\ View(r, src) < move[r].quantity
    /\ Rollback(r, "refused")

(* _get_or_create_record: lock the row, or insert it; a concurrent insert of *)
(* the same row blocks on the unique index until its owner ends.             *)
PutIntoDest(r) ==
    LET dst == Dest(move[r]) IN
    /\ pc[r] = "dest"
    /\ LockAndWrite(r, dst, View(r, dst) + move[r].quantity, "commit")

Commit(r) ==
    LET m == move[r] IN
    /\ pc[r] = "commit"
    /\ quantity' = [rec \in StockRecord |-> View(r, rec)]
    /\ exists' = exists \cup dirty[r]
    /\ inflow' = [rec \in StockRecord |-> inflow[rec] + Incoming(m, rec)]
    /\ outflow' = [rec \in StockRecord |-> outflow[rec] + Outgoing(m, rec)]
    /\ pc' = [pc EXCEPT ![r] = "committed"]
    /\ lock' = Unlocked(r)
    /\ draft' = [draft EXCEPT ![r] = [rec \in StockRecord |-> 0]]
    /\ dirty' = [dirty EXCEPT ![r] = {}]
    /\ UNCHANGED move

(* The worker process dies or loses its connection: PostgreSQL rolls back. *)
Crash(r) ==
    /\ pc[r] \in InTransaction
    /\ Rollback(r, "aborted")

-----------------------------------------------------------------------------
(* Deadlock: a set of requests each waiting for a row another of them holds. *)

WaitsFor(r, s) ==
    /\ r # s
    /\ \/ pc[r] = "source" /\ Source(move[r]) \in exists /\ lock[Source(move[r])] = s
       \/ pc[r] = "dest" /\ lock[Dest(move[r])] = s

Deadlocked(r) ==
    \E S \in SUBSET Requests :
        /\ r \in S
        /\ \A s \in S : (\E t \in S : WaitsFor(s, t)) /\ (\E t \in S : WaitsFor(t, s))

(* PostgreSQL's deadlock detector cancels one member of the cycle. *)
DeadlockVictim(r) ==
    /\ Deadlocked(r)
    /\ Rollback(r, "aborted")

Terminated ==
    /\ \A r \in Requests : pc[r] \in Final
    /\ UNCHANGED stockVars

Step(r) ==
    \/ CheckCapacity(r) \/ RefuseCapacity(r)
    \/ TakeFromSource(r) \/ RefuseSource(r)
    \/ PutIntoDest(r) \/ Commit(r) \/ DeadlockVictim(r)

Next ==
    \/ \E r \in Requests : Begin(r) \/ RejectInvalid(r) \/ Step(r) \/ Crash(r)
    \/ Terminated

Spec == Init /\ [][Next]_stockVars

(* A worker that has a request runs it; a client need not send one, and no   *)
(* worker need crash.                                                        *)
FairSpec == Spec /\ \A r \in Requests : WF_stockVars(Step(r))

-----------------------------------------------------------------------------
(* Properties; NonNegativeStock and LedgerBalances are StockLedger's.        *)

(* Mutual exclusion on rows: what an open transaction has written is locked  *)
(* by it, so no two requests ever hold uncommitted values of one StockRecord *)
(* (the select_for_update of _get_record_for_decrement and                   *)
(* _get_or_create_record).                                                   *)
WritersHoldLocks ==
    \A r \in Requests : \A rec \in dirty[r] : lock[rec] = r

(* How far r's transaction has come. *)
SourceTaken(r) ==
    /\ HasSource(move[r])
    /\ \/ pc[r] \in {"dest", "commit"}
       \/ pc[r] = "capacity" /\ move[r].type = "adjustment"

DestFilled(r) == HasDest(move[r]) /\ pc[r] = "commit"

(* The pending movement of r is one its remaining steps can carry out. *)
PendingMoveValid(r) ==
    /\ move[r] \in Movement
    /\ ValidMovement(move[r])
    /\ pc[r] = "source" => HasSource(move[r])
    /\ pc[r] \in {"capacity", "dest"} => HasDest(move[r])
    /\ pc[r] = "capacity" => move[r].type \in {"receive", "transfer", "adjustment"}

(* What r read has not gone stale: its view of every record is the committed *)
(* quantity plus what its own steps did so far, and the units it took are    *)
(* still there to take.                                                      *)
DraftCurrent(r) ==
    /\ SourceTaken(r) => /\ Source(move[r]) \in dirty[r]
                         /\ quantity[Source(move[r])] >= move[r].quantity
    /\ DestFilled(r) => Dest(move[r]) \in dirty[r]
    /\ \A rec \in StockRecord :
          View(r, rec) = quantity[rec]
              - (IF SourceTaken(r) THEN Outgoing(move[r], rec) ELSE 0)
              + (IF DestFilled(r) THEN Incoming(move[r], rec) ELSE 0)

(* The inductive invariant: concurrent movements never lose an update, never *)
(* overdraw a record and leave nothing behind when they roll back.           *)
StockInv ==
    /\ TypeOK
    /\ NonNegativeStock
    /\ LedgerBalances
    /\ WritersHoldLocks
    /\ \A r \in Requests :
          IF pc[r] \in InTransaction
          THEN PendingMoveValid(r) /\ DraftCurrent(r)
          ELSE dirty[r] = {}

(* max_capacity is the most a location can hold, and                         *)
(* LocationCapacityExceededError is raised when a movement would exceed it.  *)
Stored(l) == MapThenSumSet(LAMBDA p : quantity[<<p, l>>], Products)
CapacityRespected ==
    \A l \in Locations : Capacity[l] # Unlimited => Stored(l) <= Capacity[l]

(* Every request that has begun ends, whatever rows the others hold: a       *)
(* crossing pair of transfers is broken by the deadlock detector.            *)
RequestsEnd == \A r \in Requests : pc[r] \in InTransaction ~> pc[r] \in Final
=============================================================================
