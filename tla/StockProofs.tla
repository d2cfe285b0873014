------------------------------ MODULE StockProofs ------------------------------
(***************************************************************************)
(* Proofs about Stock, for any set of products, locations and concurrent   *)
(* requests: the inductive invariant StockInv, that the interleaved        *)
(* transactions implement the one-step StockLedger, and that the stock     *)
(* reports tell one story (StoryIsOne): in every scope the stock is what   *)
(* was there before plus what the posted movements carried (HistoryInv).   *)
(***************************************************************************)
EXTENDS StockReports, MovementProofs

USE MovementAssumption, OpeningAssumption, StockAssumption DEF LedgerTypeOK

(* Posting a movement keeps every record non-negative and equal to the log. *)
LEMMA PostInv ==
    ASSUME LedgerInv, NEW m \in Movement, Post(m)
    PROVE  LedgerInv'
<1>1. /\ m \in Movement
      /\ HasSource(m) => quantity[Source(m)] >= m.quantity
      /\ quantity' = [rec \in StockRecord |->
                         quantity[rec] - Outgoing(m, rec) + Incoming(m, rec)]
      /\ inflow' = [rec \in StockRecord |-> inflow[rec] + Incoming(m, rec)]
      /\ outflow' = [rec \in StockRecord |-> outflow[rec] + Outgoing(m, rec)]
    BY DEF Post
<1>2. /\ quantity \in [StockRecord -> Int]
      /\ inflow \in [StockRecord -> Nat] /\ outflow \in [StockRecord -> Nat]
      /\ \A rec \in StockRecord : quantity[rec] >= 0 /\ quantity[rec] = inflow[rec] - outflow[rec]
    BY DEF LedgerInv, LedgerTypeOK, NonNegativeStock, LedgerBalances
<1>3. /\ quantity' \in [StockRecord -> Int]
      /\ inflow' \in [StockRecord -> Nat] /\ outflow' \in [StockRecord -> Nat]
      /\ \A rec \in StockRecord :
            quantity'[rec] >= 0 /\ quantity'[rec] = inflow'[rec] - outflow'[rec]
    BY ONLY <1>1, <1>2, MovementPosts
<1> QED
    BY <1>3 DEF LedgerInv, LedgerTypeOK, NonNegativeStock, LedgerBalances

LEMMA LedgerInitInv == LedgerInit => LedgerInv
BY DEF LedgerInit, LedgerInv, LedgerTypeOK, NonNegativeStock, LedgerBalances

(* A ledger whose movements are indivisible is never negative and always     *)
(* equals its movement log.                                                  *)
THEOREM LedgerCorrect == LedgerSpec => []LedgerInv
<1>1. LedgerInv /\ [LedgerNext]_ledgerVars => LedgerInv'
    <2>1. LedgerInv /\ UNCHANGED ledgerVars => LedgerInv'
        BY DEF LedgerInv, LedgerTypeOK, NonNegativeStock, LedgerBalances, ledgerVars
    <2> QED
        BY <2>1, PostInv DEF LedgerNext
<1> QED
    BY LedgerInitInv, <1>1, PTL DEF LedgerSpec

LEMMA InitStockInv == Init => StockInv
<1> SUFFICES ASSUME Init PROVE StockInv
    OBVIOUS
<1>1. TypeOK
    BY LedgerInitInv DEF Init, TypeOK, LedgerInv
<1>2. NonNegativeStock /\ LedgerBalances
    BY LedgerInitInv DEF Init, LedgerInv
<1>3. WritersHoldLocks
    BY DEF Init, WritersHoldLocks
<1>4. \A r \in Requests : pc[r] \notin InTransaction /\ dirty[r] = {}
    BY DEF Init, InTransaction
<1> QED BY <1>1, <1>2, <1>3, <1>4 DEF StockInv

-----------------------------------------------------------------------------
(* Each action preserves StockInv.  The conjunct of a request other than the *)
(* actor survives because the actor changes committed quantities only at     *)
(* records it has locked, and those the other has not written.               *)

LEMMA RollbackInv ==
    ASSUME StockInv, NEW r \in Requests, NEW outcome \in Final, Rollback(r, outcome)
    PROVE  StockInv'
<1>1. TypeOK'
    BY DEF StockInv, TypeOK, Rollback, Unlocked, Final
<1>2. NonNegativeStock' /\ LedgerBalances'
    BY DEF StockInv, NonNegativeStock, LedgerBalances, Rollback
<1>3. WritersHoldLocks'
    BY DEF StockInv, TypeOK, WritersHoldLocks, Rollback, Unlocked
<1>4. ASSUME NEW s \in Requests
      PROVE  IF pc[s] \in InTransaction THEN PendingMoveValid(s) /\ DraftCurrent(s)
                                        ELSE dirty[s] = {}
    BY DEF StockInv
<1>5. ASSUME NEW s \in Requests, s # r
      PROVE  (IF pc[s] \in InTransaction THEN PendingMoveValid(s) /\ DraftCurrent(s)
                                         ELSE dirty[s] = {})'
    <2>1. pc'[s] = pc[s] /\ move'[s] = move[s] /\ draft'[s] = draft[s] /\ dirty'[s] = dirty[s]
        BY <1>5 DEF StockInv, TypeOK, Rollback
    <2> QED
        BY <1>4, <1>5, <2>1 DEF Rollback, PendingMoveValid, DraftCurrent, SourceTaken, DestFilled, View
<1>6. pc'[r] \notin InTransaction /\ dirty'[r] = {}
    BY DEF StockInv, TypeOK, Rollback, Final, InTransaction
<1> QED
    BY <1>1, <1>2, <1>3, <1>5, <1>6 DEF StockInv

(* A step of r that writes no record of the committed state. *)
LEMMA OthersUnmoved ==
    ASSUME StockInv, NEW r \in Requests,
           UNCHANGED quantity,
           \A s \in Requests \ {r} : /\ pc'[s] = pc[s] /\ move'[s] = move[s]
                                     /\ draft'[s] = draft[s] /\ dirty'[s] = dirty[s],
           NEW s \in Requests, s # r
    PROVE  (IF pc[s] \in InTransaction THEN PendingMoveValid(s) /\ DraftCurrent(s)
                                       ELSE dirty[s] = {})'
<1>1. IF pc[s] \in InTransaction THEN PendingMoveValid(s) /\ DraftCurrent(s)
                                 ELSE dirty[s] = {}
    BY DEF StockInv
<1> QED
    BY <1>1 DEF PendingMoveValid, DraftCurrent, SourceTaken, DestFilled, View

LEMMA BeginInv ==
    ASSUME StockInv, NEW r \in Requests, Begin(r)
    PROVE  StockInv'
<1>1. PICK m \in Movement : /\ ValidMovement(m)
                            /\ move' = [move EXCEPT ![r] = m]
                            /\ pc' = [pc EXCEPT ![r] = FirstStep(m)]
    BY DEF Begin
<1>2. TypeOK'
    BY <1>1 DEF StockInv, TypeOK, Begin, FirstStep, InTransaction
<1>3. NonNegativeStock' /\ LedgerBalances' /\ WritersHoldLocks'
    BY DEF StockInv, NonNegativeStock, LedgerBalances, WritersHoldLocks, Begin
<1>4. ASSUME NEW s \in Requests, s # r
      PROVE  (IF pc[s] \in InTransaction THEN PendingMoveValid(s) /\ DraftCurrent(s)
                                         ELSE dirty[s] = {})'
    BY <1>4, OthersUnmoved DEF Begin, StockInv, TypeOK
<1>5. /\ dirty[r] = {} /\ dirty'[r] = {} /\ move'[r] = m /\ pc'[r] = FirstStep(m)
      /\ quantity' = quantity
    BY <1>1 DEF StockInv, TypeOK, Begin, InTransaction
<1>6. PendingMoveValid(r)'
    BY <1>1, <1>5 DEF PendingMoveValid, FirstStep, ValidMovement, Clean, HasSource, HasDest, Movement, MovementType
<1>7. ~SourceTaken(r)' /\ ~DestFilled(r)'
    BY <1>1, <1>5 DEF SourceTaken, DestFilled, FirstStep
<1>8. DraftCurrent(r)'
    BY <1>2, <1>5, <1>7 DEF DraftCurrent, View, TypeOK
<1>9. pc'[r] \in InTransaction
    BY <1>5 DEF FirstStep, InTransaction
<1> QED
    BY <1>2, <1>3, <1>4, <1>6, <1>8, <1>9 DEF StockInv

LEMMA CheckCapacityInv ==
    ASSUME StockInv, NEW r \in Requests, CheckCapacity(r)
    PROVE  StockInv'
<1>1. TypeOK'
    BY DEF StockInv, TypeOK, CheckCapacity, AfterCapacity, InTransaction
<1>2. NonNegativeStock' /\ LedgerBalances' /\ WritersHoldLocks'
    BY DEF StockInv, NonNegativeStock, LedgerBalances, WritersHoldLocks, CheckCapacity
<1>3. ASSUME NEW s \in Requests, s # r
      PROVE  (IF pc[s] \in InTransaction THEN PendingMoveValid(s) /\ DraftCurrent(s)
                                         ELSE dirty[s] = {})'
    BY <1>3, OthersUnmoved DEF CheckCapacity, StockInv, TypeOK
<1>4. PendingMoveValid(r) /\ DraftCurrent(r) /\ pc[r] = "capacity"
    BY DEF StockInv, CheckCapacity, InTransaction
<1>5. /\ pc'[r] = AfterCapacity(move[r]) /\ move' = move
      /\ UNCHANGED <<quantity, draft, dirty>>
    BY DEF StockInv, TypeOK, CheckCapacity
<1>6. PendingMoveValid(r)'
    BY <1>4, <1>5 DEF PendingMoveValid, AfterCapacity, ValidMovement, Clean
<1>7. (SourceTaken(r)' <=> SourceTaken(r)) /\ ~DestFilled(r)' /\ ~DestFilled(r)
    BY <1>4, <1>5 DEF SourceTaken, DestFilled, AfterCapacity, PendingMoveValid, ValidMovement, Clean
<1>8. DraftCurrent(r)'
    BY <1>4, <1>5, <1>7 DEF DraftCurrent, View
<1>9. pc'[r] \in InTransaction
    BY <1>5 DEF AfterCapacity, InTransaction
<1> QED
    BY <1>1, <1>2, <1>3, <1>6, <1>8, <1>9 DEF StockInv

(* The two steps that lock a record and write it, TakeFromSource and         *)
(* PutIntoDest, share the mutual exclusion argument.                         *)
LEMMA LockAndWriteInv ==
    ASSUME StockInv, NEW r \in Requests, NEW rec \in StockRecord, NEW value \in Int,
           NEW next \in InTransaction, LockAndWrite(r, rec, value, next)
    PROVE  /\ TypeOK' /\ NonNegativeStock' /\ LedgerBalances' /\ WritersHoldLocks'
           /\ \A s \in Requests \ {r} :
                 (IF pc[s] \in InTransaction THEN PendingMoveValid(s) /\ DraftCurrent(s)
                                             ELSE dirty[s] = {})'
<1>1. TypeOK'
    BY DEF StockInv, TypeOK, LockAndWrite
<1>2. NonNegativeStock' /\ LedgerBalances'
    BY DEF StockInv, NonNegativeStock, LedgerBalances, LockAndWrite
<1>3. WritersHoldLocks'
    BY DEF StockInv, TypeOK, WritersHoldLocks, LockAndWrite, LockFree
<1>4. ASSUME NEW s \in Requests \ {r}
      PROVE  (IF pc[s] \in InTransaction THEN PendingMoveValid(s) /\ DraftCurrent(s)
                                         ELSE dirty[s] = {})'
    BY <1>4, OthersUnmoved DEF LockAndWrite, StockInv, TypeOK
<1> QED
    BY <1>1, <1>2, <1>3, <1>4

LEMMA TakeFromSourceInv ==
    ASSUME StockInv, NEW r \in Requests, TakeFromSource(r)
    PROVE  StockInv'
<1> DEFINE m == move[r]
           src == Source(m)
<1>1. PendingMoveValid(r) /\ DraftCurrent(r) /\ pc[r] = "source"
    BY DEF StockInv, TakeFromSource, InTransaction
<1>2. m \in Movement /\ m.quantity \in Nat /\ src \in StockRecord /\ HasSource(m)
    BY <1>1, MovementTypes DEF PendingMoveValid
<1>3. View(r, src) \in Int
    BY <1>2 DEF StockInv, TypeOK, View
<1>4. AfterSource(m) \in InTransaction
    BY DEF AfterSource, InTransaction
<1>5. LockAndWrite(r, src, View(r, src) - m.quantity, AfterSource(m))
    BY DEF TakeFromSource
<1>6. /\ TypeOK' /\ NonNegativeStock' /\ LedgerBalances' /\ WritersHoldLocks'
      /\ \A s \in Requests \ {r} :
            (IF pc[s] \in InTransaction THEN PendingMoveValid(s) /\ DraftCurrent(s)
                                        ELSE dirty[s] = {})'
    BY <1>2, <1>3, <1>4, <1>5, LockAndWriteInv
<1>7. /\ pc'[r] = AfterSource(m) /\ move'[r] = m /\ quantity' = quantity
      /\ dirty'[r] = dirty[r] \cup {src}
      /\ draft'[r] = [draft[r] EXCEPT ![src] = View(r, src) - m.quantity]
    BY <1>5 DEF LockAndWrite, StockInv, TypeOK
<1>8. PendingMoveValid(r)'
    BY <1>1, <1>7 DEF PendingMoveValid, AfterSource, ValidMovement, Clean
<1>9. ~SourceTaken(r) /\ ~DestFilled(r) /\ SourceTaken(r)' /\ ~DestFilled(r)'
    BY <1>1, <1>2, <1>7 DEF SourceTaken, DestFilled, AfterSource, PendingMoveValid,
                            ValidMovement, Clean
<1>10. \A rec \in StockRecord : View(r, rec) = quantity[rec]
    BY <1>1, <1>9 DEF DraftCurrent, StockInv, TypeOK
<1>11. ASSUME NEW rec \in StockRecord
       PROVE  View(r, rec)' = quantity[rec] - Outgoing(m, rec)
    <2>1. CASE rec = src
        BY <1>2, <1>7, <1>10, <2>1 DEF View, Outgoing, StockInv, TypeOK
    <2>2. CASE rec # src
        BY <1>2, <1>7, <1>10, <2>2 DEF View, Outgoing, StockInv, TypeOK
    <2> QED BY <2>1, <2>2
<1>12. quantity[src] >= m.quantity
    BY <1>2, <1>10 DEF TakeFromSource
<1>13. DraftCurrent(r)'
    BY <1>2, <1>6, <1>7, <1>9, <1>11, <1>12, MovementTypes DEF DraftCurrent, TypeOK
<1> QED
    BY <1>4, <1>6, <1>7, <1>8, <1>13 DEF StockInv

LEMMA PutIntoDestInv ==
    ASSUME StockInv, NEW r \in Requests, PutIntoDest(r)
    PROVE  StockInv'
<1> DEFINE m == move[r]
           dst == Dest(m)
<1>1. PendingMoveValid(r) /\ DraftCurrent(r) /\ pc[r] = "dest"
    BY DEF StockInv, PutIntoDest, InTransaction
<1>2. m \in Movement /\ m.quantity \in Nat /\ dst \in StockRecord /\ HasDest(m)
    BY <1>1, MovementTypes DEF PendingMoveValid
<1>3. View(r, dst) \in Int
    BY <1>2 DEF StockInv, TypeOK, View
<1>4. "commit" \in InTransaction
    BY DEF InTransaction
<1>5. LockAndWrite(r, dst, View(r, dst) + m.quantity, "commit")
    BY DEF PutIntoDest
<1>6. /\ TypeOK' /\ NonNegativeStock' /\ LedgerBalances' /\ WritersHoldLocks'
      /\ \A s \in Requests \ {r} :
            (IF pc[s] \in InTransaction THEN PendingMoveValid(s) /\ DraftCurrent(s)
                                        ELSE dirty[s] = {})'
    BY <1>2, <1>3, <1>4, <1>5, LockAndWriteInv
<1>7. /\ pc'[r] = "commit" /\ move'[r] = m /\ quantity' = quantity
      /\ dirty'[r] = dirty[r] \cup {dst}
      /\ draft'[r] = [draft[r] EXCEPT ![dst] = View(r, dst) + m.quantity]
    BY <1>5 DEF LockAndWrite, StockInv, TypeOK
<1>8. PendingMoveValid(r)'
    BY <1>1, <1>7 DEF PendingMoveValid
<1>9. (SourceTaken(r)' <=> SourceTaken(r)) /\ ~DestFilled(r) /\ DestFilled(r)'
    BY <1>1, <1>2, <1>7 DEF SourceTaken, DestFilled
<1>10. ASSUME NEW rec \in StockRecord
       PROVE  View(r, rec)' = View(r, rec) + Incoming(m, rec)
    <2>1. CASE rec = dst
        BY <1>2, <1>3, <1>7, <2>1 DEF View, Incoming, StockInv, TypeOK
    <2>2. CASE rec # dst
        BY <1>2, <1>7, <2>2 DEF View, Incoming, StockInv, TypeOK
    <2> QED BY <2>1, <2>2
<1>11. ASSUME NEW rec \in StockRecord
       PROVE  View(r, rec)' = quantity[rec]
                  - (IF SourceTaken(r)' THEN Outgoing(m, rec) ELSE 0) + Incoming(m, rec)
    BY <1>1, <1>2, <1>9, <1>10, MovementTypes DEF DraftCurrent, StockInv, TypeOK
<1>12. DraftCurrent(r)'
    BY <1>1, <1>7, <1>9, <1>11 DEF DraftCurrent
<1> QED
    BY <1>4, <1>6, <1>7, <1>8, <1>12 DEF StockInv

(* Committing writes exactly the movement: the fact behind both LedgerBalances *)
(* and the refinement.                                                         *)
LEMMA CommitPosts ==
    ASSUME StockInv, NEW r \in Requests, Commit(r)
    PROVE  Post(move[r])
<1> DEFINE m == move[r]
<1>1. PendingMoveValid(r) /\ DraftCurrent(r) /\ pc[r] = "commit"
    BY DEF StockInv, Commit, InTransaction
<1>2. m \in Movement /\ ValidMovement(m)
    BY <1>1 DEF PendingMoveValid
<1>3. HasSource(m) => SourceTaken(r)
    BY <1>1 DEF SourceTaken
<1>4. HasDest(m) => DestFilled(r)
    BY <1>1 DEF DestFilled
<1>5. HasSource(m) => quantity[Source(m)] >= m.quantity
    BY <1>1, <1>3 DEF DraftCurrent
<1>6. ASSUME NEW rec \in StockRecord
      PROVE  View(r, rec) = quantity[rec] - Outgoing(m, rec) + Incoming(m, rec)
    BY <1>1, <1>2, <1>3, <1>4, MovementTypes DEF DraftCurrent, Outgoing, Incoming, StockInv, TypeOK
<1> QED
    BY <1>2, <1>5, <1>6 DEF Post, Commit

LEMMA CommitInv ==
    ASSUME StockInv, NEW r \in Requests, Commit(r)
    PROVE  StockInv'
<1> DEFINE m == move[r]
<1>1. m \in Movement /\ Post(m)
    BY CommitPosts DEF StockInv, Commit, InTransaction, PendingMoveValid
<1>2. LedgerInv'
    BY <1>1, PostInv DEF StockInv, TypeOK, LedgerInv
<1>3. TypeOK'
    BY <1>2 DEF LedgerInv, StockInv, TypeOK, Commit, Unlocked, Final
<1>5. WritersHoldLocks'
    BY DEF StockInv, TypeOK, WritersHoldLocks, Commit, Unlocked
<1>6. ASSUME NEW s \in Requests, s # r
      PROVE  (IF pc[s] \in InTransaction THEN PendingMoveValid(s) /\ DraftCurrent(s)
                                         ELSE dirty[s] = {})'
    <2>1. IF pc[s] \in InTransaction THEN PendingMoveValid(s) /\ DraftCurrent(s)
                                     ELSE dirty[s] = {}
        BY DEF StockInv
    <2>2. pc'[s] = pc[s] /\ move'[s] = move[s] /\ draft'[s] = draft[s] /\ dirty'[s] = dirty[s]
        BY <1>6 DEF StockInv, TypeOK, Commit
    <2>3. SUFFICES ASSUME pc[s] \in InTransaction PROVE PendingMoveValid(s)' /\ DraftCurrent(s)'
        BY <2>1, <2>2
    <2>4. PendingMoveValid(s)'
        BY <2>1, <2>2, <2>3 DEF PendingMoveValid
    <2>5. \A rec \in dirty[s] : rec \in StockRecord /\ rec \notin dirty[r]
        BY <1>6 DEF StockInv, TypeOK, WritersHoldLocks
    <2>6. \A rec \in dirty[s] : quantity'[rec] = quantity[rec]
        BY <2>5 DEF Commit, View
    <2>7. (SourceTaken(s)' <=> SourceTaken(s)) /\ (DestFilled(s)' <=> DestFilled(s))
        BY <2>2 DEF SourceTaken, DestFilled
    <2>8. SourceTaken(s) => /\ Source(move[s]) \in dirty[s]
                            /\ quantity'[Source(move[s])] >= move[s].quantity
        BY <2>1, <2>3, <2>6 DEF DraftCurrent
    <2>9. DestFilled(s) => Dest(move[s]) \in dirty[s]
        BY <2>1, <2>3 DEF DraftCurrent
    <2>10. ASSUME NEW rec \in StockRecord
           PROVE  View(s, rec)' = quantity'[rec]
                      - (IF SourceTaken(s) THEN Outgoing(move[s], rec) ELSE 0)
                      + (IF DestFilled(s) THEN Incoming(move[s], rec) ELSE 0)
        <3>1. CASE rec \in dirty[s]
            BY <2>1, <2>2, <2>3, <2>6, <3>1 DEF View, DraftCurrent
        <3>2. CASE rec \notin dirty[s]
            <4>1. View(s, rec)' = quantity'[rec]
                BY <2>2, <3>2 DEF View
            <4>2. (SourceTaken(s) => rec # Source(move[s])) /\ (DestFilled(s) => rec # Dest(move[s]))
                BY <2>8, <2>9, <3>2
            <4>3. quantity'[rec] \in Int
                BY <1>2 DEF LedgerInv, LedgerTypeOK
            <4> QED BY <4>1, <4>2, <4>3 DEF Outgoing, Incoming
        <3> QED BY <3>1, <3>2
    <2> QED
        BY <2>2, <2>4, <2>7, <2>8, <2>9, <2>10 DEF DraftCurrent
<1>7. pc'[r] \notin InTransaction /\ dirty'[r] = {}
    BY DEF StockInv, TypeOK, Commit, InTransaction
<1> QED
    BY <1>2, <1>3, <1>5, <1>6, <1>7 DEF StockInv, LedgerInv

LEMMA StutterInv ==
    ASSUME StockInv, UNCHANGED stockVars
    PROVE  StockInv'
BY DEF StockInv, stockVars, TypeOK, NonNegativeStock, LedgerBalances, WritersHoldLocks,
       PendingMoveValid, DraftCurrent, SourceTaken, DestFilled, View

LEMMA NextStockInv == StockInv /\ [Next]_stockVars => StockInv'
<1> SUFFICES ASSUME StockInv, [Next]_stockVars PROVE StockInv'
    OBVIOUS
<1>1. CASE UNCHANGED stockVars \/ Terminated
    BY <1>1, StutterInv DEF Terminated
<1>2. ASSUME NEW r \in Requests, Begin(r) \/ RejectInvalid(r) \/ Step(r) \/ Crash(r)
      PROVE  StockInv'
    <2>1. CASE RejectInvalid(r)
        <3>1. dirty[r] = {}
            BY <2>1 DEF RejectInvalid, StockInv, InTransaction
        <3>2. UNCHANGED <<quantity, inflow, outflow, exists, move, lock, draft, dirty>>
              /\ pc' = [pc EXCEPT ![r] = "refused"]
            BY <2>1 DEF RejectInvalid
        <3>3. TypeOK' /\ NonNegativeStock' /\ LedgerBalances' /\ WritersHoldLocks'
            BY <3>2 DEF StockInv, TypeOK, Final, NonNegativeStock, LedgerBalances, WritersHoldLocks
        <3>4. ASSUME NEW s \in Requests, s # r
              PROVE  (IF pc[s] \in InTransaction THEN PendingMoveValid(s) /\ DraftCurrent(s)
                                                 ELSE dirty[s] = {})'
            BY <3>2, <3>4, OthersUnmoved DEF StockInv, TypeOK
        <3> QED BY <3>1, <3>2, <3>3, <3>4 DEF StockInv, TypeOK, InTransaction
    <2>2. CASE RefuseCapacity(r) \/ RefuseSource(r) \/ DeadlockVictim(r) \/ Crash(r)
        BY <2>2, RollbackInv DEF RefuseCapacity, RefuseSource, DeadlockVictim, Crash, Final
    <2> QED
        BY <1>2, <2>1, <2>2, BeginInv, CheckCapacityInv, TakeFromSourceInv, PutIntoDestInv,
           CommitInv DEF Step
<1> QED
    BY <1>1, <1>2 DEF Next

-----------------------------------------------------------------------------

(* For any number of products, locations and concurrent requests, every      *)
(* reachable state of the stock transactions satisfies the inductive         *)
(* invariant.                                                                *)
THEOREM StockInvariant == Spec => []StockInv
<1> QED BY InitStockInv, NextStockInv, PTL DEF Spec

(* _get_record_for_decrement never lets a record go negative, however the    *)
(* movements interleave, crash or deadlock.                                  *)
THEOREM StockNeverNegative == Spec => []NonNegativeStock
<1>1. StockInv => NonNegativeStock
    BY DEF StockInv
<1> QED BY <1>1, StockInvariant, PTL

(* Every StockRecord always equals the log of StockMovement rows: no update  *)
(* is lost, none is applied twice, no rolled-back leg survives.              *)
THEOREM RecordsMatchMovements == Spec => []LedgerBalances
<1>1. StockInv => LedgerBalances
    BY DEF StockInv
<1> QED BY <1>1, StockInvariant, PTL

(* The interleaved, row-locking transactions implement the ledger in which   *)
(* each movement happens in one indivisible step.                            *)
THEOREM StockImplementsLedger == Spec => LedgerSpec
<1>1. Init => LedgerInit
    BY DEF Init
<1>2. StockInv /\ [Next]_stockVars => [LedgerNext]_ledgerVars
    <2> SUFFICES ASSUME StockInv, [Next]_stockVars, ~UNCHANGED ledgerVars PROVE LedgerNext
        OBVIOUS
    <2>1. ASSUME NEW r \in Requests, Commit(r) PROVE LedgerNext
        <3>1. move[r] \in Movement
            BY <2>1 DEF StockInv, Commit, InTransaction, PendingMoveValid
        <3> QED BY <2>1, <3>1, CommitPosts DEF LedgerNext
    <2> QED
        BY <2>1 DEF Next, Step, stockVars, ledgerVars, Terminated, Begin, RejectInvalid,
            CheckCapacity, RefuseCapacity, TakeFromSource, RefuseSource, PutIntoDest,
            DeadlockVictim, Crash, Rollback, LockAndWrite
<1> QED BY <1>1, <1>2, StockInvariant, PTL DEF Spec, LedgerSpec

-----------------------------------------------------------------------------
(* What the reports of StockReports say: the units of every scope are those  *)
(* it opened with and those the posted movements carried in and out.         *)

MovedIn(r, s) == IF r \in Posted THEN NetUnits(move[r], s) ELSE 0

AllMoved(s) == SumFunctionOnSet([r \in Requests |-> MovedIn(r, s)], Requests)

HistoryInv ==
    /\ \A r \in Posted : move[r] \in Movement
    /\ \A s \in Partitions :
          SumFunctionOnSet(quantity, RecordsIn(s))
          = SumFunctionOnSet(Opening, RecordsIn(s)) + AllMoved(s)

LEMMA RecordsFinite ==
    ASSUME NEW s
    PROVE  RecordsIn(s) \in SUBSET StockRecord /\ IsFiniteSet(RecordsIn(s))
<1>1. IsFiniteSet(StockRecord)
    BY FS_Product, ReportAssumption DEF StockRecord
<1>2. RecordsIn(s) \in SUBSET StockRecord
    BY DEF RecordsIn
<1> QED BY <1>1, <1>2, FS_Subset

LEMMA NetIsInt == ASSUME NEW m \in Movement, NEW s PROVE NetUnits(m, s) \in Int
<1> DEFINE gone == IF HasSource(m) /\ InScope(m.from, s) THEN m.quantity ELSE 0
           come == IF HasDest(m) /\ InScope(m.to, s) THEN m.quantity ELSE 0
<1>1. m.quantity \in Int /\ 0 \in Int
    BY MovementTypes
<1>2. gone \in Int /\ come \in Int
    BY <1>1, Zenon
<1>3. NetUnits(m, s) = come - gone
    BY DEF NetUnits
<1> HIDE DEF gone, come
<1> QED BY <1>2, <1>3

(* What posting a movement does to the units of a scope. *)
LEMMA PostMoves ==
    ASSUME LedgerTypeOK, NEW m \in Movement, Post(m), NEW s
    PROVE  SumFunctionOnSet(quantity', RecordsIn(s))
               = SumFunctionOnSet(quantity, RecordsIn(s)) + NetUnits(m, s)
<1> DEFINE S == RecordsIn(s)
           out == [rec \in StockRecord |-> Outgoing(m, rec)]
           in == [rec \in StockRecord |-> Incoming(m, rec)]
           mid == [rec \in StockRecord |-> quantity[rec] - Outgoing(m, rec)]
           q1 == [rec \in StockRecord |-> quantity[rec] - Outgoing(m, rec) + Incoming(m, rec)]
           gone == IF HasSource(m) /\ InScope(m.from, s) THEN m.quantity ELSE 0
           come == IF HasDest(m) /\ InScope(m.to, s) THEN m.quantity ELSE 0
<1>1. quantity' = q1
    BY DEF Post
<1>2. S \in SUBSET StockRecord /\ IsFiniteSet(S) /\ S = {rec \in StockRecord : InScope(rec[2], s)}
    BY RecordsFinite DEF RecordsIn
<1>3. \A rec \in StockRecord :
          /\ quantity[rec] \in Int /\ out[rec] \in Int /\ in[rec] \in Int
          /\ mid[rec] = quantity[rec] - out[rec] /\ q1[rec] = mid[rec] + in[rec]
    <2> SUFFICES ASSUME NEW rec \in StockRecord
                 PROVE  /\ quantity[rec] \in Int /\ out[rec] \in Int /\ in[rec] \in Int
                        /\ mid[rec] = quantity[rec] - out[rec] /\ q1[rec] = mid[rec] + in[rec]
        OBVIOUS
    <2>1. Outgoing(m, rec) \in Nat /\ Incoming(m, rec) \in Nat /\ quantity[rec] \in Int
        BY MovementTypes
    <2> QED BY <2>1
<1>4. m.quantity \in Int /\ (HasSource(m) => Source(m) \in StockRecord)
                        /\ (HasDest(m) => Dest(m) \in StockRecord)
    BY MovementTypes
<1>5. SumFunctionOnSet(out, S) = gone
    <2>1. CASE HasSource(m) /\ InScope(m.from, s)
        <3>1. Source(m) \in S
            BY <1>2, <1>4, <2>1 DEF Source
        <3>2. out[Source(m)] = m.quantity /\ \A rec \in S : rec # Source(m) => out[rec] = 0
            BY <1>2, <1>4, <2>1 DEF Outgoing
        <3> HIDE DEF out, S
        <3> QED BY <1>2, <1>4, <2>1, <3>1, <3>2, SumSingle
    <2>2. CASE ~(HasSource(m) /\ InScope(m.from, s))
        <3>1. \A rec \in S : out[rec] = 0
            BY <1>2, <2>2 DEF Outgoing, Source
        <3> HIDE DEF out, S
        <3> QED BY <1>2, <2>2, <3>1, SumZero
    <2> QED BY <2>1, <2>2
<1>6. SumFunctionOnSet(in, S) = come
    <2>1. CASE HasDest(m) /\ InScope(m.to, s)
        <3>1. Dest(m) \in S
            BY <1>2, <1>4, <2>1 DEF Dest
        <3>2. in[Dest(m)] = m.quantity /\ \A rec \in S : rec # Dest(m) => in[rec] = 0
            BY <1>2, <1>4, <2>1 DEF Incoming
        <3> HIDE DEF in, S
        <3> QED BY <1>2, <1>4, <2>1, <3>1, <3>2, SumSingle
    <2>2. CASE ~(HasDest(m) /\ InScope(m.to, s))
        <3>1. \A rec \in S : in[rec] = 0
            BY <1>2, <2>2 DEF Incoming, Dest
        <3> HIDE DEF in, S
        <3> QED BY <1>2, <2>2, <3>1, SumZero
    <2> QED BY <2>1, <2>2
<1>7. NetUnits(m, s) = come - gone
    BY DEF NetUnits
<1>8. come \in Int /\ gone \in Int
    BY <1>4
<1> HIDE DEF S, out, in, mid, q1, come, gone
<1>9. \A rec \in S : /\ quantity[rec] \in Int /\ out[rec] \in Int /\ in[rec] \in Int
                    /\ mid[rec] = quantity[rec] - out[rec] /\ q1[rec] = mid[rec] + in[rec]
                    /\ mid[rec] \in Int
    BY <1>2, <1>3
<1>10. SumFunctionOnSet(mid, S) = SumFunctionOnSet(quantity, S) - SumFunctionOnSet(out, S)
    BY ONLY <1>2, <1>9, SumMinus
<1>11. SumFunctionOnSet(q1, S) = SumFunctionOnSet(mid, S) + SumFunctionOnSet(in, S)
    BY ONLY <1>2, <1>9, SumPlus
<1>12. SumFunctionOnSet(quantity, S) \in Int
    BY ONLY <1>2, <1>9, SumInt
<1>13. SumFunctionOnSet(quantity', S) = SumFunctionOnSet(q1, S)
    BY <1>1, Zenon
<1>14. SumFunctionOnSet(quantity', S) = SumFunctionOnSet(quantity, S) + NetUnits(m, s)
    BY <1>5, <1>6, <1>7, <1>8, <1>10, <1>11, <1>12, <1>13
<1> QED BY <1>14 DEF S

LEMMA InitHistory == Init => HistoryInv
<1> SUFFICES ASSUME Init PROVE HistoryInv
    OBVIOUS
<1>1. Posted = {} /\ quantity = Opening
    BY DEF Init, LedgerInit, Posted
<1>2. ASSUME NEW s \in Partitions PROVE AllMoved(s) = 0
    <2> DEFINE f == [r \in Requests |-> MovedIn(r, s)]
    <2>1. \A r \in Requests : f[r] = 0
        BY <1>1 DEF MovedIn
    <2>2. AllMoved(s) = SumFunctionOnSet(f, Requests)
        BY DEF AllMoved
    <2> HIDE DEF f
    <2> QED BY <2>1, <2>2, SumZero, ReportAssumption
<1>3. ASSUME NEW s \in Partitions PROVE SumFunctionOnSet(Opening, RecordsIn(s)) \in Int
    <2>1. \A rec \in RecordsIn(s) : Opening[rec] \in Int
        BY RecordsFinite
    <2> QED BY <2>1, RecordsFinite, SumInt
<1> QED BY <1>1, <1>2, <1>3 DEF HistoryInv

(* A step that posts nothing leaves the records and the posted movements. *)
LEMMA PostsNothing ==
    ASSUME StockInv, [Next]_stockVars, \A r \in Requests : ~Commit(r)
    PROVE  /\ quantity' = quantity
           /\ \A v \in Requests : /\ pc'[v] = "committed" <=> pc[v] = "committed"
                                  /\ pc[v] = "committed" => move'[v] = move[v]
<1>1. TypeOK
    BY DEF StockInv
<1>2. CASE UNCHANGED stockVars \/ Terminated
    BY <1>2 DEF Terminated, stockVars
<1>3. ASSUME NEW r \in Requests, Begin(r) \/ RejectInvalid(r) \/ Step(r) \/ Crash(r)
      PROVE  /\ quantity' = quantity
             /\ \A v \in Requests : /\ pc'[v] = "committed" <=> pc[v] = "committed"
                                    /\ pc[v] = "committed" => move'[v] = move[v]
    <2>1. CASE Begin(r)
        <3>1. /\ quantity' = quantity /\ pc[r] = "idle"
              /\ \E m \in Movement : /\ move' = [move EXCEPT ![r] = m]
                                     /\ pc' = [pc EXCEPT ![r] = FirstStep(m)]
            BY <2>1 DEF Begin
        <3> QED BY <1>1, <3>1 DEF TypeOK, FirstStep
    <2>2. CASE RejectInvalid(r)
        BY <1>1, <2>2 DEF RejectInvalid, TypeOK
    <2>3. ASSUME NEW outcome \in {"refused", "aborted"}, Rollback(r, outcome), pc[r] # "committed"
          PROVE  /\ quantity' = quantity
                 /\ \A v \in Requests : /\ pc'[v] = "committed" <=> pc[v] = "committed"
                                        /\ pc[v] = "committed" => move'[v] = move[v]
        BY <1>1, <2>3 DEF Rollback, TypeOK
    <2>4. CASE RefuseCapacity(r) \/ RefuseSource(r) \/ Crash(r)
        BY <2>3, <2>4 DEF RefuseCapacity, RefuseSource, Crash, InTransaction
    <2>5. CASE DeadlockVictim(r)
        <3>1. PICK t : WaitsFor(r, t)
            BY <2>5 DEF DeadlockVictim, Deadlocked
        <3>2. pc[r] # "committed"
            BY <3>1 DEF WaitsFor
        <3> QED BY <2>3, <2>5, <3>2 DEF DeadlockVictim
    <2>6. CASE CheckCapacity(r)
        BY <1>1, <2>6 DEF CheckCapacity, AfterCapacity, TypeOK
    <2>7. CASE TakeFromSource(r)
        BY <1>1, <2>7 DEF TakeFromSource, LockAndWrite, AfterSource, TypeOK
    <2>8. CASE PutIntoDest(r)
        BY <1>1, <2>8 DEF PutIntoDest, LockAndWrite, TypeOK
    <2>9. ~Commit(r)
        OBVIOUS
    <2> QED
        BY <1>3, <2>1, <2>2, <2>4, <2>5, <2>6, <2>7, <2>8, <2>9 DEF Step
<1> QED
    BY <1>2, <1>3 DEF Next

LEMMA HistoryKept ==
    ASSUME HistoryInv, quantity' = quantity,
           \A v \in Requests : /\ pc'[v] = "committed" <=> pc[v] = "committed"
                               /\ pc[v] = "committed" => move'[v] = move[v]
    PROVE  HistoryInv'
<1>1. Posted' = Posted /\ \A v \in Posted : move'[v] = move[v]
    BY DEF Posted
<1>2. \A v \in Posted : move'[v] \in Movement
    BY <1>1 DEF HistoryInv
<1>3. ASSUME NEW s \in Partitions PROVE AllMoved(s)' = AllMoved(s)
    <2>1. \A v \in Requests : MovedIn(v, s)' = MovedIn(v, s)
        BY <1>1 DEF MovedIn
    <2> QED BY <2>1 DEF AllMoved
<1>4. ASSUME NEW s \in Partitions PROVE RecordsIn(s)' = RecordsIn(s)
    BY DEF RecordsIn
<1> QED BY <1>1, <1>2, <1>3 DEF HistoryInv

LEMMA CommitHistory ==
    ASSUME StockInv, HistoryInv, NEW r \in Requests, Commit(r)
    PROVE  HistoryInv'
<1>1. PICK m \in Movement : m = move[r] /\ Post(m)
    BY CommitPosts DEF Post, StockInv, Commit, InTransaction, PendingMoveValid
<1>2. LedgerTypeOK /\ pc[r] = "commit" /\ pc'[r] = "committed" /\ move' = move
      /\ \A v \in Requests : v # r => pc'[v] = pc[v]
    BY DEF StockInv, TypeOK, Commit
<1>3. Posted' = Posted \cup {r} /\ r \notin Posted /\ Posted \in SUBSET Requests
    BY <1>2 DEF Posted
<1>4. ASSUME NEW s \in Partitions
      PROVE  AllMoved(s)' = AllMoved(s) + NetUnits(m, s) /\ AllMoved(s) \in Int
    <2> DEFINE f == [v \in Requests |-> MovedIn(v, s)]
               g == [v \in Requests |-> MovedIn(v, s)']
    <2>1. \A v \in Requests : v # r => f[v] = g[v]
        BY <1>2, <1>3 DEF MovedIn
    <2>2. f[r] = 0 /\ g[r] = NetUnits(m, s)
        BY <1>1, <1>2, <1>3 DEF MovedIn
    <2>3. \A v \in Requests : f[v] \in Int
        <3> SUFFICES ASSUME NEW v \in Requests, v \in Posted PROVE NetUnits(move[v], s) \in Int
            BY DEF MovedIn
        <3> QED BY NetIsInt DEF HistoryInv
    <2>4. AllMoved(s) = SumFunctionOnSet(f, Requests) /\ AllMoved(s)' = SumFunctionOnSet(g, Requests)
        BY DEF AllMoved
    <2> HIDE DEF f, g
    <2>5. \A v \in Requests : f[v] \in Int /\ g[v] \in Int
        BY <2>1, <2>2, <2>3, NetIsInt
    <2>6. IsFiniteSet(Requests)
        BY ReportAssumption
    <2>7. SumFunctionOnSet(g, Requests) = SumFunctionOnSet(f, Requests) + g[r] - f[r]
        BY ONLY <2>1, <2>5, <2>6, r \in Requests, SumUpdate
    <2>8. SumFunctionOnSet(f, Requests) \in Int
        BY ONLY <2>5, <2>6, SumInt
    <2>9. NetUnits(m, s) \in Int
        BY NetIsInt
    <2> QED BY <2>2, <2>4, <2>7, <2>8, <2>9
<1>5. ASSUME NEW s \in Partitions
      PROVE  SumFunctionOnSet(quantity', RecordsIn(s))
                 = SumFunctionOnSet(Opening, RecordsIn(s)) + AllMoved(s)'
    <2>1. SumFunctionOnSet(quantity', RecordsIn(s))
              = SumFunctionOnSet(quantity, RecordsIn(s)) + NetUnits(m, s)
        BY <1>1, <1>2, PostMoves
    <2>2. SumFunctionOnSet(quantity, RecordsIn(s))
              = SumFunctionOnSet(Opening, RecordsIn(s)) + AllMoved(s)
        BY DEF HistoryInv
    <2>3. SumFunctionOnSet(Opening, RecordsIn(s)) \in Int
        <3>1. \A rec \in RecordsIn(s) : Opening[rec] \in Int
            BY RecordsFinite
        <3> QED BY <3>1, RecordsFinite, SumInt
    <2>4. NetUnits(m, s) \in Int
        BY NetIsInt
    <2> QED BY <1>4, <2>1, <2>2, <2>3, <2>4
<1>6. \A v \in Posted' : move'[v] \in Movement
    BY <1>1, <1>2, <1>3 DEF HistoryInv
<1> QED BY <1>5, <1>6 DEF HistoryInv, RecordsIn

LEMMA StepHistory == StockInv /\ HistoryInv /\ [Next]_stockVars => HistoryInv'
<1> SUFFICES ASSUME StockInv, HistoryInv, [Next]_stockVars PROVE HistoryInv'
    OBVIOUS
<1>1. CASE \E r \in Requests : Commit(r)
    BY <1>1, CommitHistory
<1>2. CASE \A r \in Requests : ~Commit(r)
    BY <1>2, PostsNothing, HistoryKept
<1> QED BY <1>1, <1>2

THEOREM HistoryInvariant == Spec => []HistoryInv
<1> QED BY InitHistory, StepHistory, StockInvariant, PTL DEF Spec

-----------------------------------------------------------------------------
(* Units: a valuation counts those of its scope, a history carries them.     *)

LEMMA StockTotals ==
    ASSUME LedgerTypeOK, NonNegativeStock, NEW p \in Products, NEW s
    PROVE  /\ ScopedRecords(p, s) \in SUBSET RecordsIn(s) /\ IsFiniteSet(ScopedRecords(p, s))
           /\ TotalStock(p, s) \in Nat /\ TotalStock(p, s) <= TotalStock(p, "all")
<1>1. /\ ScopedRecords(p, s) \in SUBSET RecordsIn(s)
      /\ ScopedRecords(p, s) \in SUBSET ScopedRecords(p, "all")
      /\ ScopedRecords(p, "all") \in SUBSET StockRecord
    BY DEF ScopedRecords, RecordsIn, InScope
<1>2. IsFiniteSet(StockRecord)
    BY FS_Product, ReportAssumption DEF StockRecord
<1>3. IsFiniteSet(ScopedRecords(p, s)) /\ IsFiniteSet(ScopedRecords(p, "all"))
    BY <1>1, <1>2, FS_Subset
<1>4. \A rec \in ScopedRecords(p, "all") : quantity[rec] \in Nat
    BY <1>1 DEF NonNegativeStock
<1>5. \A rec \in ScopedRecords(p, s) : quantity[rec] \in Nat
    BY <1>1, <1>4
<1>6. SumFunctionOnSet(quantity, ScopedRecords(p, s)) \in Nat
    BY <1>3, <1>5, SumNat
<1>7. SumFunctionOnSet(quantity, ScopedRecords(p, s))
          <= SumFunctionOnSet(quantity, ScopedRecords(p, "all"))
    BY ONLY <1>1, <1>3, <1>4, SumSubset
<1> QED BY <1>1, <1>3, <1>6, <1>7 DEF TotalStock

(* The rows of a valuation add up to the units of the scope. *)
LEMMA ValuationUnits ==
    ASSUME LedgerTypeOK, NonNegativeStock, NEW s, NEW method
    PROVE  ValuationSummary(method, s).quantity = SumFunctionOnSet(quantity, RecordsIn(s))
<1> DEFINE P == {x \in Products : TotalStock(x, s) > 0}
           Row(p) == [product |-> p, quantity |-> TotalStock(p, s),
                      cost |-> CalculateUnitCost(p, method, s),
                      value |-> CalculateUnitCost(p, method, s) * TotalStock(p, s)]
           rows == StockValuation(method, s)
           e == [p \in Products |-> Row(p)]
           g == [v \in rows |-> v.quantity]
           total == [p \in Products |-> TotalStock(p, s)]
           key == [rec \in StockRecord |-> rec[1]]
<1>1. ValuationSummary(method, s).quantity = SumFunctionOnSet(g, rows)
    BY DEF ValuationSummary
<1>2. rows = {Row(p) : p \in P}
    BY DEF StockValuation
<1>3. P \in SUBSET Products /\ IsFiniteSet(P) /\ IsFiniteSet(Products)
    <2>1. P \in SUBSET Products
        OBVIOUS
    <2> QED BY <2>1, ReportAssumption, FS_Subset
<1>4. rows = Renamed(e, P)
    <2>1. \A p \in P : e[p] = Row(p)
        BY <1>3
    <2> HIDE DEF Row, e, P, rows
    <2> QED BY <1>2, <2>1 DEF Renamed
<1>5. \A p \in Products : Row(p).product = p /\ Row(p).quantity = TotalStock(p, s)
    OBVIOUS
<1>6. \A x, y \in P : x # y => e[x] # e[y]
    <2>1. \A p \in P : e[p] = Row(p) /\ p \in Products
        BY <1>3
    <2> HIDE DEF Row, e, P
    <2> QED BY <1>5, <2>1
<1>7. \A p \in Products : total[p] = TotalStock(p, s) /\ total[p] \in Nat
    BY StockTotals
<1>8. \A p \in P : total[p] \in Int /\ g[e[p]] = total[p]
    <2> SUFFICES ASSUME NEW p \in P PROVE total[p] \in Int /\ g[e[p]] = total[p]
        OBVIOUS
    <2>1. e[p] = Row(p) /\ p \in Products /\ Row(p) \in rows
        BY <1>2, <1>3
    <2>2. g[Row(p)] = Row(p).quantity
        BY <2>1
    <2> HIDE DEF Row, e, P, g, rows, total
    <2> QED BY <1>5, <1>7, <2>1, <2>2
<1>9. \A p \in Products \ P : total[p] = 0
    <2> SUFFICES ASSUME NEW p \in Products \ P PROVE total[p] = 0
        OBVIOUS
    <2>1. ~(TotalStock(p, s) > 0) /\ TotalStock(p, s) \in Nat
        BY StockTotals
    <2> QED BY <2>1
<1>10. \A rec \in RecordsIn(s) : quantity[rec] \in Int /\ key[rec] \in Products
    BY RecordsFinite DEF StockRecord
<1>11. ASSUME NEW p \in Products
       PROVE  total[p] = SumFunctionOnSet(quantity, Class(RecordsIn(s), key, p))
    <2>1. Class(RecordsIn(s), key, p) = ScopedRecords(p, s)
        BY DEF Class, RecordsIn, ScopedRecords
    <2> QED BY <2>1 DEF TotalStock
<1> HIDE DEF P, Row, rows, e, g, total, key
<1>12. SumFunctionOnSet(total, P) = SumFunctionOnSet(g, Renamed(e, P))
    BY ONLY <1>3, <1>6, <1>8, SumRenamed
<1>13. \A p \in P : total[p] \in Int /\ total[p] = total[p]
    BY <1>8
<1>14. SumFunctionOnSet(total, P) = SumFunctionOnSet(total, Products)
    BY ONLY <1>3, <1>9, <1>13, SumPart
<1>15. SumFunctionOnSet(quantity, RecordsIn(s)) = SumFunctionOnSet(total, Products)
    BY ONLY <1>3, <1>10, <1>11, RecordsFinite, SumClasses
<1> QED BY <1>1, <1>4, <1>12, <1>14, <1>15

(* A movement outside a scope carries nothing into or out of it. *)
LEMMA OutsideCarriesNothing ==
    ASSUME NEW m \in Movement, NEW s, ~MovementInScope(m, s)
    PROVE  NetUnits(m, s) = 0
<1>1. HasSource(m) => ~InScope(m.from, s)
    BY DEF MovementInScope, LegInScope, HasSource
<1>2. HasDest(m) => ~InScope(m.to, s)
    BY DEF MovementInScope, LegInScope, HasDest
<1>3. NetUnits(m, s) = 0 - 0
    BY <1>1, <1>2, Zenon DEF NetUnits
<1> QED BY <1>3

LEMMA HistoryCarries ==
    ASSUME HistoryInv, NEW s \in Partitions
    PROVE  /\ MovementHistory(s) \in SUBSET Requests /\ IsFiniteSet(MovementHistory(s))
           /\ Carried(MovementHistory(s), s) = AllMoved(s)
<1> DEFINE T == MovementHistory(s)
           f == [r \in T |-> NetUnits(move[r], s)]
           g == [r \in Requests |-> MovedIn(r, s)]
<1>1. T \in SUBSET Requests /\ T \subseteq Posted
    BY DEF MovementHistory, Posted
<1>2. IsFiniteSet(Requests) /\ IsFiniteSet(T)
    BY <1>1, ReportAssumption, FS_Subset
<1>3. \A r \in T : f[r] \in Int /\ g[r] = f[r]
    <2> SUFFICES ASSUME NEW r \in T PROVE f[r] \in Int /\ g[r] = f[r]
        OBVIOUS
    <2>1. r \in Posted /\ r \in Requests /\ move[r] \in Movement
        BY <1>1 DEF HistoryInv
    <2>2. NetUnits(move[r], s) \in Int
        BY <2>1, NetIsInt
    <2> QED BY <2>1, <2>2 DEF MovedIn
<1>4. \A r \in Requests \ T : g[r] = 0
    <2> SUFFICES ASSUME NEW r \in Requests \ T, r \in Posted PROVE NetUnits(move[r], s) = 0
        BY DEF MovedIn
    <2>1. ~MovementInScope(move[r], s) /\ move[r] \in Movement
        BY DEF MovementHistory, HistoryInv
    <2> QED BY <2>1, OutsideCarriesNothing
<1>5. Carried(T, s) = SumFunctionOnSet(f, T) /\ AllMoved(s) = SumFunctionOnSet(g, Requests)
    BY DEF Carried, AllMoved
<1> HIDE DEF T, f, g
<1>6. SumFunctionOnSet(f, T) = SumFunctionOnSet(g, Requests)
    BY ONLY <1>1, <1>2, <1>3, <1>4, SumPart
<1> QED BY <1>1, <1>2, <1>5, <1>6 DEF T

(* The counts of the summary are those of the history, type by type. *)
LEMMA SummaryCounts ==
    ASSUME HistoryInv, NEW s \in Partitions
    PROVE  SumFunctionOnSet([type \in MovementType |-> MovementSummary(s)[type].count], MovementType)
               = Cardinality(MovementHistory(s))
<1> DEFINE T == MovementHistory(s)
           one == [r \in T |-> 1]
           key == [r \in T |-> move[r].type]
           counts == [type \in MovementType |-> MovementSummary(s)[type].count]
<1>1. IsFiniteSet(T)
    BY HistoryCarries
<1>2. IsFiniteSet(MovementType)
    <2> DEFINE first == {"receive"}
               two == first \cup {"issue"}
               three == two \cup {"transfer"}
    <2>1. MovementType = three \cup {"adjustment"}
        BY DEF MovementType
    <2>2. IsFiniteSet(first)
        BY FS_Singleton
    <2> HIDE DEF first
    <2>3. IsFiniteSet(two)
        BY <2>2, FS_AddElement
    <2> HIDE DEF two
    <2>4. IsFiniteSet(three)
        BY <2>3, FS_AddElement
    <2> HIDE DEF three
    <2>5. IsFiniteSet(three \cup {"adjustment"})
        BY <2>4, FS_AddElement
    <2> QED BY <2>1, <2>5
<1>3. \A r \in T : one[r] = 1 /\ one[r] \in Int /\ key[r] \in MovementType
    BY DEF MovementHistory, HistoryInv, Movement
<1>4. ASSUME NEW type \in MovementType
      PROVE  counts[type] = SumFunctionOnSet(one, Class(T, key, type))
    <2> DEFINE rows == {r \in T : move[r].type = type}
    <2>1. counts[type] = Cardinality(rows)
        BY DEF MovementSummary
    <2>2. Class(T, key, type) = rows
        BY DEF Class
    <2>3. \A r \in rows : one[r] = 1
        OBVIOUS
    <2>4. IsFiniteSet(rows)
        <3>1. rows \in SUBSET T
            OBVIOUS
        <3> QED BY <1>1, <3>1, FS_Subset
    <2> HIDE DEF T, one, key, counts, rows
    <2>5. SumFunctionOnSet(one, rows) = Cardinality(rows)
        BY ONLY <2>3, <2>4, SumOnes
    <2> QED BY <2>1, <2>2, <2>5
<1> HIDE DEF T, one, key, counts
<1>5. SumFunctionOnSet(one, T) = SumFunctionOnSet(counts, MovementType)
    BY ONLY <1>1, <1>2, <1>3, <1>4, SumClasses
<1>6. SumFunctionOnSet(one, T) = Cardinality(T)
    BY ONLY <1>1, <1>3, SumOnes
<1> QED BY <1>5, <1>6 DEF T, counts

(* Which scopes requests ask for, and the admin's history of them. *)
LEMMA QueriesAsk ==
    ASSUME NEW q \in Query
    PROVE  /\ Asked(q) \in Partitions
           /\ q.warehouse = "" \/ (~q.retail /\ q.warehouse \in Warehouses) =>
                  AdminHistory(q) = MovementHistory(Asked(q))
<1>1. /\ q.retail \in BOOLEAN /\ q.warehouse \in {"", "null", "junk"} \cup Warehouses
      /\ ~q.retail => q.warehouse # "junk"
    BY DEF Query, QueryString, Understood
<1>2. CASE q.retail
    <2>1. ScopeParams(q).retail
        BY <1>2 DEF ScopeParams, Query, QueryString
    <2>2. Asked(q) = "retail"
        BY <2>1 DEF Asked, ScopeOf
    <2>3. q.warehouse \notin Warehouses => AdminHistory(q) = MovementHistory("retail")
        BY <1>2 DEF AdminHistory, MovementHistory
    <2> QED BY <1>2, <2>2, <2>3, ScopeAssumption DEF Partitions
<1>3. CASE ~q.retail /\ q.warehouse = ""
    <2>1. Asked(q) = "all"
        BY <1>3 DEF Asked, ScopeParams, ScopeOf
    <2>2. "" \notin Warehouses
        BY ScopeAssumption
    <2>3. AdminHistory(q) = MovementHistory("all")
        BY <1>3, <2>2 DEF AdminHistory, MovementHistory, MovementInScope
    <2> QED BY <2>1, <2>3 DEF Partitions
<1>4. CASE ~q.retail /\ q.warehouse = "null"
    <2>1. Asked(q) = "retail"
        BY <1>4 DEF Asked, ScopeParams, ScopeOf
    <2> QED BY <1>4, <2>1, ScopeAssumption DEF Partitions
<1>5. CASE ~q.retail /\ q.warehouse \in Warehouses
    <2>1. q.warehouse # "" /\ q.warehouse # "null"
        BY <1>5, ScopeAssumption
    <2>2. Asked(q) = q.warehouse
        BY <1>5, <2>1 DEF Asked, ScopeParams, ScopeOf
    <2>3. AdminHistory(q) = MovementHistory(q.warehouse)
        BY <1>5 DEF AdminHistory, MovementHistory
    <2> QED BY <1>5, <2>2, <2>3 DEF Partitions
<1> QED BY <1>1, <1>2, <1>3, <1>4, <1>5

LEMMA UnitsAreExplained == StockInv /\ HistoryInv => UnitsExplained
<1> SUFFICES ASSUME StockInv, HistoryInv, NEW q \in Query
             PROVE  LET s == Asked(q)
                        Explained(rows) == SumFunctionOnSet(Opening, RecordsIn(s)) + Carried(rows, s)
                    IN /\ \A v \in ApiValuation(q, "latest_cost") :
                              v.summary.quantity = Explained(ApiHistory(q))
                       /\ q.warehouse = "" \/ (~q.retail /\ q.warehouse \in Warehouses) =>
                              \A v \in AdminValuation(q, "junk") :
                                  v.summary.quantity = Explained(AdminHistory(q))
                       /\ SumFunctionOnSet([type \in MovementType |-> MovementSummary(s)[type].count],
                                           MovementType)
                              = Cardinality(ApiHistory(q))
    BY DEF UnitsExplained
<1> DEFINE s == Asked(q)
           Explained(rows) == SumFunctionOnSet(Opening, RecordsIn(s)) + Carried(rows, s)
<1>1. s \in Partitions /\ LedgerTypeOK /\ NonNegativeStock /\ ApiHistory(q) = MovementHistory(s)
    BY QueriesAsk DEF StockInv, TypeOK, ApiHistory
<1>2. \A method : ValuationSummary(method, s).quantity = Explained(MovementHistory(s))
    <2> SUFFICES ASSUME NEW method
                 PROVE  ValuationSummary(method, s).quantity = Explained(MovementHistory(s))
        OBVIOUS
    <2>1. ValuationSummary(method, s).quantity = SumFunctionOnSet(quantity, RecordsIn(s))
        BY <1>1, ValuationUnits
    <2>2. SumFunctionOnSet(quantity, RecordsIn(s))
              = SumFunctionOnSet(Opening, RecordsIn(s)) + AllMoved(s)
        BY <1>1 DEF HistoryInv
    <2>3. Carried(MovementHistory(s), s) = AllMoved(s)
        BY <1>1, HistoryCarries
    <2> QED BY <2>1, <2>2, <2>3
<1>3. \A v \in ApiValuation(q, "latest_cost") : v.summary = ValuationSummary("latest_cost", s)
    BY DEF ApiValuation, Methods
<1>4. \A v \in AdminValuation(q, "junk") : \E method : v.summary = ValuationSummary(method, s)
    BY DEF AdminValuation
<1>5. q.warehouse = "" \/ (~q.retail /\ q.warehouse \in Warehouses) =>
          AdminHistory(q) = MovementHistory(s)
    BY QueriesAsk
<1>6. SumFunctionOnSet([type \in MovementType |-> MovementSummary(s)[type].count], MovementType)
          = Cardinality(MovementHistory(s))
    BY <1>1, SummaryCounts
<1> HIDE DEF s, Explained
<1>7. \A v \in ApiValuation(q, "latest_cost") : v.summary.quantity = Explained(ApiHistory(q))
    BY <1>1, <1>2, <1>3
<1>8. q.warehouse = "" \/ (~q.retail /\ q.warehouse \in Warehouses) =>
          \A v \in AdminValuation(q, "junk") : v.summary.quantity = Explained(AdminHistory(q))
    BY <1>2, <1>4, <1>5
<1> QED BY <1>1, <1>6, <1>7, <1>8 DEF s, Explained

-----------------------------------------------------------------------------
(* Costs: an average rounded to a whole number stays between two whole       *)
(* numbers that the average is between.                                      *)

LEMMA TimesMonotone ==
    ASSUME NEW x \in Int, NEW y \in Int, x <= y, NEW b \in Nat
    PROVE  b * x <= b * y
<1>1. PICK d \in Nat : y = x + d
    <2>1. y - x \in Nat /\ y = x + (y - x)
        OBVIOUS
    <2> QED BY <2>1
<1>2. b * y = b * x + b * d /\ b * d \in Nat /\ b * x \in Int
    BY <1>1, TimesNat
<1> QED BY <1>2

LEMMA Divided ==
    ASSUME NEW a \in Int, NEW b \in Nat, b > 0
    PROVE  /\ a \div b \in Int /\ a % b \in Nat /\ a % b < b
           /\ a = (b * (a \div b)) + (a % b)
OBVIOUS

LEMMA RoundedBetween ==
    ASSUME NEW a \in Int, NEW b \in Nat, b > 0, NEW k \in Int
    PROVE  /\ RoundedQuotient(a, b) \in Int
           /\ b * k <= a => RoundedQuotient(a, b) >= k
           /\ a <= b * k => RoundedQuotient(a, b) <= k
<1> DEFINE floor == a \div b
           rest == a % b
           rounded == RoundedQuotient(a, b)
<1>1. floor \in Int /\ rest \in Nat /\ rest < b /\ a = b * floor + rest
    BY Divided
<1>2. rounded \in {floor, floor + 1} /\ (rest = 0 => rounded = floor)
    BY <1>1 DEF RoundedQuotient
<1> HIDE DEF floor, rest, rounded
<1>3. b * (floor + 1) = b * floor + b /\ b * (k + 1) = b * k + b
      /\ b * floor \in Int /\ b * k \in Int
    BY <1>1
<1>4. b * k <= a => floor >= k
    <2> SUFFICES ASSUME b * k <= a, floor + 1 <= k PROVE FALSE
        BY <1>1
    <2>1. b * (floor + 1) <= b * k
        BY <1>1, TimesMonotone
    <2> QED BY <1>1, <1>3, <2>1
<1>5. a <= b * k => floor <= k /\ (floor = k => rest = 0)
    <2> SUFFICES ASSUME a <= b * k PROVE floor <= k /\ (floor = k => rest = 0)
        OBVIOUS
    <2>1. ASSUME k + 1 <= floor PROVE FALSE
        <3>1. b * (k + 1) <= b * floor
            BY <1>1, <2>1, TimesMonotone
        <3> QED BY <1>1, <1>3, <3>1
    <2>2. floor = k => rest = 0
        BY <1>1, <1>3
    <2> QED BY <1>1, <2>1, <2>2
<1>6. b * k <= a => rounded >= k
    BY <1>1, <1>2, <1>4
<1>7. a <= b * k => rounded <= k
    BY <1>1, <1>2, <1>5
<1> QED BY <1>1, <1>2, <1>6, <1>7 DEF rounded


(* An average of prices, each with its units, is between two of the prices.  *)
LEMMA AverageBetween ==
    ASSUME NEW S, IsFiniteSet(S), NEW n, NEW c, NEW a,
           \A x \in S : n[x] \in Nat /\ c[x] \in Int /\ a[x] = n[x] * c[x],
           \A x \in S : n[x] > 0 => c[x] >= 0,
           \E x \in S : n[x] > 0 /\ c[x] > 0,
           NEW cost, cost = SumFunctionOnSet(a, S),
           NEW units, units = SumFunctionOnSet(n, S)
    PROVE  /\ cost # 0 /\ units # 0
           /\ \E x \in S : n[x] > 0 /\ RoundedQuotient(cost, units) >= c[x]
           /\ \E x \in S : n[x] > 0 /\ RoundedQuotient(cost, units) <= c[x]
<1> DEFINE k == RoundedQuotient(cost, units)
<1>1. \A x \in S : a[x] \in Nat /\ (n[x] > 0 /\ c[x] > 0 => a[x] > 0)
    <2> SUFFICES ASSUME NEW x \in S PROVE a[x] \in Nat /\ (n[x] > 0 /\ c[x] > 0 => a[x] > 0)
        OBVIOUS
    <2>1. CASE n[x] = 0
        BY <2>1
    <2>2. CASE n[x] > 0
        <3>1. c[x] \in Nat /\ n[x] \in Nat /\ a[x] = n[x] * c[x]
            BY <2>2
        <3>2. a[x] \in Nat
            BY <3>1, TimesNat
        <3>3. ASSUME c[x] > 0 PROVE a[x] > 0
            <4>1. n[x] * 1 <= n[x] * c[x]
                BY <3>1, <3>3, TimesMonotone
            <4> QED BY <2>2, <3>1, <3>2, <4>1
        <3> QED BY <3>2, <3>3
    <2> QED BY <2>1, <2>2
<1>2. cost \in Nat /\ units \in Nat /\ cost > 0 /\ units > 0
    <2>1. PICK x \in S : n[x] > 0 /\ c[x] > 0
        OBVIOUS
    <2>2. cost \in Nat /\ a[x] <= cost
        BY <1>1, SumNat
    <2>3. units \in Nat /\ n[x] <= units
        BY SumNat
    <2> QED BY <1>1, <2>1, <2>2, <2>3
<1>3. k \in Int
    BY <1>2, RoundedBetween
<1> HIDE DEF k
<1>4. \A d \in Int : \A g : (\A x \in S : n[x] \in Int /\ g[x] = n[x] * d)
                                => SumFunctionOnSet(g, S) = units * d
    BY SumScale
<1>5. ASSUME NEW d \in Int
      PROVE  \E g : \A x \in S : g[x] = n[x] * d /\ g[x] \in Int
    <2> DEFINE g == [x \in S |-> n[x] * d]
    <2>1. \A x \in S : g[x] = n[x] * d /\ g[x] \in Int
        OBVIOUS
    <2> QED BY <2>1
<1>6. ASSUME \A x \in S : n[x] > 0 => c[x] > k PROVE FALSE
    <2>1. PICK g : \A x \in S : g[x] = n[x] * (k + 1) /\ g[x] \in Int
        <3>1. k + 1 \in Int
            BY <1>3
        <3> HIDE DEF k
        <3> QED BY ONLY <1>5, <3>1, Zenon
    <2>2. \A x \in S : g[x] \in Int /\ a[x] \in Int /\ g[x] <= a[x]
        <3> SUFFICES ASSUME NEW x \in S PROVE g[x] <= a[x]
            BY <1>1, <2>1
        <3>1. CASE n[x] = 0
            BY <1>3, <2>1, <3>1
        <3>2. CASE n[x] > 0
            <4>1. n[x] \in Nat /\ k + 1 \in Int /\ c[x] \in Int /\ k + 1 <= c[x]
                BY <1>3, <1>6, <3>2
            <4>2. n[x] * (k + 1) <= n[x] * c[x]
                BY ONLY <4>1, TimesMonotone
            <4> QED BY <2>1, <4>2
        <3> QED BY <3>1, <3>2
    <2>3. SumFunctionOnSet(g, S) <= cost
        BY <2>2, SumMonotone
    <2>4. SumFunctionOnSet(g, S) = units * (k + 1)
        BY <1>3, <1>4, <2>1
    <2>5. k >= k + 1
        BY <1>2, <1>3, <2>3, <2>4, RoundedBetween DEF k
    <2> QED BY <1>3, <2>5
<1>7. ASSUME \A x \in S : n[x] > 0 => c[x] < k PROVE FALSE
    <2>1. PICK g : \A x \in S : g[x] = n[x] * (k - 1) /\ g[x] \in Int
        <3>1. k - 1 \in Int
            BY <1>3
        <3> HIDE DEF k
        <3> QED BY ONLY <1>5, <3>1, Zenon
    <2>2. \A x \in S : g[x] \in Int /\ a[x] \in Int /\ a[x] <= g[x]
        <3> SUFFICES ASSUME NEW x \in S PROVE a[x] <= g[x]
            BY <1>1, <2>1
        <3>1. CASE n[x] = 0
            BY <1>3, <2>1, <3>1
        <3>2. CASE n[x] > 0
            <4>1. n[x] \in Nat /\ k - 1 \in Int /\ c[x] \in Int /\ c[x] <= k - 1
                BY <1>3, <1>7, <3>2
            <4>2. n[x] * c[x] <= n[x] * (k - 1)
                BY ONLY <4>1, TimesMonotone
            <4> QED BY <2>1, <4>2
        <3> QED BY <3>1, <3>2
    <2>3. cost <= SumFunctionOnSet(g, S)
        BY <2>2, SumMonotone
    <2>4. SumFunctionOnSet(g, S) = units * (k - 1)
        BY <1>3, <1>4, <2>1
    <2>5. k <= k - 1
        BY <1>2, <1>3, <2>3, <2>4, RoundedBetween DEF k
    <2> QED BY <1>3, <2>5
<1> QED BY <1>2, <1>3, <1>6, <1>7 DEF k


LEMMA AverageIsPaid ==
    ASSUME HistoryInv, NEW p, NEW s,
           NEW bought, bought = {r \in Priced(p, s) : move[r].quantity > 0},
           \E r \in bought : CostOf[r] > 0, \A r \in bought : CostOf[r] >= 0
    PROVE  /\ \E r \in bought : CalculateUnitCost(p, "weighted_average", s) >= CostOf[r]
           /\ \E r \in bought : CalculateUnitCost(p, "weighted_average", s) <= CostOf[r]
<1> DEFINE S == Priced(p, s)
           n == [r \in S |-> move[r].quantity]
           c == [r \in S |-> CostOf[r]]
           a == [r \in S |-> move[r].quantity * CostOf[r]]
           cost == SumFunctionOnSet(a, S)
           units == SumFunctionOnSet(n, S)
<1>1. S \in SUBSET Requests /\ IsFiniteSet(S)
    <2>1. S \in SUBSET Requests
        BY DEF Priced, Posted
    <2> QED BY <2>1, ReportAssumption, FS_Subset
<1>2. \A r \in S : move[r] \in Movement /\ CostOf[r] \in Int
    BY ReportAssumption DEF Priced, Posted, HistoryInv
<1>3. \A x \in S : n[x] \in Nat /\ c[x] \in Int /\ a[x] = n[x] * c[x]
    BY <1>2, MovementTypes
<1>4. \A x \in S : n[x] > 0 <=> x \in bought
    OBVIOUS
<1>5. \A x \in S : n[x] > 0 => c[x] >= 0
    BY <1>4
<1>6. \E x \in S : n[x] > 0 /\ c[x] > 0
    OBVIOUS
<1>7. CalculateUnitCost(p, "weighted_average", s)
          = IF cost = 0 \/ units = 0 THEN UnitCost[p] ELSE RoundedQuotient(cost, units)
    BY DEF CalculateUnitCost
<1>8. \A x \in S : c[x] = CostOf[x]
    OBVIOUS
<1> HIDE DEF n, c, a, S
<1>9. /\ cost # 0 /\ units # 0
      /\ \E x \in S : n[x] > 0 /\ RoundedQuotient(cost, units) >= c[x]
      /\ \E x \in S : n[x] > 0 /\ RoundedQuotient(cost, units) <= c[x]
    BY ONLY <1>1, <1>3, <1>5, <1>6, AverageBetween
<1> HIDE DEF cost, units
<1> QED BY <1>4, <1>7, <1>8, <1>9

LEMMA CostsArePaid == HistoryInv => CostsPaid
<1> DEFINE Bought(p, q) == {r \in Priced(p, Asked(q)) : move[r].quantity > 0}
           Cost(p, q) == CalculateUnitCost(p, "weighted_average", Asked(q))
           Paid(p, q) == {CostOf[r] : r \in Bought(p, q)}
<1>1. ASSUME HistoryInv, NEW q \in Query, NEW p,
             \E c \in Paid(p, q) : c > 0, \A c \in Paid(p, q) : c >= 0
      PROVE  /\ \E c \in Paid(p, q) : Cost(p, q) >= c
             /\ \E c \in Paid(p, q) : Cost(p, q) <= c
    <2>1. /\ \E r \in Bought(p, q) : CostOf[r] > 0
          /\ \A r \in Bought(p, q) : CostOf[r] >= 0
        BY <1>1
    <2>2. /\ \E r \in Bought(p, q) : Cost(p, q) >= CostOf[r]
          /\ \E r \in Bought(p, q) : Cost(p, q) <= CostOf[r]
        BY <1>1, <2>1, AverageIsPaid
    <2> HIDE DEF Bought, Cost
    <2> QED BY <2>2
<1>2. ASSUME NEW q \in Query, NEW v \in AdminValuation(q, "weighted_average"), NEW row \in v.items
      PROVE  row.cost = Cost(row.product, q)
    BY DEF AdminValuation, StockValuation, Methods
<1> QED BY <1>1, <1>2 DEF CostsPaid

(* What a part holds the whole holds too, so no part is overstocked alone.   *)
LEMMA OverstockIsOfTheWhole == StockInv => OverstockOfTheWhole
<1> DEFINE everything == [retail |-> FALSE, warehouse |-> ""]
<1>1. Asked(everything) = "all"
    BY DEF Asked, ScopeParams, ScopeOf
<1>2. ASSUME StockInv, NEW q \in Query, NEW k \in Thresholds, NEW row \in ApiOverstock(q, k)
      PROVE  \E all \in ApiOverstock(everything, k) : all.product = row.product
    <2>1. k \in Int /\ row \in OverstockRows(k, Asked(q))
        BY <1>2 DEF ApiOverstock, Failed
    <2>2. PICK p \in Overstock(k, Asked(q)) : row.product = p
        BY <2>1 DEF OverstockRows
    <2>3. p \in Products /\ Reorder[p] \in Nat /\ Reorder[p] * k \in Int
        BY <2>1, <2>2, ReportAssumption DEF Overstock
    <2>4. /\ TotalStock(p, Asked(q)) \in Nat
          /\ TotalStock(p, Asked(q)) <= TotalStock(p, "all")
        BY <1>2, <2>3, StockTotals DEF StockInv, TypeOK
    <2>5. TotalStock(p, "all") \in Nat
        BY <1>2, <2>3, StockTotals DEF StockInv, TypeOK
    <2>6. p \in Overstock(k, "all")
        BY <2>2, <2>3, <2>4, <2>5 DEF Overstock
    <2>7. \E all \in OverstockRows(k, "all") : all.product = p
        <3> DEFINE Row(x) == [product |-> x, total |-> TotalStock(x, "all"),
                              excess |-> TotalStock(x, "all") - Reorder[x] * k]
        <3>1. OverstockRows(k, "all") = {Row(x) : x \in Overstock(k, "all")}
            BY Zenon DEF OverstockRows
        <3>2. Row(p).product = p
            OBVIOUS
        <3> HIDE DEF Row
        <3> QED BY <2>6, <3>1, <3>2
    <2> HIDE DEF everything
    <2> QED BY <1>1, <2>1, <2>2, <2>7 DEF ApiOverstock
<1>3. ASSUME NEW q \in Query, NEW k \in Thresholds
      PROVE  ApiOverstock(q, k) \in {Failed, AdminOverstock(q, k)}
    BY DEF ApiOverstock, AdminOverstock
<1> QED BY <1>2, <1>3 DEF OverstockOfTheWhole

(* The stock reports tell one story, whatever the movements, the prices and  *)
(* the facilities: the units a valuation counts are those the history        *)
(* carries, at costs somebody paid, and no part is overstocked alone.        *)
THEOREM StoryIsOne == Spec => []ReportsTellOneStory
<1>1. StockInv /\ HistoryInv => ReportsTellOneStory
    BY UnitsAreExplained, CostsArePaid, OverstockIsOfTheWhole DEF ReportsTellOneStory
<1> QED BY <1>1, StockInvariant, HistoryInvariant, PTL
=============================================================================
