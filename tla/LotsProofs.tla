------------------------------- MODULE LotsProofs -------------------------------
(***************************************************************************)
(* Proofs about Lots, for any number of requests, lots and records, any    *)
(* calls and any lot ages: the inductive invariant LotsInv, that the       *)
(* concurrent requests implement the atomic lot ledger, and that links,    *)
(* trace and expiry reports tell one story of the lots (LinksInv).         *)
(*                                                                         *)
(* The argument is rely/guarantee: what is known of a request speaks of    *)
(* rows it has locked (OtherRequests), and every step of another request   *)
(* writes only rows that one has locked itself.                            *)
(***************************************************************************)
EXTENDS LotReports, MovementProofs

USE MovementAssumption, LotsAssumption

LEMMA CallTypes ==
    ASSUME NEW c \in Calls
    PROVE  /\ c.move \in Movement /\ c.move.quantity \in Nat /\ c.move.product \in Products
           /\ c.lot \in Lots \cup {NoLot} /\ c.manual \in Seq(Share)
           /\ c.lot # NoLot => LotProduct[c.lot] = c.move.product
           /\ HasSource(c.move) => Source(c.move) \in StockRecord
           /\ HasDest(c.move) => Dest(c.move) \in StockRecord
           /\ \A rec \in StockRecord :
                 Outgoing(c.move, rec) \in Nat /\ Incoming(c.move, rec) \in Nat
<1>1. IsCall(c) /\ c.move \in Movement
    BY DEF IsCall
<1>2. c.move.quantity \in Nat /\ c.move.product \in Products
    BY <1>1 DEF Movement
<1>3. /\ HasSource(c.move) => Source(c.move) \in StockRecord
      /\ HasDest(c.move) => Dest(c.move) \in StockRecord
    BY <1>1 DEF Movement, HasSource, HasDest, Source, Dest, StockRecord
<1> QED
    BY <1>1, <1>2, <1>3 DEF IsCall, Outgoing, Incoming

LEMMA MinIs ==
    ASSUME NEW i \in Nat, NEW j \in Nat
    PROVE  Min({i, j}) = IF i <= j THEN i ELSE j
<1>1. \E x \in {i, j} : \A y \in {i, j} : x <= y
    OBVIOUS
<1> QED
    BY <1>1 DEF Min

LEMMA Rows == StockRecord \subseteq Row /\ Lots \subseteq Row
BY DEF Row

(* DrainedInOrder, for one request. *)
Drained(r) ==
    pc[r] = "lots" /\ ~Exact(call[r]) =>
        \A a, b \in Lots :
            /\ lock[a] = r /\ lock[b] = r /\ plan[r][b] > 0
            /\ IF call[r].strategy = "FIFO" THEN Age[a] < Age[b] ELSE Age[a] > Age[b]
            => plan[r][a] = remaining[a]

-----------------------------------------------------------------------------
(* What a request relies on: nobody touches the rows it has locked.          *)

LEMMA OtherRequests ==
    ASSUME TypeOK, NEW v \in Requests, RequestInv(v), Drained(v),
           UNCHANGED <<pc[v], call[v], queue[v], need[v], plan[v], links[v]>>,
           \A row \in Row : lock'[row] = v <=> lock[row] = v,
           \A rec \in StockRecord : lock[rec] = v => quantity'[rec] = quantity[rec],
           \A lot \in Lots : lock[lot] = v => remaining'[lot] = remaining[lot]
    PROVE  RequestInv(v)' /\ Drained(v)'
<1> DEFINE c == call[v]
<1>1. pc'[v] = pc[v] /\ call'[v] = c /\ queue'[v] = queue[v] /\ need'[v] = need[v]
      /\ plan'[v] = plan[v] /\ links'[v] = links[v]
    OBVIOUS
<1>2. CallInv(v)'
    BY <1>1 DEF RequestInv, CallInv
<1>3. LockInv(v)'
    <2>1. CASE pc[v] \in InTransaction
        <3>1. PICK k \in Calls : k = call[v] /\ call'[v] = k
            BY <1>1, <2>1 DEF RequestInv, CallInv, TypeOK
        <3>2. /\ HasSource(k.move) => Source(k.move) \in StockRecord /\ Source(k.move) \in Row
              /\ HasDest(k.move) => Dest(k.move) \in Row
              /\ PutsLot(k) => k.lot \in Row
            BY CallTypes, Rows DEF PutsLot
        <3>3. LockInv(v)
            BY DEF RequestInv
        <3> QED
            BY <1>1, <2>1, <3>1, <3>2, <3>3, Rows DEF LockInv, AfterSelect
    <2>2. CASE pc[v] \notin InTransaction
        BY <1>1, <2>2, Rows DEF RequestInv, LockInv, AfterSelect, InTransaction
    <2> QED BY <2>1, <2>2
<1>4. PlanInv(v)'
    BY <1>1, Rows DEF RequestInv, PlanInv
<1>5. ShareInv(v)'
    <2>1. \A lot \in Lots : plan[v][lot] > 0 => remaining'[lot] = remaining[lot]
        BY DEF RequestInv, PlanInv
    <2>2. LinkedTwice(v)' <=> LinkedTwice(v)
        BY <1>1 DEF LinkedTwice
    <2> QED
        BY <1>1, <2>1, <2>2 DEF RequestInv, ShareInv
<1>6. QueueInv(v)'
    BY <1>1, Rows DEF RequestInv, QueueInv
<1>7. Drained(v)'
    BY <1>1, Rows DEF Drained
<1>8. ~Done(v)' => \A lot \in Lots : links'[v][lot] = 0
    BY <1>1 DEF RequestInv, Done
<1> QED
    BY <1>2, <1>3, <1>4, <1>5, <1>6, <1>7, <1>8 DEF RequestInv

(* What the tables say is kept by a step that writes none of them and ends   *)
(* no request with a commit.                                                 *)
TablesInv == LotsMatchLinks /\ LineageComplete /\ DriftIsUntracked
             /\ \A rec \in StockRecord : quantity[rec] >= 0

LEMMA UsedKept ==
    ASSUME UNCHANGED dataVars,
           \A v \in Requests : /\ pc'[v] = "committed" <=> pc[v] = "committed"
                               /\ pc[v] = "committed" => call'[v] = call[v]
    PROVE  \A lot \in Lots : Used(lot)' = Used(lot)
<1>1. ASSUME NEW lot \in Lots, NEW v \in Requests PROVE UsedBy(v, lot)' = UsedBy(v, lot)
    BY DEF UsedBy, Done, dataVars, Added, Move
<1> QED
    BY <1>1 DEF Used

LEMMA TablesKept ==
    ASSUME TypeOK, TablesInv, UNCHANGED dataVars,
           \A v \in Requests : /\ pc'[v] = "committed" <=> pc[v] = "committed"
                               /\ pc[v] = "committed" => call'[v] = call[v]
    PROVE  TablesInv'
<1>1. \A v \in Requests : /\ Done(v)' <=> Done(v)
                          /\ Done(v) => call'[v] = call[v]
    BY DEF Done
<1>2. \A lot \in Lots : Used(lot)' = Used(lot)
    BY UsedKept
<1>3. LotsMatchLinks'
    BY <1>2 DEF TablesInv, LotsMatchLinks, dataVars
<1>4. LineageComplete'
    <2> SUFFICES ASSUME NEW v \in Requests, Done(v)', TakesLots(call'[v])
                 PROVE  SumFunctionOnSet([lot \in Lots |-> links'[v][lot] - Added(v, lot)'], Lots)
                            = Move(v)'.quantity
        BY DEF LineageComplete
    <2>1. Done(v) /\ call'[v] = call[v] /\ links' = links
        BY <1>1 DEF dataVars
    <2>2. \A lot \in Lots : Added(v, lot)' = Added(v, lot)
        BY <2>1 DEF Added, Move
    <2>3. [lot \in Lots |-> links'[v][lot] - Added(v, lot)'] = [lot \in Lots |-> links[v][lot] - Added(v, lot)]
        BY <2>1, <2>2
    <2>4. SumFunctionOnSet([lot \in Lots |-> links[v][lot] - Added(v, lot)], Lots) = Move(v).quantity
        BY <2>1 DEF TablesInv, LineageComplete
    <2> QED BY <2>1, <2>3, <2>4 DEF Move
<1>5. DriftIsUntracked'
    <2>1. ASSUME NEW p \in Products
          PROVE  /\ RecordDrift(p)' = RecordDrift(p) /\ LotDrift(p)' = LotDrift(p)
                 /\ [r \in Requests |-> Untracked(p, r)]' = [r \in Requests |-> Untracked(p, r)]
        <3>1. \A v \in Requests : Untracked(p, v)' = Untracked(p, v)
            BY <1>1 DEF Untracked
        <3> QED
            BY <3>1 DEF RecordDrift, LotDrift, dataVars
    <2> QED BY <2>1 DEF TablesInv, DriftIsUntracked
<1> QED
    BY <1>3, <1>4, <1>5 DEF TablesInv, dataVars

-----------------------------------------------------------------------------
(* One lemma per kind of step.  Each says what the step does to the request  *)
(* that takes it; StepFrame adds the others.                                 *)

OthersKept(r) ==
    \A v \in Requests : v # r =>
        /\ UNCHANGED <<pc[v], call[v], queue[v], need[v], plan[v], links[v]>>
        /\ \A row \in Row : lock'[row] = v <=> lock[row] = v
        /\ \A rec \in StockRecord : lock[rec] = v => quantity'[rec] = quantity[rec]
        /\ \A lot \in Lots : lock[lot] = v => remaining'[lot] = remaining[lot]

LEMMA StepFrame ==
    ASSUME LotsInv, NEW r \in Requests, OthersKept(r),
           TypeOK', TablesInv', RequestInv(r)', Drained(r)'
    PROVE  LotsInv'
<1>1. ASSUME NEW v \in Requests PROVE RequestInv(v)' /\ Drained(v)'
    <2>1. CASE v = r
        BY <2>1
    <2>2. CASE v # r
        <3>1. RequestInv(v) /\ Drained(v) /\ TypeOK
            BY DEF LotsInv, DrainedInOrder, Drained
        <3>2. /\ UNCHANGED <<pc[v], call[v], queue[v], need[v], plan[v], links[v]>>
              /\ \A row \in Row : lock'[row] = v <=> lock[row] = v
              /\ \A rec \in StockRecord : lock[rec] = v => quantity'[rec] = quantity[rec]
              /\ \A lot \in Lots : lock[lot] = v => remaining'[lot] = remaining[lot]
            BY <2>2 DEF OthersKept
        <3> QED BY <3>1, <3>2, OtherRequests
    <2> QED BY <2>1, <2>2
<1>2. DrainedInOrder'
    BY <1>1 DEF DrainedInOrder, Drained
<1> QED
    BY <1>1, <1>2 DEF LotsInv, TablesInv

LEMMA LotsInvParts ==
    LotsInv => /\ TypeOK /\ TablesInv
               /\ \A r \in Requests : RequestInv(r) /\ Drained(r)
BY DEF LotsInv, TablesInv, DrainedInOrder, Drained

LEMMA BeginInv ==
    ASSUME LotsInv, NEW r \in Requests, Begin(r) \/ Reject(r)
    PROVE  LotsInv'
<1>1. TypeOK /\ TablesInv /\ RequestInv(r) /\ Drained(r) /\ pc[r] = "idle"
    BY LotsInvParts DEF Begin, Reject
<1>2. UNCHANGED <<dataVars, lock, queue, need, plan>>
    BY DEF Begin, Reject
<1>3. \/ /\ pc' = [pc EXCEPT ![r] = "refused"] /\ call' = call
      \/ \E c \in Calls : /\ ValidMovement(c.move)
                          /\ call' = [call EXCEPT ![r] = c]
                          /\ pc' = [pc EXCEPT ![r] = IF HasSource(c.move) THEN "source" ELSE "dest"]
    BY DEF Begin, Reject, Goto
<1>4. TypeOK'
    <2>1. pc' \in [Requests -> Steps] /\ call' \in [Requests -> Calls \cup {NoCall}]
        <3>1. {"refused", "source", "dest"} \subseteq Steps
            BY DEF Steps, InTransaction, Final
        <3>2. pc \in [Requests -> Steps] /\ call \in [Requests -> Calls \cup {NoCall}]
            BY <1>1 DEF TypeOK
        <3>3. CASE pc' = [pc EXCEPT ![r] = "refused"] /\ call' = call
            BY <3>1, <3>2, <3>3
        <3>4. ASSUME NEW c \in Calls, call' = [call EXCEPT ![r] = c],
                     pc' = [pc EXCEPT ![r] = IF HasSource(c.move) THEN "source" ELSE "dest"]
              PROVE  pc' \in [Requests -> Steps] /\ call' \in [Requests -> Calls \cup {NoCall}]
            BY <3>1, <3>2, <3>4
        <3> QED BY <1>3, <3>3, <3>4
    <2> QED BY <1>1, <1>2, <2>1 DEF TypeOK, dataVars
<1>5. OthersKept(r)
    <2>1. \A v \in Requests : v # r => pc'[v] = pc[v] /\ call'[v] = call[v]
        BY <1>1, <1>3 DEF TypeOK
    <2> QED BY <1>2, <2>1 DEF OthersKept, dataVars
<1>6. /\ pc'[r] \in {"refused", "source", "dest"}
      /\ pc'[r] # "refused" => /\ call'[r] \in Calls /\ ValidMovement(call'[r].move)
                               /\ pc'[r] = IF HasSource(call'[r].move) THEN "source" ELSE "dest"
    BY <1>1, <1>3 DEF TypeOK
<1>7. TablesInv'
    BY <1>1, <1>2, <1>5, <1>6, TablesKept DEF OthersKept
<1>8. /\ \A lot \in Lots : plan'[r][lot] = 0 /\ links'[r][lot] = 0
      /\ queue'[r] = <<>> /\ need'[r] = 0
      /\ \A row \in Row : lock'[row] # r
    BY <1>1, <1>2 DEF RequestInv, PlanInv, LockInv, AfterSelect, Done, dataVars, InTransaction
<1>9. RequestInv(r)' /\ Drained(r)'
    <2>1. CallInv(r)'
        <3>1. pc'[r] # "refused" => call'[r] # NoCall
            BY <1>6
        <3>2. pc'[r] = "dest" => HasDest(call'[r].move)
            BY <1>6 DEF ValidMovement, Clean
        <3> QED BY <1>6, <3>1, <3>2 DEF CallInv, InTransaction
    <2>2. LockInv(r)'
        <3>1. pc'[r] = "dest" => ~HasSource(call'[r].move)
            BY <1>6
        <3> QED BY <1>6, <1>8, <3>1, Rows DEF LockInv, AfterSelect
    <2>3. PlanInv(r)' /\ ShareInv(r)' /\ QueueInv(r)' /\ Drained(r)'
        BY <1>6, <1>8 DEF PlanInv, ShareInv, QueueInv, Drained, AfterSelect
    <2> QED BY <1>8, <2>1, <2>2, <2>3 DEF RequestInv
<1> QED
    BY <1>4, <1>5, <1>7, <1>9, StepFrame

(* COMMIT or ROLLBACK, for the request that ends. *)
LEMMA EndIs ==
    ASSUME TypeOK, NEW r \in Requests, NEW outcome \in Final, End(r, outcome)
    PROVE  /\ pc' \in [Requests -> Steps] /\ call' = call
           /\ lock' \in [Row -> Requests \cup {Nobody}]
           /\ queue' \in [Requests -> Seq(Share)] /\ need' \in [Requests -> Nat]
           /\ plan' \in [Requests -> [Lots -> Nat]]
           /\ pc'[r] = outcome
           /\ \A v \in Requests : v # r => /\ pc'[v] = pc[v] /\ queue'[v] = queue[v]
                                           /\ need'[v] = need[v] /\ plan'[v] = plan[v]
                                           /\ \A row \in Row : lock'[row] = v <=> lock[row] = v
           /\ \A row \in Row : lock'[row] # r
           /\ queue'[r] = <<>> /\ need'[r] = 0 /\ \A lot \in Lots : plan'[r][lot] = 0
<1>1. pc' \in [Requests -> Steps] /\ pc'[r] = outcome /\ \A v \in Requests : v # r => pc'[v] = pc[v]
    BY DEF End, Goto, TypeOK, Steps
<1>2. /\ lock' \in [Row -> Requests \cup {Nobody}]
      /\ \A v \in Requests : v # r => \A row \in Row : lock'[row] = v <=> lock[row] = v
      /\ \A row \in Row : lock'[row] # r
    BY DEF End, TypeOK
<1>3. queue' = [queue EXCEPT ![r] = <<>>] /\ need' = [need EXCEPT ![r] = 0]
      /\ plan' = [plan EXCEPT ![r] = [lot \in Lots |-> 0]] /\ call' = call
    BY DEF End
<1>4. <<>> \in Seq(Share) /\ [lot \in Lots |-> 0] \in [Lots -> Nat]
    OBVIOUS
<1> QED
    BY <1>1, <1>2, <1>3, <1>4 DEF TypeOK

(* After it, nothing is left for the invariant to say of the request. *)
LEMMA EndedInv ==
    ASSUME LotsInv, NEW r \in Requests, NEW outcome \in Final, End(r, outcome),
           outcome = "committed" => call[r] # NoCall /\ ValidMovement(call[r].move)
    PROVE  CallInv(r)' /\ LockInv(r)' /\ PlanInv(r)' /\ ShareInv(r)' /\ QueueInv(r)' /\ Drained(r)'
<1>1. TypeOK
    BY LotsInvParts
<1>2. /\ pc'[r] \in Final /\ call' = call /\ \A row \in Row : lock'[row] # r
      /\ pc'[r] = "committed" => call[r] # NoCall /\ ValidMovement(call[r].move)
      /\ queue'[r] = <<>> /\ need'[r] = 0 /\ \A lot \in Lots : plan'[r][lot] = 0
    BY <1>1, EndIs
<1> QED
    BY <1>2, Rows DEF CallInv, LockInv, PlanInv, ShareInv, QueueInv, Drained, AfterSelect,
                      InTransaction, Final

LEMMA RollbackInv ==
    ASSUME LotsInv, NEW r \in Requests, pc[r] \in InTransaction,
           NEW outcome \in {"refused", "aborted"}, Rollback(r, outcome)
    PROVE  LotsInv'
<1>1. TypeOK /\ TablesInv /\ RequestInv(r) /\ outcome \in Final /\ End(r, outcome) /\ UNCHANGED dataVars
    BY LotsInvParts DEF Rollback, Final
<1>2. TypeOK'
    BY <1>1, EndIs DEF TypeOK, dataVars
<1>3. OthersKept(r)
    BY <1>1, EndIs DEF OthersKept, dataVars
<1>4. TablesInv'
    <2>1. pc'[r] = outcome /\ call' = call /\ \A v \in Requests : v # r => pc'[v] = pc[v]
        BY <1>1, EndIs
    <2>2. pc[r] # "committed" /\ outcome # "committed"
        BY DEF InTransaction
    <2> QED BY <1>1, <2>1, <2>2, TablesKept
<1>5. RequestInv(r)' /\ Drained(r)'
    <2>1. \A lot \in Lots : links'[r][lot] = 0
        BY <1>1 DEF RequestInv, Done, dataVars, InTransaction
    <2> QED BY <1>1, <2>1, EndedInv DEF RequestInv
<1> QED
    BY <1>2, <1>3, <1>4, <1>5, StepFrame

LEMMA RollbackSteps ==
    ASSUME TypeOK, NEW r \in Requests, RequestInv(r),
           \/ RefuseSource(r) \/ RefuseSelect(r) \/ RefuseLots(r) \/ RefuseDuplicate(r)
           \/ Crash(r) \/ DeadlockVictim(r)
    PROVE  pc[r] \in InTransaction /\ \E outcome \in {"refused", "aborted"} : Rollback(r, outcome)
<1>1. CASE RefuseSource(r) \/ RefuseSelect(r) \/ RefuseLots(r) \/ RefuseDuplicate(r) \/ Crash(r)
    BY <1>1 DEF RefuseSource, RefuseSelect, RefuseLots, RefuseDuplicate, Crash, InTransaction
<1>2. CASE DeadlockVictim(r)
    <2>1. Rollback(r, "aborted") /\ Deadlocked(r)
        BY <1>2 DEF DeadlockVictim
    <2>2. PICK t \in Requests : WaitsFor(r, t)
        BY <2>1 DEF Deadlocked
    <2>3. Wanted(r) # {}
        BY <2>2 DEF WaitsFor
    <2>4. pc[r] \in {"source", "dest", "put", "lots"}
        BY <2>3 DEF Wanted
    <2> QED BY <2>1, <2>4 DEF InTransaction
<1> QED
    BY <1>1, <1>2

(* A step that locks one row, free until then, and moves the request on. *)
LEMMA TakeFrame ==
    ASSUME LotsInv, NEW r \in Requests, NEW row \in Row, NEW step \in Steps,
           Free(r, row), Take(r, row), Goto(r, step), UNCHANGED <<dataVars, call>>,
           pc[r] # "committed", step # "committed"
    PROVE  /\ TablesInv' /\ pc'[r] = step /\ lock'[row] = r
           /\ pc' \in [Requests -> Steps] /\ lock' \in [Row -> Requests \cup {Nobody}]
           /\ \A x \in Row : x # row => lock'[x] = lock[x]
           /\ \A v \in Requests : v # r => /\ pc'[v] = pc[v]
                                           /\ \A x \in Row : lock'[x] = v <=> lock[x] = v
<1>1. TypeOK /\ TablesInv
    BY LotsInvParts
<1>2. pc' = [pc EXCEPT ![r] = step] /\ lock' = [lock EXCEPT ![row] = r] /\ lock[row] \in {r, Nobody}
    BY DEF Goto, Take, Free
<1>3. /\ pc'[r] = step /\ lock'[row] = r
      /\ pc' \in [Requests -> Steps] /\ lock' \in [Row -> Requests \cup {Nobody}]
      /\ \A x \in Row : x # row => lock'[x] = lock[x]
      /\ \A v \in Requests : v # r => /\ pc'[v] = pc[v]
                                      /\ \A x \in Row : lock'[x] = v <=> lock[x] = v
    BY <1>1, <1>2 DEF TypeOK
<1>4. TablesInv'
    BY <1>1, <1>3, TablesKept
<1> QED
    BY <1>3, <1>4

LEMMA LockRecordInv ==
    ASSUME LotsInv, NEW r \in Requests, LockSource(r) \/ LockDest(r)
    PROVE  LotsInv'
<1>1. TypeOK /\ RequestInv(r) /\ pc[r] \in {"source", "dest"}
    BY LotsInvParts DEF LockSource, LockDest
<1>2. PICK c \in Calls : c = call[r] /\ c = call'[r] /\ Move(r) = c.move /\ ValidMovement(c.move)
    BY <1>1 DEF RequestInv, CallInv, TypeOK, InTransaction, LockSource, LockDest, Move
<1> DEFINE row == IF LockSource(r) THEN Source(c.move) ELSE Dest(c.move)
           step == IF LockSource(r) THEN AfterSource(c) ELSE AfterRecords(c)
<1>3. row \in StockRecord /\ row \in Row
    <2>1. LockSource(r) => HasSource(c.move)
        BY <1>1, <1>2 DEF RequestInv, CallInv, LockSource
    <2>2. ~LockSource(r) => HasDest(c.move)
        BY <1>1, <1>2 DEF RequestInv, CallInv, LockDest
    <2> QED BY <2>1, <2>2, CallTypes, Rows
<1>4. /\ Free(r, row) /\ Take(r, row) /\ Goto(r, step)
      /\ UNCHANGED <<dataVars, call, queue, need, plan>>
    BY <1>2 DEF LockSource, LockDest
<1>5. step \in {"dest", "select", "put", "commit"}
      /\ (step = "dest" <=> LockSource(r) /\ HasDest(c.move))
      /\ (step = "select" => TakesLots(c))
      /\ (step \in {"put", "commit"} => ~TakesLots(c))
      /\ (step = "put" => PutsLot(c))
      /\ (step = "commit" => ~PutsLot(c))
    BY DEF AfterSource, AfterRecords, AfterTaking
<1> HIDE DEF step
<1>6. step \in Steps /\ step # "committed" /\ pc[r] # "committed"
    BY <1>1, <1>5 DEF Steps, InTransaction
<1>7. /\ TablesInv' /\ pc'[r] = step /\ lock'[row] = r
      /\ pc' \in [Requests -> Steps] /\ lock' \in [Row -> Requests \cup {Nobody}]
      /\ \A x \in Row : x # row => lock'[x] = lock[x]
      /\ \A v \in Requests : v # r => /\ pc'[v] = pc[v]
                                      /\ \A x \in Row : lock'[x] = v <=> lock[x] = v
    <2> HIDE DEF row
    <2> QED BY <1>3, <1>4, <1>6, TakeFrame
<1>8. TypeOK' /\ OthersKept(r)
    <2>1. TypeOK'
        BY <1>1, <1>4, <1>7 DEF TypeOK, dataVars
    <2>2. OthersKept(r)
        BY <1>4, <1>7 DEF OthersKept, dataVars
    <2> QED BY <2>1, <2>2
<1>9. CallInv(r)'
    <2>1. c # NoCall
        OBVIOUS
    <2> QED BY <1>2, <1>5, <1>7, <2>1 DEF CallInv, InTransaction
<1>10. LockInv(r)'
    <2>1. HasSource(c.move) => /\ Source(c.move) \in Row /\ Source(c.move) \in StockRecord
                               /\ lock'[Source(c.move)] = r
                               /\ quantity'[Source(c.move)] >= c.move.quantity
        <3>1. CASE LockSource(r)
            BY <1>2, <1>4, <1>7, <3>1, CallTypes, Rows DEF LockSource, dataVars
        <3>2. CASE ~LockSource(r) /\ HasSource(c.move)
            <4>1. pc[r] = "dest"
                BY <3>2 DEF LockDest
            <4>2. Source(c.move) \in Row /\ lock[Source(c.move)] = r
                  /\ quantity[Source(c.move)] >= c.move.quantity
                BY <1>1, <1>2, <3>2, <4>1, CallTypes, Rows DEF RequestInv, LockInv
            <4> QED BY <1>2, <1>4, <1>7, <3>2, <4>2, CallTypes DEF dataVars
        <3> QED BY <3>1, <3>2
    <2>2. step # "dest" /\ HasDest(c.move) => lock'[Dest(c.move)] = r
        BY <1>5, <1>7
    <2>3. \A lot \in Lots : lock'[lot] # r
        <3>1. \A lot \in Lots : lock[lot] # r /\ lot # row /\ lot \in Row
            BY <1>1, <1>3, Rows DEF RequestInv, LockInv, AfterSelect
        <3> QED BY <1>7, <3>1
    <2>4. step \in InTransaction /\ step # "source"
        BY <1>5 DEF InTransaction
    <2> QED BY <1>2, <1>5, <1>7, <2>1, <2>2, <2>3, <2>4 DEF LockInv, AfterSelect
<1>11. PlanInv(r)' /\ ShareInv(r)' /\ QueueInv(r)' /\ Drained(r)'
    <2>1. queue'[r] = <<>> /\ need'[r] = 0 /\ \A lot \in Lots : plan'[r][lot] = 0
        BY <1>1, <1>4 DEF RequestInv, PlanInv, AfterSelect
    <2> QED BY <1>2, <1>5, <1>7, <2>1 DEF PlanInv, ShareInv, QueueInv, Drained, AfterSelect
<1>12. RequestInv(r)'
    BY <1>1, <1>4, <1>5, <1>7, <1>9, <1>10, <1>11 DEF RequestInv, Done, dataVars
<1> QED
    BY <1>7, <1>8, <1>11, <1>12, StepFrame

LEMMA PutInLotInv ==
    ASSUME LotsInv, NEW r \in Requests, PutInLot(r)
    PROVE  LotsInv'
<1>1. TypeOK /\ RequestInv(r) /\ Drained(r) /\ pc[r] = "put"
    BY LotsInvParts DEF PutInLot
<1>2. PICK c \in Calls : c = call[r] /\ c = call'[r] /\ PutsLot(c) /\ ValidMovement(c.move)
    BY <1>1 DEF RequestInv, CallInv, TypeOK, InTransaction, PutInLot
<1>3. c.lot \in Lots /\ c.lot \in Row
    BY <1>2, CallTypes, Rows DEF PutsLot
<1>4. /\ Free(r, c.lot) /\ Take(r, c.lot) /\ Goto(r, "commit")
      /\ UNCHANGED <<dataVars, call, queue, need, plan>>
    BY <1>2 DEF PutInLot
<1>5. /\ TablesInv' /\ pc'[r] = "commit" /\ lock'[c.lot] = r
      /\ pc' \in [Requests -> Steps] /\ lock' \in [Row -> Requests \cup {Nobody}]
      /\ \A x \in Row : x # c.lot => lock'[x] = lock[x]
      /\ \A v \in Requests : v # r => /\ pc'[v] = pc[v]
                                      /\ \A x \in Row : lock'[x] = v <=> lock[x] = v
    <2>1. "commit" \in Steps
        BY DEF Steps, InTransaction
    <2> QED BY <1>1, <1>3, <1>4, <2>1, TakeFrame
<1>6. TypeOK' /\ OthersKept(r)
    <2>1. TypeOK'
        BY <1>1, <1>4, <1>5 DEF TypeOK, dataVars
    <2>2. OthersKept(r)
        BY <1>4, <1>5 DEF OthersKept, dataVars
    <2> QED BY <2>1, <2>2
<1>7. CallInv(r)'
    <2>1. c # NoCall
        OBVIOUS
    <2> QED BY <1>2, <1>5, <2>1 DEF CallInv, InTransaction
<1>8. \A x \in Row : lock[x] = r => lock'[x] = r
    BY <1>5
<1>9. LockInv(r)'
    <2>1. /\ HasSource(c.move) => lock[Source(c.move)] = r /\ quantity[Source(c.move)] >= c.move.quantity
          /\ HasDest(c.move) => lock[Dest(c.move)] = r
        BY <1>1, <1>2 DEF RequestInv, LockInv, AfterSelect
    <2>2. /\ HasSource(c.move) => Source(c.move) \in Row
          /\ HasDest(c.move) => Dest(c.move) \in Row
        BY CallTypes, Rows
    <2> QED BY <1>2, <1>4, <1>5, <1>8, <2>1, <2>2 DEF LockInv, AfterSelect, InTransaction, dataVars
<1>10. PlanInv(r)' /\ ShareInv(r)' /\ QueueInv(r)' /\ Drained(r)'
    <2>1. PlanInv(r)'
        BY <1>1, <1>2, <1>4, <1>5, <1>8, Rows DEF RequestInv, PlanInv, AfterSelect
    <2>2. LinkedTwice(r)' <=> LinkedTwice(r)
        BY <1>4 DEF LinkedTwice
    <2>3. ShareInv(r)'
        BY <1>1, <1>2, <1>4, <1>5, <2>2 DEF RequestInv, ShareInv, AfterSelect, dataVars
    <2> QED BY <1>5, <2>1, <2>3 DEF QueueInv, Drained
<1>11. RequestInv(r)'
    BY <1>1, <1>4, <1>5, <1>7, <1>9, <1>10 DEF RequestInv, Done, dataVars
<1> QED
    BY <1>5, <1>6, <1>10, <1>11, StepFrame

-----------------------------------------------------------------------------
(* The shares a request goes through.                                        *)

LEMMA TotalOfOne ==
    ASSUME NEW share \in Share
    PROVE  Total(<<share>>) = share.quantity
<1> DEFINE f == [i \in DOMAIN <<share>> |-> <<share>>[i].quantity]
<1>1. DOMAIN <<share>> = {1} /\ f[1] = share.quantity /\ share.quantity \in Int
    BY DEF Share
<1> HIDE DEF f
<1>2. SumFunctionOnSet(f, {} \cup {1}) = f[1] + SumFunctionOnSet(f, {})
    <2>1. \A x \in {} \cup {1} : f[x] \in Int
        BY <1>1
    <2> QED BY <2>1, SumAdd, FS_EmptySet
<1>3. SumFunctionOnSet(f, {}) = 0
    BY SumEmpty
<1>4. {} \cup {1} = {1}
    OBVIOUS
<1>5. \A n \in Int : n + 0 = n
    OBVIOUS
<1>6. SumFunctionOnSet(f, DOMAIN <<share>>) = share.quantity
    BY <1>1, <1>2, <1>3, <1>4, <1>5, Zenon
<1> QED
    BY <1>6 DEF Total, f

LEMMA TotalNat ==
    ASSUME NEW q \in Seq(Share)
    PROVE  Total(q) \in Nat
<1> DEFINE f == [i \in DOMAIN q |-> q[i].quantity]
<1>1. \A i \in DOMAIN q : f[i] \in Nat
    <2>1. DOMAIN q = 1..Len(q) /\ \A i \in 1..Len(q) : q[i] \in Share
        OBVIOUS
    <2>2. \A share \in Share : share.quantity \in Nat
        BY DEF Share
    <2> QED BY <2>1, <2>2
<1>2. IsFiniteSet(DOMAIN q)
    <2>1. DOMAIN q = 1..Len(q) /\ Len(q) \in Int
        OBVIOUS
    <2> QED BY <2>1, FS_Interval
<1> HIDE DEF f
<1>3. SumFunctionOnSet(f, DOMAIN q) \in Nat
    BY <1>1, <1>2, SumNat
<1> QED
    BY <1>3 DEF Total, f

LEMMA TotalTail ==
    ASSUME NEW q \in Seq(Share), q # <<>>
    PROVE  Total(q) = Head(q).quantity + Total(Tail(q))
<1> DEFINE f == [i \in DOMAIN q |-> q[i].quantity]
           t == [i \in DOMAIN Tail(q) |-> Tail(q)[i].quantity]
           D == DOMAIN Tail(q)
           e == [i \in D |-> i + 1]
<1>1. /\ DOMAIN q = 1..Len(q) /\ Len(q) \in Nat /\ Len(q) > 0
      /\ D = 1..(Len(q) - 1)
      /\ \A i \in D : Tail(q)[i] = q[i + 1]
    OBVIOUS
<1>2. IsFiniteSet(DOMAIN q) /\ IsFiniteSet(D)
    BY <1>1, FS_Interval
<1>3. \A i \in DOMAIN q : f[i] \in Int
    <2>1. \A i \in 1..Len(q) : q[i] \in Share
        OBVIOUS
    <2> QED BY <1>1, <2>1 DEF Share
<1>4. 1 \in DOMAIN q /\ f[1] = Head(q).quantity
    BY <1>1
<1>5. Renamed(e, D) = DOMAIN q \ {1}
    <2>1. \A i \in D : e[i] \in DOMAIN q \ {1}
        BY <1>1
    <2>2. \A j \in DOMAIN q \ {1} : j - 1 \in D /\ e[j - 1] = j
        BY <1>1
    <2> HIDE DEF e, D
    <2> QED BY <2>1, <2>2 DEF Renamed
<1>6. \A i, j \in D : i # j => e[i] # e[j]
    BY <1>1
<1>7. \A i \in D : t[i] \in Int /\ f[e[i]] = t[i]
    <2>1. \A i \in D : e[i] = i + 1 /\ i + 1 \in DOMAIN q
        BY <1>1
    <2> QED BY <1>1, <1>3, <2>1
<1>8. SumFunctionOnSet(f, DOMAIN q) = f[1] + SumFunctionOnSet(f, DOMAIN q \ {1})
    <2> DEFINE A == DOMAIN q
    <2>1. IsFiniteSet(A) /\ 1 \in A /\ \A i \in A : f[i] \in Int
        BY <1>2, <1>3, <1>4
    <2> HIDE DEF f, A
    <2>2. SumFunctionOnSet(f, A) = f[1] + SumFunctionOnSet(f, A \ {1})
        BY <2>1, SumRemove, ZenonT(60)
    <2> QED BY <2>2 DEF A
<1>9. SumFunctionOnSet(t, D) = SumFunctionOnSet(f, Renamed(e, D))
    <2> HIDE DEF f, t, e, D
    <2> QED BY <1>2, <1>6, <1>7, SumRenamed
<1>10. Total(q) = SumFunctionOnSet(f, DOMAIN q) /\ Total(Tail(q)) = SumFunctionOnSet(t, D)
    BY DEF Total
<1> HIDE DEF f, t, e, D
<1> QED
    BY <1>4, <1>5, <1>8, <1>9, <1>10, Zenon

(* What a selection may lock, if it is not refused. *)
LEMMA CandidatesAre ==
    ASSUME TypeOK, NEW r \in Requests, NEW c \in Calls, c = call[r], TakesLots(c),
           ~Unselectable(c), NEW s \in Candidates(r)
    PROVE  /\ s \in Seq(Share)
           /\ Exact(c) => Total(s) = c.move.quantity
           /\ ~LinkedTwice(r) => \A i, j \in DOMAIN s : i # j => s[i].lot # s[j].lot
           /\ ~Exact(c) => /\ \A i \in DOMAIN s : LotProduct[s[i].lot] = c.move.product
                           /\ \A i, j \in DOMAIN s : i < j => Before(c, s[i].lot, s[j].lot)
<1> DEFINE Whole(lot) == [lot |-> lot, quantity |-> c.move.quantity]
<1>0. \A lot \in Lots : Whole(lot) \in Share
    BY CallTypes DEF Share
<1>1. CASE NamesLot(c)
    <2>1. c.lot \in Lots
        BY <1>1, CallTypes DEF NamesLot
    <2>2. s = <<Whole(c.lot)>> /\ Whole(c.lot) \in Share
        BY <1>0, <1>1, <2>1 DEF Candidates
    <2>3. Total(s) = c.move.quantity
        <3>1. Whole(c.lot).quantity = c.move.quantity
            OBVIOUS
        <3> HIDE DEF Whole
        <3> QED BY <2>2, <3>1, TotalOfOne
    <2>4. s \in Seq(Share) /\ DOMAIN s = {1}
        <3> HIDE DEF Whole
        <3> QED BY <2>2
    <2> QED BY <1>1, <2>3, <2>4 DEF Exact
<1>2. CASE ~NamesLot(c) /\ c.strategy = "MANUAL"
    <2>1. s = c.manual
        BY <1>2 DEF Candidates
    <2>2. Total(c.manual) = c.move.quantity
        BY <1>2 DEF Unselectable
    <2>3. ~LinkedTwice(r) => \A i, j \in DOMAIN s : i # j => s[i].lot # s[j].lot
        BY <1>2, <2>1 DEF LinkedTwice
    <2> QED BY <1>2, <2>1, <2>2, <2>3, CallTypes DEF Exact
<1>3. CASE ~NamesLot(c) /\ c.strategy # "MANUAL"
    <2> DEFINE In == InStock(c.move.product)
    <2>1. PICK t \in SetToSeqs(In) : Ordered(c, t) /\ s = [i \in DOMAIN t |-> Whole(t[i])]
        BY <1>3 DEF Candidates
    <2>2. IsFiniteSet(In) /\ In \subseteq Lots
        <3>1. In \subseteq Lots
            BY DEF InStock
        <3> QED BY <3>1, FS_Subset
    <2>3. Cardinality(In) \in Nat
        BY <2>2, FS_CardinalityType
    <2>4. t \in [1..Cardinality(In) -> In] /\ \A i, j \in 1..Cardinality(In) : i # j => t[i] # t[j]
        BY <2>1 DEF SetToSeqs
    <2>5. DOMAIN s = 1..Cardinality(In) /\ \A i \in DOMAIN s : s[i] = Whole(t[i]) /\ t[i] \in In
        BY <2>1, <2>4
    <2>6. s \in Seq(Share)
        <3>1. s \in [1..Cardinality(In) -> Share]
            <4>1. s = [i \in 1..Cardinality(In) |-> Whole(t[i])]
                BY <2>1, <2>4
            <4>2. \A i \in 1..Cardinality(In) : Whole(t[i]) \in Share
                BY <1>0, <2>2, <2>4
            <4> HIDE DEF Whole, In
            <4> QED BY <4>1, <4>2
        <3>2. \A n \in Nat : \A x \in [1..n -> Share] : x \in Seq(Share)
            OBVIOUS
        <3> HIDE DEF In
        <3> QED BY <2>3, <3>1, <3>2
    <2>7. \A i \in DOMAIN s : s[i].lot = t[i]
        BY <2>5
    <2>8. \A i \in DOMAIN s : LotProduct[s[i].lot] = c.move.product
        BY <2>5, <2>7, SMTT(30) DEF InStock
    <2>9. \A i, j \in DOMAIN s : i < j => Before(c, s[i].lot, s[j].lot)
        <3>1. DOMAIN t = DOMAIN s
            BY <2>4, <2>5
        <3> QED BY <2>1, <2>7, <3>1 DEF Ordered, Before
    <2>10. \A i, j \in DOMAIN s : i # j => s[i].lot # s[j].lot
        BY <2>4, <2>5, <2>7
    <2> QED BY <1>3, <2>6, <2>8, <2>9, <2>10 DEF Exact
<1> QED
    BY <1>1, <1>2, <1>3

LEMMA SelectInv ==
    ASSUME LotsInv, NEW r \in Requests, Select(r)
    PROVE  LotsInv'
<1>1. TypeOK /\ TablesInv /\ RequestInv(r) /\ pc[r] = "select"
    BY LotsInvParts DEF Select
<1>2. PICK c \in Calls : /\ c = call[r] /\ c = call'[r] /\ Move(r) = c.move
                         /\ TakesLots(c) /\ ValidMovement(c.move) /\ ~Unselectable(c)
    BY <1>1 DEF RequestInv, CallInv, TypeOK, InTransaction, Select, Move
<1>3. PICK s \in Candidates(r) : queue' = [queue EXCEPT ![r] = s]
    BY DEF Select
<1>4. /\ need' = [need EXCEPT ![r] = c.move.quantity] /\ pc' = [pc EXCEPT ![r] = "lots"]
      /\ UNCHANGED <<dataVars, call, lock, plan>>
    BY <1>2 DEF Select, Goto
<1>5. /\ s \in Seq(Share)
      /\ Exact(c) => Total(s) = c.move.quantity
      /\ ~LinkedTwice(r) => \A i, j \in DOMAIN s : i # j => s[i].lot # s[j].lot
      /\ ~Exact(c) => /\ \A i \in DOMAIN s : LotProduct[s[i].lot] = c.move.product
                      /\ \A i, j \in DOMAIN s : i < j => Before(c, s[i].lot, s[j].lot)
    BY <1>1, <1>2, CandidatesAre
<1>6. c.move.quantity \in Nat
    BY CallTypes
<1>7. /\ pc'[r] = "lots" /\ queue'[r] = s /\ need'[r] = c.move.quantity
      /\ \A v \in Requests : v # r => pc'[v] = pc[v] /\ queue'[v] = queue[v] /\ need'[v] = need[v]
    BY <1>1, <1>3, <1>4 DEF TypeOK
<1>8. TypeOK' /\ OthersKept(r)
    <2>1. "lots" \in Steps
        BY DEF Steps, InTransaction
    <2>2. TypeOK'
        BY <1>1, <1>3, <1>4, <1>5, <1>6, <2>1 DEF TypeOK, dataVars
    <2>3. OthersKept(r)
        BY <1>4, <1>7 DEF OthersKept, dataVars
    <2> QED BY <2>2, <2>3
<1>9. TablesInv'
    BY <1>1, <1>4, <1>7, TablesKept
<1>10. CallInv(r)'
    <2>1. c # NoCall
        OBVIOUS
    <2> QED BY <1>2, <1>7, <2>1 DEF CallInv, InTransaction
<1>11. LockInv(r)'
    BY <1>1, <1>2, <1>4, <1>7 DEF RequestInv, LockInv, AfterSelect, InTransaction, dataVars
<1>12. /\ \A lot \in Lots : plan'[r][lot] = 0 /\ lock'[lot] # r
       /\ plan'[r] \in [Lots -> Nat]
    BY <1>1, <1>4 DEF RequestInv, PlanInv, LockInv, AfterSelect, TypeOK
<1>13. PlanInv(r)'
    <2>1. SumFunctionOnSet(plan'[r], Lots) = 0
        BY <1>12, SumZero
    <2>2. SumFunctionOnSet(plan'[r], Lots) + need'[r] = c.move.quantity
        BY <1>6, <1>7, <2>1
    <2> QED BY <1>2, <1>5, <1>7, <1>12, <2>2 DEF PlanInv, AfterSelect
<1>14. ShareInv(r)'
    <2>1. LinkedTwice(r)' <=> LinkedTwice(r)
        BY <1>4 DEF LinkedTwice
    <2>2. \A j \in DOMAIN s : s[j].lot \in Lots
        <3>1. DOMAIN s = 1..Len(s) /\ \A j \in 1..Len(s) : s[j] \in Share
            BY <1>5
        <3>2. \A share \in Share : share.lot \in Lots
            BY DEF Share
        <3> QED BY <3>1, <3>2
    <2> QED BY <1>2, <1>5, <1>7, <1>12, <2>1, <2>2 DEF ShareInv
<1>15. QueueInv(r)' /\ Drained(r)'
    BY <1>2, <1>5, <1>7, <1>12 DEF QueueInv, Drained
<1>16. RequestInv(r)'
    BY <1>1, <1>4, <1>7, <1>10, <1>11, <1>13, <1>14, <1>15 DEF RequestInv, Done, dataVars
<1> QED
    BY <1>8, <1>9, <1>15, <1>16, StepFrame

LEMMA LotsFoundInv ==
    ASSUME LotsInv, NEW r \in Requests, LotsFound(r)
    PROVE  LotsInv'
<1>1. TypeOK /\ TablesInv /\ RequestInv(r) /\ pc[r] = "lots"
    BY LotsInvParts DEF LotsFound
<1>2. PICK c \in Calls : /\ c = call[r] /\ c = call'[r] /\ TakesLots(c) /\ ValidMovement(c.move)
    BY <1>1 DEF RequestInv, CallInv, TypeOK, InTransaction, LotsFound
<1>3. /\ queue[r] = <<>> /\ need[r] = 0 /\ ~LinkedTwice(r)
      /\ pc' = [pc EXCEPT ![r] = AfterTaking(c)]
      /\ UNCHANGED <<dataVars, call, lock, queue, need, plan>>
    BY <1>2 DEF LotsFound, Goto
<1>4. /\ AfterTaking(c) \in {"put", "commit"} /\ AfterTaking(c) \in Steps
      /\ AfterTaking(c) = "put" <=> PutsLot(c)
    BY DEF AfterTaking, Steps, InTransaction
<1>5. /\ pc'[r] = AfterTaking(c) /\ pc' \in [Requests -> Steps]
      /\ \A v \in Requests : v # r => pc'[v] = pc[v]
    BY <1>1, <1>3, <1>4 DEF TypeOK
<1>6. TypeOK' /\ OthersKept(r)
    <2>1. TypeOK'
        BY <1>1, <1>3, <1>5 DEF TypeOK, dataVars
    <2>2. OthersKept(r)
        BY <1>3, <1>5 DEF OthersKept, dataVars
    <2> QED BY <2>1, <2>2
<1>7. TablesInv'
    <2>1. pc'[r] # "committed" /\ pc[r] # "committed"
        BY <1>1, <1>4, <1>5
    <2> QED BY <1>1, <1>3, <1>5, <2>1, TablesKept
<1>8. CallInv(r)'
    <2>1. c # NoCall
        OBVIOUS
    <2> QED BY <1>2, <1>4, <1>5, <2>1 DEF CallInv, InTransaction
<1>9. LockInv(r)'
    BY <1>1, <1>2, <1>3, <1>4, <1>5 DEF RequestInv, LockInv, AfterSelect, InTransaction, dataVars
<1>10. PlanInv(r)'
    BY <1>1, <1>2, <1>3, <1>4, <1>5 DEF RequestInv, PlanInv, AfterSelect
<1>11. ShareInv(r)'
    <2>1. LinkedTwice(r)' <=> LinkedTwice(r)
        BY <1>3 DEF LinkedTwice
    <2> QED
        BY <1>1, <1>2, <1>3, <1>4, <1>5, <2>1 DEF RequestInv, ShareInv, AfterSelect, dataVars
<1>12. QueueInv(r)' /\ Drained(r)'
    BY <1>4, <1>5 DEF QueueInv, Drained
<1>13. RequestInv(r)'
    BY <1>1, <1>3, <1>4, <1>5, <1>8, <1>9, <1>10, <1>11, <1>12 DEF RequestInv, Done, dataVars
<1> QED
    BY <1>6, <1>7, <1>12, <1>13, StepFrame

(* What the share at the head of the queue gives. *)
LEMMA GiveIs ==
    ASSUME LotsInv, NEW r \in Requests, LockLot(r),
           NEW share \in Share, share = Head(queue[r])
    PROVE  /\ Give(r) \in Nat /\ need[r] - Give(r) \in Nat
           /\ Exact(call[r]) => /\ Give(r) = share.quantity
                                /\ need[r] - Give(r) = Total(Tail(queue[r]))
           /\ ~Exact(call[r]) => /\ Give(r) <= remaining[share.lot]
                                 /\ Give(r) = remaining[share.lot] \/ need[r] - Give(r) = 0
                                 /\ need[r] = 0 => Give(r) = 0
<1>1. TypeOK /\ PlanInv(r) /\ pc[r] = "lots" /\ queue[r] # <<>>
    BY LotsInvParts DEF LockLot, RequestInv
<1>2. /\ share.quantity \in Nat /\ share.lot \in Lots /\ need[r] \in Nat
      /\ remaining[share.lot] \in Nat /\ queue[r] \in Seq(Share)
    <2>1. share.quantity \in Nat /\ share.lot \in Lots
        BY DEF Share
    <2>2. need[r] \in Nat /\ queue[r] \in Seq(Share) /\ remaining[share.lot] \in Int
        BY <1>1, <2>1 DEF TypeOK
    <2>3. remaining[share.lot] >= 0
        BY <2>1 DEF LotsInv, LotsMatchLinks
    <2> QED BY <2>1, <2>2, <2>3
<1>3. CASE Exact(call[r])
    <2>1. Give(r) = share.quantity
        BY <1>3 DEF Give
    <2>2. need[r] = share.quantity + Total(Tail(queue[r]))
        BY <1>1, <1>2, <1>3, TotalTail DEF PlanInv
    <2>3. Total(Tail(queue[r])) \in Nat
        <3>1. Tail(queue[r]) \in Seq(Share)
            BY <1>1, <1>2
        <3> QED BY <3>1, TotalNat
    <2>4. \A i, j, k \in Nat : i = j + k => i - j = k
        OBVIOUS
    <2>5. need[r] - Give(r) = Total(Tail(queue[r]))
        BY <1>2, <2>1, <2>2, <2>3, <2>4
    <2> QED BY <1>2, <1>3, <2>1, <2>3, <2>5
<1>4. CASE ~Exact(call[r])
    <2>1. Give(r) = Min({remaining[share.lot], need[r]})
        BY <1>4 DEF Give
    <2>2. Give(r) = IF remaining[share.lot] <= need[r] THEN remaining[share.lot] ELSE need[r]
        BY <1>2, <2>1, MinIs
    <2> QED BY <1>2, <1>4, <2>2
<1> QED
    BY <1>3, <1>4

LEMMA LockLotInv ==
    ASSUME LotsInv, NEW r \in Requests, LockLot(r)
    PROVE  LotsInv'
<1>1. /\ TypeOK /\ TablesInv /\ RequestInv(r) /\ Drained(r)
      /\ pc[r] = "lots" /\ queue[r] # <<>> /\ queue[r] \in Seq(Share)
    BY LotsInvParts DEF LockLot, TypeOK
<1>2. PICK c \in Calls : c = call[r] /\ c = call'[r] /\ Move(r) = c.move /\ TakesLots(c)
    BY <1>1 DEF RequestInv, CallInv, TypeOK, InTransaction, LockLot, Move
<1> DEFINE q == queue[r]
           t == Tail(queue[r])
<1>3. PICK share \in Share : share = Head(queue[r])
    BY <1>1
<1>4. PICK lot \in Lots : lot = share.lot
    BY <1>3 DEF Share
<1>5. PICK give \in Nat : give = Give(r)
    BY <1>3, GiveIs
<1>6. /\ Free(r, lot)
      /\ Exact(c) => LotProduct[lot] = c.move.product /\ remaining[lot] >= share.quantity
      /\ Take(r, lot)
      /\ plan' = [plan EXCEPT ![r][lot] = @ + give]
      /\ need' = [need EXCEPT ![r] = @ - give]
      /\ queue' = [queue EXCEPT ![r] = Tail(@)]
      /\ UNCHANGED <<dataVars, pc, call>>
    BY <1>2, <1>3, <1>4, <1>5 DEF LockLot
<1>7. /\ need[r] \in Nat /\ need[r] - give \in Nat
      /\ Exact(c) => give = share.quantity /\ need[r] - give = Total(t)
      /\ ~Exact(c) => /\ give <= remaining[lot]
                      /\ give = remaining[lot] \/ need[r] - give = 0
                      /\ need[r] = 0 => give = 0
    BY <1>1, <1>2, <1>3, <1>4, <1>5, GiveIs, ZenonT(60) DEF TypeOK
<1>8. /\ t \in Seq(Share)
      /\ DOMAIN t = 1..(Len(q) - 1) /\ DOMAIN q = 1..Len(q) /\ Len(q) \in Nat /\ Len(q) > 0
      /\ q[1] = share /\ 1 \in DOMAIN q
      /\ \A i \in DOMAIN t : t[i] = q[i + 1] /\ i + 1 \in DOMAIN q /\ i + 1 # 1 /\ 1 < i + 1 /\ i \in Int
    BY <1>1, <1>3
<1>9. /\ queue'[r] = t /\ need'[r] = need[r] - give
      /\ plan'[r][lot] = plan[r][lot] + give
      /\ plan[r] \in [Lots -> Nat] /\ plan'[r] \in [Lots -> Nat]
      /\ \A x \in Lots : x # lot => plan'[r][x] = plan[r][x]
      /\ \A v \in Requests : v # r => /\ queue'[v] = queue[v] /\ need'[v] = need[v]
                                      /\ plan'[v] = plan[v]
    <2>1. /\ plan \in [Requests -> [Lots -> Nat]] /\ need \in [Requests -> Nat]
          /\ queue \in [Requests -> Seq(Share)]
        BY <1>1 DEF TypeOK
    <2>2. /\ plan'[r][lot] = plan[r][lot] + give
          /\ plan[r] \in [Lots -> Nat] /\ plan'[r] \in [Lots -> Nat]
          /\ \A x \in Lots : x # lot => plan'[r][x] = plan[r][x]
          /\ \A v \in Requests : v # r => plan'[v] = plan[v]
        BY <1>6, <2>1
    <2>3. /\ queue'[r] = t /\ need'[r] = need[r] - give
          /\ \A v \in Requests : v # r => queue'[v] = queue[v] /\ need'[v] = need[v]
        BY <1>6, <2>1
    <2> QED BY <2>2, <2>3
<1> HIDE DEF q, t
<1>10. /\ lock' \in [Row -> Requests \cup {Nobody}] /\ lock'[lot] = r
       /\ \A x \in Row : x # lot => lock'[x] = lock[x]
       /\ \A v \in Requests : v # r => \A x \in Row : lock'[x] = v <=> lock[x] = v
    <2>1. lot \in Row /\ lock \in [Row -> Requests \cup {Nobody}]
        BY <1>1, Rows DEF TypeOK
    <2>2. lock' = [lock EXCEPT ![lot] = r] /\ lock[lot] \in {r, Nobody}
        BY <1>6 DEF Take, Free
    <2> QED BY <2>1, <2>2
<1>11. TypeOK' /\ OthersKept(r)
    <2>1. plan' \in [Requests -> [Lots -> Nat]]
        BY <1>1, <1>5, <1>6 DEF TypeOK
    <2>2. need' \in [Requests -> Nat]
        BY <1>1, <1>6, <1>7 DEF TypeOK
    <2>3. queue' \in [Requests -> Seq(Share)]
        BY <1>1, <1>6, <1>8 DEF TypeOK, t
    <2>4. TypeOK'
        BY <1>1, <1>6, <1>10, <2>1, <2>2, <2>3 DEF TypeOK, dataVars
    <2>5. OthersKept(r)
        BY <1>6, <1>9, <1>10 DEF OthersKept, dataVars
    <2> QED BY <2>4, <2>5
<1>12. TablesInv'
    BY <1>1, <1>6, TablesKept
<1>13. CallInv(r)' /\ pc'[r] = "lots" /\ \A x \in Row : lock[x] = r => lock'[x] = r
    BY <1>1, <1>2, <1>6, <1>10 DEF RequestInv, CallInv
<1>14. LockInv(r)'
    <2>1. /\ HasSource(c.move) => /\ Source(c.move) \in Row
                                  /\ lock[Source(c.move)] = r /\ quantity[Source(c.move)] >= c.move.quantity
          /\ HasDest(c.move) => Dest(c.move) \in Row /\ lock[Dest(c.move)] = r
        BY <1>1, <1>2, CallTypes, Rows DEF RequestInv, LockInv, AfterSelect
    <2> QED BY <1>2, <1>6, <1>13, <2>1 DEF LockInv, AfterSelect, InTransaction, dataVars
<1>15. PlanInv(r)'
    <2>1. SumFunctionOnSet(plan'[r], Lots) = SumFunctionOnSet(plan[r], Lots) + plan'[r][lot] - plan[r][lot]
        <3>1. \A x \in Lots : plan[r][x] \in Int /\ plan'[r][x] \in Int
            BY <1>9
        <3>2. \A x \in Lots : lot # x => plan[r][x] = plan'[r][x]
            BY <1>9
        <3> QED BY <3>1, <3>2, SumUpdate
    <2>2. SumFunctionOnSet(plan[r], Lots) \in Nat
        BY <1>9, SumNat
    <2>3. SumFunctionOnSet(plan[r], Lots) + need[r] = c.move.quantity
        BY <1>1, <1>2 DEF RequestInv, PlanInv, AfterSelect
    <2>4. plan[r][lot] \in Nat
        BY <1>9
    <2>5. SumFunctionOnSet(plan'[r], Lots) + need'[r] = c.move.quantity
        BY <1>5, <1>7, <1>9, <2>1, <2>2, <2>3, <2>4
    <2>6. \A x \in Lots : plan'[r][x] > 0 => lock'[x] = r
        BY <1>1, <1>9, <1>10, Rows DEF RequestInv, PlanInv
    <2> QED BY <1>2, <1>6, <1>7, <1>9, <1>13, <2>5, <2>6 DEF PlanInv, AfterSelect
<1>16. Exact(c) => give <= remaining[lot]
    BY <1>6, <1>7
<1>17. ShareInv(r)'
    <2> SUFFICES ASSUME ~LinkedTwice(r)
                 PROVE  /\ \A x \in Lots : plan'[r][x] > 0 =>
                              LotProduct[x] = c.move.product /\ plan'[r][x] <= remaining[x]
                        /\ \A i \in DOMAIN t : plan'[r][t[i].lot] = 0
                        /\ \A i, j \in DOMAIN t : i # j => t[i].lot # t[j].lot
        <3>1. LinkedTwice(r)' <=> LinkedTwice(r)
            BY <1>6 DEF LinkedTwice
        <3>2. remaining' = remaining /\ pc'[r] = "lots" /\ queue'[r] = t /\ call'[r] = c
            BY <1>2, <1>6, <1>9, <1>13 DEF dataVars
        <3> QED BY <3>1, <3>2 DEF ShareInv
    <2>1. /\ \A x \in Lots : plan[r][x] > 0 =>
                 LotProduct[x] = c.move.product /\ plan[r][x] <= remaining[x]
          /\ \A i \in DOMAIN q : plan[r][q[i].lot] = 0
          /\ \A i, j \in DOMAIN q : i # j => q[i].lot # q[j].lot
        BY <1>1, <1>2 DEF RequestInv, ShareInv, AfterSelect, q
    <2>2. plan[r][lot] = 0
        BY <1>4, <1>8, <2>1
    <2>3. plan'[r][lot] = give /\ give <= remaining[lot]
        BY <1>5, <1>7, <1>9, <1>16, <2>2
    <2>4. LotProduct[lot] = c.move.product
        <3>1. CASE Exact(c)
            BY <1>6, <3>1
        <3>2. CASE ~Exact(c)
            BY <1>1, <1>2, <1>4, <1>8, <3>2 DEF RequestInv, QueueInv, q
        <3> QED BY <3>1, <3>2
    <2>5. \A i \in DOMAIN t : t[i].lot # lot /\ t[i].lot \in Lots /\ plan[r][t[i].lot] = 0
        <3>1. \A i \in DOMAIN t : t[i] = q[i + 1] /\ q[i + 1].lot # q[1].lot /\ plan[r][q[i + 1].lot] = 0
            BY <1>8, <2>1
        <3>2. \A i \in DOMAIN t : t[i] \in Share
            BY <1>8
        <3>3. \A x \in Share : x.lot \in Lots
            BY DEF Share
        <3> QED BY <1>4, <1>8, <3>1, <3>2, <3>3
    <2>6. \A i, j \in DOMAIN t : i # j => t[i].lot # t[j].lot
        <3>1. \A i, j \in DOMAIN t : i # j => i + 1 # j + 1
            BY <1>8
        <3> QED BY <1>8, <2>1, <3>1
    <2> QED BY <1>9, <2>1, <2>3, <2>4, <2>5, <2>6
<1>18. QueueInv(r)' /\ Drained(r)'
    <2> SUFFICES ASSUME ~Exact(c) PROVE QueueInv(r)' /\ Drained(r)'
        BY <1>2 DEF QueueInv, Drained
    <2>1. /\ \A i \in DOMAIN q : LotProduct[q[i].lot] = c.move.product
          /\ \A i, j \in DOMAIN q : i < j => Before(c, q[i].lot, q[j].lot)
          /\ \A x \in Lots : lock[x] = r =>
                 /\ \A i \in DOMAIN q : q[i].lot # x /\ Before(c, x, q[i].lot)
                 /\ plan[r][x] = remaining[x] \/ need[r] = 0
        BY <1>1, <1>2 DEF RequestInv, QueueInv, q
    <2>2. ~LinkedTwice(r)
        BY <1>2 DEF LinkedTwice, Exact
    <2>3. /\ plan[r][lot] = 0
          /\ \A i \in DOMAIN t : t[i].lot # lot
        <3>1. /\ \A i \in DOMAIN q : plan[r][q[i].lot] = 0
              /\ \A i, j \in DOMAIN q : i # j => q[i].lot # q[j].lot
            BY <1>1, <1>2, <2>2 DEF RequestInv, ShareInv, AfterSelect, q
        <3> QED BY <1>4, <1>8, <3>1, ZenonT(60)
    <2>4. \A i \in DOMAIN t : LotProduct[t[i].lot] = c.move.product /\ Before(c, lot, t[i].lot)
        <3>1. \A i \in DOMAIN t :
                 /\ t[i] = q[i + 1] /\ i + 1 \in DOMAIN q /\ 1 \in DOMAIN q /\ 1 < i + 1
                 /\ q[1].lot = lot
            BY <1>4, <1>8
        <3>2. \A i \in DOMAIN t : Before(c, q[1].lot, q[i + 1].lot)
            BY <2>1, <3>1
        <3> QED BY <2>1, <3>1, <3>2
    <2>5. \A i, j \in DOMAIN t : i < j => Before(c, t[i].lot, t[j].lot)
        <3>1. \A i, j \in DOMAIN t : i < j => i + 1 < j + 1
            BY <1>8
        <3> QED BY <1>8, <2>1, <3>1
    <2>6. plan'[r][lot] = give
        BY <1>5, <1>9, <2>3
    <2>7. lock[lot] # r
        BY <1>4, <1>8, <2>1
    <2>8. \A x \in Lots : lock'[x] = r => x = lot \/ (lock[x] = r /\ x # lot)
        BY <1>10, <2>7, Rows
    <2>9. \A x \in Lots : lock[x] = r =>
                 /\ \A i \in DOMAIN t : t[i].lot # x /\ Before(c, x, t[i].lot)
                 /\ plan'[r][x] = remaining[x] \/ need'[r] = 0
        <3> SUFFICES ASSUME NEW x \in Lots, lock[x] = r
                     PROVE  /\ \A i \in DOMAIN t : t[i].lot # x /\ Before(c, x, t[i].lot)
                            /\ plan'[r][x] = remaining[x] \/ need'[r] = 0
            OBVIOUS
        <3>1. plan'[r][x] = plan[r][x]
            BY <1>9, <2>7
        <3>2. need[r] = 0 => need'[r] = 0
            BY <1>5, <1>7, <1>9
        <3> QED BY <1>8, <2>1, <3>1, <3>2
    <2>10. plan'[r][lot] = remaining[lot] \/ need'[r] = 0
        BY <1>7, <1>9, <2>6
    <2>11. QueueInv(r)'
        <3>1. remaining' = remaining /\ queue'[r] = t /\ call'[r] = c
            BY <1>2, <1>6, <1>9 DEF dataVars
        <3>2. \A x \in Lots : lock'[x] = r =>
                 /\ \A i \in DOMAIN t : t[i].lot # x /\ Before(c, x, t[i].lot)
                 /\ plan'[r][x] = remaining[x] \/ need'[r] = 0
            BY <2>3, <2>4, <2>8, <2>9, <2>10
        <3> QED BY <2>4, <2>5, <3>1, <3>2 DEF QueueInv, Before
    <2>12. Drained(r)'
        <3> SUFFICES ASSUME NEW a \in Lots, NEW b \in Lots, lock'[a] = r, lock'[b] = r, plan'[r][b] > 0,
                            IF c.strategy = "FIFO" THEN Age[a] < Age[b] ELSE Age[a] > Age[b]
                     PROVE  plan'[r][a] = remaining[a]
            BY <1>2, <1>6 DEF Drained, dataVars
        <3>1. Age[a] \in Nat /\ Age[b] \in Nat /\ Age[lot] \in Nat
            OBVIOUS
        <3>2. CASE b = lot
            <4>1. a # lot /\ lock[a] = r
                BY <2>8, <3>1, <3>2
            <4>2. need[r] # 0
                BY <1>7, <2>6, <3>2
            <4> QED BY <1>9, <2>1, <4>1, <4>2
        <3>3. CASE b # lot
            <4>1. lock[b] = r /\ plan[r][b] > 0
                BY <1>9, <2>8, <3>3
            <4>2. Before(c, b, lot)
                BY <1>4, <1>8, <2>1, <4>1
            <4>3. a # lot
                BY <3>1, <4>2 DEF Before
            <4>4. lock[a] = r
                BY <2>8, <4>3
            <4>5. plan[r][a] = remaining[a]
                BY <1>1, <1>2, <4>1, <4>4 DEF Drained
            <4> QED BY <1>9, <4>3, <4>5
        <3> QED BY <3>2, <3>3
    <2> QED BY <2>11, <2>12
<1>19. RequestInv(r)'
    BY <1>1, <1>6, <1>13, <1>14, <1>15, <1>17, <1>18 DEF RequestInv, Done, dataVars
<1> QED
    BY <1>11, <1>12, <1>18, <1>19, StepFrame

-----------------------------------------------------------------------------
(* The commit.                                                               *)

(* What is known of a request when it commits, and what it then changes. *)
LEMMA CommitIs ==
    ASSUME LotsInv, NEW r \in Requests, Commit(r)
    PROVE  \E c \in Calls :
              /\ c = call[r] /\ call' = call /\ Move(r) = c.move /\ ValidMovement(c.move)
              /\ pc[r] # "committed" /\ pc'[r] = "committed"
              /\ \A v \in Requests : v # r => pc'[v] = pc[v]
              /\ plan[r] \in [Lots -> Nat]
              /\ \A lot \in Lots : links'[r][lot] = plan[r][lot] + Added(r, lot)
              /\ \A v \in Requests : v # r => links'[v] = links[v]
              /\ IF TakesLots(c)
                 THEN /\ SumFunctionOnSet(plan[r], Lots) = c.move.quantity
                      /\ \A lot \in Lots : /\ plan[r][lot] <= remaining[lot]
                                           /\ plan[r][lot] > 0 => LotProduct[lot] = c.move.product
                 ELSE \A lot \in Lots : plan[r][lot] = 0
              /\ \A lot \in Lots : Added(r, lot) = IF PutsLot(c) /\ lot = c.lot THEN c.move.quantity ELSE 0
<1>1. TypeOK /\ RequestInv(r) /\ pc[r] = "commit" /\ End(r, "committed")
    BY LotsInvParts DEF Commit
<1>2. PICK c \in Calls : c = call[r] /\ Move(r) = c.move /\ ValidMovement(c.move)
    BY <1>1 DEF RequestInv, CallInv, TypeOK, InTransaction, Move
<1>3. call' = call /\ pc'[r] = "committed" /\ \A v \in Requests : v # r => pc'[v] = pc[v]
    <2>1. "committed" \in Final
        BY DEF Final
    <2> QED BY <1>1, <2>1, EndIs
<1>4. plan[r] \in [Lots -> Nat]
    BY <1>1 DEF TypeOK
<1>5. /\ \A lot \in Lots : links'[r][lot] = plan[r][lot] + Added(r, lot)
      /\ \A v \in Requests : v # r => links'[v] = links[v]
    BY <1>1 DEF Commit, TypeOK
<1>6. ASSUME TakesLots(c)
      PROVE  /\ SumFunctionOnSet(plan[r], Lots) = c.move.quantity
             /\ \A lot \in Lots : /\ plan[r][lot] <= remaining[lot]
                                  /\ plan[r][lot] > 0 => LotProduct[lot] = c.move.product
    <2>1. SumFunctionOnSet(plan[r], Lots) + need[r] = c.move.quantity /\ need[r] = 0
        BY <1>1, <1>2, <1>6 DEF RequestInv, PlanInv, AfterSelect
    <2>2. SumFunctionOnSet(plan[r], Lots) \in Nat
        BY <1>4, SumNat
    <2>3. \A lot \in Lots : plan[r][lot] > 0 =>
              LotProduct[lot] = c.move.product /\ plan[r][lot] <= remaining[lot]
        BY <1>1, <1>2, <1>6 DEF RequestInv, ShareInv, AfterSelect
    <2>4. \A lot \in Lots : remaining[lot] \in Int /\ remaining[lot] >= 0
        BY <1>1 DEF TypeOK, LotsInv, LotsMatchLinks
    <2>5. \A lot \in Lots : plan[r][lot] <= remaining[lot]
        BY <1>4, <2>3, <2>4
    <2> QED BY <2>1, <2>2, <2>3, <2>5
<1>7. ~TakesLots(c) => \A lot \in Lots : plan[r][lot] = 0
    BY <1>1, <1>2 DEF RequestInv, PlanInv, AfterSelect
<1>8. \A lot \in Lots : Added(r, lot) = IF PutsLot(c) /\ lot = c.lot THEN c.move.quantity ELSE 0
    BY <1>2 DEF Added
<1> QED
    BY <1>1, <1>2, <1>3, <1>4, <1>5, <1>6, <1>7, <1>8

LEMMA AddedTypes ==
    ASSUME TypeOK, NEW v \in Requests, RequestInv(v), Done(v), NEW lot \in Lots
    PROVE  Added(v, lot) \in Nat /\ call[v] \in Calls
<1>1. call[v] \in Calls
    BY DEF TypeOK, RequestInv, CallInv, Done
<1> QED
    BY <1>1, CallTypes DEF Added, Move

(* The links of the commit explain what it draws from each lot. *)
LEMMA CommitUsed ==
    ASSUME LotsInv, NEW r \in Requests, Commit(r), NEW lot \in Lots
    PROVE  Used(lot)' = Used(lot) + Drawn(r, lot) /\ Used(lot) \in Int /\ Drawn(r, lot) \in Nat
<1>1. TypeOK /\ \A v \in Requests : RequestInv(v)
    BY LotsInvParts
<1>2. PICK c \in Calls :
          /\ c = call[r] /\ call' = call /\ Move(r) = c.move
          /\ pc[r] # "committed" /\ pc'[r] = "committed"
          /\ \A v \in Requests : v # r => pc'[v] = pc[v]
          /\ plan[r] \in [Lots -> Nat]
          /\ \A x \in Lots : links'[r][x] = plan[r][x] + Added(r, x)
          /\ \A v \in Requests : v # r => links'[v] = links[v]
    BY CommitIs
<1> DEFINE f == [v \in Requests |-> UsedBy(v, lot)]
           g == [v \in Requests |-> UsedBy(v, lot)']
<1>3. \A v \in Requests : Added(v, lot)' = Added(v, lot)
    BY <1>2 DEF Added, Move
<1>4. \A v \in Requests : v # r => f[v] = g[v]
    BY <1>2, <1>3 DEF UsedBy, Done
<1>5. \A v \in Requests : f[v] \in Int
    <2> SUFFICES ASSUME NEW v \in Requests PROVE UsedBy(v, lot) \in Int
        OBVIOUS
    <2>1. links[v][lot] \in Nat
        BY <1>1 DEF TypeOK
    <2>2. Done(v) => Added(v, lot) \in Nat
        BY <1>1, AddedTypes
    <2> QED BY <2>1, <2>2 DEF UsedBy
<1>6. Drawn(r, lot) \in Nat
    BY <1>2 DEF Drawn
<1>7. f[r] = 0 /\ g[r] = Drawn(r, lot)
    <2>1. Added(r, lot) \in Nat
        BY <1>2, CallTypes DEF Added
    <2>2. plan[r][lot] \in Nat
        BY <1>2
    <2>3. links'[r][lot] - Added(r, lot)' = plan[r][lot]
        BY <1>2, <1>3, <2>1, <2>2
    <2> QED BY <1>2, <2>3 DEF UsedBy, Done, Drawn
<1>8. Used(lot) = SumFunctionOnSet(f, Requests) /\ Used(lot)' = SumFunctionOnSet(g, Requests)
    BY DEF Used
<1> HIDE DEF f, g
<1>9. \A v \in Requests : f[v] \in Int /\ g[v] \in Int
    BY <1>4, <1>5, <1>6, <1>7
<1>10. SumFunctionOnSet(g, Requests) = SumFunctionOnSet(f, Requests) + g[r] - f[r]
    BY <1>4, <1>9, SumUpdate
<1>11. SumFunctionOnSet(f, Requests) \in Int
    BY <1>9, SumInt
<1> QED
    BY <1>6, <1>7, <1>8, <1>10, <1>11

(* What the commit does to the sum of a product's records ... *)
LEMMA CommitRecordDrift ==
    ASSUME LotsInv, NEW r \in Requests, Commit(r), NEW c \in Calls, c = call[r], NEW p \in Products
    PROVE  LET units == IF c.move.product = p THEN c.move.quantity ELSE 0 IN
           /\ SumFunctionOnSet(RecordDrift(p)', Locations)
                  = SumFunctionOnSet(RecordDrift(p), Locations)
                    + (IF HasDest(c.move) THEN units ELSE 0) - (IF HasSource(c.move) THEN units ELSE 0)
           /\ SumFunctionOnSet(RecordDrift(p), Locations) \in Int
<1> DEFINE m == c.move
           units == IF m.product = p THEN m.quantity ELSE 0
           f == RecordDrift(p)
           in == [l \in Locations |-> IF m.product = p /\ l = m.to THEN m.quantity ELSE 0]
           out == [l \in Locations |-> IF m.product = p /\ l = m.from THEN m.quantity ELSE 0]
           mid == [l \in Locations |-> f[l] + in[l]]
           g == RecordDrift(p)'
<1>1. m \in Movement /\ m.quantity \in Nat /\ TypeOK
    BY CallTypes, LotsInvParts
<1>2. \A l \in Locations : <<p, l>> \in StockRecord /\ f[l] \in Int
    BY <1>1 DEF RecordDrift, TypeOK, StockRecord
<1>3. \A l \in Locations : /\ f[l] \in Int /\ in[l] \in Int /\ out[l] \in Int
                           /\ mid[l] \in Int /\ mid[l] = f[l] + in[l]
    <2>1. \A l \in Locations : in[l] \in Int /\ out[l] \in Int
        BY <1>1
    <2>2. \A l \in Locations : f[l] \in Int
        BY <1>2
    <2> HIDE DEF f, in, out
    <2>3. \A l \in Locations : mid[l] = f[l] + in[l]
        OBVIOUS
    <2> QED BY <2>1, <2>2, <2>3
<1>4. \A l \in Locations : g[l] = mid[l] - out[l]
    <2> SUFFICES ASSUME NEW l \in Locations PROVE g[l] = mid[l] - out[l]
        OBVIOUS
    <2>1. quantity'[<<p, l>>] = quantity[<<p, l>>] - Outgoing(m, <<p, l>>) + Incoming(m, <<p, l>>)
        BY <1>2 DEF Commit, Move
    <2>2. Outgoing(m, <<p, l>>) = out[l] /\ Incoming(m, <<p, l>>) = in[l]
        BY <1>1 DEF Outgoing, Incoming, HasSource, HasDest, Source, Dest
    <2>3. quantity[<<p, l>>] \in Int /\ Opening[<<p, l>>] \in Int /\ out[l] \in Int /\ in[l] \in Int
        BY <1>1, <1>2, <1>3 DEF TypeOK
    <2>4. f[l] = quantity[<<p, l>>] - Opening[<<p, l>>] /\ g[l] = quantity'[<<p, l>>] - Opening[<<p, l>>]
        BY DEF RecordDrift
    <2> HIDE DEF f, g, in, out
    <2> QED BY <2>1, <2>2, <2>3, <2>4
<1>5. SumFunctionOnSet(in, Locations) = IF HasDest(m) THEN units ELSE 0
    <2>1. CASE HasDest(m)
        <3>1. m.to \in Locations /\ in[m.to] = units /\ units \in Int
            BY <1>1, <2>1 DEF HasDest, Movement
        <3>2. \A l \in Locations : m.to # l => in[l] = 0
            OBVIOUS
        <3> HIDE DEF in, units, m
        <3> QED BY <2>1, <3>1, <3>2, SumSingle
    <2>2. CASE ~HasDest(m)
        <3>1. \A l \in Locations : in[l] = 0
            BY <2>2 DEF HasDest
        <3> HIDE DEF in
        <3> QED BY <2>2, <3>1, SumZero
    <2> QED BY <2>1, <2>2
<1>6. SumFunctionOnSet(out, Locations) = IF HasSource(m) THEN units ELSE 0
    <2>1. CASE HasSource(m)
        <3>1. m.from \in Locations /\ out[m.from] = units /\ units \in Int
            BY <1>1, <2>1 DEF HasSource, Movement
        <3>2. \A l \in Locations : m.from # l => out[l] = 0
            OBVIOUS
        <3> HIDE DEF out, units, m
        <3> QED BY <2>1, <3>1, <3>2, SumSingle
    <2>2. CASE ~HasSource(m)
        <3>1. \A l \in Locations : out[l] = 0
            BY <2>2 DEF HasSource
        <3> HIDE DEF out
        <3> QED BY <2>2, <3>1, SumZero
    <2> QED BY <2>1, <2>2
<1>7. units \in Nat
    BY <1>1
<1> HIDE DEF f, g, in, out, mid, units
<1>8. SumFunctionOnSet(mid, Locations) = SumFunctionOnSet(f, Locations) + SumFunctionOnSet(in, Locations)
    BY <1>3, SumPlus
<1>9. SumFunctionOnSet(g, Locations) = SumFunctionOnSet(mid, Locations) - SumFunctionOnSet(out, Locations)
    BY <1>3, <1>4, SumMinus
<1>10. SumFunctionOnSet(f, Locations) \in Int
    BY <1>2, SumInt
<1>11. SumFunctionOnSet(g, Locations) = SumFunctionOnSet(f, Locations)
           + (IF HasDest(m) THEN units ELSE 0) - (IF HasSource(m) THEN units ELSE 0)
    <2>1. (IF HasDest(m) THEN units ELSE 0) \in Int /\ (IF HasSource(m) THEN units ELSE 0) \in Int
        BY <1>7
    <2> QED BY <1>5, <1>6, <1>8, <1>9, <1>10, <2>1
<1> QED
    BY <1>10, <1>11 DEF f, g, units

(* ... to the sum of its lots ... *)
LEMMA CommitLotDrift ==
    ASSUME LotsInv, NEW r \in Requests, Commit(r), NEW c \in Calls, c = call[r], NEW p \in Products
    PROVE  LET units == IF c.move.product = p THEN c.move.quantity ELSE 0 IN
           /\ SumFunctionOnSet(LotDrift(p)', Lots)
                  = SumFunctionOnSet(LotDrift(p), Lots)
                    + (IF PutsLot(c) THEN units ELSE 0) - (IF ConsumesLots(c) THEN units ELSE 0)
           /\ SumFunctionOnSet(LotDrift(p), Lots) \in Int
<1> DEFINE m == c.move
           units == IF m.product = p THEN m.quantity ELSE 0
           f == LotDrift(p)
           in == [lot \in Lots |-> IF LotProduct[lot] = p THEN Added(r, lot) ELSE 0]
           out == [lot \in Lots |-> IF LotProduct[lot] = p THEN Drawn(r, lot) ELSE 0]
           mid == [lot \in Lots |-> f[lot] + in[lot]]
           g == LotDrift(p)'
<1>1. m.quantity \in Nat /\ TypeOK /\ units \in Nat
    BY CallTypes, LotsInvParts
<1>2. /\ plan[r] \in [Lots -> Nat]
      /\ TakesLots(c) => /\ SumFunctionOnSet(plan[r], Lots) = m.quantity
                         /\ \A lot \in Lots : plan[r][lot] > 0 => LotProduct[lot] = m.product
      /\ ~TakesLots(c) => \A lot \in Lots : plan[r][lot] = 0
      /\ \A lot \in Lots : Added(r, lot) = IF PutsLot(c) /\ lot = c.lot THEN m.quantity ELSE 0
    BY CommitIs
<1>3. \A lot \in Lots : /\ Added(r, lot) \in Int /\ Drawn(r, lot) \in Int
                        /\ f[lot] \in Int
    BY <1>1, <1>2 DEF Drawn, LotDrift, TypeOK
<1>4. \A lot \in Lots : /\ in[lot] \in Int /\ out[lot] \in Int
                        /\ mid[lot] \in Int /\ mid[lot] = f[lot] + in[lot]
    BY <1>3
<1>5. \A lot \in Lots : g[lot] = mid[lot] - out[lot]
    <2> SUFFICES ASSUME NEW lot \in Lots PROVE g[lot] = mid[lot] - out[lot]
        OBVIOUS
    <2>1. remaining'[lot] = remaining[lot] - Drawn(r, lot) + Added(r, lot)
        BY DEF Commit
    <2>2. remaining[lot] \in Int /\ LotOpening[lot] \in Int
        BY <1>1 DEF TypeOK
    <2> QED BY <1>3, <2>1, <2>2 DEF LotDrift
<1>6. SumFunctionOnSet(in, Lots) = IF PutsLot(c) THEN units ELSE 0
    <2>1. CASE PutsLot(c)
        <3>1. c.lot \in Lots /\ LotProduct[c.lot] = m.product
            BY <2>1, CallTypes DEF PutsLot
        <3>2. in[c.lot] = units /\ units \in Int
            BY <1>1, <1>2, <2>1, <3>1
        <3>3. \A lot \in Lots : c.lot # lot => in[lot] = 0
            BY <1>2
        <3> HIDE DEF in, units, m
        <3> QED BY <2>1, <3>1, <3>2, <3>3, SumSingle
    <2>2. CASE ~PutsLot(c)
        <3>1. \A lot \in Lots : in[lot] = 0
            BY <1>2, <2>2
        <3> HIDE DEF in
        <3> QED BY <2>2, <3>1, SumZero
    <2> QED BY <2>1, <2>2
<1>7. SumFunctionOnSet(out, Lots) = IF ConsumesLots(c) THEN units ELSE 0
    <2>1. CASE ConsumesLots(c) /\ m.product = p
        <3>1. TakesLots(c)
            BY <2>1 DEF ConsumesLots
        <3>2. \A lot \in Lots : plan[r][lot] \in Int /\ plan[r][lot] = out[lot]
            BY <1>2, <2>1, <3>1 DEF Drawn
        <3>3. units = m.quantity
            BY <2>1
        <3> HIDE DEF out, units, m
        <3>4. SumFunctionOnSet(plan[r], Lots) = SumFunctionOnSet(out, Lots)
            BY <3>2, SumEqual
        <3> QED BY <1>2, <2>1, <3>1, <3>3, <3>4
    <2>2. CASE ~ConsumesLots(c) \/ m.product # p
        <3>1. \A lot \in Lots : out[lot] = 0
            <4>1. CASE ~ConsumesLots(c)
                BY <4>1 DEF Drawn
            <4>2. CASE m.product # p /\ ConsumesLots(c)
                <5>1. \A lot \in Lots : LotProduct[lot] = p => ~(plan[r][lot] > 0)
                    BY <1>2, <4>2 DEF ConsumesLots
                <5>2. \A lot \in Lots : plan[r][lot] \in Nat
                    BY <1>2
                <5>3. \A lot \in Lots : LotProduct[lot] = p => Drawn(r, lot) = 0
                    BY <5>1, <5>2 DEF Drawn
                <5> QED BY <5>3
            <4> QED BY <2>2, <4>1, <4>2
        <3>2. (IF ConsumesLots(c) THEN units ELSE 0) = 0
            BY <2>2
        <3> HIDE DEF out, units
        <3> QED BY <3>1, <3>2, SumZero
    <2> QED BY <2>1, <2>2
<1> HIDE DEF f, g, in, out, mid, units
<1>8. SumFunctionOnSet(mid, Lots) = SumFunctionOnSet(f, Lots) + SumFunctionOnSet(in, Lots)
    BY <1>3, <1>4, SumPlus
<1>9. SumFunctionOnSet(g, Lots) = SumFunctionOnSet(mid, Lots) - SumFunctionOnSet(out, Lots)
    BY <1>4, <1>5, SumMinus
<1>10. SumFunctionOnSet(f, Lots) \in Int
    BY <1>3, SumInt
<1>11. SumFunctionOnSet(g, Lots) = SumFunctionOnSet(f, Lots)
           + (IF PutsLot(c) THEN units ELSE 0) - (IF ConsumesLots(c) THEN units ELSE 0)
    <2>1. (IF PutsLot(c) THEN units ELSE 0) \in Int /\ (IF ConsumesLots(c) THEN units ELSE 0) \in Int
        BY <1>1
    <2> QED BY <1>6, <1>7, <1>8, <1>9, <1>10, <2>1
<1> QED
    BY <1>10, <1>11 DEF f, g, units

(* ... and to the units that bypassed the lots. *)
LEMMA CommitUntracked ==
    ASSUME LotsInv, NEW r \in Requests, Commit(r), NEW c \in Calls, c = call[r], NEW p \in Products
    PROVE  /\ SumFunctionOnSet([v \in Requests |-> Untracked(p, v)]', Requests)
                  = SumFunctionOnSet([v \in Requests |-> Untracked(p, v)], Requests) + Untracked(p, r)'
           /\ SumFunctionOnSet([v \in Requests |-> Untracked(p, v)], Requests) \in Int
           /\ Untracked(p, r)' \in Int
<1> DEFINE f == [v \in Requests |-> Untracked(p, v)]
           g == [v \in Requests |-> Untracked(p, v)']
<1>1. TypeOK /\ \A v \in Requests : RequestInv(v)
    BY LotsInvParts
<1>2. /\ call' = call /\ pc[r] # "committed" /\ pc'[r] = "committed"
      /\ \A v \in Requests : v # r => pc'[v] = pc[v]
    BY CommitIs
<1>3. \A v \in Requests : v # r => f[v] = g[v]
    BY <1>2 DEF Untracked, Done
<1>4. f[r] = 0
    BY <1>2 DEF Untracked, Done
<1>5. \A v \in Requests : f[v] \in Int
    <2>1. ASSUME NEW v \in Requests, Done(v) PROVE call[v].move.quantity \in Nat
        BY <1>1, <2>1, CallTypes DEF TypeOK, RequestInv, CallInv, Done
    <2> QED BY <2>1 DEF Untracked
<1>6. g[r] \in Int
    BY <1>2, CallTypes DEF Untracked
<1> HIDE DEF f, g
<1>7. \A v \in Requests : f[v] \in Int /\ g[v] \in Int
    BY <1>3, <1>5, <1>6
<1>8. SumFunctionOnSet(g, Requests) = SumFunctionOnSet(f, Requests) + g[r] - f[r]
    BY <1>3, <1>7, SumUpdate
<1>9. SumFunctionOnSet(f, Requests) \in Int
    BY <1>7, SumInt
<1>10. SumFunctionOnSet(g, Requests) = SumFunctionOnSet(f, Requests) + g[r]
    BY <1>4, <1>6, <1>8, <1>9
<1> QED
    BY <1>6, <1>9, <1>10 DEF f, g

LEMMA CommitDrift ==
    ASSUME LotsInv, NEW r \in Requests, Commit(r)
    PROVE  DriftIsUntracked'
<1> SUFFICES ASSUME NEW p \in Products
             PROVE  SumFunctionOnSet(RecordDrift(p)', Locations)
                    = SumFunctionOnSet(LotDrift(p)', Lots)
                      + SumFunctionOnSet([v \in Requests |-> Untracked(p, v)]', Requests)
    BY DEF DriftIsUntracked
<1>1. PICK c \in Calls : /\ c = call[r] /\ call' = call /\ ValidMovement(c.move)
                         /\ pc'[r] = "committed"
    BY CommitIs
<1> DEFINE m == c.move
           units == IF m.product = p THEN m.quantity ELSE 0
           toRecords == IF HasDest(m) THEN units ELSE 0
           fromRecords == IF HasSource(m) THEN units ELSE 0
           toLots == IF PutsLot(c) THEN units ELSE 0
           fromLots == IF ConsumesLots(c) THEN units ELSE 0
           records == SumFunctionOnSet(RecordDrift(p), Locations)
           lots == SumFunctionOnSet(LotDrift(p), Lots)
           untracked == SumFunctionOnSet([v \in Requests |-> Untracked(p, v)], Requests)
<1>2. /\ SumFunctionOnSet(RecordDrift(p)', Locations) = records + toRecords - fromRecords
      /\ records \in Int
    BY <1>1, CommitRecordDrift
<1>3. /\ SumFunctionOnSet(LotDrift(p)', Lots) = lots + toLots - fromLots
      /\ lots \in Int
    BY <1>1, CommitLotDrift
<1>4. /\ SumFunctionOnSet([v \in Requests |-> Untracked(p, v)]', Requests) = untracked + Untracked(p, r)'
      /\ untracked \in Int /\ Untracked(p, r)' \in Int
    BY <1>1, CommitUntracked
<1>5. records = lots + untracked
    BY DEF LotsInv, DriftIsUntracked
<1>6. units \in Int /\ toRecords \in Int /\ fromRecords \in Int /\ toLots \in Int /\ fromLots \in Int
    BY CallTypes
<1>7. toRecords - fromRecords = toLots - fromLots + Untracked(p, r)'
    <2>1. Untracked(p, r)' = (IF HasDest(m) /\ m.type # "transfer" /\ ~PutsLot(c) THEN units ELSE 0)
                           - (IF HasSource(m) /\ m.type # "transfer" /\ ~TakesLots(c) THEN units ELSE 0)
        BY <1>1, CallTypes DEF Untracked, Done
    <2>2. CASE m.type = "transfer"
        <3>1. HasDest(m) /\ HasSource(m) /\ ~PutsLot(c) /\ ~ConsumesLots(c)
            BY <1>1, <2>2 DEF ValidMovement, Clean, PutsLot, ConsumesLots
        <3> QED BY <1>6, <2>1, <2>2, <3>1
    <2>3. CASE m.type # "transfer"
        <3>1. /\ PutsLot(c) => HasDest(m)
              /\ ConsumesLots(c) <=> TakesLots(c)
              /\ TakesLots(c) => HasSource(m)
            BY <1>1, <2>3 DEF ValidMovement, Clean, PutsLot, ConsumesLots, TakesLots
        <3> HIDE DEF m, units
        <3> QED BY <1>6, <2>1, <2>3, <3>1
    <2> QED BY <2>2, <2>3
<1> HIDE DEF m, units, toRecords, fromRecords, toLots, fromLots, records, lots, untracked
<1> QED
    BY <1>2, <1>3, <1>4, <1>5, <1>6, <1>7

LEMMA CommitInv ==
    ASSUME LotsInv, NEW r \in Requests, Commit(r)
    PROVE  LotsInv'
<1>1. TypeOK /\ TablesInv /\ \A v \in Requests : RequestInv(v)
    BY LotsInvParts
<1>2. PICK c \in Calls :
          /\ c = call[r] /\ call' = call /\ Move(r) = c.move /\ ValidMovement(c.move)
          /\ pc[r] # "committed" /\ pc'[r] = "committed"
          /\ \A v \in Requests : v # r => pc'[v] = pc[v]
          /\ plan[r] \in [Lots -> Nat]
          /\ \A lot \in Lots : links'[r][lot] = plan[r][lot] + Added(r, lot)
          /\ \A v \in Requests : v # r => links'[v] = links[v]
          /\ IF TakesLots(c)
             THEN /\ SumFunctionOnSet(plan[r], Lots) = c.move.quantity
                  /\ \A lot \in Lots : plan[r][lot] <= remaining[lot]
             ELSE \A lot \in Lots : plan[r][lot] = 0
          /\ \A lot \in Lots : Added(r, lot) = IF PutsLot(c) /\ lot = c.lot THEN c.move.quantity ELSE 0
    BY CommitIs
<1>3. End(r, "committed") /\ "committed" \in Final /\ pc[r] = "commit"
    BY DEF Commit, Final
<1>4. /\ \A rec \in StockRecord :
             /\ quantity'[rec] = quantity[rec] - Outgoing(c.move, rec) + Incoming(c.move, rec)
             /\ Outgoing(c.move, rec) \in Nat /\ Incoming(c.move, rec) \in Nat
             /\ Outgoing(c.move, rec) <= quantity[rec]
             /\ quantity[rec] \in Int /\ quantity[rec] >= 0
      /\ \A lot \in Lots :
             /\ remaining'[lot] = remaining[lot] - Drawn(r, lot) + Added(r, lot)
             /\ received'[lot] = received[lot] + Added(r, lot)
             /\ Drawn(r, lot) \in Nat /\ Added(r, lot) \in Nat
             /\ remaining[lot] \in Int /\ Drawn(r, lot) <= remaining[lot]
    <2>1. ASSUME NEW rec \in StockRecord
          PROVE  /\ quantity'[rec] = quantity[rec] - Outgoing(c.move, rec) + Incoming(c.move, rec)
                 /\ Outgoing(c.move, rec) \in Nat /\ Incoming(c.move, rec) \in Nat
                 /\ Outgoing(c.move, rec) <= quantity[rec]
                 /\ quantity[rec] \in Int /\ quantity[rec] >= 0
        <3>1. Outgoing(c.move, rec) \in Nat /\ Incoming(c.move, rec) \in Nat
            BY CallTypes
        <3>2. quantity[rec] \in Int /\ quantity[rec] >= 0
            BY <1>1 DEF TypeOK, TablesInv
        <3>3. HasSource(c.move) => quantity[Source(c.move)] >= c.move.quantity
            BY <1>1, <1>2, <1>3 DEF RequestInv, LockInv, AfterSelect
        <3>4. Outgoing(c.move, rec) <= quantity[rec]
            BY <3>2, <3>3, CallTypes DEF Outgoing
        <3>5. quantity'[rec] = quantity[rec] - Outgoing(c.move, rec) + Incoming(c.move, rec)
            BY <1>2 DEF Commit
        <3> QED BY <3>1, <3>2, <3>4, <3>5
    <2>2. ASSUME NEW lot \in Lots
          PROVE  /\ remaining'[lot] = remaining[lot] - Drawn(r, lot) + Added(r, lot)
                 /\ received'[lot] = received[lot] + Added(r, lot)
                 /\ Drawn(r, lot) \in Nat /\ Added(r, lot) \in Nat
                 /\ remaining[lot] \in Int /\ Drawn(r, lot) <= remaining[lot]
        <3>1. Added(r, lot) \in Nat
            <4>1. c.move.quantity \in Nat
                BY CallTypes
            <4>2. Added(r, lot) = IF PutsLot(c) /\ lot = c.lot THEN c.move.quantity ELSE 0
                BY <1>2
            <4> QED BY <4>1, <4>2
        <3>2. remaining[lot] \in Int /\ remaining[lot] >= 0
            BY <1>1 DEF TypeOK, TablesInv, LotsMatchLinks
        <3>3. Drawn(r, lot) \in Nat /\ Drawn(r, lot) <= remaining[lot]
            BY <1>2, <3>2 DEF Drawn, ConsumesLots
        <3> QED BY <3>1, <3>2, <3>3 DEF Commit
    <2> QED BY <2>1, <2>2
<1>5. TypeOK'
    <2>1. quantity' \in [StockRecord -> Int] /\ inflow' \in [StockRecord -> Nat]
          /\ outflow' \in [StockRecord -> Nat]
        <3>1. \A rec \in StockRecord : /\ quantity[rec] \in Int /\ inflow[rec] \in Nat
                                       /\ outflow[rec] \in Nat
            BY <1>1 DEF TypeOK
        <3> QED BY <1>2, <1>4, <3>1 DEF Commit
    <2>2. received' \in [Lots -> Nat] /\ remaining' \in [Lots -> Int]
        <3>1. \A lot \in Lots : remaining[lot] \in Int /\ received[lot] \in Nat
            BY <1>1 DEF TypeOK
        <3> QED BY <1>4, <3>1 DEF Commit
    <2>3. links' \in [Requests -> [Lots -> Nat]]
        <3>1. \A lot \in Lots : plan[r][lot] + Added(r, lot) \in Nat
            BY <1>2, <1>4
        <3> QED BY <1>1, <3>1 DEF Commit, TypeOK
    <2> QED BY <1>1, <1>3, <2>1, <2>2, <2>3, EndIs DEF TypeOK
<1>6. OthersKept(r)
    <2> SUFFICES ASSUME NEW v \in Requests, v # r
                 PROVE  /\ UNCHANGED <<pc[v], call[v], queue[v], need[v], plan[v], links[v]>>
                        /\ \A row \in Row : lock'[row] = v <=> lock[row] = v
                        /\ \A rec \in StockRecord : lock[rec] = v => quantity'[rec] = quantity[rec]
                        /\ \A lot \in Lots : lock[lot] = v => remaining'[lot] = remaining[lot]
        BY DEF OthersKept
    <2>1. /\ pc'[v] = pc[v] /\ queue'[v] = queue[v] /\ need'[v] = need[v] /\ plan'[v] = plan[v]
          /\ \A row \in Row : lock'[row] = v <=> lock[row] = v
        BY <1>1, <1>3, EndIs
    <2>2. ASSUME NEW rec \in StockRecord, lock[rec] = v PROVE quantity'[rec] = quantity[rec]
        <3>1. /\ HasSource(c.move) => lock[Source(c.move)] = r
              /\ HasDest(c.move) => lock[Dest(c.move)] = r
            BY <1>1, <1>2, <1>3 DEF RequestInv, LockInv, AfterSelect
        <3>2. Outgoing(c.move, rec) = 0 /\ Incoming(c.move, rec) = 0
            BY <2>2, <3>1 DEF Outgoing, Incoming
        <3> QED BY <1>4, <3>2
    <2>3. ASSUME NEW lot \in Lots, lock[lot] = v PROVE remaining'[lot] = remaining[lot]
        <3>1. plan[r][lot] > 0 => lock[lot] = r
            BY <1>1 DEF RequestInv, PlanInv
        <3>2. plan[r][lot] \in Nat
            BY <1>2
        <3>3. Drawn(r, lot) = 0
            BY <2>3, <3>1, <3>2 DEF Drawn
        <3>4. PutsLot(c) => lock[c.lot] = r
            BY <1>1, <1>2, <1>3 DEF RequestInv, LockInv
        <3>5. Added(r, lot) = 0
            BY <1>2, <2>3, <3>4
        <3> QED BY <1>4, <3>3, <3>5
    <2> QED BY <1>2, <2>1, <2>2, <2>3
<1>7. LotsMatchLinks'
    <2> SUFFICES ASSUME NEW lot \in Lots
                 PROVE  remaining'[lot] = received'[lot] - Used(lot)' /\ remaining'[lot] >= 0
        BY DEF LotsMatchLinks
    <2>1. Used(lot)' = Used(lot) + Drawn(r, lot) /\ Used(lot) \in Int
        BY CommitUsed
    <2>2. remaining[lot] = received[lot] - Used(lot) /\ received[lot] \in Nat
        BY <1>1 DEF TablesInv, LotsMatchLinks, TypeOK
    <2> QED BY <1>4, <2>1, <2>2
<1>8. LineageComplete'
    <2> SUFFICES ASSUME NEW v \in Requests, Done(v)', TakesLots(call'[v])
                 PROVE  SumFunctionOnSet([lot \in Lots |-> links'[v][lot] - Added(v, lot)'], Lots)
                            = Move(v)'.quantity
        BY DEF LineageComplete
    <2> DEFINE f == [lot \in Lots |-> links'[v][lot] - Added(v, lot)']
    <2>1. \A lot \in Lots : Added(v, lot)' = Added(v, lot)
        BY <1>2 DEF Added, Move
    <2>2. CASE v = r
        <3>1. \A lot \in Lots : plan[r][lot] \in Int /\ plan[r][lot] = f[lot]
            BY <1>2, <1>4, <2>1, <2>2
        <3> HIDE DEF f
        <3>2. SumFunctionOnSet(plan[r], Lots) = SumFunctionOnSet(f, Lots)
            BY <3>1, SumEqual
        <3>3. SumFunctionOnSet(plan[r], Lots) = Move(v)'.quantity
            BY <1>2, <2>2 DEF Move
        <3> QED BY <3>2, <3>3 DEF f
    <2>3. CASE v # r
        <3>1. Done(v) /\ call'[v] = call[v] /\ links'[v] = links[v]
            BY <1>2, <2>3 DEF Done
        <3>2. f = [lot \in Lots |-> links[v][lot] - Added(v, lot)]
            BY <2>1, <3>1
        <3>3. SumFunctionOnSet([lot \in Lots |-> links[v][lot] - Added(v, lot)], Lots) = Move(v).quantity
            BY <1>1, <3>1 DEF TablesInv, LineageComplete
        <3> QED BY <3>1, <3>2, <3>3 DEF Move
    <2> QED BY <2>2, <2>3
<1>9. TablesInv'
    <2>1. \A rec \in StockRecord : quantity'[rec] >= 0
        <3>1. \A i, j, k \in Int : j <= i /\ k >= 0 => i - j + k >= 0
            OBVIOUS
        <3> QED BY <1>4, <3>1
    <2> QED BY <1>7, <1>8, <2>1, CommitDrift DEF TablesInv
<1>10. RequestInv(r)' /\ Drained(r)'
    <2>1. c # NoCall
        OBVIOUS
    <2>2. CallInv(r)' /\ LockInv(r)' /\ PlanInv(r)' /\ ShareInv(r)' /\ QueueInv(r)' /\ Drained(r)'
        BY <1>2, <1>3, <2>1, EndedInv
    <2> QED BY <1>2, <2>2 DEF RequestInv, Done
<1> QED
    BY <1>5, <1>6, <1>9, <1>10, StepFrame

-----------------------------------------------------------------------------
(* The invariant.                                                            *)

LEMMA UsedInit == Init => \A lot \in Lots : Used(lot) = 0
<1> SUFFICES ASSUME Init, NEW lot \in Lots PROVE Used(lot) = 0
    OBVIOUS
<1> DEFINE f == [r \in Requests |-> UsedBy(r, lot)]
<1>1. \A r \in Requests : f[r] = 0
    BY DEF UsedBy, Done, Init
<1> HIDE DEF f
<1>2. SumFunctionOnSet(f, Requests) = 0
    BY <1>1, SumZero
<1> QED
    BY <1>2 DEF Used, f

LEMMA InitLotsInv == Init => LotsInv
<1> SUFFICES ASSUME Init PROVE LotsInv
    OBVIOUS
<1>1. TypeOK
    <2>1. "idle" \in Steps /\ <<>> \in Seq(Share)
        BY DEF Steps
    <2> QED BY <2>1 DEF Init, TypeOK
<1>2. \A r \in Requests : /\ pc[r] = "idle" /\ call[r] = NoCall /\ queue[r] = <<>> /\ need[r] = 0
                          /\ \A lot \in Lots : plan[r][lot] = 0 /\ links[r][lot] = 0
    BY DEF Init
<1>3. \A row \in Row : \A r \in Requests : lock[row] # r
    BY DEF Init
<1>4. \A r \in Requests : RequestInv(r)
    <2> SUFFICES ASSUME NEW r \in Requests PROVE RequestInv(r)
        OBVIOUS
    <2>1. CallInv(r) /\ LockInv(r)
        BY <1>2, <1>3, Rows DEF CallInv, LockInv, InTransaction, AfterSelect
    <2>2. PlanInv(r) /\ ShareInv(r) /\ QueueInv(r)
        BY <1>2 DEF PlanInv, ShareInv, QueueInv, AfterSelect
    <2> QED BY <1>2, <2>1, <2>2 DEF RequestInv
<1>5. DrainedInOrder /\ LineageComplete
    BY <1>2 DEF DrainedInOrder, LineageComplete, Done
<1>6. \A lot \in Lots : Used(lot) = 0
    BY UsedInit
<1>7. LotsMatchLinks
    BY <1>6 DEF LotsMatchLinks, Init
<1>8. DriftIsUntracked
    <2> SUFFICES ASSUME NEW p \in Products
                 PROVE  SumFunctionOnSet(RecordDrift(p), Locations)
                        = SumFunctionOnSet(LotDrift(p), Lots)
                          + SumFunctionOnSet([r \in Requests |-> Untracked(p, r)], Requests)
        BY DEF DriftIsUntracked
    <2>1. SumFunctionOnSet(RecordDrift(p), Locations) = 0
        <3>1. \A l \in Locations : <<p, l>> \in StockRecord
            BY DEF StockRecord
        <3>2. \A l \in Locations : RecordDrift(p)[l] = 0
            BY <3>1 DEF RecordDrift, Init
        <3> QED BY <3>2, SumZero
    <2>2. SumFunctionOnSet(LotDrift(p), Lots) = 0
        <3>1. \A lot \in Lots : LotDrift(p)[lot] = 0
            BY DEF LotDrift, Init
        <3> QED BY <3>1, SumZero
    <2>3. SumFunctionOnSet([r \in Requests |-> Untracked(p, r)], Requests) = 0
        <3> DEFINE f == [r \in Requests |-> Untracked(p, r)]
        <3>1. \A r \in Requests : f[r] = 0
            BY <1>2 DEF Untracked, Done
        <3> HIDE DEF f
        <3>2. SumFunctionOnSet(f, Requests) = 0
            BY <3>1, SumZero
        <3> QED BY <3>2 DEF f
    <2> QED BY <2>1, <2>2, <2>3
<1>9. \A rec \in StockRecord : quantity[rec] >= 0
    BY DEF Init
<1> QED
    BY <1>1, <1>4, <1>5, <1>7, <1>8, <1>9 DEF LotsInv

LEMMA LotsInvUnchanged == LotsInv /\ UNCHANGED lotVars => LotsInv'
<1> SUFFICES ASSUME LotsInv, UNCHANGED lotVars PROVE LotsInv'
    OBVIOUS
<1>1. TypeOK /\ TablesInv /\ \A v \in Requests : RequestInv(v) /\ Drained(v)
    BY LotsInvParts
<1>2. UNCHANGED <<quantity, inflow, outflow, received, remaining, links, pc, call, lock, queue, need, plan>>
    BY DEF lotVars
<1>3. TypeOK'
    BY <1>1, <1>2 DEF TypeOK
<1>4. TablesInv'
    BY <1>1, <1>2, TablesKept DEF dataVars
<1>5. \A v \in Requests : RequestInv(v)' /\ Drained(v)'
    BY <1>1, <1>2, OtherRequests
<1> QED
    BY <1>3, <1>4, <1>5 DEF LotsInv, TablesInv, DrainedInOrder, Drained

LEMMA StepLotsInv == LotsInv /\ [Next]_lotVars => LotsInv'
<1> SUFFICES ASSUME LotsInv, [Next]_lotVars PROVE LotsInv'
    OBVIOUS
<1>1. ASSUME NEW r \in Requests, Begin(r) \/ Reject(r) PROVE LotsInv'
    BY <1>1, BeginInv
<1>2. ASSUME NEW r \in Requests, LockSource(r) \/ LockDest(r) PROVE LotsInv'
    BY <1>2, LockRecordInv
<1>3. ASSUME NEW r \in Requests, Select(r) PROVE LotsInv'
    BY <1>3, SelectInv
<1>4. ASSUME NEW r \in Requests, LockLot(r) PROVE LotsInv'
    BY <1>4, LockLotInv
<1>5. ASSUME NEW r \in Requests, LotsFound(r) PROVE LotsInv'
    BY <1>5, LotsFoundInv
<1>6. ASSUME NEW r \in Requests, PutInLot(r) PROVE LotsInv'
    BY <1>6, PutInLotInv
<1>7. ASSUME NEW r \in Requests, Commit(r) PROVE LotsInv'
    BY <1>7, CommitInv
<1>8. ASSUME NEW r \in Requests,
             \/ RefuseSource(r) \/ RefuseSelect(r) \/ RefuseLots(r) \/ RefuseDuplicate(r)
             \/ Crash(r) \/ DeadlockVictim(r)
      PROVE  LotsInv'
    <2>1. TypeOK /\ RequestInv(r)
        BY LotsInvParts
    <2>2. pc[r] \in InTransaction /\ \E outcome \in {"refused", "aborted"} : Rollback(r, outcome)
        BY <1>8, <2>1, RollbackSteps
    <2> QED BY <2>2, RollbackInv
<1>9. CASE UNCHANGED lotVars
    BY <1>9, LotsInvUnchanged
<1>10. CASE Next
    BY <1>1, <1>2, <1>3, <1>4, <1>5, <1>6, <1>7, <1>8, <1>9, <1>10 DEF Next, Step, Terminated
<1> QED
    BY <1>9, <1>10

(* Every reachable state of the concurrent lot movements satisfies LotsInv   *)
(* (process_movement_with_lots and what it calls).                           *)
THEOREM LotsInvariant == Spec => []LotsInv
<1>1. Init => LotsInv
    BY InitLotsInv
<1>2. LotsInv /\ [Next]_lotVars => LotsInv'
    BY StepLotsInv
<1> QED
    BY <1>1, <1>2, PTL DEF Spec

(* The StockMovementLot rows explain every lot, and no lot goes below zero   *)
(* (_lot_receive, _lot_allocate_and_decrement, _lot_adjustment).             *)
THEOREM LotsExplained == Spec => []LotsMatchLinks
<1>1. LotsInv => LotsMatchLinks
    BY DEF LotsInv
<1> QED
    BY <1>1, LotsInvariant, PTL

(* A committed lot-aware movement is linked to lots for all its units        *)
(* (_allocate_from_lots).                                                    *)
THEOREM LineageKept == Spec => []LineageComplete
<1>1. LotsInv => LineageComplete
    BY DEF LotsInv
<1> QED
    BY <1>1, LotsInvariant, PTL

(* FIFO and LIFO drain a lot before they touch the next, whatever other      *)
(* requests commit between the query and the locks (_allocate_from_lots).    *)
THEOREM OrderKept == Spec => []DrainedInOrder
<1>1. LotsInv => DrainedInOrder
    BY DEF LotsInv
<1> QED
    BY <1>1, LotsInvariant, PTL

(* Records and lots drift apart by the movements that bypassed the lots, and *)
(* by nothing else (_process_lot_operations).                                *)
THEOREM DriftExplained == Spec => []DriftIsUntracked
<1>1. LotsInv => DriftIsUntracked
    BY DEF LotsInv
<1> QED
    BY <1>1, LotsInvariant, PTL

-----------------------------------------------------------------------------
(* The refinement: every step is a step of the atomic lot ledger, or leaves  *)
(* what the ledger shows alone.                                              *)

(* The ledger speaks of the same records, movements and sums. *)
LEMMA LedgerSpeaks ==
    /\ Ledger!StockRecord = StockRecord /\ Ledger!Movement = Movement
    /\ \A m : /\ Ledger!HasSource(m) <=> HasSource(m)
              /\ Ledger!HasDest(m) <=> HasDest(m)
              /\ Ledger!Source(m) = Source(m) /\ Ledger!Dest(m) = Dest(m)
              /\ Ledger!ValidMovement(m) <=> ValidMovement(m)
              /\ \A rec : /\ Ledger!Outgoing(m, rec) = Outgoing(m, rec)
                          /\ Ledger!Incoming(m, rec) = Incoming(m, rec)
    /\ \A f : Ledger!SumFunctionOnSet(f, Lots) = SumFunctionOnSet(f, Lots)
<1>1. Ledger!StockRecord = StockRecord /\ Ledger!Movement = Movement
    BY DEF Ledger!StockRecord, StockRecord, Ledger!Movement, Movement,
           Ledger!MovementType, MovementType
<1>2. ASSUME NEW m
      PROVE  /\ Ledger!HasSource(m) <=> HasSource(m)
             /\ Ledger!HasDest(m) <=> HasDest(m)
             /\ Ledger!Source(m) = Source(m) /\ Ledger!Dest(m) = Dest(m)
    BY DEF Ledger!HasSource, HasSource, Ledger!HasDest, HasDest,
           Ledger!Source, Source, Ledger!Dest, Dest
<1>3. ASSUME NEW m PROVE Ledger!ValidMovement(m) <=> ValidMovement(m)
    BY <1>2 DEF Ledger!ValidMovement, ValidMovement, Ledger!Clean, Clean,
                Ledger!SameTenant, SameTenant, Ledger!SameScope, SameScope
<1>4. ASSUME NEW m, NEW rec
      PROVE  /\ Ledger!Outgoing(m, rec) = Outgoing(m, rec)
             /\ Ledger!Incoming(m, rec) = Incoming(m, rec)
    BY <1>2 DEF Ledger!Outgoing, Outgoing, Ledger!Incoming, Incoming
<1>5. ASSUME NEW f PROVE Ledger!SumFunctionOnSet(f, Lots) = SumFunctionOnSet(f, Lots)
    BY DEF Ledger!SumFunctionOnSet, Ledger!FoldFunctionOnSet, Ledger!MapThenFoldSet,
           SumFunctionOnSet, FoldFunctionOnSet, MapThenFoldSet
<1> QED
    BY <1>1, <1>2, <1>3, <1>4, <1>5

(* No step but a commit commits. *)
LEMMA OnlyCommitCommits ==
    ASSUME TypeOK, [Next]_lotVars, \A v \in Requests : RequestInv(v),
           \A r \in Requests : ~Commit(r)
    PROVE  /\ UNCHANGED dataVars
           /\ \A v \in Requests : /\ pc'[v] = "committed" <=> pc[v] = "committed"
                                  /\ pc[v] = "committed" => call'[v] = call[v]
<1> DEFINE Kept == /\ UNCHANGED dataVars
                   /\ \A v \in Requests : /\ pc'[v] = "committed" <=> pc[v] = "committed"
                                          /\ pc[v] = "committed" => call'[v] = call[v]
<1>1. ASSUME NEW r \in Requests, NEW step, pc[r] # "committed", step # "committed",
             pc' = [pc EXCEPT ![r] = step], UNCHANGED dataVars,
             \A v \in Requests : v # r => call'[v] = call[v]
      PROVE  Kept
    BY <1>1 DEF TypeOK
<1>2. ASSUME NEW r \in Requests, Begin(r) \/ Reject(r) PROVE Kept
    <2>1. pc[r] = "idle" /\ UNCHANGED dataVars /\ \A v \in Requests : v # r => call'[v] = call[v]
        BY <1>2 DEF Begin, Reject, TypeOK
    <2>2. \E step : step # "committed" /\ pc' = [pc EXCEPT ![r] = step]
        <3>1. CASE Reject(r)
            BY <3>1 DEF Reject, Goto
        <3>2. CASE Begin(r)
            <4>1. PICK c \in Calls : pc' = [pc EXCEPT ![r] = IF HasSource(c.move) THEN "source" ELSE "dest"]
                BY <3>2 DEF Begin, Goto
            <4>2. (IF HasSource(c.move) THEN "source" ELSE "dest") # "committed"
                OBVIOUS
            <4> QED BY <4>1, <4>2
        <3> QED BY <1>2, <3>1, <3>2
    <2> HIDE DEF Kept
    <2> QED BY <1>1, <2>1, <2>2
<1>3. ASSUME NEW r \in Requests,
             \/ LockSource(r) \/ LockDest(r) \/ Select(r) \/ LotsFound(r) \/ PutInLot(r)
      PROVE  Kept
    <2>1. pc[r] # "committed" /\ UNCHANGED <<dataVars, call>>
        BY <1>3 DEF LockSource, LockDest, Select, LotsFound, PutInLot
    <2>2. \A c : AfterSource(c) # "committed" /\ AfterRecords(c) # "committed" /\ AfterTaking(c) # "committed"
        BY DEF AfterSource, AfterRecords, AfterTaking
    <2>3. \E step : step # "committed" /\ pc' = [pc EXCEPT ![r] = step]
        BY <1>3, <2>2 DEF LockSource, LockDest, Select, LotsFound, PutInLot, Goto
    <2> HIDE DEF Kept
    <2> QED BY <1>1, <2>1, <2>3
<1>4. ASSUME NEW r \in Requests, LockLot(r) PROVE Kept
    BY <1>4 DEF LockLot
<1>5. ASSUME NEW r \in Requests,
             \/ RefuseSource(r) \/ RefuseSelect(r) \/ RefuseLots(r) \/ RefuseDuplicate(r)
             \/ Crash(r) \/ DeadlockVictim(r)
      PROVE  Kept
    <2>1. pc[r] \in InTransaction /\ \E outcome \in {"refused", "aborted"} : Rollback(r, outcome)
        BY <1>5, RollbackSteps
    <2>2. UNCHANGED <<dataVars, call>> /\ \E step : step # "committed" /\ pc' = [pc EXCEPT ![r] = step]
        BY <2>1 DEF Rollback, End, Goto
    <2>3. pc[r] # "committed"
        BY <2>1 DEF InTransaction
    <2> HIDE DEF Kept
    <2> QED BY <1>1, <2>2, <2>3
<1>6. CASE UNCHANGED lotVars
    BY <1>6 DEF lotVars, dataVars
<1>7. ASSUME \E r \in Requests : Begin(r) \/ Reject(r) \/ Step(r) \/ Crash(r) PROVE Kept
    <2>1. PICK r \in Requests : (Begin(r) \/ Reject(r) \/ Step(r) \/ Crash(r)) /\ ~Commit(r)
        BY <1>7
    <2> HIDE DEF Kept
    <2> QED BY <1>2, <1>3, <1>4, <1>5, <2>1 DEF Step
<1> QED
    BY <1>6, <1>7 DEF Next, Terminated

LEMMA CommitIsLotLedger ==
    ASSUME LotsInv, NEW r \in Requests, Commit(r)
    PROVE  Ledger!LotLedgerNext
<1>1. TypeOK /\ TablesInv /\ RequestInv(r) /\ pc[r] = "commit"
    BY LotsInvParts DEF Commit
<1>2. PICK c \in Calls :
          /\ c = call[r] /\ call' = call /\ Move(r) = c.move /\ ValidMovement(c.move)
          /\ plan[r] \in [Lots -> Nat]
          /\ IF TakesLots(c)
             THEN /\ SumFunctionOnSet(plan[r], Lots) = c.move.quantity
                  /\ \A lot \in Lots : /\ plan[r][lot] <= remaining[lot]
                                       /\ plan[r][lot] > 0 => LotProduct[lot] = c.move.product
             ELSE \A lot \in Lots : plan[r][lot] = 0
          /\ \A lot \in Lots : Added(r, lot) = IF PutsLot(c) /\ lot = c.lot THEN c.move.quantity ELSE 0
    BY CommitIs
<1> DEFINE m == c.move
           u == [lot \in Lots |-> Used(lot)]
           v == [lot \in Lots |-> Used(lot)']
<1>3. m \in Ledger!Movement /\ m.quantity \in Nat
    BY CallTypes, LedgerSpeaks
<1>4. Ledger!Post(m)
    <2>1. HasSource(m) => quantity[Source(m)] >= m.quantity
        BY <1>1, <1>2 DEF RequestInv, LockInv, AfterSelect
    <2>2. /\ quantity' = [rec \in StockRecord |->
                             quantity[rec] - Outgoing(m, rec) + Incoming(m, rec)]
          /\ inflow' = [rec \in StockRecord |-> inflow[rec] + Incoming(m, rec)]
          /\ outflow' = [rec \in StockRecord |-> outflow[rec] + Outgoing(m, rec)]
        BY <1>2 DEF Commit
    <2>3. ValidMovement(m)
        BY <1>2
    <2> HIDE DEF m
    <2>4. Ledger!ValidMovement(m)
        BY <2>3, LedgerSpeaks
    <2>5. Ledger!HasSource(m) => quantity[Ledger!Source(m)] >= m.quantity
        BY <2>1, LedgerSpeaks
    <2>6. /\ quantity' = [rec \in Ledger!StockRecord |->
                             quantity[rec] - Ledger!Outgoing(m, rec) + Ledger!Incoming(m, rec)]
          /\ inflow' = [rec \in Ledger!StockRecord |-> inflow[rec] + Ledger!Incoming(m, rec)]
          /\ outflow' = [rec \in Ledger!StockRecord |-> outflow[rec] + Ledger!Outgoing(m, rec)]
        BY <2>2, LedgerSpeaks, Zenon
    <2> QED BY <2>4, <2>5, <2>6 DEF Ledger!Post
<1>5. \A lot \in Lots : /\ Used(lot)' = Used(lot) + Drawn(r, lot) /\ Used(lot) \in Int
                       /\ Drawn(r, lot) \in Nat
    BY CommitUsed
<1>6. CASE UsesLots(c)
    <2>1. Ledger!Consumes(m) <=> ConsumesLots(c)
        BY <1>6, LedgerSpeaks DEF Ledger!Consumes, ConsumesLots, TakesLots
    <2>2. Ledger!Consume(m)
        <3>1. CASE ConsumesLots(c)
            <4>1. TakesLots(c)
                BY <3>1 DEF ConsumesLots
            <4>2. plan[r] \in Ledger!Plans(m)
                <5>1. \A lot \in Lots : plan[r][lot] <= SumFunctionOnSet(plan[r], Lots)
                    BY <1>2, SumNat
                <5>2. \A lot \in Lots : plan[r][lot] \in 0..m.quantity
                    BY <1>2, <1>3, <4>1, <5>1
                <5> QED BY <1>2, <5>2 DEF Ledger!Plans
            <4>3. Ledger!PlanCovers(m, plan[r])
                <5>1. \A lot \in Lots : remaining[lot] = received[lot] - u[lot]
                    BY <1>1 DEF TablesInv, LotsMatchLinks
                <5>2. Ledger!SumFunctionOnSet(plan[r], Lots) = m.quantity
                    BY <1>2, <4>1, LedgerSpeaks
                <5> QED BY <1>2, <4>1, <5>1, <5>2 DEF Ledger!PlanCovers
            <4>4. v = [lot \in Lots |-> u[lot] + plan[r][lot]]
                BY <1>2, <1>5, <3>1 DEF Drawn
            <4> QED BY <2>1, <3>1, <4>2, <4>3, <4>4 DEF Ledger!Consume
        <3>2. CASE ~ConsumesLots(c)
            <4>1. \A lot \in Lots : Used(lot)' = Used(lot)
                BY <1>2, <1>5, <3>2 DEF Drawn
            <4> QED BY <2>1, <3>2, <4>1 DEF Ledger!Consume
        <3> QED BY <3>1, <3>2
    <2>3. Ledger!Supply(m)
        <3>1. received' = [lot \in Lots |-> received[lot] + Added(r, lot)]
              /\ received \in [Lots -> Nat]
            BY <1>1 DEF Commit, TypeOK
        <3>2. CASE PutsLot(c)
            <4>1. c.lot \in Lots /\ LotProduct[c.lot] = m.product
                BY <3>2, CallTypes DEF PutsLot
            <4>2. Ledger!Supplies(m)
                BY <3>2, LedgerSpeaks DEF Ledger!Supplies, PutsLot
            <4>3. /\ Added(r, c.lot) = m.quantity
                  /\ \A lot \in Lots : lot # c.lot => Added(r, lot) = 0
                BY <1>2, <3>2, <4>1
            <4>4. \A lot \in Lots : lot # c.lot => received[lot] + Added(r, lot) = received[lot]
                BY <3>1, <4>3
            <4>5. received' = [received EXCEPT ![c.lot] = @ + m.quantity]
                BY <3>1, <4>1, <4>3, <4>4
            <4> QED BY <4>1, <4>2, <4>5 DEF Ledger!Supply
        <3>3. CASE ~PutsLot(c)
            <4>1. received' = received
                BY <1>2, <3>1, <3>3
            <4> QED BY <4>1 DEF Ledger!Supply
        <3> QED BY <3>2, <3>3
    <2> QED BY <1>3, <1>4, <2>2, <2>3 DEF Ledger!LotLedgerNext, Ledger!PostWithLots
<1>7. CASE ~UsesLots(c)
    <2>1. ~ConsumesLots(c) /\ ~PutsLot(c)
        BY <1>7 DEF ConsumesLots, TakesLots, PutsLot
    <2>2. v = u
        <3>1. \A lot \in Lots : Drawn(r, lot) = 0
            BY <1>2, <2>1 DEF Drawn
        <3>2. \A lot \in Lots : Used(lot)' = Used(lot)
            BY <1>5, <3>1
        <3> QED BY <3>2
    <2>3. received' = received
        <3>1. received' = [lot \in Lots |-> received[lot] + Added(r, lot)]
              /\ received \in [Lots -> Nat]
            BY <1>1 DEF Commit, TypeOK
        <3>2. \A lot \in Lots : Added(r, lot) = 0
            BY <1>2, <2>1
        <3> QED BY <3>1, <3>2
    <2> QED BY <1>3, <1>4, <2>2, <2>3 DEF Ledger!LotLedgerNext, Ledger!PostPlain
<1> QED
    BY <1>6, <1>7

LEMMA InitIsLotLedger == Init => Ledger!LotLedgerInit
<1> SUFFICES ASSUME Init PROVE Ledger!LotLedgerInit
    OBVIOUS
<1>1. Ledger!LedgerInit
    <2>1. Ledger!StockRecord = StockRecord
        BY LedgerSpeaks
    <2> QED BY <2>1 DEF Init, Ledger!LedgerInit
<1>2. [lot \in Lots |-> Used(lot)] = [lot \in Lots |-> 0]
    BY UsedInit
<1> QED
    BY <1>1, <1>2 DEF Init, Ledger!LotLedgerInit

LEMMA StepIsLotLedger ==
    LotsInv /\ [Next]_lotVars => [Ledger!LotLedgerNext]_(Ledger!lotLedgerVars)
<1> SUFFICES ASSUME LotsInv, [Next]_lotVars PROVE [Ledger!LotLedgerNext]_(Ledger!lotLedgerVars)
    OBVIOUS
<1>1. CASE \E r \in Requests : Commit(r)
    BY <1>1, CommitIsLotLedger
<1>2. CASE \A r \in Requests : ~Commit(r)
    <2>1. TypeOK /\ \A v \in Requests : RequestInv(v)
        BY LotsInvParts
    <2>2. /\ UNCHANGED dataVars
          /\ \A v \in Requests : /\ pc'[v] = "committed" <=> pc[v] = "committed"
                                 /\ pc[v] = "committed" => call'[v] = call[v]
        BY <1>2, <2>1, OnlyCommitCommits
    <2>3. \A lot \in Lots : Used(lot)' = Used(lot)
        BY <2>2, UsedKept
    <2>4. UNCHANGED <<quantity, inflow, outflow, received>>
        BY <2>2 DEF dataVars
    <2>5. [lot \in Lots |-> Used(lot)]' = [lot \in Lots |-> Used(lot)]
        BY <2>3
    <2> QED BY <2>4, <2>5 DEF Ledger!lotLedgerVars
<1> QED
    BY <1>1, <1>2

(* The concurrent requests implement the lot ledger: a committed movement    *)
(* posts both records and draws its units from lots that hold them in one    *)
(* step, whatever the interleaving (process_movement_with_lots).             *)
THEOREM LotLedgerImplemented == Spec => ImplementsLotLedger
<1>1. Init => Ledger!LotLedgerInit
    BY InitIsLotLedger
<1>2. LotsInv /\ [Next]_lotVars => [Ledger!LotLedgerNext]_(Ledger!lotLedgerVars)
    BY StepIsLotLedger
<1> QED
    BY <1>1, <1>2, LotsInvariant, PTL DEF Spec, ImplementsLotLedger, Ledger!LotLedgerSpec

-----------------------------------------------------------------------------
(* The trace of a lot.                                                       *)

(* What a committed call put in a lot. *)
AddedBy(v, lot) == IF Done(v) THEN Added(v, lot) ELSE 0

ReceivedBy(lot) == SumFunctionOnSet([v \in Requests |-> AddedBy(v, lot)], Requests)

(* Receipts explain quantity_received, and a link says what its movement put *)
(* in the lot or took from it.                                               *)
LinksInv ==
    \A lot \in Lots :
        /\ received[lot] = LotOpening[lot] + ReceivedBy(lot)
        /\ \A v \in Requests : Done(v) =>
              /\ links[v][lot] >= Added(v, lot)
              /\ ~TakesLots(call[v]) => links[v][lot] = Added(v, lot)

LEMMA AddedByNat ==
    ASSUME LotsInv, NEW lot \in Lots
    PROVE  /\ \A v \in Requests : AddedBy(v, lot) \in Nat
           /\ ReceivedBy(lot) \in Nat
<1> DEFINE f == [v \in Requests |-> AddedBy(v, lot)]
<1>1. TypeOK /\ \A v \in Requests : RequestInv(v)
    BY LotsInvParts
<1>2. \A v \in Requests : AddedBy(v, lot) \in Nat
    BY <1>1, AddedTypes DEF AddedBy
<1>3. \A v \in Requests : f[v] \in Nat
    BY <1>2
<1> HIDE DEF f
<1>4. SumFunctionOnSet(f, Requests) \in Nat
    BY <1>3, SumNat
<1> QED BY <1>2, <1>4 DEF f, ReceivedBy

LEMMA InitLinks == Init => LinksInv
<1> SUFFICES ASSUME Init, NEW lot \in Lots PROVE received[lot] = LotOpening[lot] + ReceivedBy(lot)
    BY DEF LinksInv, Init, Done
<1> DEFINE f == [v \in Requests |-> AddedBy(v, lot)]
<1>1. \A v \in Requests : f[v] = 0
    BY DEF Init, AddedBy, Done
<1> HIDE DEF f
<1>2. SumFunctionOnSet(f, Requests) = 0
    BY <1>1, SumZero
<1> QED BY <1>2 DEF f, ReceivedBy, Init

LEMMA LinksKept ==
    ASSUME LinksInv, UNCHANGED dataVars,
           \A v \in Requests : /\ pc'[v] = "committed" <=> pc[v] = "committed"
                               /\ pc[v] = "committed" => call'[v] = call[v]
    PROVE  LinksInv'
<1>1. UNCHANGED <<received, links>> /\ \A v \in Requests : Done(v)' <=> Done(v)
    BY DEF Done, dataVars
<1>2. ASSUME NEW v \in Requests, NEW lot \in Lots, Done(v)
      PROVE  Added(v, lot)' = Added(v, lot) /\ call'[v] = call[v]
    BY <1>2 DEF Added, Move, Done
<1>3. ASSUME NEW lot \in Lots PROVE ReceivedBy(lot)' = ReceivedBy(lot)
    <2>1. \A v \in Requests : AddedBy(v, lot)' = AddedBy(v, lot)
        BY <1>1, <1>2 DEF AddedBy
    <2> QED BY <2>1 DEF ReceivedBy
<1> QED BY <1>1, <1>2, <1>3 DEF LinksInv

LEMMA CommitLinks ==
    ASSUME LotsInv, LotsInv', LinksInv, NEW r \in Requests, Commit(r)
    PROVE  LinksInv'
<1>1. TypeOK /\ \A v \in Requests : RequestInv(v)
    BY LotsInvParts
<1>2. PICK c \in Calls :
          /\ c = call[r] /\ call' = call /\ Move(r) = c.move
          /\ pc[r] # "committed" /\ pc'[r] = "committed"
          /\ \A v \in Requests : v # r => pc'[v] = pc[v]
          /\ plan[r] \in [Lots -> Nat]
          /\ \A x \in Lots : links'[r][x] = plan[r][x] + Added(r, x)
          /\ \A v \in Requests : v # r => links'[v] = links[v]
          /\ ~TakesLots(c) => \A x \in Lots : plan[r][x] = 0
    BY CommitIs
<1>3. \A v \in Requests, lot \in Lots : Added(v, lot)' = Added(v, lot)
    BY <1>2 DEF Added, Move
<1>4. \A lot \in Lots : Added(r, lot) \in Nat
    BY <1>2, CallTypes DEF Added
<1>5. ASSUME NEW lot \in Lots
      PROVE  received'[lot] = LotOpening[lot] + ReceivedBy(lot)'
    <2> DEFINE f == [v \in Requests |-> AddedBy(v, lot)]
               g == [v \in Requests |-> AddedBy(v, lot)']
    <2>1. \A v \in Requests : v # r => f[v] = g[v]
        BY <1>2, <1>3 DEF AddedBy, Done
    <2>2. f[r] = 0 /\ g[r] = Added(r, lot)
        BY <1>2, <1>3 DEF AddedBy, Done
    <2>3. \A v \in Requests : f[v] \in Int
        BY AddedByNat
    <2>4. ReceivedBy(lot) = SumFunctionOnSet(f, Requests) /\ ReceivedBy(lot)' = SumFunctionOnSet(g, Requests)
        BY DEF ReceivedBy
    <2> HIDE DEF f, g
    <2>5. \A v \in Requests : f[v] \in Int /\ g[v] \in Int
        BY <1>4, <2>1, <2>2, <2>3
    <2>6. SumFunctionOnSet(g, Requests) = SumFunctionOnSet(f, Requests) + g[r] - f[r]
        BY <2>1, <2>5, SumUpdate
    <2>7. SumFunctionOnSet(f, Requests) \in Int
        BY <2>5, SumInt
    <2>8. received'[lot] = received[lot] + Added(r, lot)
        BY DEF Commit
    <2>9. received[lot] = LotOpening[lot] + SumFunctionOnSet(f, Requests) /\ LotOpening[lot] \in Nat
        BY <2>4 DEF LinksInv
    <2> QED BY <1>4, <2>2, <2>4, <2>6, <2>7, <2>8, <2>9
<1>6. ASSUME NEW v \in Requests, NEW lot \in Lots, Done(v)'
      PROVE  /\ links'[v][lot] >= Added(v, lot)'
             /\ ~TakesLots(call'[v]) => links'[v][lot] = Added(v, lot)'
    <2>1. CASE v = r
        <3>1. plan[r][lot] \in Nat /\ links'[r][lot] = plan[r][lot] + Added(r, lot)
            BY <1>2
        <3>2. links'[r][lot] >= Added(r, lot)
            BY <1>4, <3>1
        <3>3. ~TakesLots(call'[r]) => links'[r][lot] = Added(r, lot)
            <4>1. ~TakesLots(c) => plan[r][lot] = 0
                BY <1>2
            <4>2. plan[r][lot] = 0 => links'[r][lot] = Added(r, lot)
                BY <1>4, <3>1
            <4> QED BY <1>2, <4>1, <4>2
        <3> QED BY <1>3, <2>1, <3>2, <3>3
    <2>2. CASE v # r
        <3>1. Done(v) /\ links'[v] = links[v] /\ call'[v] = call[v]
            BY <1>2, <1>6, <2>2 DEF Done
        <3> QED BY <1>3, <3>1 DEF LinksInv
    <2> QED BY <2>1, <2>2
<1> QED BY <1>5, <1>6 DEF LinksInv

LEMMA StepLinks == LotsInv /\ LotsInv' /\ LinksInv /\ [Next]_lotVars => LinksInv'
<1> SUFFICES ASSUME LotsInv, LotsInv', LinksInv, [Next]_lotVars PROVE LinksInv'
    OBVIOUS
<1>1. TypeOK /\ \A v \in Requests : RequestInv(v)
    BY LotsInvParts
<1>2. CASE \E r \in Requests : Commit(r)
    BY <1>2, CommitLinks
<1>3. CASE \A r \in Requests : ~Commit(r)
    BY <1>1, <1>3, OnlyCommitCommits, LinksKept
<1> QED BY <1>2, <1>3

THEOREM LinksInvariant == Spec => []LinksInv
<1>1. Init => LinksInv
    BY InitLinks
<1>2. LotsInv /\ LotsInv' /\ LinksInv /\ [Next]_lotVars => LinksInv'
    BY StepLinks
<1> QED
    BY <1>1, <1>2, LotsInvariant, PTL DEF Spec

-----------------------------------------------------------------------------
(* What the reports of LotReports say in a state of the two invariants.      *)

LEMMA EntryIs ==
    ASSUME NEW r, NEW k
    PROVE  /\ ChainEntry(r, k).id = r /\ ChainEntry(r, k).action = Move(r).type
           /\ ChainEntry(r, k).quantity = k
BY DEF ChainEntry

(* The links of one type of movement to a lot. *)
Typed(r, lot, type) ==
    IF r \in Linked(lot) /\ Move(r).type = type THEN links[r][lot] ELSE 0

Chain(lot) == {ChainEntry(r, links[r][lot]) : r \in Linked(lot)}

(* The entries of a type in the chain add up as its links do. *)
LEMMA ChainUnits ==
    ASSUME LotsInv, NEW lot \in Lots, NEW type
    PROVE  UnitsOf(Chain(lot), type)
               = SumFunctionOnSet([r \in Requests |-> Typed(r, lot, type)], Requests)
<1> DEFINE T == {r \in Linked(lot) : Move(r).type = type}
           e == [r \in Requests |-> ChainEntry(r, links[r][lot])]
           f == [r \in Requests |-> Typed(r, lot, type)]
           g == [x \in Chain(lot) |-> x.quantity]
           part == {x \in Chain(lot) : x.action = type}
<1>1. links \in [Requests -> [Lots -> Nat]]
    BY LotsInvParts DEF TypeOK
<1>2. T \in SUBSET Requests /\ IsFiniteSet(T)
    <2>1. T \in SUBSET Requests
        BY DEF Linked
    <2> QED BY <2>1, FS_Subset
<1>3. \A r \in Requests : e[r].id = r
    BY EntryIs
<1>4. \A r, s \in T : r # s => e[r] # e[s]
    BY <1>2, <1>3
<1>5. \A r \in T : e[r] \in Chain(lot) /\ g[e[r]] = f[r] /\ f[r] = links[r][lot] /\ f[r] \in Int
    <2> SUFFICES ASSUME NEW r \in T
                 PROVE  e[r] \in Chain(lot) /\ g[e[r]] = f[r] /\ f[r] = links[r][lot] /\ f[r] \in Int
        OBVIOUS
    <2>1. r \in Requests /\ r \in Linked(lot) /\ Move(r).type = type
        BY <1>2
    <2>2. e[r] = ChainEntry(r, links[r][lot]) /\ e[r] \in Chain(lot)
        BY <2>1 DEF Chain
    <2>3. g[e[r]] = links[r][lot]
        BY <2>2, EntryIs
    <2>4. f[r] = links[r][lot]
        BY <2>1 DEF Typed
    <2> QED BY <1>1, <2>1, <2>2, <2>3, <2>4
<1>6. part = Renamed(e, T)
    <2>1. ASSUME NEW x \in part PROVE x \in Renamed(e, T)
        <3>1. PICK r \in Linked(lot) : x = ChainEntry(r, links[r][lot])
            BY DEF Chain
        <3>2. r \in T /\ x = e[r]
            BY <1>2, <3>1, EntryIs DEF Linked
        <3> QED BY <3>2 DEF Renamed
    <2>2. ASSUME NEW x \in Renamed(e, T) PROVE x \in part
        <3>1. PICK r \in T : x = e[r]
            BY DEF Renamed
        <3>2. x = ChainEntry(r, links[r][lot]) /\ Move(r).type = type
            BY <1>2, <3>1
        <3>3. x.action = type
            BY <3>2, EntryIs
        <3>4. x \in Chain(lot)
            BY <1>5, <3>1
        <3> QED BY <3>3, <3>4
    <2> QED BY <2>1, <2>2
<1>7. \A r \in Requests \ T : f[r] = 0
    BY DEF Typed
<1>8. UnitsOf(Chain(lot), type) = SumFunctionOnSet(g, part)
    BY DEF UnitsOf
<1> HIDE DEF T, e, f, g, part
<1>9. SumFunctionOnSet(f, T) = SumFunctionOnSet(g, Renamed(e, T))
    BY <1>2, <1>4, <1>5, SumRenamed
<1>10. SumFunctionOnSet(f, T) = SumFunctionOnSet(f, Requests)
    BY <1>2, <1>5, <1>7, SumPart
<1> QED BY <1>6, <1>8, <1>9, <1>10 DEF f

(* What a movement that is no adjustment put in a lot and used of it is in   *)
(* its link.                                                                 *)
LEMMA LinkTells ==
    ASSUME LotsInv, LinksInv, NEW lot \in Lots, NEW r \in Requests,
           Typed(r, lot, "adjustment") = 0
    PROVE  /\ AddedBy(r, lot) = Typed(r, lot, "receive")
           /\ UsedBy(r, lot) = Typed(r, lot, "issue")
<1> DEFINE c == call[r]
           n == links[r][lot]
<1>1. TypeOK /\ RequestInv(r) /\ n \in Nat
    BY LotsInvParts DEF TypeOK
<1>2. CASE ~Done(r)
    BY <1>2 DEF AddedBy, UsedBy, Typed, Linked
<1>3. CASE Done(r)
    <2>1. c \in Calls /\ Added(r, lot) \in Nat
        BY <1>1, <1>3, AddedTypes
    <2>2. Clean(c.move)
        BY <1>1, <1>3 DEF RequestInv, CallInv, Done, ValidMovement
    <2>3. n >= Added(r, lot) /\ (~TakesLots(c) => n = Added(r, lot))
        BY <1>3 DEF LinksInv
    <2>4. r \in Linked(lot) <=> n > 0
        BY <1>3 DEF Linked
    <2>5. c.move = Move(r)
        BY DEF Move
    <2>6. AddedBy(r, lot) = Added(r, lot)
        BY <1>3 DEF AddedBy
    <2>7. UsedBy(r, lot) = IF ConsumesLots(c) THEN n - Added(r, lot) ELSE 0
        BY <1>3 DEF UsedBy
    <2>8. \A type \in MovementType :
              Typed(r, lot, type) = IF Move(r).type = type THEN n ELSE 0
        BY <1>1, <2>4 DEF Typed
    <2>9. CASE c.move.type = "receive"
        <3>1. ~TakesLots(c) /\ ~ConsumesLots(c)
            BY <2>2, <2>9 DEF Clean, TakesLots, ConsumesLots
        <3>2. n = Added(r, lot) /\ UsedBy(r, lot) = 0
            BY <2>3, <2>7, <3>1
        <3>3. Typed(r, lot, "receive") = n /\ Typed(r, lot, "issue") = 0
            BY <2>5, <2>8, <2>9 DEF MovementType
        <3> QED BY <2>6, <3>2, <3>3
    <2>10. CASE c.move.type = "issue"
        <3>1. Added(r, lot) = 0
            BY <2>2, <2>10 DEF Clean, Added, PutsLot
        <3>2. ConsumesLots(c) <=> TakesLots(c)
            BY <2>10 DEF ConsumesLots
        <3>3. Typed(r, lot, "receive") = 0 /\ Typed(r, lot, "issue") = n
            BY <2>5, <2>8, <2>10 DEF MovementType
        <3>4. CASE TakesLots(c)
            BY <1>1, <2>6, <2>7, <3>1, <3>2, <3>3, <3>4
        <3>5. CASE ~TakesLots(c)
            BY <2>3, <2>6, <2>7, <3>1, <3>2, <3>3, <3>5
        <3> QED BY <3>4, <3>5
    <2>11. CASE c.move.type = "transfer"
        <3>1. Added(r, lot) = 0
            BY <2>11 DEF Added, PutsLot
        <3>2. ~ConsumesLots(c)
            BY <2>11 DEF ConsumesLots
        <3>3. Typed(r, lot, "receive") = 0 /\ Typed(r, lot, "issue") = 0
            BY <2>5, <2>8, <2>11 DEF MovementType
        <3> QED BY <2>6, <2>7, <3>1, <3>2, <3>3
    <2>12. CASE c.move.type = "adjustment"
        <3>1. Typed(r, lot, "adjustment") = n
            BY <2>5, <2>8, <2>12 DEF MovementType
        <3>2. n = 0 /\ Added(r, lot) = 0
            BY <2>1, <2>3, <3>1
        <3>3. Typed(r, lot, "receive") = 0 /\ Typed(r, lot, "issue") = 0
            BY <2>5, <2>8, <2>12 DEF MovementType
        <3>4. UsedBy(r, lot) = 0
            BY <2>7, <3>2
        <3> QED BY <2>6, <3>2, <3>3, <3>4
    <2> QED BY <2>2, <2>9, <2>10, <2>11, <2>12 DEF Clean
<1> QED BY <1>2, <1>3

LEMMA UnadjustedLotExplained ==
    ASSUME LotsInv, LinksInv, NEW lot \in Lots, UnitsOf(Chain(lot), "adjustment") = 0
    PROVE  remaining[lot] = LotOpening[lot] + UnitsOf(Chain(lot), "receive")
                                            - UnitsOf(Chain(lot), "issue")
<1> DEFINE adjusted == [r \in Requests |-> Typed(r, lot, "adjustment")]
           in == [r \in Requests |-> Typed(r, lot, "receive")]
           out == [r \in Requests |-> Typed(r, lot, "issue")]
           added == [r \in Requests |-> AddedBy(r, lot)]
           used == [r \in Requests |-> UsedBy(r, lot)]
<1>1. links \in [Requests -> [Lots -> Nat]] /\ received \in [Lots -> Nat]
    BY LotsInvParts DEF TypeOK
<1>2. \A r \in Requests, type \in MovementType : Typed(r, lot, type) \in Nat
    BY <1>1 DEF Typed
<1>3. \A r \in Requests : Typed(r, lot, "adjustment") = 0
    <2>1. \A r \in Requests : adjusted[r] \in Nat
        BY <1>2 DEF MovementType
    <2>2. SumFunctionOnSet(adjusted, Requests) = 0
        BY ChainUnits
    <2>3. \A r \in Requests : adjusted[r] = Typed(r, lot, "adjustment")
        OBVIOUS
    <2> HIDE DEF adjusted
    <2>4. \A r \in Requests : adjusted[r] <= SumFunctionOnSet(adjusted, Requests)
        BY <2>1, SumNat
    <2> QED BY <2>1, <2>2, <2>3, <2>4
<1>4. /\ \A r \in Requests : AddedBy(r, lot) = Typed(r, lot, "receive")
      /\ \A r \in Requests : UsedBy(r, lot) = Typed(r, lot, "issue")
    BY <1>3, LinkTells
<1>5. added = in /\ used = out
    BY <1>4
<1>6. ReceivedBy(lot) = UnitsOf(Chain(lot), "receive")
    <2>1. SumFunctionOnSet(in, Requests) = UnitsOf(Chain(lot), "receive")
        BY ChainUnits
    <2>2. SumFunctionOnSet(added, Requests) = ReceivedBy(lot)
        BY DEF ReceivedBy
    <2> HIDE DEF in, added
    <2> QED BY <1>5, <2>1, <2>2
<1>7. Used(lot) = UnitsOf(Chain(lot), "issue")
    <2>1. SumFunctionOnSet(out, Requests) = UnitsOf(Chain(lot), "issue")
        BY ChainUnits
    <2>2. SumFunctionOnSet(used, Requests) = Used(lot)
        BY DEF Used
    <2> HIDE DEF out, used
    <2> QED BY <1>5, <2>1, <2>2
<1>8. Used(lot) \in Int
    <2>1. \A r \in Requests : used[r] \in Int
        BY <1>2, <1>4 DEF MovementType
    <2>2. SumFunctionOnSet(used, Requests) = Used(lot)
        BY DEF Used
    <2> HIDE DEF used
    <2> QED BY <2>1, <2>2, SumInt
<1>9. remaining[lot] = received[lot] - Used(lot)
    BY DEF LotsInv, LotsMatchLinks
<1>10. received[lot] = LotOpening[lot] + ReceivedBy(lot) /\ LotOpening[lot] \in Nat
    BY DEF LinksInv
<1>11. ReceivedBy(lot) \in Nat
    BY AddedByNat
<1> QED BY <1>6, <1>7, <1>8, <1>9, <1>10, <1>11

(* Every movement linked to a lot is in some partition; one with a leg that  *)
(* it does not have, or in a retail location, in "retail".                   *)
LEMMA LegSomewhere ==
    ASSUME NEW l \in Locations \cup {NoLocation}
    PROVE  \E s \in Partitions \ {"all"} : LegInScope(l, s)
<1>1. CASE l \notin Facility
    <2>1. LegInScope(l, "retail")
        BY <1>1 DEF LegInScope, InScope
    <2> QED BY <2>1 DEF Partitions
<1>2. CASE l \in Facility
    <2>1. l # NoLocation /\ WarehouseOf[l] \in Warehouses
        BY <1>2, ScopeAssumption
    <2>2. WarehouseOf[l] # "all" /\ WarehouseOf[l] # "retail"
        BY <2>1, ScopeAssumption
    <2>3. InScope(l, WarehouseOf[l])
        BY <1>2, <2>2 DEF InScope
    <2> QED BY <2>1, <2>2, <2>3 DEF LegInScope, Partitions
<1> QED BY <1>1, <1>2

LEMMA TraceIsComplete == LotsInv /\ LinksInv => TraceComplete
<1> SUFFICES ASSUME LotsInv, LinksInv, NEW lot \in Lots,
                    NEW trace \in Trace(LotProduct[lot], lot)
             PROVE  /\ UnitsOf(trace.chain, "adjustment") = 0 =>
                           remaining[lot] = LotOpening[lot] + UnitsOf(trace.chain, "receive")
                                                            - UnitsOf(trace.chain, "issue")
                    /\ {e.id : e \in trace.chain}
                           = UNION {LotHistory(lot, s) : s \in Partitions \ {"all"}}
    BY DEF TraceComplete
<1>1. trace.chain = Chain(lot)
    BY DEF Trace, Chain
<1>2. ASSUME NEW r \in Linked(lot)
      PROVE  \E s \in Partitions \ {"all"} : r \in LotHistory(lot, s)
    <2>1. r \in Requests /\ Done(r)
        BY DEF Linked
    <2>2. call[r] \in Calls
        BY <2>1, AddedTypes, LotsInvParts
    <2>3. Move(r).from \in Locations \cup {NoLocation}
        BY <2>2, CallTypes DEF Move, Movement
    <2>4. PICK s \in Partitions \ {"all"} : LegInScope(Move(r).from, s)
        BY <2>3, LegSomewhere
    <2> QED BY <2>4 DEF LotHistory, MovementInScope
<1>3. {e.id : e \in Chain(lot)} = Linked(lot)
    <2>1. ASSUME NEW r \in Linked(lot) PROVE r \in {e.id : e \in Chain(lot)}
        <3>1. ChainEntry(r, links[r][lot]) \in Chain(lot)
            BY DEF Chain
        <3>2. ChainEntry(r, links[r][lot]).id = r
            BY EntryIs
        <3> QED BY <3>1, <3>2
    <2>2. ASSUME NEW e \in Chain(lot) PROVE e.id \in Linked(lot)
        BY EntryIs DEF Chain
    <2> QED BY <2>1, <2>2
<1>4. \A s : LotHistory(lot, s) \subseteq Linked(lot)
    BY DEF LotHistory
<1>5. Linked(lot) = UNION {LotHistory(lot, s) : s \in Partitions \ {"all"}}
    BY <1>2, <1>4
<1>6. UnitsOf(Chain(lot), "adjustment") = 0 =>
          remaining[lot] = LotOpening[lot] + UnitsOf(Chain(lot), "receive")
                                           - UnitsOf(Chain(lot), "issue")
    BY UnadjustedLotExplained
<1> QED BY <1>1, <1>3, <1>5, <1>6

-----------------------------------------------------------------------------
(* The expiry reports.                                                       *)

(* A lot with units left has its row. *)
LEMMA LeftExists ==
    ASSUME LotsInv, LinksInv, NEW lot \in Lots, remaining[lot] > 0
    PROVE  Exists(lot)
<1> DEFINE used == [r \in Requests |-> UsedBy(r, lot)]
<1>1. TypeOK /\ \A r \in Requests : RequestInv(r)
    BY LotsInvParts
<1>2. \A r \in Requests : used[r] \in Nat
    <2> SUFFICES ASSUME NEW r \in Requests, Done(r) PROVE links[r][lot] - Added(r, lot) \in Nat
        BY DEF UsedBy
    <2>1. Added(r, lot) \in Nat /\ links[r][lot] \in Nat
        BY <1>1, AddedTypes DEF TypeOK
    <2>2. links[r][lot] >= Added(r, lot)
        BY DEF LinksInv
    <2> QED BY <2>1, <2>2
<1>3. SumFunctionOnSet(used, Requests) \in Nat
    <2> HIDE DEF used
    <2> QED BY <1>2, SumNat
<1>4. Used(lot) \in Nat
    BY <1>3 DEF Used
<1>5. remaining[lot] = received[lot] - Used(lot) /\ received[lot] \in Nat
    BY <1>1 DEF LotsInv, LotsMatchLinks, TypeOK
<1> QED BY <1>4, <1>5 DEF Exists

(* The window a request gets, and what falls due in it. *)
Asks(ahead) == IF ahead \in Int THEN ahead ELSE 30
Window(ahead) == IF Asks(ahead) < 1 THEN 1 ELSE Asks(ahead)

DueIn(today, ahead, s) ==
    {lot \in Lots :
        /\ Exists(lot) /\ StockedIn(LotProduct[lot], s)
        /\ Dated(lot) /\ remaining[lot] > 0 /\ Expiry[lot] <= today + Window(ahead)}

ReportOf(today, ahead, s) == ExpiryReport(today, Asks(ahead), Everything, s)

LEMMA WindowIs ==
    ASSUME NEW ahead
    PROVE  /\ Asks(ahead) \in Int /\ Window(ahead) \in Nat /\ Window(ahead) >= 1
           /\ ahead \notin Int => Window(ahead) = 30
BY DEF Asks, Window

LEMMA ReportListing ==
    ASSUME NEW today \in Days, NEW ahead, NEW s
    PROVE  LET report == ReportOf(today, ahead, s) IN
           /\ report.expired \cup report.expiring = DueIn(today, ahead, s)
           /\ report.expired \cap report.expiring = {}
<1> DEFINE report == ReportOf(today, ahead, s)
           expired == ExpiredLots(today, FALSE, Everything, s)
           expiring == ExpiringLots(today, Window(ahead), Everything, s)
<1>1. report.expired = expired /\ report.expiring = expiring
    BY DEF ReportOf, ExpiryReport, Window
<1>2. Selected(Everything, s) = {lot \in Lots : Exists(lot) /\ StockedIn(LotProduct[lot], s)}
    BY DEF Selected, Everything
<1>3. today \in Nat /\ Window(ahead) \in Nat
    BY WindowIs, LotReportAssumption
<1>4. ASSUME NEW lot \in Lots
      PROVE  /\ lot \in expired \/ lot \in expiring <=> lot \in DueIn(today, ahead, s)
             /\ ~(lot \in expired /\ lot \in expiring)
    <2>1. CASE Dated(lot)
        <3>1. Expiry[lot] \in Nat
            BY <2>1, LotReportAssumption DEF Dated
        <3>2. /\ lot \in expired <=> /\ Exists(lot) /\ StockedIn(LotProduct[lot], s)
                                     /\ Expiry[lot] <= today /\ remaining[lot] > 0
              /\ lot \in expiring <=> /\ Exists(lot) /\ StockedIn(LotProduct[lot], s)
                                      /\ today < Expiry[lot] /\ Expiry[lot] <= today + Window(ahead)
                                      /\ remaining[lot] > 0
              /\ lot \in DueIn(today, ahead, s) <=>
                     /\ Exists(lot) /\ StockedIn(LotProduct[lot], s)
                     /\ Expiry[lot] <= today + Window(ahead) /\ remaining[lot] > 0
            BY <1>2, <2>1 DEF ExpiredLots, ExpiringLots, DueIn
        <3>3. /\ Expiry[lot] <= today <=> ~(today < Expiry[lot])
              /\ Expiry[lot] <= today => Expiry[lot] <= today + Window(ahead)
            BY <1>3, <3>1
        <3> HIDE DEF expired, expiring
        <3> QED BY <3>2, <3>3, Zenon
    <2>2. CASE ~Dated(lot)
        BY <2>2 DEF ExpiredLots, ExpiringLots, DueIn
    <2> QED BY <2>1, <2>2
<1>5. expired \subseteq Lots /\ expiring \subseteq Lots /\ DueIn(today, ahead, s) \subseteq Lots
    BY DEF ExpiredLots, ExpiringLots, Selected, DueIn
<1> HIDE DEF expired, expiring
<1>6. expired \cup expiring = DueIn(today, ahead, s) /\ expired \cap expiring = {}
    BY <1>4, <1>5
<1> QED BY <1>1, <1>6

(* Which scopes requests can ask for. *)
LEMMA ScopesAsked ==
    /\ Asked([retail |-> FALSE, warehouse |-> ""]) = "all"
    /\ \A q \in Query : Asked(q) \in Partitions
    /\ \A s \in Partitions : \E q \in Query : Asked(q) = s
<1>1. Asked([retail |-> FALSE, warehouse |-> ""]) = "all"
    BY DEF Asked, ScopeParams, ScopeOf
<1>2. Asked([retail |-> TRUE, warehouse |-> ""]) = "retail"
    BY DEF Asked, ScopeParams, ScopeOf
<1>3. \A w \in Warehouses : Asked([retail |-> FALSE, warehouse |-> w]) = w
    BY ScopeAssumption DEF Asked, ScopeParams, ScopeOf
<1>4. ASSUME NEW q \in Query PROVE Asked(q) \in Partitions
    <2>1. /\ q.retail \in BOOLEAN /\ q.warehouse \in {"", "null", "junk"} \cup Warehouses
          /\ ~q.retail => q.warehouse # "junk"
        BY DEF Query, QueryString, Understood
    <2>2. CASE q.retail
        <3>1. ScopeParams(q).retail
            BY <2>2 DEF ScopeParams, Query, QueryString
        <3> QED BY <3>1 DEF Asked, ScopeOf, Partitions
    <2>3. CASE ~q.retail
        BY <2>1, <2>3 DEF Asked, ScopeParams, ScopeOf, Partitions
    <2> QED BY <2>2, <2>3
<1>5. ASSUME NEW s \in Partitions PROVE \E q \in Query : Asked(q) = s
    <2>1. /\ [retail |-> FALSE, warehouse |-> ""] \in Query
          /\ [retail |-> TRUE, warehouse |-> ""] \in Query
          /\ \A w \in Warehouses : [retail |-> FALSE, warehouse |-> w] \in Query
        BY ScopeAssumption DEF Query, QueryString, Understood
    <2> QED BY <1>1, <1>2, <1>3, <2>1 DEF Partitions
<1> QED BY <1>1, <1>4, <1>5

(* A product's lots are in some partition. *)
LEMMA StockedSomewhere ==
    ASSUME NEW p
    PROVE  \E s \in Partitions \ {"all"} : StockedIn(p, s)
<1>1. CASE RecordRows(p) = {}
    BY <1>1 DEF StockedIn, Partitions
<1>2. CASE RecordRows(p) # {}
    <2>1. PICK rec \in RecordRows(p) : TRUE
        BY <1>2
    <2>2. rec[2] \in Locations
        BY DEF RecordRows, StockRecord
    <2>3. PICK s \in Partitions \ {"all"} : LegInScope(rec[2], s)
        BY <2>2, LegSomewhere
    <2>4. InScope(rec[2], s)
        BY <2>2, <2>3, MovementAssumption DEF LegInScope
    <2> QED BY <2>1, <2>4 DEF StockedIn
<1> QED BY <1>1, <1>2

LEMMA ExpiryIsSeen == LotsInv /\ LinksInv => ExpirySeen
<1> SUFFICES ASSUME LotsInv, LinksInv, NEW today \in Days, NEW ahead \in Windows
             PROVE  LET whole == AdminExpiry([retail |-> FALSE, warehouse |-> ""], today, ahead, Everything)
                        Listed(reports) == UNION {report.expired \cup report.expiring : report \in reports}
                        parts == UNION {Listed(AdminExpiry(q, today, ahead, Everything)) :
                                          q \in {x \in Query : Asked(x) # "all"}} IN
                    /\ Listed(whole) = parts
                    /\ \A report \in whole : report.expired \cap report.expiring = {}
                    /\ \A lot \in Lots : Dated(lot) /\ remaining[lot] > 0 /\ Expiry[lot] <= today + 1 =>
                           lot \in Listed(whole)
                    /\ \A lot \in Listed(whole) :
                           Expiry[lot] <= today + 30 => lot \in ExpiringOnDashboard(today).lots
                    /\ ahead \notin Int => Listed(whole) = ExpiringOnDashboard(today).lots
                    /\ \A q \in Query : ApiExpiry(q, today, ahead, Everything)
                                          \in {{}, AdminExpiry(q, today, ahead, Everything)}
    BY DEF ExpirySeen
<1> DEFINE all == [retail |-> FALSE, warehouse |-> ""]
           Admin(q) == AdminExpiry(q, today, ahead, Everything)
           Listed(reports) == UNION {report.expired \cup report.expiring : report \in reports}
           Due(s) == DueIn(today, ahead, s)
           dashboard == {lot \in Lots : Dated(lot) /\ Expiry[lot] <= today + 30 /\ remaining[lot] > 0}
<1>1. \A q : Admin(q) = {ReportOf(today, ahead, Asked(q))}
    BY DEF AdminExpiry, ReportOf, Asks
<1>2. \A q : Listed(Admin(q)) = Due(Asked(q))
    <2> SUFFICES ASSUME NEW q PROVE Listed(Admin(q)) = Due(Asked(q))
        OBVIOUS
    <2> DEFINE report == ReportOf(today, ahead, Asked(q))
    <2>1. report.expired \cup report.expiring = Due(Asked(q))
        BY ReportListing
    <2>2. Admin(q) = {report}
        BY <1>1
    <2> HIDE DEF report, Admin, Due
    <2> QED BY <2>1, <2>2
<1>3. Listed(Admin(all)) = Due("all")
    BY <1>2, ScopesAsked
<1>4. Due("all") = {lot \in Lots : Exists(lot) /\ Dated(lot) /\ remaining[lot] > 0
                                   /\ Expiry[lot] <= today + Window(ahead)}
    BY DEF DueIn, StockedIn
<1>5. Due("all") = UNION {Listed(Admin(q)) : q \in {x \in Query : Asked(x) # "all"}}
    <2>1. ASSUME NEW q \in Query, NEW lot \in Due(Asked(q)) PROVE lot \in Due("all")
        BY DEF DueIn, StockedIn
    <2>2. ASSUME NEW lot \in Due("all")
          PROVE  \E q \in Query : Asked(q) # "all" /\ lot \in Due(Asked(q))
        <3>1. PICK s \in Partitions \ {"all"} : StockedIn(LotProduct[lot], s)
            BY StockedSomewhere
        <3>2. PICK q \in Query : Asked(q) = s
            BY <3>1, ScopesAsked
        <3>3. lot \in Due(s)
            BY <3>1 DEF DueIn
        <3> QED BY <3>1, <3>2, <3>3
    <2>3. \A q \in Query : Listed(Admin(q)) = Due(Asked(q))
        BY <1>2
    <2> HIDE DEF Due, Admin, Listed
    <2> DEFINE parts == UNION {Listed(Admin(q)) : q \in {x \in Query : Asked(x) # "all"}}
    <2>4. ASSUME NEW lot \in parts PROVE lot \in Due("all")
        <3>1. PICK q \in Query : lot \in Listed(Admin(q))
            OBVIOUS
        <3> QED BY <2>1, <2>3, <3>1
    <2>5. ASSUME NEW lot \in Due("all") PROVE lot \in parts
        <3>1. PICK q \in Query : Asked(q) # "all" /\ lot \in Due(Asked(q))
            BY <2>2
        <3>2. lot \in Listed(Admin(q))
            BY <2>3, <3>1
        <3> QED BY <3>1, <3>2
    <2>6. Due("all") = parts
        <3> HIDE DEF parts
        <3> QED BY <2>4, <2>5
    <2> QED BY <2>6
<1>6. \A report \in Admin(all) : report.expired \cap report.expiring = {}
    <2> DEFINE only == ReportOf(today, ahead, Asked(all))
    <2>1. only.expired \cap only.expiring = {}
        BY ReportListing
    <2>2. Admin(all) = {only}
        BY <1>1
    <2> HIDE DEF only, Admin
    <2> QED BY <2>1, <2>2
<1>7. today \in Nat /\ Window(ahead) \in Nat /\ Window(ahead) >= 1
    BY WindowIs, LotReportAssumption
<1>8. \A lot \in Lots : Dated(lot) => Expiry[lot] \in Nat
    BY LotReportAssumption DEF Dated
<1>9. ASSUME NEW lot \in Lots, Dated(lot), remaining[lot] > 0, Expiry[lot] <= today + 1
      PROVE  lot \in Due("all")
    <2>1. Exists(lot)
        BY <1>9, LeftExists
    <2>2. Expiry[lot] <= today + Window(ahead)
        BY <1>7, <1>8, <1>9
    <2> QED BY <1>4, <1>9, <2>1, <2>2
<1>10. \A lot \in Due("all") : Expiry[lot] <= today + 30 => lot \in dashboard
    BY <1>4
<1>11. ASSUME ahead \notin Int PROVE Due("all") = dashboard
    <2>1. Window(ahead) = 30
        BY <1>11, WindowIs
    <2> QED BY <1>4, <2>1, LeftExists
<1>12. \A q \in Query : ApiExpiry(q, today, ahead, Everything) \in {{}, Admin(q)}
    BY DEF ApiExpiry, AdminExpiry
<1>13. ExpiringOnDashboard(today).lots = dashboard
    BY DEF ExpiringOnDashboard
<1> HIDE DEF all, Admin, Due, dashboard
<1>14. /\ Listed(Admin(all)) = UNION {Listed(Admin(q)) : q \in {x \in Query : Asked(x) # "all"}}
       /\ \A lot \in Lots : Dated(lot) /\ remaining[lot] > 0 /\ Expiry[lot] <= today + 1 =>
              lot \in Listed(Admin(all))
       /\ \A lot \in Listed(Admin(all)) :
              Expiry[lot] <= today + 30 => lot \in ExpiringOnDashboard(today).lots
       /\ ahead \notin Int => Listed(Admin(all)) = ExpiringOnDashboard(today).lots
    BY <1>3, <1>5, <1>9, <1>10, <1>11, <1>13
<1> QED BY <1>6, <1>12, <1>14 DEF all, Admin

(* Lots and what is shown of them tell one story, whatever calls interleave  *)
(* (get_expiring_lots, get_expired_lots, get_lot_history,                    *)
(* get_product_traceability).                                                *)
THEOREM LotsTracedShown == Spec => []LotsTraced
<1>1. LotsInv /\ LinksInv => LotsTraced
    BY TraceIsComplete, ExpiryIsSeen DEF LotsInv, LotsTraced
<1> QED
    BY <1>1, LotsInvariant, LinksInvariant, PTL
=============================================================================
