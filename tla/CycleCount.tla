------------------------------- MODULE CycleCount -------------------------------
(***************************************************************************)
(* CycleCountService: physical inventory counts.  start_cycle snapshots    *)
(* the records in scope, record_count saves what was counted,              *)
(* complete_cycle ends counting, reconcile_cycle adjusts the stock by      *)
(* counted minus snapshot where a variance is accepted.                    *)
(*                                                                         *)
(* The calls run in concurrent sessions; each tests the status of the      *)
(* cycle its view fetched and never locks the cycle or its lines.  What    *)
(* does exclude is the row lock of each adjusted record and the unique     *)
(* key of InventoryVariance.count_line.                                    *)
(***************************************************************************)
EXTENDS StockLedger

CONSTANTS
    Cycles,      \* primary keys of InventoryCycle rows
    Scope,       \* Scope[c]: the records of the location or partition counted
    Counts,      \* what staff may count
    Absent,      \* no count line; not counted
    Sessions,
    MaxDirect    \* bound: other movements in one behaviour

ASSUME CycleAssumption ==
    /\ Scope \in [Cycles -> SUBSET StockRecord]
    /\ Counts \subseteq Nat
    /\ Absent \notin Int
    /\ Cycles # {} /\ StockRecord # {}
    /\ MaxDirect \in Nat

VARIABLES
    status,       \* status[c], "none" before start_cycle
    system,       \* system[c][rec]: CycleCountLine.system_quantity
    counted,      \* counted[c][rec]: CycleCountLine.counted_quantity
    variance,     \* variance[c][rec]: resolution of the InventoryVariance row
    physical,     \* physical[c][rec]: its physical_quantity
    reconciled,   \* reconciled[c][rec]: how often the line has been reconciled
    disturbed,    \* <<c, rec>>: rec has moved since c's snapshot was taken
    pc, job,      \* each session's next step and what it has read
    direct        \* other movements so far

cycleVars == <<quantity, inflow, outflow, status, system, counted, variance, physical,
               reconciled, disturbed, pc, job, direct>>

countRows == <<status, system, counted>>
varianceRows == <<variance, physical, reconciled>>
stockRows == <<quantity, inflow, outflow, disturbed>>

Status == {"none", "in_progress", "completed", "reconciled"}
Resolution == {"accepted", "investigating", "rejected"}

Lines == [StockRecord -> Int \cup {Absent}]

Job == [cycle : Cycles, rec : StockRecord, value : Nat, lines : Lines,
        resolution : [StockRecord -> Resolution]]

Step == {"idle", "start", "count", "complete", "reconcile", "commit"}

TypeOK ==
    /\ LedgerTypeOK
    /\ status \in [Cycles -> Status]
    /\ system \in [Cycles -> Lines]
    /\ counted \in [Cycles -> Lines]
    /\ variance \in [Cycles -> [StockRecord -> Resolution \cup {"none"}]]
    /\ physical \in [Cycles -> Lines]
    /\ reconciled \in [Cycles -> [StockRecord -> Nat]]
    /\ disturbed \subseteq Cycles \X StockRecord
    /\ pc \in [Sessions -> Step]
    /\ job \in [Sessions -> Job]
    /\ direct \in Nat

NoLines == [rec \in StockRecord |-> Absent]

NoJob == [cycle |-> CHOOSE c \in Cycles : TRUE, rec |-> CHOOSE rec \in StockRecord : TRUE,
          value |-> 0, lines |-> NoLines,
          resolution |-> [rec \in StockRecord |-> "rejected"]]

Init ==
    /\ LedgerInit
    /\ status = [c \in Cycles |-> "none"]
    /\ system = [c \in Cycles |-> NoLines]
    /\ counted = [c \in Cycles |-> NoLines]
    /\ variance = [c \in Cycles |-> [rec \in StockRecord |-> "none"]]
    /\ physical = [c \in Cycles |-> NoLines]
    /\ reconciled = [c \in Cycles |-> [rec \in StockRecord |-> 0]]
    /\ disturbed = {}
    /\ pc = [s \in Sessions |-> "idle"]
    /\ job = [s \in Sessions |-> NoJob]
    /\ direct = 0

-----------------------------------------------------------------------------
Begin(s, step, j) ==
    /\ pc[s] = "idle"
    /\ pc' = [pc EXCEPT ![s] = step]
    /\ job' = [job EXCEPT ![s] = j]
    /\ UNCHANGED direct /\ UNCHANGED countRows /\ UNCHANGED varianceRows

Finish(s) ==
    /\ pc' = [pc EXCEPT ![s] = "idle"]
    /\ job' = [job EXCEPT ![s] = NoJob]
    /\ UNCHANGED direct

(* An exception or a lost worker: nothing the call wrote survives. *)
Abandon(s) ==
    /\ Finish(s)
    /\ UNCHANGED countRows /\ UNCHANGED varianceRows /\ UNCHANGED stockRows

Crash(s) == pc[s] # "idle" /\ Abandon(s)

-----------------------------------------------------------------------------
(* start_cycle: one query reads the records in scope, zero ones left out.    *)

Snapshot(c) == [rec \in StockRecord |-> IF rec \in Scope[c] /\ quantity[rec] > 0
                                        THEN quantity[rec] ELSE Absent]

StartSnapshot(s) ==
    /\ \E c \in Cycles :
          /\ status[c] = "none"
          /\ \A t \in Sessions : pc[t] = "start" => job[t].cycle # c
          /\ Begin(s, "start", [NoJob EXCEPT !.cycle = c, !.lines = Snapshot(c)])
          /\ disturbed' = disturbed \ ({c} \X StockRecord)
    /\ UNCHANGED <<quantity, inflow, outflow>>

StartCommit(s) ==
    /\ pc[s] = "start"
    /\ status' = [status EXCEPT ![job[s].cycle] = "in_progress"]
    /\ system' = [system EXCEPT ![job[s].cycle] = job[s].lines]
    /\ Finish(s)
    /\ UNCHANGED counted /\ UNCHANGED varianceRows /\ UNCHANGED stockRows

-----------------------------------------------------------------------------
(* record_count: tests the status the view read; a line must exist.  Its      *)
(* tests of the cycle's scope and of peer cycles refuse lines outside the    *)
(* scope the snapshot was taken with, and a snapshot has none while the      *)
(* locations keep their warehouse.  Nothing in the service starts a row that *)
(* is "scheduled": start_cycle creates its row in progress.                  *)

BeginCount(s) ==
    /\ \E c \in Cycles, rec \in StockRecord, n \in Counts :
          /\ status[c] = "in_progress"
          /\ system[c][rec] # Absent
          /\ Begin(s, "count", [NoJob EXCEPT !.cycle = c, !.rec = rec, !.value = n])
    /\ UNCHANGED stockRows

Count(s) ==
    LET j == job[s] IN
    /\ pc[s] = "count"
    /\ counted' = [counted EXCEPT ![j.cycle][j.rec] = j.value]
    /\ Finish(s)
    /\ UNCHANGED <<status, system>> /\ UNCHANGED varianceRows /\ UNCHANGED stockRows

(* complete_cycle                                                            *)

BeginComplete(s) ==
    /\ \E c \in Cycles :
          /\ status[c] = "in_progress"
          /\ Begin(s, "complete", [NoJob EXCEPT !.cycle = c])
    /\ UNCHANGED stockRows

Complete(s) ==
    /\ pc[s] = "complete"
    /\ status' = [status EXCEPT ![job[s].cycle] = "completed"]
    /\ Finish(s)
    /\ UNCHANGED <<system, counted>> /\ UNCHANGED varianceRows /\ UNCHANGED stockRows

-----------------------------------------------------------------------------
(* reconcile_cycle                                                           *)

BeginReconcile(s) ==
    /\ \E c \in Cycles :
          /\ status[c] = "completed"
          /\ Begin(s, "reconcile", [NoJob EXCEPT !.cycle = c])
    /\ UNCHANGED stockRows

(* The lines reconcile_cycle walks: the counted ones. *)
CountedLines(lines) == {rec \in StockRecord : lines[rec] # Absent}

(* Faulty: the variance with its sign reversed. *)
VarianceReversed(c, lines, rec) == system[c][rec] - lines[rec]

(* CycleCountLine.variance *)
Variance(c, lines, rec) == lines[rec] - system[c][rec]

(* What an accepted line adds to its record, 0 for any other.  *)
Adjustment(j, rec) ==
    IF j.lines[rec] # Absent /\ j.resolution[rec] = "accepted"
    THEN Variance(j.cycle, j.lines, rec) ELSE 0

Adjusted(j) == {rec \in StockRecord : Adjustment(j, rec) # 0}

(* Faulty: no one-to-one key from the variance to its count line. *)
ReconcilesUnkeyed(c, lines) == FALSE

(* InventoryVariance.count_line is unique. *)
AlreadyReconciled(c, lines) == \E rec \in CountedLines(lines) : variance[c][rec] # "none"

(* Faulty: adjusts without waiting for the rows. *)
RowsNotAwaited(s, j) == TRUE

(* The adjustments wait for their records, the variance rows for an open     *)
(* transaction that has inserted the same key.                               *)
RowsFree(s, j) ==
    \A t \in Sessions \ {s} : pc[t] = "commit" =>
        /\ Adjusted(job[t]) \cap Adjusted(j) = {}
        /\ job[t].cycle = j.cycle => CountedLines(job[t].lines) \cap CountedLines(j.lines) = {}

Enough(j) == \A rec \in StockRecord : quantity[rec] + Adjustment(j, rec) >= 0

Reconcile(s) ==
    /\ pc[s] = "reconcile"
    /\ \E resolution \in [StockRecord -> Resolution] :
          LET c == job[s].cycle
              j == [job[s] EXCEPT !.lines = counted[c], !.resolution = resolution] IN
          /\ \A rec \in StockRecord \ CountedLines(counted[c]) : resolution[rec] = "rejected"
          /\ RowsFree(s, j)
          /\ Enough(j)
          /\ ~AlreadyReconciled(c, counted[c])
          /\ job' = [job EXCEPT ![s] = j]
    /\ pc' = [pc EXCEPT ![s] = "commit"]
    /\ UNCHANGED direct /\ UNCHANGED countRows /\ UNCHANGED varianceRows /\ UNCHANGED stockRows

(* A line reconciled before; or a variance without a resolution, with a      *)
(* shortage the record cannot cover or a surplus the location cannot hold:   *)
(* the transaction rolls back.                                               *)
ReconcileRefused(s) ==
    LET c == job[s].cycle IN
    /\ pc[s] = "reconcile"
    /\ \/ AlreadyReconciled(c, counted[c])
       \/ \E rec \in CountedLines(counted[c]) : Variance(c, counted[c], rec) # 0
    /\ Abandon(s)

Gain(j, rec) == IF Adjustment(j, rec) > 0 THEN Adjustment(j, rec) ELSE 0
Loss(j, rec) == IF Adjustment(j, rec) < 0 THEN -Adjustment(j, rec) ELSE 0

ReconcileCommit(s) ==
    LET j == job[s]
        walked == CountedLines(j.lines) IN
    /\ pc[s] = "commit"
    /\ quantity' = [rec \in StockRecord |-> quantity[rec] + Adjustment(j, rec)]
    /\ inflow' = [rec \in StockRecord |-> inflow[rec] + Gain(j, rec)]
    /\ outflow' = [rec \in StockRecord |-> outflow[rec] + Loss(j, rec)]
    /\ disturbed' = disturbed \cup (Cycles \X Adjusted(j))
    /\ variance' = [variance EXCEPT ![j.cycle] = [rec \in StockRecord |->
                       IF rec \in walked THEN j.resolution[rec] ELSE @[rec]]]
    /\ physical' = [physical EXCEPT ![j.cycle] = [rec \in StockRecord |->
                       IF rec \in walked THEN j.lines[rec] ELSE @[rec]]]
    /\ reconciled' = [reconciled EXCEPT ![j.cycle] = [rec \in StockRecord |->
                       IF rec \in walked THEN @[rec] + 1 ELSE @[rec]]]
    /\ status' = [status EXCEPT ![j.cycle] = "reconciled"]
    /\ Finish(s)
    /\ UNCHANGED <<system, counted>>

-----------------------------------------------------------------------------
(* A movement of any other flow, which waits for the records it touches.     *)
DirectMovement ==
    /\ direct < MaxDirect
    /\ direct' = direct + 1
    /\ \E m \in Movement :
          /\ \A s \in Sessions : pc[s] = "commit" => Touched(m) \cap Adjusted(job[s]) = {}
          /\ Post(m)
          /\ disturbed' = disturbed \cup (Cycles \X Touched(m))
    /\ UNCHANGED <<pc, job>> /\ UNCHANGED countRows /\ UNCHANGED varianceRows

Next ==
    \/ \E s \in Sessions :
          \/ StartSnapshot(s) \/ StartCommit(s) \/ BeginCount(s) \/ Count(s)
          \/ BeginComplete(s) \/ Complete(s) \/ BeginReconcile(s) \/ Reconcile(s)
          \/ ReconcileRefused(s) \/ ReconcileCommit(s) \/ Crash(s)
    \/ DirectMovement

Spec == Init /\ [][Next]_cycleVars

-----------------------------------------------------------------------------
(* Properties; NonNegativeStock and LedgerBalances are StockLedger's.        *)

(* A count line adjusts the stock at most once, although reconcile_cycle     *)
(* tests the status of a cycle it has not locked and a late complete_cycle   *)
(* can put a reconciled cycle back to completed.                             *)
LineReconciledOnce ==
    \A c \in Cycles, rec \in StockRecord :
        reconciled[c][rec] = IF variance[c][rec] = "none" THEN 0 ELSE 1

(* An accepted count becomes the stock: if nothing moved the record since    *)
(* the snapshot, reconciling leaves in it what was counted.                  *)
AcceptedCountIsStock ==
    [][\A c \in Cycles, rec \in StockRecord :
          /\ variance[c][rec] = "none" /\ variance'[c][rec] = "accepted"
          /\ <<c, rec>> \notin disturbed
          => quantity'[rec] = physical'[c][rec]]_cycleVars

(* "System stock at time of count": when a count is saved, the line's        *)
(* system_quantity is what the system then holds.                            *)
SystemQuantityAtCount ==
    [][\A c \in Cycles, rec \in StockRecord :
          counted'[c][rec] # counted[c][rec] => system[c][rec] = quantity[rec]]_cycleVars

(* A snapshot nothing has disturbed is still the stock. *)
SnapshotCurrent ==
    /\ \A c \in Cycles, rec \in StockRecord :
          system[c][rec] # Absent /\ <<c, rec>> \notin disturbed => system[c][rec] = quantity[rec]
    /\ \A s \in Sessions : pc[s] = "start" =>
          /\ status[job[s].cycle] = "none"
          /\ \A rec \in StockRecord :
                job[s].lines[rec] # Absent /\ <<job[s].cycle, rec>> \notin disturbed =>
                    job[s].lines[rec] = quantity[rec]

(* What a reconciliation about to commit has locked and tested still holds. *)
CommitReady(s) ==
    pc[s] = "commit" =>
        /\ Enough(job[s])
        /\ ~AlreadyReconciled(job[s].cycle, job[s].lines)
        /\ \A rec \in CountedLines(job[s].lines) : system[job[s].cycle][rec] # Absent
        /\ RowsFree(s, job[s])

StartsDistinct ==
    \A s, t \in Sessions :
        s # t /\ pc[s] = "start" /\ pc[t] = "start" => job[s].cycle # job[t].cycle

(* The inductive invariant. *)
CycleInv ==
    /\ TypeOK
    /\ NonNegativeStock /\ LedgerBalances
    /\ LineReconciledOnce
    /\ SnapshotCurrent
    /\ \A c \in Cycles, rec \in StockRecord :
          /\ counted[c][rec] # Absent => system[c][rec] # Absent
          /\ system[c][rec] # Absent => status[c] # "none"
    /\ \A s \in Sessions :
          /\ CommitReady(s)
          /\ pc[s] = "count" => system[job[s].cycle][job[s].rec] # Absent
          /\ pc[s] \notin {"idle", "start"} => status[job[s].cycle] # "none"
    /\ StartsDistinct
=============================================================================
