------------------------------ MODULE CycleProofs ------------------------------
(***************************************************************************)
(* Proofs about CycleCount, for any number of cycles, sessions and         *)
(* records: the inductive invariant CycleInv, that a line adjusts stock at *)
(* most once, that an accepted count of an undisturbed record becomes its  *)
(* stock, and that the variances shown explain the stock.                  *)
(*                                                                         *)
(* A session about to commit relies on the records it adjusts, the lines   *)
(* it walks and the snapshot of its cycle staying as they are (ReadyKept); *)
(* every other step leaves them alone.                                     *)
(***************************************************************************)
EXTENDS CycleReports, MovementProofs

USE MovementAssumption, OpeningAssumption, CycleAssumption

(* Posting a movement keeps every record non-negative and equal to the log. *)
LEMMA PostInv ==
    ASSUME LedgerInv, NEW m \in Movement, Post(m)
    PROVE  LedgerInv'
<1>1. /\ m \in Movement
      /\ HasSource(m) => quantity[Source(m)] >= m.quantity
      /\ quantity' = [rec \in StockRecord |->
                         quantity[rec] - Outgoing(m, rec) + Incoming(m, rec)]
      /\ inflow' = [rec \in StockRecord |-> inflow[rec] + Incoming(m, rec)]
      /\ outflow' = [rec \in StockRecord |-> outflow[rec] + Outgoing(m, rec)]
    BY DEF Post
<1>2. /\ quantity \in [StockRecord -> Int]
      /\ inflow \in [StockRecord -> Nat] /\ outflow \in [StockRecord -> Nat]
      /\ \A rec \in StockRecord : quantity[rec] >= 0 /\ quantity[rec] = inflow[rec] - outflow[rec]
    BY DEF LedgerInv, LedgerTypeOK, NonNegativeStock, LedgerBalances
<1>3. /\ quantity' \in [StockRecord -> Int]
      /\ inflow' \in [StockRecord -> Nat] /\ outflow' \in [StockRecord -> Nat]
      /\ \A rec \in StockRecord :
            quantity'[rec] >= 0 /\ quantity'[rec] = inflow'[rec] - outflow'[rec]
    BY ONLY <1>1, <1>2, MovementPosts
<1> QED
    BY <1>3 DEF LedgerInv, LedgerTypeOK, NonNegativeStock, LedgerBalances

LEMMA LedgerInitInv == LedgerInit => LedgerInv
BY DEF LedgerInit, LedgerInv, LedgerTypeOK, NonNegativeStock, LedgerBalances

LEMMA Defaults == NoJob \in Job /\ NoLines \in Lines
BY DEF NoJob, Job, NoLines, Lines, Resolution

(* What the lines of a session about to commit add up to. *)
LEMMA AdjustmentTypes ==
    ASSUME TypeOK, NEW s \in Sessions, pc[s] = "commit", CommitReady(s),
           NEW rec \in StockRecord
    PROVE  /\ Adjustment(job[s], rec) \in Int
           /\ Gain(job[s], rec) \in Nat /\ Loss(job[s], rec) \in Nat
           /\ Adjustment(job[s], rec) = Gain(job[s], rec) - Loss(job[s], rec)
           /\ quantity[rec] + Adjustment(job[s], rec) >= 0
           /\ rec \notin Adjusted(job[s]) => Adjustment(job[s], rec) = 0
<1> DEFINE j == job[s]
<1>1. j \in Job
    BY DEF TypeOK
<1>2. j.lines[rec] \in Int \cup {Absent} /\ j.cycle \in Cycles
    BY <1>1 DEF Job, Lines
<1>3. j.lines[rec] # Absent => system[j.cycle][rec] \in Int
    BY <1>2 DEF TypeOK, Lines, CommitReady, CountedLines
<1>4. Adjustment(j, rec) \in Int
    BY <1>2, <1>3 DEF Adjustment, Variance
<1>5. rec \notin Adjusted(j) => Adjustment(j, rec) = 0
    BY DEF Adjusted
<1>6. quantity[rec] + Adjustment(j, rec) >= 0
    BY DEF CommitReady, Enough
<1> HIDE DEF j
<1>7. /\ Gain(j, rec) \in Nat /\ Loss(j, rec) \in Nat
      /\ Adjustment(j, rec) = Gain(j, rec) - Loss(j, rec)
    BY <1>4 DEF Gain, Loss
<1> QED
    BY <1>4, <1>5, <1>6, <1>7 DEF j

-----------------------------------------------------------------------------
(* What a session about to commit relies on.                                 *)

(* Its adjustments are computed from its own row of system. *)
LEMMA AdjustmentKept ==
    ASSUME NEW s \in Sessions, job'[s] = job[s],
           system'[job[s].cycle] = system[job[s].cycle], NEW rec
    PROVE  Adjustment(job[s], rec)' = Adjustment(job[s], rec)
BY DEF Adjustment, Variance

LEMMA AdjustedKept ==
    ASSUME NEW s \in Sessions, job'[s] = job[s],
           system'[job[s].cycle] = system[job[s].cycle]
    PROVE  Adjusted(job[s])' = Adjusted(job[s])
BY DEF Adjusted, Adjustment, Variance

(* Nobody joins the sessions about to commit. *)
NoNewcomer(s) ==
    \A t \in Sessions : t = s \/ pc'[t] = "commit" =>
        /\ pc[t] = "commit" /\ job'[t] = job[t]
        /\ system'[job[t].cycle] = system[job[t].cycle]

LEMMA RowsKept ==
    ASSUME NEW s \in Sessions, RowsFree(s, job[s]), NoNewcomer(s)
    PROVE  RowsFree(s, job[s])'
<1> SUFFICES ASSUME NEW t \in Sessions \ {s}, pc'[t] = "commit"
             PROVE  /\ (Adjusted(job[t]) \cap Adjusted(job[s]))' = {}
                    /\ job'[t].cycle = job'[s].cycle =>
                          CountedLines(job'[t].lines) \cap CountedLines(job'[s].lines) = {}
    BY DEF RowsFree, CountedLines
<1>1. pc[t] = "commit" /\ job'[t] = job[t] /\ job'[s] = job[s]
    BY DEF NoNewcomer
<1>2. Adjusted(job[t])' = Adjusted(job[t]) /\ Adjusted(job[s])' = Adjusted(job[s])
    BY <1>1, AdjustedKept DEF NoNewcomer
<1> QED
    BY <1>1, <1>2 DEF RowsFree

LEMMA ReadyKept ==
    ASSUME CycleInv, NEW s \in Sessions, pc[s] = "commit",
           pc'[s] = pc[s], job'[s] = job[s],
           system'[job[s].cycle] = system[job[s].cycle],
           \A rec \in StockRecord : quantity'[rec] \in Int /\ quantity'[rec] >= 0,
           \A rec \in Adjusted(job[s]) : quantity'[rec] = quantity[rec],
           \A rec \in CountedLines(job[s].lines) :
                variance'[job[s].cycle][rec] = variance[job[s].cycle][rec],
           RowsFree(s, job[s])'
    PROVE  CommitReady(s)'
<1>1. CommitReady(s) /\ TypeOK
    BY DEF CycleInv
<1>2. Enough(job[s])'
    <2> SUFFICES ASSUME NEW rec \in StockRecord
                 PROVE  quantity'[rec] + Adjustment(job[s], rec)' >= 0
        BY DEF Enough, Adjustment, Variance
    <2>1. Adjustment(job[s], rec)' = Adjustment(job[s], rec)
        BY AdjustmentKept
    <2> QED
        BY <1>1, <2>1, AdjustmentTypes
<1>3. ~AlreadyReconciled(job[s].cycle, job[s].lines)'
    BY <1>1 DEF CommitReady, AlreadyReconciled, CountedLines
<1>4. \A rec \in CountedLines(job'[s].lines) : system'[job'[s].cycle][rec] # Absent
    BY <1>1 DEF CommitReady, CountedLines
<1> QED
    BY <1>2, <1>3, <1>4 DEF CommitReady

-----------------------------------------------------------------------------
(* The unnamed conjuncts of CycleInv. *)
LinesKnown ==
    \A c \in Cycles, rec \in StockRecord :
        /\ counted[c][rec] # Absent => system[c][rec] # Absent
        /\ system[c][rec] # Absent => status[c] # "none"

SessionKnown(s) ==
    /\ pc[s] = "count" => system[job[s].cycle][job[s].rec] # Absent
    /\ pc[s] \notin {"idle", "start"} => status[job[s].cycle] # "none"

LEMMA InvParts ==
    CycleInv <=> /\ TypeOK /\ NonNegativeStock /\ LedgerBalances
                 /\ LineReconciledOnce /\ SnapshotCurrent /\ LinesKnown /\ StartsDistinct
                 /\ \A s \in Sessions : CommitReady(s) /\ SessionKnown(s)
BY DEF CycleInv, LinesKnown, SessionKnown

(* Every session but s stays where it is. *)
OnlyMoves(s) == \A t \in Sessions \ {s} : pc'[t] = pc[t] /\ job'[t] = job[t]

(* Sessions about to commit stay ready when s does anything but commit or    *)
(* get ready itself.                                                         *)
LEMMA OthersReady ==
    ASSUME CycleInv, NEW s \in Sessions, OnlyMoves(s), pc'[s] # "commit",
           UNCHANGED <<quantity, variance>>,
           \A t \in Sessions : pc[t] = "commit" => system'[job[t].cycle] = system[job[t].cycle]
    PROVE  \A t \in Sessions \ {s} : CommitReady(t)'
<1> SUFFICES ASSUME NEW t \in Sessions \ {s}, pc[t] = "commit"
             PROVE  CommitReady(t)'
    BY DEF OnlyMoves, CommitReady
<1>1. NoNewcomer(t)
    BY DEF NoNewcomer, OnlyMoves
<1>2. RowsFree(t, job[t])'
    BY <1>1, RowsKept DEF CycleInv, CommitReady
<1>3. \A rec \in StockRecord : quantity'[rec] \in Int /\ quantity'[rec] >= 0
    BY DEF CycleInv, TypeOK, LedgerTypeOK, NonNegativeStock
<1> QED
    BY <1>2, <1>3, ReadyKept DEF OnlyMoves

(* A step that changes no table: s moves on, fails or is lost. *)
QuietStep(s) ==
    \E j \in Job, step \in {"idle", "count", "complete", "reconcile"} :
        /\ pc' = [pc EXCEPT ![s] = step]
        /\ job' = [job EXCEPT ![s] = j]
        /\ step = "count" => system[j.cycle][j.rec] # Absent
        /\ step # "idle" => status[j.cycle] # "none"
        /\ UNCHANGED direct /\ UNCHANGED countRows /\ UNCHANGED varianceRows
        /\ UNCHANGED stockRows

LEMMA QuietInv ==
    ASSUME CycleInv, NEW s \in Sessions, QuietStep(s)
    PROVE  CycleInv'
<1> USE DEF countRows, varianceRows, stockRows
<1>1. PICK j \in Job, step \in {"idle", "count", "complete", "reconcile"} :
          /\ pc' = [pc EXCEPT ![s] = step]
          /\ job' = [job EXCEPT ![s] = j]
          /\ step = "count" => system[j.cycle][j.rec] # Absent
          /\ step # "idle" => status[j.cycle] # "none"
          /\ UNCHANGED direct /\ UNCHANGED countRows /\ UNCHANGED varianceRows
          /\ UNCHANGED stockRows
    BY DEF QuietStep
<1>2. OnlyMoves(s) /\ pc'[s] = step /\ job'[s] = j
    BY <1>1 DEF OnlyMoves, CycleInv, TypeOK
<1>3. TypeOK'
    BY <1>1 DEF CycleInv, TypeOK, LedgerTypeOK, Step
<1>4. NonNegativeStock' /\ LedgerBalances' /\ LineReconciledOnce' /\ LinesKnown'
    BY <1>1 DEF CycleInv, NonNegativeStock, LedgerBalances, LineReconciledOnce, LinesKnown
<1>5. SnapshotCurrent' /\ StartsDistinct'
    BY <1>1, <1>2 DEF CycleInv, SnapshotCurrent, StartsDistinct, OnlyMoves
<1>6. \A t \in Sessions : SessionKnown(t)'
    BY <1>1, <1>2, InvParts DEF SessionKnown, OnlyMoves
<1>7. \A t \in Sessions : CommitReady(t)'
    BY <1>1, <1>2, OthersReady DEF CommitReady
<1> QED
    BY <1>3, <1>4, <1>5, <1>6, <1>7 DEF CycleInv, LinesKnown, SessionKnown

LEMMA QuietSteps ==
    ASSUME CycleInv, NEW s \in Sessions,
           \/ BeginCount(s) \/ BeginComplete(s) \/ BeginReconcile(s)
           \/ ReconcileRefused(s) \/ Crash(s)
    PROVE  QuietStep(s)
<1> USE Defaults
<1>1. CASE BeginCount(s)
    <2>1. PICK c \in Cycles, rec \in StockRecord, n \in Counts :
              /\ status[c] = "in_progress" /\ system[c][rec] # Absent
              /\ Begin(s, "count", [NoJob EXCEPT !.cycle = c, !.rec = rec, !.value = n])
        BY <1>1, ZenonT(60) DEF BeginCount
    <2> DEFINE j == [NoJob EXCEPT !.cycle = c, !.rec = rec, !.value = n]
    <2>2. j \in Job /\ j.cycle = c /\ j.rec = rec
        BY DEF Job
    <2>3. Begin(s, "count", j) /\ UNCHANGED stockRows
        BY <1>1, <2>1 DEF BeginCount
    <2> HIDE DEF j
    <2> QED
        BY <2>1, <2>2, <2>3 DEF QuietStep, Begin
<1>2. CASE BeginComplete(s)
    <2>1. PICK c \in Cycles :
              /\ status[c] = "in_progress"
              /\ Begin(s, "complete", [NoJob EXCEPT !.cycle = c])
        BY <1>2, ZenonT(60) DEF BeginComplete
    <2> DEFINE j == [NoJob EXCEPT !.cycle = c]
    <2>2. j \in Job /\ j.cycle = c
        BY DEF Job
    <2>3. Begin(s, "complete", j) /\ UNCHANGED stockRows
        BY <1>2, <2>1 DEF BeginComplete
    <2> HIDE DEF j
    <2> QED
        BY <2>1, <2>2, <2>3 DEF QuietStep, Begin
<1>3. CASE BeginReconcile(s)
    <2>1. PICK c \in Cycles :
              /\ status[c] = "completed"
              /\ Begin(s, "reconcile", [NoJob EXCEPT !.cycle = c])
        BY <1>3, ZenonT(60) DEF BeginReconcile
    <2> DEFINE j == [NoJob EXCEPT !.cycle = c]
    <2>2. j \in Job /\ j.cycle = c
        BY DEF Job
    <2>3. Begin(s, "reconcile", j) /\ UNCHANGED stockRows
        BY <1>3, <2>1 DEF BeginReconcile
    <2> HIDE DEF j
    <2> QED
        BY <2>1, <2>2, <2>3 DEF QuietStep, Begin
<1>4. CASE ReconcileRefused(s) \/ Crash(s)
    <2>1. Abandon(s)
        BY <1>4 DEF ReconcileRefused, Crash
    <2> QED
        BY <2>1 DEF Abandon, Finish, QuietStep
<1> QED
    BY <1>1, <1>2, <1>3, <1>4

-----------------------------------------------------------------------------
(* start_cycle, record_count and complete_cycle.                             *)

LEMMA StartSnapshotInv ==
    ASSUME CycleInv, NEW s \in Sessions, StartSnapshot(s)
    PROVE  CycleInv'
<1> USE DEF countRows, varianceRows
<1>1. PICK c \in Cycles :
          /\ status[c] = "none"
          /\ \A t \in Sessions : pc[t] = "start" => job[t].cycle # c
          /\ Begin(s, "start", [NoJob EXCEPT !.cycle = c, !.lines = Snapshot(c)])
          /\ disturbed' = disturbed \ ({c} \X StockRecord)
    BY ZenonT(60) DEF StartSnapshot
<1> DEFINE j == [NoJob EXCEPT !.cycle = c, !.lines = Snapshot(c)]
<1>2. Snapshot(c) \in Lines
    BY DEF Snapshot, Lines, CycleInv, TypeOK, LedgerTypeOK
<1>3. j \in Job /\ j.cycle = c /\ j.lines = Snapshot(c)
    BY <1>2, Defaults DEF Job
<1>4. Begin(s, "start", j) /\ UNCHANGED <<quantity, inflow, outflow>>
    BY <1>1 DEF StartSnapshot
<1> HIDE DEF j
<1>5. OnlyMoves(s) /\ pc'[s] = "start" /\ job'[s] = j
    BY <1>3, <1>4 DEF Begin, OnlyMoves, CycleInv, TypeOK
<1>6. TypeOK'
    BY <1>1, <1>3, <1>4 DEF Begin, CycleInv, TypeOK, LedgerTypeOK, Step
<1>7. NonNegativeStock' /\ LedgerBalances' /\ LineReconciledOnce' /\ LinesKnown'
    BY <1>4 DEF Begin, CycleInv, NonNegativeStock, LedgerBalances, LineReconciledOnce, LinesKnown
<1>8. SnapshotCurrent'
    <2>1. ASSUME NEW d \in Cycles, NEW rec \in StockRecord,
                 system[d][rec] # Absent, <<d, rec>> \notin disturbed'
          PROVE  system[d][rec] = quantity[rec]
        <3>1. d # c
            BY <1>1, <2>1 DEF CycleInv
        <3> QED
            BY <1>1, <2>1, <3>1 DEF CycleInv, SnapshotCurrent
    <2>2. ASSUME NEW t \in Sessions, pc'[t] = "start"
          PROVE  /\ status[job'[t].cycle] = "none"
                 /\ \A rec \in StockRecord :
                       job'[t].lines[rec] # Absent /\ <<job'[t].cycle, rec>> \notin disturbed' =>
                           job'[t].lines[rec] = quantity[rec]
        <3>1. CASE t = s
            BY <1>1, <1>3, <1>5, <3>1 DEF Snapshot
        <3>2. CASE t # s
            <4>1. pc[t] = "start" /\ job'[t] = job[t] /\ job[t].cycle # c
                BY <1>1, <1>5, <2>2, <3>2 DEF OnlyMoves
            <4> QED
                BY <1>1, <4>1 DEF CycleInv, SnapshotCurrent
        <3> QED
            BY <3>1, <3>2
    <2> QED
        BY <1>4, <2>1, <2>2 DEF Begin, SnapshotCurrent
<1>9. StartsDistinct'
    BY <1>1, <1>3, <1>5 DEF StartsDistinct, OnlyMoves, CycleInv
<1>10. \A t \in Sessions : SessionKnown(t)'
    BY <1>4, <1>5, InvParts DEF SessionKnown, OnlyMoves, Begin
<1>11. \A t \in Sessions : CommitReady(t)'
    BY <1>4, <1>5, OthersReady DEF CommitReady, Begin
<1> QED
    BY <1>6, <1>7, <1>8, <1>9, <1>10, <1>11 DEF CycleInv, LinesKnown, SessionKnown

(* What Finish(s) does to the sessions. *)
LEMMA FinishFrees ==
    ASSUME TypeOK, NEW s \in Sessions, Finish(s)
    PROVE  /\ OnlyMoves(s) /\ pc'[s] = "idle" /\ job'[s] = NoJob
           /\ pc' \in [Sessions -> Step] /\ job' \in [Sessions -> Job] /\ UNCHANGED direct
BY Defaults DEF Finish, OnlyMoves, TypeOK, Step

LEMMA StartCommitInv ==
    ASSUME CycleInv, NEW s \in Sessions, StartCommit(s)
    PROVE  CycleInv'
<1> USE DEF varianceRows, stockRows
<1> DEFINE c == job[s].cycle
<1>1. /\ pc[s] = "start" /\ c \in Cycles /\ job[s].lines \in Lines
      /\ status' = [status EXCEPT ![c] = "in_progress"]
      /\ system' = [system EXCEPT ![c] = job[s].lines]
      /\ UNCHANGED counted /\ UNCHANGED varianceRows /\ UNCHANGED stockRows
    BY DEF StartCommit, CycleInv, TypeOK, Job
<1>2. /\ OnlyMoves(s) /\ pc'[s] = "idle" /\ job'[s] = NoJob
      /\ pc' \in [Sessions -> Step] /\ job' \in [Sessions -> Job] /\ UNCHANGED direct
    BY FinishFrees DEF StartCommit, CycleInv
<1>3. status[c] = "none"
    BY <1>1 DEF CycleInv, SnapshotCurrent
<1>4. /\ system'[c] = job[s].lines /\ status'[c] = "in_progress"
      /\ \A d \in Cycles \ {c} : system'[d] = system[d] /\ status'[d] = status[d]
    BY <1>1 DEF CycleInv, TypeOK
<1>5. \A t \in Sessions : pc[t] \notin {"idle", "start"} => job[t].cycle \in Cycles \ {c}
    BY <1>3 DEF CycleInv, TypeOK, Job
<1>6. TypeOK'
    BY <1>1, <1>2 DEF CycleInv, TypeOK, LedgerTypeOK, Status
<1> HIDE DEF c
<1>7. NonNegativeStock' /\ LedgerBalances' /\ LineReconciledOnce'
    BY <1>1 DEF CycleInv, NonNegativeStock, LedgerBalances, LineReconciledOnce
<1>8. LinesKnown'
    <2> SUFFICES ASSUME NEW d \in Cycles, NEW rec \in StockRecord
                 PROVE  /\ counted[d][rec] # Absent => system'[d][rec] # Absent
                        /\ system'[d][rec] # Absent => status'[d] # "none"
        BY <1>1 DEF LinesKnown
    <2>1. CASE d = c
        BY <1>3, <1>4, <2>1 DEF CycleInv
    <2>2. CASE d # c
        BY <1>4, <2>2 DEF CycleInv
    <2> QED
        BY <2>1, <2>2
<1>9. SnapshotCurrent'
    <2>1. ASSUME NEW d \in Cycles, NEW rec \in StockRecord,
                 system'[d][rec] # Absent, <<d, rec>> \notin disturbed
          PROVE  system'[d][rec] = quantity[rec]
        <3>1. CASE d = c
            BY <1>1, <1>4, <2>1, <3>1 DEF CycleInv, SnapshotCurrent, c
        <3>2. CASE d # c
            BY <1>4, <2>1, <3>2 DEF CycleInv, SnapshotCurrent
        <3> QED
            BY <3>1, <3>2
    <2>2. ASSUME NEW t \in Sessions, pc'[t] = "start"
          PROVE  /\ t # s /\ pc[t] = "start" /\ job'[t] = job[t]
                 /\ status'[job[t].cycle] = "none"
        <3>1. t # s /\ pc[t] = "start" /\ job'[t] = job[t]
            BY <1>2, <2>2 DEF OnlyMoves
        <3>2. job[t].cycle \in Cycles \ {c} /\ status[job[t].cycle] = "none"
            BY <1>1, <3>1 DEF CycleInv, TypeOK, Job, StartsDistinct, SnapshotCurrent, c
        <3> QED
            BY <1>4, <3>1, <3>2
    <2> QED
        BY <1>1, <2>1, <2>2 DEF CycleInv, SnapshotCurrent
<1>10. StartsDistinct'
    BY <1>2 DEF StartsDistinct, OnlyMoves, CycleInv
<1>11. ASSUME NEW t \in Sessions PROVE SessionKnown(t)'
    <2>1. CASE t = s
        BY <1>2, <2>1 DEF SessionKnown
    <2>2. CASE t # s
        <3>1. pc'[t] = pc[t] /\ job'[t] = job[t] /\ SessionKnown(t)
            BY <1>2, <2>2, InvParts DEF OnlyMoves
        <3> QED
            BY <1>4, <1>5, <3>1 DEF SessionKnown
    <2> QED
        BY <2>1, <2>2
<1>12. ASSUME NEW t \in Sessions PROVE CommitReady(t)'
    <2>1. \A u \in Sessions : pc[u] = "commit" => system'[job[u].cycle] = system[job[u].cycle]
        BY <1>4, <1>5
    <2>2. t # s => CommitReady(t)'
        BY <1>1, <1>2, <2>1, OthersReady
    <2> QED
        BY <1>2, <2>2 DEF CommitReady
<1> QED
    BY <1>6, <1>7, <1>8, <1>9, <1>10, <1>11, <1>12 DEF CycleInv, LinesKnown, SessionKnown

(* record_count and complete_cycle save one column of a row they know. *)
LEMMA SaveInv ==
    ASSUME CycleInv, NEW s \in Sessions, Count(s) \/ Complete(s)
    PROVE  CycleInv'
<1> USE DEF varianceRows, stockRows
<1> DEFINE j == job[s]
<1>1. /\ pc[s] \in {"count", "complete"} /\ j \in Job
      /\ UNCHANGED system /\ UNCHANGED varianceRows /\ UNCHANGED stockRows
    BY DEF Count, Complete, CycleInv, TypeOK
<1>2. /\ OnlyMoves(s) /\ pc'[s] = "idle" /\ job'[s] = NoJob
      /\ pc' \in [Sessions -> Step] /\ job' \in [Sessions -> Job] /\ UNCHANGED direct
    BY FinishFrees DEF Count, Complete, CycleInv
<1>3. j.cycle \in Cycles /\ j.rec \in StockRecord /\ j.value \in Nat /\ status[j.cycle] # "none"
    BY <1>1 DEF Job, CycleInv
<1>4. status' \in [Cycles -> Status] /\ counted' \in [Cycles -> Lines]
    <2>1. CASE Count(s)
        BY <1>3, <2>1 DEF Count, CycleInv, TypeOK, Lines
    <2>2. CASE Complete(s)
        BY <1>3, <2>2 DEF Complete, CycleInv, TypeOK, Status
    <2> QED
        BY <2>1, <2>2
<1>5. /\ \A d \in Cycles : status[d] # "none" => status'[d] # "none"
      /\ \A d \in Cycles : status[d] = "none" => status'[d] = "none"
    BY <1>3 DEF Count, Complete, CycleInv, TypeOK
<1>6. \A d \in Cycles, rec \in StockRecord : counted'[d][rec] # Absent => system[d][rec] # Absent
    <2>1. CASE Count(s)
        <3>1. system[j.cycle][j.rec] # Absent
            BY <2>1 DEF Count, CycleInv
        <3>2. \A d \in Cycles, rec \in StockRecord :
                  counted'[d][rec] = counted[d][rec] \/ (d = j.cycle /\ rec = j.rec)
            BY <1>3, <2>1 DEF Count, CycleInv, TypeOK, Lines
        <3> QED
            BY <3>1, <3>2 DEF CycleInv
    <2>2. CASE Complete(s)
        BY <2>2 DEF Complete, CycleInv
    <2> QED
        BY <2>1, <2>2
<1>7. TypeOK'
    BY <1>1, <1>2, <1>4 DEF CycleInv, TypeOK, LedgerTypeOK
<1>8. NonNegativeStock' /\ LedgerBalances' /\ LineReconciledOnce' /\ LinesKnown'
    BY <1>1, <1>5, <1>6
       DEF CycleInv, NonNegativeStock, LedgerBalances, LineReconciledOnce, LinesKnown
<1> HIDE DEF j
<1>9. SnapshotCurrent'
    <2>1. ASSUME NEW t \in Sessions, pc'[t] = "start"
          PROVE  pc[t] = "start" /\ job'[t] = job[t] /\ status'[job[t].cycle] = "none"
        <3>1. pc[t] = "start" /\ job'[t] = job[t]
            BY <1>2, <2>1 DEF OnlyMoves
        <3>2. job[t].cycle \in Cycles /\ status[job[t].cycle] = "none"
            BY <3>1 DEF CycleInv, SnapshotCurrent, TypeOK, Job
        <3> QED
            BY <1>5, <3>1, <3>2
    <2> QED
        BY <1>1, <2>1 DEF CycleInv, SnapshotCurrent
<1>10. StartsDistinct'
    BY <1>2 DEF StartsDistinct, OnlyMoves, CycleInv
<1>11. ASSUME NEW t \in Sessions PROVE SessionKnown(t)'
    <2>1. CASE t = s
        BY <1>2, <2>1 DEF SessionKnown
    <2>2. CASE t # s
        <3>1. pc'[t] = pc[t] /\ job'[t] = job[t] /\ SessionKnown(t) /\ job[t].cycle \in Cycles
            BY <1>2, <2>2, InvParts DEF OnlyMoves, TypeOK, Job
        <3> QED
            BY <1>1, <1>5, <3>1 DEF SessionKnown
    <2> QED
        BY <2>1, <2>2
<1>12. \A t \in Sessions : CommitReady(t)'
    BY <1>1, <1>2, OthersReady DEF CommitReady
<1> QED
    BY <1>7, <1>8, <1>9, <1>10, <1>11, <1>12 DEF CycleInv, LinesKnown, SessionKnown

-----------------------------------------------------------------------------
(* reconcile_cycle and the movements of others.                              *)

LEMMA ReconcileInv ==
    ASSUME CycleInv, NEW s \in Sessions, Reconcile(s)
    PROVE  CycleInv'
<1> USE DEF countRows, varianceRows, stockRows
<1> DEFINE c == job[s].cycle
<1>1. PICK resolution \in [StockRecord -> Resolution] :
          LET j == [job[s] EXCEPT !.lines = counted[c], !.resolution = resolution] IN
          /\ RowsFree(s, j) /\ Enough(j) /\ ~AlreadyReconciled(c, counted[c])
          /\ job' = [job EXCEPT ![s] = j]
    BY DEF Reconcile
<1> DEFINE j == [job[s] EXCEPT !.lines = counted[c], !.resolution = resolution]
<1>2. /\ RowsFree(s, j) /\ Enough(j) /\ ~AlreadyReconciled(c, counted[c])
      /\ job' = [job EXCEPT ![s] = j]
    BY <1>1
<1>3. /\ pc[s] = "reconcile" /\ pc' = [pc EXCEPT ![s] = "commit"]
      /\ UNCHANGED direct /\ UNCHANGED countRows /\ UNCHANGED varianceRows /\ UNCHANGED stockRows
    BY DEF Reconcile
<1>4. j \in Job /\ j.cycle = c /\ j.lines = counted[c] /\ c \in Cycles
    <2>1. job[s] \in Job /\ c \in Cycles
        BY DEF CycleInv, TypeOK, Job
    <2>2. counted[c] \in Lines
        BY <2>1 DEF CycleInv, TypeOK
    <2> HIDE DEF c
    <2>3. j.cycle = c /\ j.lines = counted[c]
        BY <2>1 DEF Job, c
    <2>4. j \in Job
        BY <2>1, <2>2 DEF Job
    <2> QED
        BY <2>1, <2>3, <2>4
<1> HIDE DEF j, c
<1>5. OnlyMoves(s) /\ pc'[s] = "commit" /\ job'[s] = j
    BY <1>2, <1>3 DEF OnlyMoves, CycleInv, TypeOK
<1>6. TypeOK'
    BY <1>2, <1>3, <1>4 DEF CycleInv, TypeOK, LedgerTypeOK, Step
<1>7. NonNegativeStock' /\ LedgerBalances' /\ LineReconciledOnce' /\ LinesKnown'
    BY <1>3 DEF CycleInv, NonNegativeStock, LedgerBalances, LineReconciledOnce, LinesKnown
<1>8. SnapshotCurrent' /\ StartsDistinct'
    BY <1>3, <1>5 DEF CycleInv, SnapshotCurrent, StartsDistinct, OnlyMoves
<1>9. \A t \in Sessions : SessionKnown(t)'
    <2>1. SessionKnown(s)'
        BY <1>3, <1>4, <1>5 DEF SessionKnown, CycleInv, c
    <2> QED
        BY <1>3, <1>5, <2>1, InvParts DEF SessionKnown, OnlyMoves
<1>10. CommitReady(s)'
    <2>1. RowsFree(s, job[s])'
        BY <1>2, <1>3, <1>5
           DEF RowsFree, OnlyMoves, Adjusted, Adjustment, Variance, CountedLines
    <2>2. Enough(job[s])'
        BY <1>2, <1>3, <1>5 DEF Enough, Adjustment, Variance
    <2>3. ~AlreadyReconciled(job[s].cycle, job[s].lines)'
        BY <1>2, <1>3, <1>4, <1>5 DEF AlreadyReconciled, CountedLines
    <2>4. \A rec \in CountedLines(job'[s].lines) : system'[job'[s].cycle][rec] # Absent
        BY <1>3, <1>4, <1>5 DEF CountedLines, CycleInv
    <2> QED
        BY <2>1, <2>2, <2>3, <2>4 DEF CommitReady
<1>11. ASSUME NEW t \in Sessions \ {s}, pc[t] = "commit"
       PROVE  CommitReady(t)'
    <2>1. pc'[t] = "commit" /\ job'[t] = job[t] /\ CommitReady(t)
        BY <1>5, <1>11 DEF OnlyMoves, CycleInv
    <2>2. RowsFree(t, job[t])'
        <3> SUFFICES ASSUME NEW u \in Sessions \ {t}, pc'[u] = "commit"
                     PROVE  /\ (Adjusted(job[u]) \cap Adjusted(job[t]))' = {}
                            /\ job'[u].cycle = job'[t].cycle =>
                                  CountedLines(job'[u].lines) \cap CountedLines(job'[t].lines) = {}
            BY DEF RowsFree, CountedLines
        <3>1. Adjusted(job[t])' = Adjusted(job[t])
            BY <1>3, <2>1 DEF Adjusted, Adjustment, Variance
        <3>2. CASE u = s
            <4>1. Adjusted(job[s])' = Adjusted(j)
                BY <1>3, <1>5 DEF Adjusted, Adjustment, Variance
            <4> QED
                BY <1>2, <1>5, <1>11, <2>1, <3>1, <3>2, <4>1 DEF RowsFree
        <3>3. CASE u # s
            <4>1. pc[u] = "commit" /\ job'[u] = job[u]
                BY <1>5, <3>3 DEF OnlyMoves
            <4>2. Adjusted(job[u])' = Adjusted(job[u])
                BY <1>3, <4>1 DEF Adjusted, Adjustment, Variance
            <4> QED
                BY <1>11, <2>1, <3>1, <4>1, <4>2 DEF CommitReady, RowsFree
        <3> QED
            BY <3>2, <3>3
    <2>3. \A rec \in StockRecord : quantity'[rec] \in Int /\ quantity'[rec] >= 0
        BY <1>3 DEF CycleInv, TypeOK, LedgerTypeOK, NonNegativeStock
    <2> QED
        BY <1>3, <1>11, <2>1, <2>2, <2>3, ReadyKept
<1>12. \A t \in Sessions : CommitReady(t)'
    BY <1>5, <1>10, <1>11 DEF CommitReady, OnlyMoves
<1> QED
    BY <1>6, <1>7, <1>8, <1>9, <1>12 DEF CycleInv, LinesKnown, SessionKnown

LEMMA ReconcileCommitInv ==
    ASSUME CycleInv, NEW s \in Sessions, ReconcileCommit(s)
    PROVE  CycleInv'
<1> DEFINE j == job[s]
           walked == CountedLines(j.lines)
<1>1. /\ pc[s] = "commit" /\ CommitReady(s) /\ j \in Job /\ j.cycle \in Cycles
      /\ walked \subseteq StockRecord /\ TypeOK
    BY DEF ReconcileCommit, CycleInv, TypeOK, Job, CountedLines
<1>2. /\ quantity' = [rec \in StockRecord |-> quantity[rec] + Adjustment(j, rec)]
      /\ inflow' = [rec \in StockRecord |-> inflow[rec] + Gain(j, rec)]
      /\ outflow' = [rec \in StockRecord |-> outflow[rec] + Loss(j, rec)]
      /\ disturbed' = disturbed \cup (Cycles \X Adjusted(j))
      /\ variance' = [variance EXCEPT ![j.cycle] = [rec \in StockRecord |->
                         IF rec \in walked THEN j.resolution[rec] ELSE @[rec]]]
      /\ physical' = [physical EXCEPT ![j.cycle] = [rec \in StockRecord |->
                         IF rec \in walked THEN j.lines[rec] ELSE @[rec]]]
      /\ reconciled' = [reconciled EXCEPT ![j.cycle] = [rec \in StockRecord |->
                         IF rec \in walked THEN @[rec] + 1 ELSE @[rec]]]
      /\ status' = [status EXCEPT ![j.cycle] = "reconciled"]
      /\ UNCHANGED <<system, counted>>
    BY DEF ReconcileCommit
<1>3. /\ OnlyMoves(s) /\ pc'[s] = "idle" /\ job'[s] = NoJob
      /\ pc' \in [Sessions -> Step] /\ job' \in [Sessions -> Job] /\ UNCHANGED direct
    BY FinishFrees, <1>1 DEF ReconcileCommit
<1>4. status[j.cycle] # "none"
    BY <1>1 DEF CycleInv
<1>5. \A rec \in StockRecord :
          /\ Adjustment(j, rec) \in Int
          /\ Gain(j, rec) \in Nat /\ Loss(j, rec) \in Nat
          /\ Adjustment(j, rec) = Gain(j, rec) - Loss(j, rec)
          /\ quantity[rec] + Adjustment(j, rec) >= 0
          /\ rec \notin Adjusted(j) => Adjustment(j, rec) = 0
    BY <1>1, AdjustmentTypes
<1>6. /\ \A rec \in StockRecord : j.resolution[rec] \in Resolution
      /\ j.lines \in Lines
      /\ Adjusted(j) \subseteq StockRecord
    BY <1>1 DEF Job, Adjusted
<1> HIDE DEF j, walked
<1>7. \A rec \in StockRecord :
          /\ quantity'[rec] = quantity[rec] + Adjustment(j, rec)
          /\ inflow'[rec] = inflow[rec] + Gain(j, rec)
          /\ outflow'[rec] = outflow[rec] + Loss(j, rec)
          /\ quantity[rec] \in Int /\ inflow[rec] \in Nat /\ outflow[rec] \in Nat
    BY <1>1, <1>2 DEF TypeOK, LedgerTypeOK
<1>8. quantity' \in [StockRecord -> Int] /\ inflow' \in [StockRecord -> Nat]
      /\ outflow' \in [StockRecord -> Nat]
    BY <1>2, <1>5, <1>7
<1>9. \A d \in Cycles, rec \in StockRecord :
          IF d = j.cycle /\ rec \in walked
          THEN /\ variance'[d][rec] = j.resolution[rec]
               /\ physical'[d][rec] = j.lines[rec]
               /\ reconciled'[d][rec] = reconciled[d][rec] + 1
          ELSE /\ variance'[d][rec] = variance[d][rec]
               /\ physical'[d][rec] = physical[d][rec]
               /\ reconciled'[d][rec] = reconciled[d][rec]
    BY <1>1, <1>2 DEF TypeOK
<1>10. TypeOK'
    <2>1. /\ variance' \in [Cycles -> [StockRecord -> Resolution \cup {"none"}]]
          /\ physical' \in [Cycles -> Lines]
          /\ reconciled' \in [Cycles -> [StockRecord -> Nat]]
        BY <1>1, <1>2, <1>6 DEF TypeOK, Lines
    <2>2. status' \in [Cycles -> Status] /\ disturbed' \subseteq Cycles \X StockRecord
        BY <1>1, <1>2, <1>6 DEF TypeOK, Status
    <2> QED
        BY <1>1, <1>2, <1>3, <1>8, <2>1, <2>2 DEF TypeOK, LedgerTypeOK
<1>11. NonNegativeStock'
    BY <1>5, <1>7 DEF NonNegativeStock
<1>12. LedgerBalances'
    <2>1. \A rec \in StockRecord : quantity[rec] = inflow[rec] - outflow[rec]
        BY DEF CycleInv, LedgerBalances
    <2>2. \A rec \in StockRecord : quantity'[rec] = inflow'[rec] - outflow'[rec]
        BY <1>5, <1>7, <2>1
    <2> QED
        BY <2>2 DEF LedgerBalances
<1>13. LineReconciledOnce'
    <2>1. \A rec \in walked : variance[j.cycle][rec] = "none"
        BY <1>1 DEF CommitReady, AlreadyReconciled, j, walked
    <2>2. "none" \notin Resolution
        BY DEF Resolution
    <2> SUFFICES ASSUME NEW d \in Cycles, NEW rec \in StockRecord
                 PROVE  reconciled'[d][rec] = IF variance'[d][rec] = "none" THEN 0 ELSE 1
        BY DEF LineReconciledOnce
    <2>3. reconciled[d][rec] = IF variance[d][rec] = "none" THEN 0 ELSE 1
        BY DEF CycleInv, LineReconciledOnce
    <2> QED
        BY <1>6, <1>9, <2>1, <2>2, <2>3
<1>14. /\ \A d \in Cycles : status[d] = "none" => status'[d] = "none"
       /\ \A d \in Cycles : status[d] # "none" => status'[d] # "none"
    BY <1>1, <1>2, <1>4 DEF TypeOK, j
<1>15. LinesKnown'
    BY <1>2, <1>14 DEF CycleInv, LinesKnown
<1>16. SnapshotCurrent'
    <2>1. \A d \in Cycles, rec \in StockRecord : <<d, rec>> \notin disturbed' =>
              <<d, rec>> \notin disturbed /\ quantity'[rec] = quantity[rec]
        BY <1>2, <1>5, <1>7
    <2>2. ASSUME NEW t \in Sessions, pc'[t] = "start"
          PROVE  /\ pc[t] = "start" /\ job'[t] = job[t] /\ job[t].cycle \in Cycles
                 /\ status'[job[t].cycle] = "none"
        <3>1. pc[t] = "start" /\ job'[t] = job[t]
            BY <1>3, <2>2 DEF OnlyMoves
        <3>2. job[t].cycle \in Cycles /\ status[job[t].cycle] = "none"
            BY <3>1 DEF CycleInv, SnapshotCurrent, TypeOK, Job
        <3> QED
            BY <1>14, <3>1, <3>2
    <2> QED
        BY <1>2, <2>1, <2>2 DEF CycleInv, SnapshotCurrent
<1>17. StartsDistinct'
    BY <1>3 DEF StartsDistinct, OnlyMoves, CycleInv
<1>18. ASSUME NEW t \in Sessions PROVE SessionKnown(t)'
    <2>1. CASE t = s
        BY <1>3, <2>1 DEF SessionKnown
    <2>2. CASE t # s
        <3>1. pc'[t] = pc[t] /\ job'[t] = job[t] /\ SessionKnown(t) /\ job[t].cycle \in Cycles
            BY <1>3, <2>2, InvParts DEF OnlyMoves, TypeOK, Job
        <3> QED
            BY <1>2, <1>14, <3>1 DEF SessionKnown
    <2> QED
        BY <2>1, <2>2
<1>19. ASSUME NEW t \in Sessions PROVE CommitReady(t)'
    <2>1. CASE t # s /\ pc[t] = "commit"
        <3>1. pc'[t] = pc[t] /\ job'[t] = job[t] /\ CommitReady(t)
            BY <1>3, <2>1 DEF OnlyMoves, CycleInv
        <3>2. /\ Adjusted(j) \cap Adjusted(job[t]) = {}
              /\ j.cycle = job[t].cycle => walked \cap CountedLines(job[t].lines) = {}
            BY <1>1, <2>1, <3>1 DEF CommitReady, RowsFree, j, walked
        <3>3. \A rec \in Adjusted(job[t]) : quantity'[rec] = quantity[rec]
            <4>1. \A rec \in Adjusted(job[t]) : rec \in StockRecord /\ rec \notin Adjusted(j)
                BY <3>2 DEF Adjusted
            <4> QED
                BY <1>5, <1>7, <4>1
        <3>4. \A rec \in CountedLines(job[t].lines) :
                  variance'[job[t].cycle][rec] = variance[job[t].cycle][rec]
            <4>1. job[t].cycle \in Cycles /\ CountedLines(job[t].lines) \subseteq StockRecord
                BY <1>1 DEF TypeOK, Job, CountedLines
            <4> QED
                BY <1>9, <3>2, <4>1
        <3>5. NoNewcomer(t)
            BY <1>2, <1>3, <2>1, <3>1 DEF NoNewcomer, OnlyMoves
        <3>6. RowsFree(t, job[t])'
            BY <3>1, <3>5, <2>1, RowsKept DEF CommitReady
        <3>7. \A rec \in StockRecord : quantity'[rec] \in Int /\ quantity'[rec] >= 0
            BY <1>5, <1>7
        <3> QED
            BY <1>2, <2>1, <3>1, <3>3, <3>4, <3>6, <3>7, ReadyKept
    <2>2. CASE t = s \/ pc[t] # "commit"
        BY <1>3, <2>2 DEF CommitReady, OnlyMoves
    <2> QED
        BY <2>1, <2>2
<1> QED
    BY <1>10, <1>11, <1>12, <1>13, <1>15, <1>16, <1>17, <1>18, <1>19
       DEF CycleInv, LinesKnown, SessionKnown

LEMMA DirectInv ==
    ASSUME CycleInv, DirectMovement
    PROVE  CycleInv'
<1> USE DEF countRows, varianceRows
<1>1. PICK m \in Movement :
          /\ \A s \in Sessions : pc[s] = "commit" => Touched(m) \cap Adjusted(job[s]) = {}
          /\ Post(m)
          /\ disturbed' = disturbed \cup (Cycles \X Touched(m))
    BY DEF DirectMovement
<1>2. /\ UNCHANGED <<pc, job>> /\ UNCHANGED countRows /\ UNCHANGED varianceRows
      /\ direct' = direct + 1
    BY DEF DirectMovement
<1>3. LedgerInv'
    BY <1>1, PostInv DEF CycleInv, TypeOK, LedgerInv
<1>4. TypeOK'
    BY <1>1, <1>2, <1>3 DEF CycleInv, TypeOK, LedgerInv, Touched
<1>5. \A rec \in StockRecord \ Touched(m) : quantity'[rec] = quantity[rec]
    BY <1>1, MovementTypes DEF Post, Touched, Outgoing, Incoming, CycleInv, TypeOK, LedgerTypeOK
<1>6. LineReconciledOnce' /\ LinesKnown' /\ StartsDistinct'
    BY <1>2 DEF CycleInv, LineReconciledOnce, LinesKnown, StartsDistinct
<1>7. SnapshotCurrent'
    <2>1. \A d \in Cycles, rec \in StockRecord : <<d, rec>> \notin disturbed' =>
              <<d, rec>> \notin disturbed /\ quantity'[rec] = quantity[rec]
        BY <1>1, <1>5
    <2>2. \A t \in Sessions : job[t].cycle \in Cycles
        BY DEF CycleInv, TypeOK, Job
    <2> QED
        BY <1>2, <2>1, <2>2 DEF CycleInv, SnapshotCurrent
<1>8. \A t \in Sessions : SessionKnown(t)'
    BY <1>2, InvParts DEF SessionKnown
<1>9. ASSUME NEW t \in Sessions PROVE CommitReady(t)'
    <2>1. CASE pc[t] = "commit"
        <3>1. \A rec \in Adjusted(job[t]) : quantity'[rec] = quantity[rec]
            BY <1>1, <1>5, <2>1 DEF Adjusted
        <3>2. NoNewcomer(t)
            BY <1>2, <2>1 DEF NoNewcomer
        <3>3. RowsFree(t, job[t])'
            BY <2>1, <3>2, RowsKept DEF CommitReady, CycleInv
        <3>4. \A rec \in StockRecord : quantity'[rec] \in Int /\ quantity'[rec] >= 0
            BY <1>3 DEF LedgerInv, LedgerTypeOK, NonNegativeStock
        <3> QED
            BY <1>2, <2>1, <3>1, <3>3, <3>4, ReadyKept
    <2>2. CASE pc[t] # "commit"
        BY <1>2, <2>2 DEF CommitReady
    <2> QED
        BY <2>1, <2>2
<1> QED
    BY <1>3, <1>4, <1>6, <1>7, <1>8, <1>9 DEF CycleInv, LedgerInv, LinesKnown, SessionKnown

-----------------------------------------------------------------------------
(* Every step.                                                               *)

LEMMA InitCycleInv == Init => CycleInv
<1> SUFFICES ASSUME Init PROVE CycleInv
    OBVIOUS
<1>1. LedgerInv
    BY LedgerInitInv DEF Init
<1>2. TypeOK
    BY <1>1, Defaults DEF Init, TypeOK, LedgerInv, Status, Step
<1>3. LineReconciledOnce /\ SnapshotCurrent /\ StartsDistinct /\ LinesKnown
    BY DEF Init, LineReconciledOnce, SnapshotCurrent, StartsDistinct, LinesKnown, NoLines
<1>4. \A s \in Sessions : CommitReady(s) /\ SessionKnown(s)
    BY DEF Init, CommitReady, SessionKnown
<1> QED
    BY <1>1, <1>2, <1>3, <1>4, InvParts DEF LedgerInv

LEMMA StepCycleInv ==
    ASSUME CycleInv, [Next]_cycleVars
    PROVE  CycleInv'
<1>1. CASE UNCHANGED cycleVars
    <2> USE <1>1 DEF cycleVars
    <2>1. TypeOK' /\ NonNegativeStock' /\ LedgerBalances' /\ LineReconciledOnce'
        BY DEF CycleInv, TypeOK, LedgerTypeOK, NonNegativeStock, LedgerBalances, LineReconciledOnce
    <2>2. SnapshotCurrent' /\ StartsDistinct' /\ LinesKnown'
        BY DEF CycleInv, SnapshotCurrent, StartsDistinct, LinesKnown
    <2>3. ASSUME NEW s \in Sessions PROVE CommitReady(s)' /\ SessionKnown(s)'
        <3>1. SessionKnown(s)'
            BY InvParts DEF SessionKnown
        <3>2. CASE pc[s] = "commit"
            <4>1. NoNewcomer(s) /\ CommitReady(s)
                BY <3>2 DEF NoNewcomer, CycleInv
            <4>2. RowsFree(s, job[s])'
                BY <3>2, <4>1, RowsKept DEF CommitReady
            <4>3. \A rec \in StockRecord : quantity'[rec] \in Int /\ quantity'[rec] >= 0
                BY DEF CycleInv, TypeOK, LedgerTypeOK, NonNegativeStock
            <4> QED
                BY <3>1, <3>2, <4>2, <4>3, ReadyKept
        <3>3. CASE pc[s] # "commit"
            BY <3>1, <3>3 DEF CommitReady
        <3> QED
            BY <3>2, <3>3
    <2> QED
        BY <2>1, <2>2, <2>3 DEF CycleInv, LinesKnown, SessionKnown
<1>2. ASSUME NEW s \in Sessions,
             \/ StartSnapshot(s) \/ StartCommit(s) \/ BeginCount(s) \/ Count(s)
             \/ BeginComplete(s) \/ Complete(s) \/ BeginReconcile(s) \/ Reconcile(s)
             \/ ReconcileRefused(s) \/ ReconcileCommit(s) \/ Crash(s)
      PROVE  CycleInv'
    BY <1>2, QuietSteps, QuietInv, StartSnapshotInv, StartCommitInv, SaveInv, ReconcileInv,
       ReconcileCommitInv
<1> QED
    BY <1>1, <1>2, DirectInv DEF Next

-----------------------------------------------------------------------------

(* For any number of cycles, sessions and records, every reachable state of  *)
(* the counting calls satisfies the inductive invariant.                     *)
THEOREM CycleInvariant == Spec => []CycleInv
<1> QED BY InitCycleInv, StepCycleInv, PTL DEF Spec

(* reconcile_cycle adjusts the stock by a count line at most once, however   *)
(* its calls interleave and although it never locks the cycle it tests.      *)
THEOREM ReconciledOnce == Spec => []LineReconciledOnce
<1>1. CycleInv => LineReconciledOnce
    BY DEF CycleInv
<1> QED BY <1>1, CycleInvariant, PTL

(* Where nothing has moved the record since start_cycle read it, accepting   *)
(* a count leaves in the record exactly what was counted.                    *)
THEOREM AcceptedBecomesStock == Spec => AcceptedCountIsStock
<1> DEFINE Taken(c, rec) == variance[c][rec] = "none" /\ variance'[c][rec] = "accepted"
<1>1. ASSUME CycleInv, [Next]_cycleVars, NEW c \in Cycles, NEW rec \in StockRecord,
             Taken(c, rec), <<c, rec>> \notin disturbed
      PROVE  quantity'[rec] = physical'[c][rec]
    <2>1. PICK s \in Sessions : ReconcileCommit(s)
        BY <1>1 DEF Next, cycleVars, countRows, varianceRows, StartSnapshot, StartCommit,
           BeginCount, Count, BeginComplete, Complete, BeginReconcile, Reconcile,
           ReconcileRefused, Crash, Abandon, Begin, DirectMovement
    <2> DEFINE j == job[s]
               walked == CountedLines(j.lines)
    <2>2. /\ pc[s] = "commit" /\ CommitReady(s) /\ TypeOK
          /\ j \in Job /\ j.cycle \in Cycles
        BY <1>1, <2>1 DEF ReconcileCommit, CycleInv, TypeOK, Job
    <2>3. c = j.cycle /\ rec \in walked
        BY <1>1, <2>1, <2>2 DEF ReconcileCommit, TypeOK
    <2>4. variance'[c][rec] = j.resolution[rec] /\ physical'[c][rec] = j.lines[rec]
        BY <2>1, <2>2, <2>3 DEF ReconcileCommit, TypeOK
    <2>5. j.lines[rec] # Absent /\ j.lines[rec] \in Int
        BY <2>2, <2>3 DEF CountedLines, Job, Lines
    <2>6. system[c][rec] # Absent /\ system[c][rec] = quantity[rec]
        BY <1>1, <2>2, <2>3 DEF CommitReady, CycleInv, SnapshotCurrent
    <2>7. quantity'[rec] = quantity[rec] + Adjustment(j, rec)
        BY <2>1 DEF ReconcileCommit
    <2>8. Adjustment(j, rec) = j.lines[rec] - system[c][rec]
        BY <1>1, <2>3, <2>4, <2>5 DEF Adjustment, Variance
    <2>9. quantity[rec] \in Int
        BY <2>2 DEF TypeOK, LedgerTypeOK
    <2> HIDE DEF j, walked
    <2> QED
        BY <2>4, <2>5, <2>6, <2>7, <2>8, <2>9
<1>2. CycleInv /\ [Next]_cycleVars =>
          [\A c \in Cycles, rec \in StockRecord :
              /\ variance[c][rec] = "none" /\ variance'[c][rec] = "accepted"
              /\ <<c, rec>> \notin disturbed
              => quantity'[rec] = physical'[c][rec]]_cycleVars
    BY <1>1
<1> QED BY <1>2, CycleInvariant, PTL DEF AcceptedCountIsStock, Spec


-----------------------------------------------------------------------------
(* The reports: accepted variances are what the stock has changed by.        *)

(* What the accepted variances of record rec come to, cycle by cycle. *)
AcceptedAt(rec) == [c \in Cycles |->
    IF variance[c][rec] = "accepted" THEN VarianceQuantity(c, rec) ELSE 0]

VarianceKnown(c, rec) ==
    /\ variance[c][rec] # "none" =>
          /\ physical[c][rec] # Absent /\ system[c][rec] # Absent
          /\ status[c] \in {"completed", "reconciled"}
    /\ system[c][rec] # Absent => rec \in Scope[c]

StartInScope(s) ==
    pc[s] = "start" =>
        \A rec \in StockRecord : job[s].lines[rec] # Absent => rec \in Scope[job[s].cycle]

StockExplained ==
    direct = 0 => \A rec \in StockRecord :
        quantity[rec] = Opening[rec] + SumFunctionOnSet(AcceptedAt(rec), Cycles)

(* What the reports need to know of the rows besides CycleInv. *)
VarianceInv ==
    /\ \A c \in Cycles, rec \in StockRecord : VarianceKnown(c, rec)
    /\ \A s \in Sessions : StartInScope(s)
    /\ StockExplained

LEMMA AcceptedTypes ==
    ASSUME TypeOK, VarianceInv, NEW rec \in StockRecord
    PROVE  \A c \in Cycles : AcceptedAt(rec)[c] \in Int
<1> SUFFICES ASSUME NEW c \in Cycles, variance[c][rec] = "accepted"
             PROVE  VarianceQuantity(c, rec) \in Int
    BY DEF AcceptedAt
<1>1. physical[c][rec] \in Int /\ system[c][rec] \in Int
    BY DEF TypeOK, Lines, VarianceInv, VarianceKnown
<1> QED
    BY <1>1 DEF VarianceQuantity

LEMMA InitVarianceInv == Init => VarianceInv
<1> SUFFICES ASSUME Init PROVE VarianceInv
    OBVIOUS
<1>1. /\ \A c \in Cycles, rec \in StockRecord : VarianceKnown(c, rec)
      /\ \A s \in Sessions : StartInScope(s)
    BY DEF Init, VarianceKnown, StartInScope, NoLines
<1>2. ASSUME NEW rec \in StockRecord
      PROVE  quantity[rec] = Opening[rec] + SumFunctionOnSet(AcceptedAt(rec), Cycles)
    <2>1. \A c \in Cycles : AcceptedAt(rec)[c] = 0
        BY DEF AcceptedAt, Init
    <2>2. SumFunctionOnSet(AcceptedAt(rec), Cycles) = 0
        BY <2>1, SumZero, CycleReportAssumption
    <2>3. quantity[rec] = Opening[rec] /\ Opening[rec] \in Int
        BY DEF Init, LedgerInit
    <2> QED BY <2>2, <2>3
<1> QED
    BY <1>1, <1>2 DEF VarianceInv, StockExplained

(* A step that leaves the variances, the snapshots they refer to and the     *)
(* stock of the counting calls alone.                                        *)
LEMMA VarianceKept ==
    ASSUME CycleInv, VarianceInv, UNCHANGED <<variance, physical>>,
           \A c \in Cycles, rec \in StockRecord :
              /\ variance[c][rec] # "none" => system'[c][rec] = system[c][rec]
              /\ status[c] \in {"completed", "reconciled"} =>
                    status'[c] \in {"completed", "reconciled"}
              /\ system'[c][rec] # Absent => rec \in Scope[c],
           \A s \in Sessions : StartInScope(s)',
           direct' = 0 => direct = 0 /\ quantity' = quantity
    PROVE  VarianceInv'
<1>1. \A c \in Cycles, rec \in StockRecord : VarianceKnown(c, rec)'
    BY DEF VarianceInv, VarianceKnown
<1>2. ASSUME NEW rec \in StockRecord
      PROVE  SumFunctionOnSet(AcceptedAt(rec), Cycles)'
             = SumFunctionOnSet(AcceptedAt(rec), Cycles)
    <2>1. AcceptedAt(rec)' = AcceptedAt(rec)
        BY DEF AcceptedAt, VarianceQuantity
    <2> QED BY <2>1
<1>3. StockExplained'
    BY <1>2 DEF StockExplained, VarianceInv
<1> QED
    BY <1>1, <1>3 DEF VarianceInv

LEMMA StartsInScopeKept ==
    ASSUME CycleInv, VarianceInv, NEW s \in Sessions, OnlyMoves(s), pc'[s] # "start"
    PROVE  \A t \in Sessions : StartInScope(t)'
<1> SUFFICES ASSUME NEW t \in Sessions \ {s}
             PROVE  StartInScope(t)'
    BY DEF StartInScope
<1> QED
    BY DEF VarianceInv, StartInScope, OnlyMoves

(* The calls that store no variance. *)
LEMMA OtherVarianceInv ==
    ASSUME CycleInv, VarianceInv, NEW s \in Sessions,
           \/ StartSnapshot(s) \/ StartCommit(s) \/ BeginCount(s) \/ Count(s)
           \/ BeginComplete(s) \/ Complete(s) \/ BeginReconcile(s) \/ Reconcile(s)
           \/ ReconcileRefused(s) \/ Crash(s)
    PROVE  VarianceInv'
<1> USE DEF countRows, varianceRows, stockRows
<1>1. TypeOK
    BY DEF CycleInv
<1>2. CASE StartSnapshot(s)
    <2>1. PICK c \in Cycles :
              Begin(s, "start", [NoJob EXCEPT !.cycle = c, !.lines = Snapshot(c)])
        BY <1>2, ZenonT(60) DEF StartSnapshot
    <2> DEFINE j == [NoJob EXCEPT !.cycle = c, !.lines = Snapshot(c)]
    <2>2. j.cycle = c /\ j.lines = Snapshot(c)
        BY DEF NoJob
    <2>3. Begin(s, "start", j) /\ UNCHANGED <<quantity, inflow, outflow>>
        BY <1>2, <2>1 DEF StartSnapshot
    <2> HIDE DEF j
    <2>4. \A t \in Sessions : IF t = s THEN pc'[t] = "start" /\ job'[t] = j
                              ELSE pc'[t] = pc[t] /\ job'[t] = job[t]
        BY <1>1, <2>3 DEF Begin, TypeOK
    <2>5. \A t \in Sessions : StartInScope(t)'
        BY <2>2, <2>4 DEF StartInScope, Snapshot, VarianceInv
    <2> QED
        BY <2>3, <2>5, VarianceKept DEF Begin, VarianceInv, VarianceKnown
<1>3. CASE StartCommit(s)
    <2> DEFINE c == job[s].cycle
    <2>1. /\ pc[s] = "start" /\ c \in Cycles /\ status[c] = "none"
          /\ UNCHANGED varianceRows /\ UNCHANGED <<quantity, direct>>
        BY <1>1, <1>3 DEF StartCommit, Finish, CycleInv, SnapshotCurrent, TypeOK, Job
    <2>2. OnlyMoves(s) /\ pc'[s] # "start"
        BY <1>1, <1>3, FinishFrees DEF StartCommit
    <2>3. /\ system'[c] = job[s].lines /\ status'[c] = "in_progress"
          /\ \A d \in Cycles \ {c} : system'[d] = system[d] /\ status'[d] = status[d]
        BY <1>1, <1>3, <2>1 DEF StartCommit, TypeOK
    <2>4. \A rec \in StockRecord :
              variance[c][rec] = "none" /\ (job[s].lines[rec] # Absent => rec \in Scope[c])
        BY <2>1 DEF VarianceInv, VarianceKnown, StartInScope
    <2> HIDE DEF c
    <2>5. ASSUME NEW d \in Cycles, NEW rec \in StockRecord
          PROVE  /\ variance[d][rec] # "none" => system'[d][rec] = system[d][rec]
                 /\ status[d] \in {"completed", "reconciled"} =>
                       status'[d] \in {"completed", "reconciled"}
                 /\ system'[d][rec] # Absent => rec \in Scope[d]
        <3>1. CASE d = c
            BY <2>1, <2>3, <2>4, <3>1
        <3>2. CASE d # c
            BY <2>3, <3>2 DEF VarianceInv, VarianceKnown
        <3> QED BY <3>1, <3>2
    <2>6. \A t \in Sessions : StartInScope(t)'
        BY <2>2, StartsInScopeKept
    <2> QED
        BY <2>1, <2>5, <2>6, VarianceKept
<1>4. CASE Count(s) \/ Complete(s)
    <2>1. OnlyMoves(s) /\ pc'[s] # "start"
        BY <1>1, <1>4, FinishFrees DEF Count, Complete
    <2>2. \A c \in Cycles : status[c] \in {"completed", "reconciled"} =>
              status'[c] \in {"completed", "reconciled"}
        BY <1>1, <1>4 DEF Count, Complete, TypeOK
    <2>3. \A t \in Sessions : StartInScope(t)'
        BY <2>1, StartsInScopeKept
    <2>4. UNCHANGED <<variance, physical, system, quantity, direct>>
        BY <1>4 DEF Count, Complete, Finish
    <2> QED
        BY <2>2, <2>3, <2>4, VarianceKept DEF VarianceInv, VarianceKnown
<1>5. CASE \/ BeginCount(s) \/ BeginComplete(s) \/ BeginReconcile(s)
           \/ ReconcileRefused(s) \/ Crash(s)
    <2>1. PICK j \in Job, step \in {"idle", "count", "complete", "reconcile"} :
              /\ pc' = [pc EXCEPT ![s] = step] /\ job' = [job EXCEPT ![s] = j]
              /\ UNCHANGED direct /\ UNCHANGED countRows /\ UNCHANGED varianceRows
              /\ UNCHANGED stockRows
        BY <1>5, QuietSteps DEF QuietStep
    <2>2. OnlyMoves(s) /\ pc'[s] # "start"
        BY <1>1, <2>1 DEF OnlyMoves, TypeOK
    <2>3. \A t \in Sessions : StartInScope(t)'
        BY <2>2, StartsInScopeKept
    <2> QED
        BY <2>1, <2>3, VarianceKept DEF VarianceInv, VarianceKnown
<1>6. CASE Reconcile(s)
    <2>1. /\ pc' = [pc EXCEPT ![s] = "commit"]
          /\ \E j : job' = [job EXCEPT ![s] = j]
          /\ UNCHANGED direct /\ UNCHANGED countRows /\ UNCHANGED varianceRows
          /\ UNCHANGED stockRows
        BY <1>6 DEF Reconcile
    <2>2. OnlyMoves(s) /\ pc'[s] # "start"
        BY <1>1, <2>1 DEF OnlyMoves, TypeOK
    <2>3. \A t \in Sessions : StartInScope(t)'
        BY <2>2, StartsInScopeKept
    <2> QED
        BY <2>1, <2>3, VarianceKept DEF VarianceInv, VarianceKnown
<1> QED
    BY <1>2, <1>3, <1>4, <1>5, <1>6


(* reconcile_cycle stores the variance and the adjustment of a line together. *)
LEMMA CommitVarianceInv ==
    ASSUME CycleInv, VarianceInv, NEW s \in Sessions, ReconcileCommit(s)
    PROVE  VarianceInv'
<1> DEFINE j == job[s]
           walked == CountedLines(j.lines)
<1>1. /\ pc[s] = "commit" /\ CommitReady(s) /\ TypeOK
      /\ j \in Job /\ j.cycle \in Cycles /\ j.lines \in Lines
    BY DEF ReconcileCommit, CycleInv, TypeOK, Job
<1>2. /\ quantity' = [rec \in StockRecord |-> quantity[rec] + Adjustment(j, rec)]
      /\ variance' = [variance EXCEPT ![j.cycle] = [rec \in StockRecord |->
                         IF rec \in walked THEN j.resolution[rec] ELSE @[rec]]]
      /\ physical' = [physical EXCEPT ![j.cycle] = [rec \in StockRecord |->
                         IF rec \in walked THEN j.lines[rec] ELSE @[rec]]]
      /\ status' = [status EXCEPT ![j.cycle] = "reconciled"]
      /\ UNCHANGED <<system, counted>>
    BY DEF ReconcileCommit
<1>3. OnlyMoves(s) /\ pc'[s] = "idle" /\ UNCHANGED direct
    BY <1>1, FinishFrees DEF ReconcileCommit
<1>4. \A rec \in walked :
          /\ variance[j.cycle][rec] = "none" /\ system[j.cycle][rec] # Absent
          /\ rec \in StockRecord /\ j.lines[rec] # Absent
    BY <1>1 DEF CommitReady, AlreadyReconciled, CountedLines
<1>5. \A rec \in StockRecord :
          Adjustment(j, rec) = IF rec \in walked /\ j.resolution[rec] = "accepted"
                               THEN j.lines[rec] - system[j.cycle][rec] ELSE 0
    BY DEF Adjustment, Variance, CountedLines
<1> HIDE DEF j, walked
<1>6. \A d \in Cycles, rec \in StockRecord :
          IF d = j.cycle /\ rec \in walked
          THEN variance'[d][rec] = j.resolution[rec] /\ physical'[d][rec] = j.lines[rec]
          ELSE variance'[d][rec] = variance[d][rec] /\ physical'[d][rec] = physical[d][rec]
    BY <1>1, <1>2 DEF TypeOK
<1>7. \A d \in Cycles : status'[d] = IF d = j.cycle THEN "reconciled" ELSE status[d]
    BY <1>1, <1>2 DEF TypeOK
<1>8. ASSUME NEW d \in Cycles, NEW rec \in StockRecord
      PROVE  VarianceKnown(d, rec)'
    <2>1. VarianceKnown(d, rec) /\ system' = system
        BY <1>2 DEF VarianceInv
    <2> QED
        BY <1>4, <1>6, <1>7, <2>1 DEF VarianceKnown
<1>9. \A t \in Sessions : StartInScope(t)'
    BY <1>3, StartsInScopeKept
<1>10. ASSUME direct = 0, NEW rec \in StockRecord
       PROVE  quantity'[rec] = Opening[rec] + SumFunctionOnSet(AcceptedAt(rec), Cycles)'
    <2> DEFINE old == AcceptedAt(rec)
               new == [c \in Cycles |-> IF variance'[c][rec] = "accepted"
                                        THEN physical'[c][rec] - system[c][rec] ELSE 0]
    <2>1. AcceptedAt(rec)' = new
        BY <1>2 DEF AcceptedAt, VarianceQuantity
    <2>2. \A c \in Cycles : old[c] \in Int
        BY <1>1, AcceptedTypes
    <2>3. \A c \in Cycles \ {j.cycle} : new[c] = old[c]
        BY <1>6 DEF AcceptedAt, VarianceQuantity
    <2>4. Adjustment(j, rec) \in Int
        BY <1>1, AdjustmentTypes DEF j
    <2>5. new[j.cycle] = old[j.cycle] + Adjustment(j, rec)
        <3>1. CASE rec \in walked
            <4>1. old[j.cycle] = 0
                BY <1>1, <1>4, <3>1 DEF AcceptedAt
            <4>2. new[j.cycle] = Adjustment(j, rec)
                BY <1>1, <1>5, <1>6, <3>1
            <4> HIDE DEF old, new
            <4> QED BY <2>4, <4>1, <4>2
        <3>2. CASE rec \notin walked
            <4>1. new[j.cycle] = old[j.cycle]
                BY <1>1, <1>6, <3>2 DEF AcceptedAt, VarianceQuantity
            <4>2. Adjustment(j, rec) = 0 /\ old[j.cycle] \in Int
                BY <1>1, <1>5, <2>2, <3>2
            <4> HIDE DEF old, new
            <4> QED BY <4>1, <4>2
        <3> QED BY <3>1, <3>2
    <2> HIDE DEF old, new
    <2>6. \A c \in Cycles : old[c] \in Int /\ new[c] \in Int
        BY <1>1, <2>2, <2>3, <2>4, <2>5
    <2>7. \A c \in Cycles : c # j.cycle => old[c] = new[c]
        BY <2>3
    <2>8. SumFunctionOnSet(new, Cycles)
              = SumFunctionOnSet(old, Cycles) + new[j.cycle] - old[j.cycle]
        BY ONLY <1>1, <2>6, <2>7, SumUpdate, CycleReportAssumption
    <2>9. SumFunctionOnSet(old, Cycles) \in Int
        BY <2>2, SumInt, CycleReportAssumption
    <2>10. quantity[rec] = Opening[rec] + SumFunctionOnSet(old, Cycles)
        BY <1>10 DEF VarianceInv, StockExplained, old
    <2>11. quantity'[rec] = quantity[rec] + Adjustment(j, rec) /\ Opening[rec] \in Int
        BY <1>2
    <2>12. old[j.cycle] \in Int
        BY <1>1, <2>2
    <2>13. SumFunctionOnSet(AcceptedAt(rec), Cycles)' = SumFunctionOnSet(new, Cycles)
        BY <2>1
    <2> QED
        BY <2>4, <2>5, <2>8, <2>9, <2>10, <2>11, <2>12, <2>13
<1> QED
    BY <1>3, <1>8, <1>9, <1>10 DEF VarianceInv, StockExplained

LEMMA StepVarianceInv ==
    ASSUME CycleInv, VarianceInv, [Next]_cycleVars
    PROVE  VarianceInv'
<1>1. CASE UNCHANGED cycleVars
    <2>1. \A t \in Sessions : StartInScope(t)'
        BY <1>1 DEF cycleVars, VarianceInv, StartInScope
    <2> QED
        BY <1>1, <2>1, VarianceKept DEF cycleVars, VarianceInv, VarianceKnown
<1>2. CASE DirectMovement
    <2>1. direct' # 0 /\ UNCHANGED <<pc, job, status, system, variance, physical>>
        BY <1>2 DEF DirectMovement, countRows, varianceRows, CycleInv, TypeOK
    <2>2. \A t \in Sessions : StartInScope(t)'
        BY <2>1 DEF VarianceInv, StartInScope
    <2> QED
        BY <2>1, <2>2, VarianceKept DEF VarianceInv, VarianceKnown
<1> QED
    BY <1>1, <1>2, OtherVarianceInv, CommitVarianceInv DEF Next

(* get_variance_report over all cycles, and its accepted rows. *)
LEMMA AcceptedRows ==
    ASSUME CycleInv, VarianceInv, direct = 0, NEW s
    PROVE  Net(Accepted(VarianceReport("", "", s)))
           = SumFunctionOnSet([rec \in StockRecord |-> quantity[rec] - Opening[rec]],
                              {rec \in StockRecord : InScope(rec[2], s)})
<1> DEFINE T == {rec \in StockRecord : InScope(rec[2], s)}
           rows == Accepted(VarianceReport("", "", s))
           f == [row \in rows |-> VarianceQuantity(row[1], row[2])]
           g == [row \in Cycles \X T |-> AcceptedAt(row[2])[row[1]]]
           column == [rec \in T |-> AcceptedAt(rec)]
           total == [rec \in T |-> SumFunctionOnSet(AcceptedAt(rec), Cycles)]
           change == [rec \in StockRecord |-> quantity[rec] - Opening[rec]]
<1>1. TypeOK /\ IsFiniteSet(Cycles) /\ IsFiniteSet(StockRecord)
    BY CycleReportAssumption DEF CycleInv
<1>2. T \in SUBSET StockRecord /\ IsFiniteSet(T) /\ IsFiniteSet(Cycles \X T)
    <2>1. T \in SUBSET StockRecord
        OBVIOUS
    <2>2. IsFiniteSet(T)
        BY <1>1, <2>1, FS_Subset
    <2> QED BY <1>1, <2>1, <2>2, FS_Product
<1>3. \A c \in Cycles, rec \in T : AcceptedAt(rec)[c] \in Int
    BY <1>1, <1>2, AcceptedTypes
<1>4. \A row : row \in rows <=> row \in Cycles \X T /\ variance[row[1]][row[2]] = "accepted"
    BY DEF Accepted, VarianceReport, Passes
<1>5. \A row \in Cycles \X T :
          /\ row[1] \in Cycles /\ row[2] \in T /\ row = <<row[1], row[2]>>
          /\ AcceptedAt(row[2])[row[1]] = IF variance[row[1]][row[2]] = "accepted"
                                          THEN VarianceQuantity(row[1], row[2]) ELSE 0
    BY DEF AcceptedAt
<1> HIDE DEF rows, T
<1>6. /\ rows \in SUBSET (Cycles \X T)
      /\ \A row \in rows : f[row] \in Int /\ g[row] = f[row]
      /\ \A row \in (Cycles \X T) \ rows : g[row] = 0
    <2>1. rows \in SUBSET (Cycles \X T)
        BY <1>4
    <2>2. \A row \in rows : f[row] = VarianceQuantity(row[1], row[2]) /\ g[row] = f[row]
                            /\ g[row] = AcceptedAt(row[2])[row[1]]
        BY <1>4, <1>5, <2>1
    <2>3. \A row \in (Cycles \X T) \ rows : g[row] = 0
        BY <1>4, <1>5
    <2>4. \A row \in rows : f[row] \in Int
        BY <1>3, <1>5, <2>1, <2>2
    <2> QED BY <2>1, <2>2, <2>3, <2>4
<1>7. /\ \A c \in Cycles, rec \in T :
            g[<<c, rec>>] \in Int /\ column[rec][c] = g[<<c, rec>>]
      /\ \A rec \in T : total[rec] = SumFunctionOnSet(column[rec], Cycles)
    <2>1. \A rec \in T : /\ column[rec] = AcceptedAt(rec)
                         /\ total[rec] = SumFunctionOnSet(AcceptedAt(rec), Cycles)
        OBVIOUS
    <2>2. \A c \in Cycles, rec \in T : g[<<c, rec>>] = AcceptedAt(rec)[c]
        OBVIOUS
    <2> HIDE DEF g, column, total
    <2>3. \A rec \in T : total[rec] = SumFunctionOnSet(column[rec], Cycles)
        BY <2>1
    <2> QED BY <1>3, <2>1, <2>2, <2>3
<1>8. \A rec \in T : change[rec] \in Int /\ change[rec] = total[rec]
    <2> SUFFICES ASSUME NEW rec \in T
                 PROVE  change[rec] \in Int /\ change[rec] = total[rec]
        OBVIOUS
    <2>1. /\ rec \in StockRecord /\ quantity[rec] \in Int /\ Opening[rec] \in Int
          /\ quantity[rec] = Opening[rec] + SumFunctionOnSet(AcceptedAt(rec), Cycles)
        BY <1>1, <1>2 DEF TypeOK, LedgerTypeOK, VarianceInv, StockExplained
    <2>2. SumFunctionOnSet(AcceptedAt(rec), Cycles) \in Int
        BY <1>1, <1>3, SumInt
    <2> QED BY <2>1, <2>2
<1>9. Net(rows) = SumFunctionOnSet(f, rows)
    BY DEF Net
<1> HIDE DEF f, g, column, total, change
<1>10. SumFunctionOnSet(f, rows) = SumFunctionOnSet(g, Cycles \X T)
    BY ONLY <1>2, <1>6, SumPart
<1>11. SumFunctionOnSet(g, Cycles \X T) = SumFunctionOnSet(total, T)
    <2>1. Columns(g, Cycles, T, column, total)
        BY <1>7 DEF Columns
    <2> QED BY ONLY <1>1, <1>2, <2>1, SumPairs
<1>12. SumFunctionOnSet(change, T) = SumFunctionOnSet(total, T)
    BY ONLY <1>2, <1>8, SumEqual
<1> QED
    BY <1>9, <1>10, <1>11, <1>12 DEF change, rows, T


(* A cycle with a variance in a scope is in the scope itself. *)
LEMMA VarianceInCycleScope ==
    ASSUME VarianceInv, NEW s, NEW c \in Cycles, NEW rec \in StockRecord,
           variance[c][rec] # "none", InScope(rec[2], s)
    PROVE  CycleInScope(c, s)
<1>1. system[c][rec] # Absent /\ rec \in Scope[c]
    BY DEF VarianceInv, VarianceKnown
<1>2. CycleLocation[c] # NoLocation => rec[2] = CycleLocation[c]
    BY <1>1, CycleReportAssumption
<1>3. rec \in LinesOf(c)
    BY <1>1 DEF LinesOf
<1> QED
    BY <1>2, <1>3 DEF CycleInScope

(* A part of the rows has no more of a type than all of them. *)
LEMMA NoMoreInScope ==
    ASSUME NEW c \in Cycles, NEW s, NEW type,
           type \in DOMAIN VarianceSummary(c, s).by_type
    PROVE  Cardinality(OfType(VarianceReport(c, "", "all"), type))
               >= VarianceSummary(c, s).by_type[type].count
<1> DEFINE part == OfType(VarianceReport(c, "", s), type)
           whole == OfType(VarianceReport(c, "", "all"), type)
<1>1. VarianceSummary(c, s).by_type[type].count = Cardinality(part)
    BY DEF VarianceSummary
<1>2. part \subseteq whole
    BY DEF OfType, VarianceReport, InScope, Passes
<1>3. IsFiniteSet(whole)
    <2>1. whole \in SUBSET (Cycles \X StockRecord)
        BY DEF OfType, VarianceReport
    <2> QED BY <2>1, FS_Subset, FS_Product, CycleReportAssumption
<1>4. Cardinality(part) <= Cardinality(whole) /\ Cardinality(whole) \in Nat
      /\ Cardinality(part) \in Nat
    BY <1>2, <1>3, FS_Subset, FS_CardinalityType
<1> HIDE DEF part, whole
<1>5. Cardinality(whole) >= Cardinality(part)
    BY <1>4
<1> QED BY <1>1, <1>5 DEF whole

(* While only counting touches the stock, the accepted variances a report    *)
(* lists in a scope are what the stock there has changed by, and a variance  *)
(* shown belongs to a cycle the history shows with at least as many lines of *)
(* each type (get_variance_report, get_variance_summary, get_cycle_history). *)
THEOREM VariancesExplained == Spec => []VarianceExplainsStock
<1>1. ASSUME CycleInv, VarianceInv PROVE VarianceExplainsStock
    <2> SUFFICES ASSUME NEW q \in Query
                 PROVE  /\ direct = 0 =>
                              Net(Accepted(ShowVariances(q, "", "").items)) =
                              SumFunctionOnSet(
                                  [rec \in StockRecord |-> quantity[rec] - Opening[rec]],
                                  {rec \in StockRecord : InScope(rec[2], Asked(q))})
                        /\ \A row \in ShowVariances(q, "", "").items :
                              \E entry \in ShowHistory(q) :
                              LET count == ShowVariances(q, row[1], "").summary.by_type
                                  AtLeast(n, type) ==
                                      type \in DOMAIN count => n >= count[type].count IN
                              /\ entry.id = row[1]
                              /\ entry.status \in {"completed", "reconciled"}
                              /\ AtLeast(entry.shortages, "shortage")
                              /\ AtLeast(entry.surpluses, "surplus")
                              /\ AtLeast(entry.matches, "match")
        BY DEF VarianceExplainsStock
    <2> DEFINE s == Asked(q)
    <2>1. ShowVariances(q, "", "").items = VarianceReport("", "", s)
        BY DEF ShowVariances
    <2>2. ASSUME NEW row \in VarianceReport("", "", s)
          PROVE  \E entry \in ShowHistory(q) :
                    LET count == VarianceSummary(row[1], s).by_type
                        AtLeast(n, type) == type \in DOMAIN count => n >= count[type].count IN
                    /\ entry.id = row[1]
                    /\ entry.status \in {"completed", "reconciled"}
                    /\ AtLeast(entry.shortages, "shortage")
                    /\ AtLeast(entry.surpluses, "surplus")
                    /\ AtLeast(entry.matches, "match")
        <3>1. /\ row[1] \in Cycles /\ row[2] \in StockRecord
              /\ variance[row[1]][row[2]] # "none" /\ InScope(row[2][2], s)
            BY DEF VarianceReport
        <3>2. status[row[1]] \in {"completed", "reconciled"}
            BY <1>1, <3>1 DEF VarianceInv, VarianceKnown
        <3>3. CycleInScope(row[1], s)
            BY <1>1, <3>1, VarianceInCycleScope
        <3>4. PICK entry \in CycleHistory(s) :
                 /\ entry.id = row[1] /\ entry.status = status[row[1]]
                 /\ entry.shortages =
                       Cardinality(OfType(VarianceReport(row[1], "", "all"), "shortage"))
                 /\ entry.surpluses =
                       Cardinality(OfType(VarianceReport(row[1], "", "all"), "surplus"))
                 /\ entry.matches =
                       Cardinality(OfType(VarianceReport(row[1], "", "all"), "match"))
            <4>1. row[1] \in {x \in Cycles : status[x] # "none" /\ CycleInScope(x, s)}
                BY <3>1, <3>2, <3>3
            <4> DEFINE Rows(c) == VarianceReport(c, "", "all")
                       Lines1(c) == Cardinality(LinesJoined(c, s))
                       Row(c) ==
                         [id |-> c, status |-> status[c], lines |-> Lines1(c),
                          variances |-> Cardinality(Rows(c)),
                          shortages |-> Cardinality(OfType(Rows(c), "shortage")),
                          surpluses |-> Cardinality(OfType(Rows(c), "surplus")),
                          matches |-> Cardinality(OfType(Rows(c), "match")),
                          net |-> Net(Rows(c)) * (IF Lines1(c) = 0 THEN 1 ELSE Lines1(c))]
            <4>2. CycleHistory(s)
                  = {Row(c) : c \in {x \in Cycles : status[x] # "none" /\ CycleInScope(x, s)}}
                BY DEF CycleHistory
            <4>3. Row(row[1]) \in CycleHistory(s)
                BY <4>1, <4>2
            <4>4. /\ Row(row[1]).id = row[1] /\ Row(row[1]).status = status[row[1]]
                  /\ Row(row[1]).shortages = Cardinality(OfType(Rows(row[1]), "shortage"))
                  /\ Row(row[1]).surpluses = Cardinality(OfType(Rows(row[1]), "surplus"))
                  /\ Row(row[1]).matches = Cardinality(OfType(Rows(row[1]), "match"))
                OBVIOUS
            <4> HIDE DEF Row
            <4> QED BY <4>3, <4>4
        <3> DEFINE count == VarianceSummary(row[1], s).by_type
        <3>5. /\ "shortage" \in DOMAIN count => entry.shortages >= count["shortage"].count
              /\ "surplus" \in DOMAIN count => entry.surpluses >= count["surplus"].count
              /\ "match" \in DOMAIN count => entry.matches >= count["match"].count
            <4>1. ASSUME NEW type, type \in DOMAIN count
                  PROVE  Cardinality(OfType(VarianceReport(row[1], "", "all"), type))
                             >= count[type].count
                BY <3>1, <4>1, NoMoreInScope
            <4> HIDE DEF count
            <4> QED BY <3>4, <4>1
        <3>6. entry \in ShowHistory(q)
            BY <3>4 DEF ShowHistory
        <3> HIDE DEF count
        <3>7. entry.status \in {"completed", "reconciled"}
            BY <3>2, <3>4
        <3> QED BY <3>4, <3>5, <3>6, <3>7 DEF count
    <2>3. direct = 0 =>
              Net(Accepted(VarianceReport("", "", s))) =
              SumFunctionOnSet([rec \in StockRecord |-> quantity[rec] - Opening[rec]],
                               {rec \in StockRecord : InScope(rec[2], s)})
        BY <1>1, AcceptedRows
    <2>4. \A row : ShowVariances(q, row[1], "").summary = VarianceSummary(row[1], s)
        BY DEF ShowVariances
    <2> QED BY <2>1, <2>2, <2>3, <2>4
<1>2. Init => CycleInv /\ VarianceInv
    BY InitCycleInv, InitVarianceInv
<1>3. CycleInv /\ VarianceInv /\ [Next]_cycleVars => CycleInv' /\ VarianceInv'
    BY StepCycleInv, StepVarianceInv
<1> QED BY <1>1, <1>2, <1>3, PTL DEF Spec
=============================================================================
