------------------------------ MODULE Operations ------------------------------
(***************************************************************************)
(* Batches as they reach the system, and the cache in front of the stock   *)
(* records they change.                                                    *)
(*                                                                         *)
(* A batch comes from an API request, or from a job.  dispatch() commits an *)
(* AsyncJob row and then sends a message to the broker, whose worker runs   *)
(* the task in _run_with_job, or runs the task itself when there is no      *)
(* broker.  Every call may raise and every process may be lost between two  *)
(* of these steps.  A worker acknowledges its message before it works, so a *)
(* lost worker's job is not run again.  Every process_movement deletes the  *)
(* cached payloads of the records it touched, inside the transaction.       *)
(***************************************************************************)
EXTENDS BulkStock

CONSTANTS
    Jobs,         \* the callers that are jobs; the others are requests
    Contexts,     \* tenants in cache keys: a tenant's, or "0" when the thread has none
    ContextOf,    \* the context of each caller's thread
    Entries,      \* the cached payloads: a context and a record
    PatternDelete,\* the backend has delete_pattern (django-redis)
    Absent        \* no value under a key

ASSUME OperationsAssumption ==
    /\ Jobs \subseteq Callers
    /\ ContextOf \in [Callers -> Contexts]
    /\ Entries \subseteq Contexts \X StockRecord
    /\ PatternDelete \in BOOLEAN
    /\ Absent \notin Int

VARIABLES
    place,       \* where the call of each caller is
    job,         \* AsyncJob.status of the caller's job
    saving,      \* callers whose dispatch has yet to save celery_task_id
    local,       \* callers whose dispatch runs the task itself
    unsaved,     \* callers whose mark_success has raised
    cache,       \* the cached payload under each key
    reading,     \* the quantity a view has read to serialize under each key
    late         \* payloads stored from a read that a change overtook

jobVars == <<place, job, saving, local, unsaved>>
cacheVars == <<cache, reading, late>>
vars == <<bulkVars, jobVars, cacheVars>>

(* A job: created and not sent, queued, taken by whoever runs the task, which *)
(* runs, and then returned to dispatch, or raised there, if it runs in place;*)
(* done if its end was recorded, dropped if an exception ended it unrecorded.*)
Place == {"free", "request", "created", "queued", "taken", "running",
          "returned", "raised", "done", "dropped", "lost"}
Settled == {"success", "failure"}
JobStatus == {"none", "pending", "started", "success", "failure"}

OperationsInit ==
    /\ Init
    /\ place = [c \in Callers |-> "free"]
    /\ job = [c \in Callers |-> "none"]
    /\ saving = {}
    /\ local = {}
    /\ unsaved = {}
    /\ cache = [k \in Entries |-> Absent]
    /\ reading = [k \in Entries |-> Absent]
    /\ late = {}

-----------------------------------------------------------------------------
(* Jobs.                                                                     *)

Goto(c, p) == place' = [place EXCEPT ![c] = p]
Mark(c, status) == job' = [job EXCEPT ![c] = status]

(* A bulk or import view calls the service itself. *)
Request(c) ==
    /\ place[c] = "free" /\ c \notin Jobs
    /\ Goto(c, "request")
    /\ Begin(c, {b \in Batches : Accepted(b)})
    /\ UNCHANGED <<job, saving, local, unsaved, cacheVars>>

(* dispatch commits the job's row, *)
CreateJob(c) ==
    /\ place[c] = "free" /\ c \in Jobs
    /\ Goto(c, "created")
    /\ Mark(c, "pending")
    /\ UNCHANGED <<saving, local, unsaved, bulkVars, cacheVars>>

(* then with a broker sends the message, *)
Send(c) ==
    /\ place[c] = "created"
    /\ Goto(c, "queued")
    /\ saving' = saving \cup {c}
    /\ UNCHANGED <<job, local, unsaved, bulkVars, cacheVars>>

(* and without one runs the task itself, having marked the job started.      *)
RunInPlace(c) ==
    /\ place[c] = "created"
    /\ Goto(c, "taken")
    /\ Mark(c, "started")
    /\ local' = local \cup {c}
    /\ UNCHANGED <<saving, unsaved, bulkVars, cacheVars>>

(* apply_async raises, the message sent or not, or mark_started does. *)
DispatchRaises(c) ==
    /\ place[c] = "created"
    /\ Goto(c, "queued") \/ Goto(c, "dropped")
    /\ UNCHANGED <<job, saving, local, unsaved, bulkVars, cacheVars>>

(* Faulty: dispatch saves every field of the row it created. *)
SaveWholeJob(c) ==
    /\ c \in saving
    /\ saving' = saving \ {c}
    /\ Mark(c, "pending")
    /\ UNCHANGED <<place, local, unsaved, bulkVars, cacheVars>>

(* save(update_fields=["celery_task_id"]), racing the worker. *)
SaveTaskId(c) ==
    /\ c \in saving
    /\ saving' = saving \ {c}
    /\ UNCHANGED <<place, job, local, unsaved, bulkVars, cacheVars>>

TakeMessage(c) ==
    /\ place[c] = "queued"
    /\ Goto(c, "taken")
    /\ UNCHANGED <<job, saving, local, unsaved, bulkVars, cacheVars>>

(* mark_started of _run_with_job is outside its try.  What it raises ends the *)
(* worker's task, and reaches the try of a dispatch that runs it in place.   *)
MarkStarted(c) ==
    /\ place[c] = "taken"
    /\ Goto(c, "running")
    /\ Mark(c, "started")
    /\ UNCHANGED <<saving, local, unsaved, bulkVars, cacheVars>>

StartRaises(c) ==
    /\ place[c] = "taken"
    /\ Goto(c, IF c \in local THEN "raised" ELSE "dropped")
    /\ UNCHANGED <<job, saving, local, unsaved, bulkVars, cacheVars>>

(* The task resolves its arguments and calls the service, or the importer. *)
RunBulk(c) ==
    /\ place[c] = "running"
    /\ Begin(c, {b \in Batches : b.kind # "import"})
    /\ UNCHANGED <<jobVars, cacheVars>>

RunImport(c) ==
    /\ place[c] = "running"
    /\ Begin(c, {b \in Batches : b.kind = "import"})
    /\ UNCHANGED <<jobVars, cacheVars>>

(* The end of a try: mark_success if the call in it returned, as its last     *)
(* statement, so that mark_failure follows what the call or mark_success     *)
(* raised; and mark_failure may raise too.                                   *)
MarkEnd(c, returned, onSuccess, onFailure, onNeither) ==
    \/ returned /\ Mark(c, "success") /\ Goto(c, onSuccess) /\ UNCHANGED unsaved
    \/ /\ unsaved' = IF returned THEN unsaved \cup {c} ELSE unsaved
       /\ \/ Mark(c, "failure") /\ Goto(c, onFailure)
          \/ UNCHANGED job /\ Goto(c, onNeither)

EndTask(c, returned) ==
    /\ IF c \in local THEN MarkEnd(c, returned, "returned", "raised", "raised")
       ELSE MarkEnd(c, returned, "done", "done", "dropped")
    /\ UNCHANGED <<saving, local, bulkVars, cacheVars>>

(* An unknown type, a row that does not exist, or a location outside the      *)
(* warehouse scope asked for: the task raises first.                         *)
RefuseTask(c) == place[c] = "running" /\ pc[c] = "idle" /\ EndTask(c, FALSE)

(* Faulty: what fn raises is logged and taken for its result. *)
FinishAnyway(c) == place[c] = "running" /\ pc[c] \in Outcome /\ EndTask(c, TRUE)

(* _run_with_job records what became of the call of the service.  An import   *)
(* with invalid rows returns.                                                *)
Finish(c) == place[c] = "running" /\ pc[c] \in Outcome /\ EndTask(c, pc[c] # "refused")

(* dispatch records again what _run_with_job returned or raised in place. *)
FinishInPlace(c) ==
    /\ place[c] \in {"returned", "raised"}
    /\ MarkEnd(c, place[c] = "returned", "done", "done", "dropped")
    /\ UNCHANGED <<saving, local, bulkVars, cacheVars>>

(* The process that holds the call is lost. *)
Lose(c) ==
    /\ place[c] \in {"request", "created", "taken", "running", "returned", "raised"}
    /\ Goto(c, "lost")
    /\ IF pc[c] \in InBatch THEN Crash(c)
       ELSE place[c] # "request" /\ UNCHANGED bulkVars
    /\ UNCHANGED <<job, saving, local, unsaved, cacheVars>>

-----------------------------------------------------------------------------
(* The cache.                                                                *)

(* Faulty: only the destination's payloads are deleted. *)
InvalidatesDest(c, k) ==
    PatternDelete /\ k[1] = ContextOf[c] /\ k[2] = <<Move(c).product, Move(c).to>>

(* invalidate_stock_record under the key of the caller's thread.  The views   *)
(* cache payloads per language, which only a pattern reaches.                *)
Invalidates(c, k) == PatternDelete /\ k[1] = ContextOf[c] /\ k[2] \in Touched(Move(c))

MoveAndInvalidate(c) ==
    LET gone == {k \in Entries : Invalidates(c, k)} IN
    /\ place[c] # "lost" /\ MoveItem(c)
    /\ cache' = [k \in Entries |-> IF k \in gone THEN Absent ELSE cache[k]]
    /\ late' = late \ gone
    /\ UNCHANGED <<reading, jobVars>>

Other(c) == place[c] # "lost" /\ OtherStep(c) /\ UNCHANGED <<jobVars, cacheVars>>

(* The stock views query the records, *)
ReadRecord(k) ==
    /\ reading[k] = Absent
    /\ reading' = [reading EXCEPT ![k] = quantity[k[2]]]
    /\ UNCHANGED <<cache, late, bulkVars, jobVars>>

(* then look each up in the cache, and serialize and store what is missing.  *)
Overtaken(k) == reading[k] # quantity[k[2]] \/ \E c \in Callers : draft[c][k[2]] # 0

StorePayload(k) ==
    /\ reading[k] # Absent
    /\ reading' = [reading EXCEPT ![k] = Absent]
    /\ IF cache[k] = Absent
       THEN /\ cache' = [cache EXCEPT ![k] = reading[k]]
            /\ late' = IF Overtaken(k) THEN late \cup {k} ELSE late
       ELSE UNCHANGED <<cache, late>>
    /\ UNCHANGED <<bulkVars, jobVars>>

(* The timeout of cache_set. *)
ExpirePayload(k) ==
    /\ cache[k] # Absent
    /\ cache' = [cache EXCEPT ![k] = Absent]
    /\ late' = late \ {k}
    /\ UNCHANGED <<reading, bulkVars, jobVars>>

-----------------------------------------------------------------------------
JobStep(c) ==
    \/ Send(c) \/ RunInPlace(c) \/ TakeMessage(c) \/ MarkStarted(c)
    \/ RunBulk(c) \/ RunImport(c) \/ Finish(c) \/ FinishInPlace(c)

CallStep(c) == JobStep(c) \/ MoveAndInvalidate(c) \/ Other(c)

Mishap(c) == DispatchRaises(c) \/ StartRaises(c) \/ RefuseTask(c) \/ Lose(c)

OperationsNext ==
    \/ \E c \in Callers : Request(c) \/ CreateJob(c) \/ SaveTaskId(c) \/ CallStep(c) \/ Mishap(c)
    \/ \E k \in Entries : ReadRecord(k) \/ StorePayload(k) \/ ExpirePayload(k)

OperationsSpec == OperationsInit /\ [][OperationsNext]_vars

(* A process goes on with the call it holds, and a worker polls its queue.    *)
(* Nothing makes a dispatch that has sent its message save the task's id.    *)
OperationsFair == OperationsSpec /\ \A c \in Callers : WF_vars(CallStep(c))

-----------------------------------------------------------------------------
(* Properties.                                                               *)

OperationsTypeOK ==
    /\ BulkTypeOK
    /\ place \in [Callers -> Place]
    /\ job \in [Callers -> JobStatus]
    /\ saving \subseteq Callers /\ local \subseteq Callers /\ unsaved \subseteq Callers
    /\ cache \in [Entries -> Nat \cup {Absent}]
    /\ reading \in [Entries -> Nat \cup {Absent}]
    /\ late \subseteq Entries

(* The job's status is the batch's fate, with the two exceptions the code     *)
(* has: success is for a batch that committed, an import whose rows are all  *)
(* or none, or a batch the database undid, whose result then lists a failed  *)
(* item; failure is for a call that changed nothing, unless mark_success     *)
(* raised, the one way a committed batch is recorded as failed.              *)
JobTellsTruth ==
    \A c \in Callers :
        /\ job[c] = "success" =>
              \/ pc[c] \in {"committed", "invalid"}
              \/ /\ pc[c] = "undone"
                 /\ \E i \in DOMAIN report[c] : report[c][i].status = "failure"
        /\ job[c] = "failure" => pc[c] \in {"idle", "refused"} \/ c \in unsaved

(* JobStatusView: "poll this endpoint until status is success or failure".    *)
(* A job ends, and stays so, unless a process that holds it is lost or an    *)
(* exception of its own bookkeeping ends it unrecorded.                      *)
JobsSettle ==
    \A c \in Callers :
        job[c] # "none" ~> [](job[c] \in Settled \/ place[c] \in {"lost", "dropped"})

(* The only causes of a cached payload that is not the committed quantity: it *)
(* was stored by a view a change overtook (the deletion comes before the     *)
(* commit), or the change was made where the deletion does not reach it.     *)
StaleHasACause ==
    \A k \in Entries :
        \/ cache[k] \in {Absent, quantity[k[2]]}
        \/ k \in late
        \/ \E c \in Callers : /\ pc[c] = "committed"
                              /\ ~PatternDelete \/ ContextOf[c] # k[1]
                              /\ \E i \in DOMAIN report[c] : Told(c, i, k[2]) # 0

-----------------------------------------------------------------------------
(* The inductive invariant.                                                  *)

(* Where a job is says how far its batch can be. *)
JobInv(c) ==
    /\ place[c] \in {"free", "created", "queued", "taken"} => pc[c] = "idle"
    /\ pc[c] = "aborted" => place[c] = "lost"
    /\ pc[c] \in InBatch => place[c] \in {"request", "running"}
    /\ job[c] \in Settled => place[c] \in {"returned", "raised", "done", "dropped", "lost"}
    /\ place[c] = "returned" =>
           \/ pc[c] \in {"committed", "invalid"}
           \/ pc[c] = "undone" /\ \E i \in DOMAIN report[c] : report[c][i].status = "failure"
    /\ place[c] = "raised" => pc[c] \in {"idle", "refused"} \/ c \in unsaved

(* While a batch has changed a record its deletion reaches, a payload under  *)
(* the record's key was stored too late.                                     *)
CacheInv(k) ==
    \A c \in Callers :
        draft[c][k[2]] # 0 /\ PatternDelete /\ ContextOf[c] = k[1] =>
            cache[k] = Absent \/ k \in late

OperationsInv ==
    /\ OperationsTypeOK /\ BulkInv
    /\ JobTellsTruth /\ StaleHasACause
    /\ \A c \in Callers : JobInv(c)
    /\ \A k \in Entries : CacheInv(k)
=============================================================================
