------------------------------ MODULE BatchRun ------------------------------
(***************************************************************************)
(* One batch: the parent run, its record runs, and the task that drives    *)
(* them all (RunManager._execute_batch under _guard).  Records wait for a  *)
(* semaphore, run the deterministic pipeline or the agent graph, store     *)
(* their result and add to the live progress; the task gathers them,       *)
(* reads the summary from their rows and closes the parent.  Reviewers     *)
(* decide and delete records while the batch is still running.             *)
(*                                                                         *)
(* The children have no task of their own in _run_tasks: cancelling the    *)
(* batch cancels the gather, which cancels every child and waits for it,   *)
(* and only then does _guard close their rows.                             *)
(***************************************************************************)
EXTENDS Integers, FiniteSets

CONSTANTS
    Records,       \* the records of the batch
    Concurrency,   \* batch_concurrency or batch_agent_concurrency, at least 1
    AgentMode,     \* TRUE for mode "agent", FALSE for "screening"
    Deletable,     \* records a reviewer may delete
    MaxCancels,    \* bound: cancel requests
    MaxRestarts,   \* bound: process restarts
    MaxFaults      \* bound: sessions that raise, of the task or of a record

ASSUME BatchAssumption ==
    /\ IsFiniteSet(Records)
    /\ Concurrency \in Nat \ {0}
    /\ AgentMode \in BOOLEAN
    /\ Deletable \subseteq Records
    /\ MaxCancels \in Nat /\ MaxRestarts \in Nat /\ MaxFaults \in Nat

VARIABLES
    parent,    \* state of the batch's row
    child,     \* state of each record run's row
    driver,    \* where the batch's task is
    worker,    \* where each record's coroutine is, with the result it carries
    progress,  \* the live counters of _execute_batch
    summary,   \* the state counts _batch_metrics read
    cancels,   \* cancel requests so far (bounds the model)
    restarts,  \* restarts so far (bounds the model)
    faults     \* sessions that have raised so far (bounds the model)

vars == <<parent, child, driver, worker, progress, summary, cancels, restarts, faults>>

-----------------------------------------------------------------------------
Open    == {"queued", "running"}
Settled == {"complete", "failed", "awaiting_review"}
Gone    == "deleted"

DriverPhase == {"none", "created", "gather", "metrics", "summary", "escaped", "tail",
                "cancelled", "failing", "ended"}
WorkerPhase == {"idle", "waiting", "start", "work", "refused", "store", "count",
                "done", "raised"}
Inside      == {"start", "work", "refused", "store", "count"}
Counts      == [complete : Nat, failed : Nat, awaiting_review : Nat]

(* The rows, the parent's task and the records' coroutines keep their      *)
(* shapes, and every count is one of the records (_batch_metrics).         *)
TypeOK ==
    /\ parent \in {"absent", "queued", "running", "complete", "failed"}
    /\ child \in [Records -> Open \cup Settled \cup {"absent", Gone}]
    /\ driver \in DriverPhase
    /\ worker \in [Records -> [phase : WorkerPhase, res : Settled \cup {"none"}]]
    /\ progress \in Counts
    /\ summary \in [complete : Nat, failed : Nat, awaiting_review : Nat, open : Nat]
    /\ cancels \in Nat /\ restarts \in Nat /\ faults \in Nat

NoCounts == [complete |-> 0, failed |-> 0, awaiting_review |-> 0]

Init ==
    /\ parent = "absent"
    /\ child = [r \in Records |-> "absent"]
    /\ driver = "none"
    /\ worker = [r \in Records |-> [phase |-> "idle", res |-> "none"]]
    /\ progress = NoCounts
    /\ summary = [complete |-> 0, failed |-> 0, awaiting_review |-> 0, open |-> 0]
    /\ cancels = 0 /\ restarts = 0 /\ faults = 0

RecordsIn(s) == {r \in Records : child[r] = s}
OpenRecords  == {r \in Records : child[r] \in Open}

(* Mutant of Holders: a finished record keeps its slot.                    *)
HoldersForever == {r \in Records : worker[r].phase \notin {"idle", "waiting"}}

Holders      == {r \in Records : worker[r].phase \in Inside}

WorkerGoes(r, p) == worker' = [worker EXCEPT ![r].phase = p]
SetChild(r, s) ==
    child' = IF child[r] = Gone THEN child ELSE [child EXCEPT ![r] = s]

-----------------------------------------------------------------------------
(* The batch's task.                                                       *)

(* start_batch: parent and records in one commit, then _spawn.             *)
StartBatch ==
    /\ parent = "absent"
    /\ parent' = "queued"
    /\ child' = [r \in Records |-> "queued"]
    /\ driver' = "created"
    /\ UNCHANGED <<worker, progress, summary, cancels, restarts, faults>>

(* _execute_batch marks the parent and gathers one coroutine per record.   *)
Gather ==
    /\ driver = "created"
    /\ parent' = "running"
    /\ driver' = "gather"
    /\ worker' = [r \in Records |-> [phase |-> "waiting", res |-> "none"]]
    /\ UNCHANGED <<child, progress, summary, cancels, restarts, faults>>

(* Every coroutine returned or raised.                                     *)
Gathered ==
    /\ driver = "gather"
    /\ \A r \in Records : worker[r].phase \in {"done", "raised"}
    /\ driver' = IF \E r \in Records : worker[r].phase = "raised"
                 THEN "escaped" ELSE "metrics"
    /\ UNCHANGED <<parent, child, worker, progress, summary, cancels, restarts, faults>>

FailEscaped ==
    /\ driver = "escaped"
    /\ parent' = "failed"
    /\ driver' = "tail"
    /\ UNCHANGED <<child, worker, progress, summary, cancels, restarts, faults>>

(* _batch_metrics: the summary counts rows, not the live progress.         *)
ReadSummary ==
    /\ driver = "metrics"
    /\ summary' = [complete        |-> Cardinality(RecordsIn("complete")),
                   failed          |-> Cardinality(RecordsIn("failed")),
                   awaiting_review |-> Cardinality(RecordsIn("awaiting_review")),
                   open            |-> Cardinality(OpenRecords)]
    /\ driver' = "summary"
    /\ UNCHANGED <<parent, child, worker, progress, cancels, restarts, faults>>

Complete ==
    /\ driver = "summary"
    /\ parent' = "complete"
    /\ driver' = "tail"
    /\ UNCHANGED <<child, worker, progress, summary, cancels, restarts, faults>>

(* The last events are published and the task ends.                        *)
Finish ==
    /\ driver = "tail"
    /\ driver' = "ended"
    /\ UNCHANGED <<parent, child, worker, progress, summary, cancels, restarts, faults>>

(* A session of the task raises: _guard fails the parent, unless that      *)
(* raises too.                                                             *)
ParentFault ==
    /\ faults < MaxFaults /\ faults' = faults + 1
    /\ \/ driver \in {"created", "metrics", "summary", "escaped"} /\ driver' = "failing"
       \/ driver = "failing" /\ driver' = "ended"
    /\ UNCHANGED <<parent, child, worker, progress, summary, cancels, restarts>>

-----------------------------------------------------------------------------
(* One record, inside its slot of the semaphore.                           *)

Acquire(r) ==
    /\ worker[r].phase = "waiting"
    /\ Cardinality(Holders) < Concurrency
    /\ WorkerGoes(r, "start")
    /\ UNCHANGED <<parent, child, driver, progress, summary, cancels, restarts, faults>>

MarkChildRunning(r) ==
    /\ worker[r].phase = "start"
    /\ SetChild(r, "running")
    /\ WorkerGoes(r, "work")
    /\ UNCHANGED <<parent, driver, progress, summary, cancels, restarts, faults>>

(* The accepted context is missing or the models cannot be built (before   *)
(* the row is running in agent mode, after it in screening), or the graph  *)
(* times out: _fail closes this record only.                               *)
Refuse(r) ==
    /\ worker[r].phase \in IF AgentMode THEN {"start", "work"} ELSE {"work"}
    /\ WorkerGoes(r, "refused")
    /\ UNCHANGED <<parent, child, driver, progress, summary, cancels, restarts, faults>>

FailChild(r) ==
    /\ worker[r].phase = "refused"
    /\ SetChild(r, "failed")
    /\ worker' = [worker EXCEPT ![r] = [phase |-> "count", res |-> "failed"]]
    /\ UNCHANGED <<parent, driver, progress, summary, cancels, restarts, faults>>

(* The pipeline returns a result; any exception in it is a failed result.  *)
Assess(r, res) ==
    /\ worker[r].phase = "work"
    /\ worker' = [worker EXCEPT ![r] = [phase |-> "store", res |-> res]]
    /\ UNCHANGED <<parent, child, driver, progress, summary, cancels, restarts, faults>>

StoreChild(r) ==
    /\ worker[r].phase = "store"
    /\ SetChild(r, worker[r].res)
    /\ WorkerGoes(r, "count")
    /\ UNCHANGED <<parent, driver, progress, summary, cancels, restarts, faults>>

(* Mutant of Count: whatever is not complete counts as failed.             *)
CountHeldAsFailed(r) ==
    /\ worker[r].phase = "count"
    /\ progress' = IF worker[r].res = "complete"
                   THEN [progress EXCEPT !.complete = @ + 1]
                   ELSE [progress EXCEPT !.failed = @ + 1]
    /\ WorkerGoes(r, "done")
    /\ UNCHANGED <<parent, child, driver, summary, cancels, restarts, faults>>

(* The slot is free and the progress event goes out; nothing is awaited    *)
(* under the progress lock.                                                *)
Count(r) ==
    /\ worker[r].phase = "count"
    /\ progress' = [progress EXCEPT ![worker[r].res] = @ + 1]
    /\ WorkerGoes(r, "done")
    /\ UNCHANGED <<parent, child, driver, summary, cancels, restarts, faults>>

(* A session of the record raises: the exception escapes into the gather   *)
(* and the row stays as it is.  The agent path has one more session, for   *)
(* the usage metrics, after the result is stored.                          *)
ChildFault(r) ==
    /\ faults < MaxFaults /\ faults' = faults + 1
    /\ worker[r].phase \in IF AgentMode THEN Inside ELSE Inside \ {"count"}
    /\ WorkerGoes(r, "raised")
    /\ UNCHANGED <<parent, child, driver, progress, summary, cancels, restarts>>

-----------------------------------------------------------------------------
(* Cancellation, review, restart.                                          *)

(* cancel_run.  Before its first step the task just disappears; in         *)
(* _guard's handler a second cancellation ends it; otherwise the children  *)
(* unwind with it.                                                         *)
CancelBatch ==
    /\ driver \notin {"none", "ended"} /\ cancels < MaxCancels
    /\ cancels' = cancels + 1
    /\ driver' = IF driver \in {"created", "cancelled", "failing"} THEN "ended"
                 ELSE "cancelled"
    /\ worker' = [r \in Records |->
                    IF worker[r].phase \in {"idle", "done", "raised"} THEN worker[r]
                    ELSE [worker[r] EXCEPT !.phase = "raised"]]
    /\ UNCHANGED <<parent, child, progress, summary, restarts, faults>>

(* Mutants of CloseChildren: every record of the batch is failed; only     *)
(* the records that had started are.                                       *)
CloseAllChildren ==
    /\ driver = "cancelled"
    /\ child' = [r \in Records |-> "failed"]
    /\ driver' = "failing"
    /\ UNCHANGED <<parent, worker, progress, summary, cancels, restarts, faults>>

CloseRunningChildren ==
    /\ driver = "cancelled"
    /\ child' = [r \in Records |-> IF child[r] = "running" THEN "failed" ELSE child[r]]
    /\ driver' = "failing"
    /\ UNCHANGED <<parent, worker, progress, summary, cancels, restarts, faults>>

(* _guard: fail_open_runs closes the open records of this batch ...        *)
CloseChildren ==
    /\ driver = "cancelled"
    /\ child' = [r \in Records |-> IF child[r] \in Open THEN "failed" ELSE child[r]]
    /\ driver' = "failing"
    /\ UNCHANGED <<parent, worker, progress, summary, cancels, restarts, faults>>

(* ... and _fail, in a second session, the parent.                         *)
FailParent ==
    /\ driver = "failing"
    /\ parent' = "failed"
    /\ driver' = "ended"
    /\ UNCHANGED <<child, worker, progress, summary, cancels, restarts, faults>>

(* A person decides a held record; RunLifecycle has the steps of this.     *)
DecideChild(r) ==
    /\ child[r] = "awaiting_review"
    /\ child' = [child EXCEPT ![r] = "complete"]
    /\ UNCHANGED <<parent, driver, worker, progress, summary, cancels, restarts, faults>>

(* Records are deleted one at a time, once they are settled.               *)
DeleteChild(r) ==
    /\ r \in Deletable /\ child[r] \in Settled
    /\ child' = [child EXCEPT ![r] = Gone]
    /\ UNCHANGED <<parent, driver, worker, progress, summary, cancels, restarts, faults>>

(* The process stops (shutdown leaves the rows too) and the next one fails *)
(* every open run in one session.                                          *)
Restart ==
    /\ restarts < MaxRestarts /\ parent # "absent"
    /\ restarts' = restarts + 1
    /\ parent' = IF parent \in Open THEN "failed" ELSE parent
    /\ child' = [r \in Records |-> IF child[r] \in Open THEN "failed" ELSE child[r]]
    /\ driver' = "ended"
    /\ worker' = [r \in Records |-> [phase |-> "idle", res |-> "none"]]
    /\ UNCHANGED <<progress, summary, cancels, faults>>

-----------------------------------------------------------------------------
DriverStep ==
    \/ Gather \/ Gathered \/ FailEscaped \/ ReadSummary \/ Complete \/ Finish
    \/ CloseChildren \/ FailParent

WorkerStep(r) ==
    \/ Acquire(r) \/ MarkChildRunning(r) \/ Refuse(r) \/ FailChild(r)
    \/ \E res \in Settled : Assess(r, res)
    \/ StoreChild(r) \/ Count(r)

Next ==
    \/ StartBatch \/ DriverStep \/ ParentFault \/ CancelBatch \/ Restart
    \/ \E r \in Records :
          WorkerStep(r) \/ ChildFault(r) \/ DecideChild(r) \/ DeleteChild(r)

Spec == Init /\ [][Next]_vars

(* The event loop runs the task and the coroutines; the semaphore wakes    *)
(* its waiters in order, so none is passed over for ever.                  *)
FairSpec ==
    /\ Spec
    /\ WF_vars(DriverStep)
    /\ \A r \in Records : WF_vars(WorkerStep(r))

-----------------------------------------------------------------------------
(* Properties.                                                             *)

(* No closed batch has an open record: the gather waits for every child,   *)
(* and a cancelled or interrupted batch closes its records no later than   *)
(* itself.  A session that raises may leave one, until the next start.     *)
NoOrphanRecord ==
    faults = 0 /\ parent \in {"complete", "failed"} => OpenRecords = {}

(* However many records wait, no more than Concurrency rows are running    *)
(* while the batch's task gathers them and no session of theirs has raised.*)
RunningBounded ==
    faults = 0 /\ driver = "gather" => Cardinality(RecordsIn("running")) <= Concurrency

(* A settled record is never settled again: no cancellation, restart or    *)
(* late worker overwrites a result; a held record is completed by its      *)
(* decision or deleted.                                                    *)
ResultsStand ==
    [][\A r \in Records :
          /\ child[r] \in {"complete", "failed"} => child'[r] \in {child[r], Gone}
          /\ child[r] = "awaiting_review" =>
                child'[r] \in {"awaiting_review", "complete", Gone}]_vars

(* The live progress and the summary read from the rows account for every  *)
(* record, and agree on the failed ones, but for the records deleted       *)
(* meanwhile.                                                              *)
Books ==
    LET gone == Cardinality(RecordsIn(Gone))
    IN  /\ progress.complete + progress.failed + progress.awaiting_review
              = Cardinality(Records)
        /\ summary.open = 0
        /\ summary.complete + summary.failed + summary.awaiting_review + gone
              >= Cardinality(Records)
        /\ summary.complete >= progress.complete - gone
        /\ summary.failed <= progress.failed
        /\ progress.failed <= summary.failed + gone

(* The books of a batch that completes agree, whatever reviewers decided   *)
(* or deleted while it ran and whichever session raised.                   *)
BooksAgree == parent = "complete" => Books

(* A record that fails, fails alone: nothing but a session that raises, a  *)
(* cancellation or a restart fails the batch.                              *)
FailsAlone == parent = "failed" => cancels > 0 \/ restarts > 0 \/ faults > 0

(* Every batch that was accepted closes, unless a reviewer cancels it or a *)
(* session raises: a cancellation before the first step of its task, or a  *)
(* second one in the handler of the first, leaves it open, and so does a   *)
(* session that raises in that handler.                                    *)
BatchCloses ==
    (parent = "queued") ~>
        (parent \in {"complete", "failed"} \/ cancels > 0 \/ faults > 0)
=============================================================================
