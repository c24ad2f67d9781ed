---------------------------- MODULE RunLifecycle ----------------------------
(***************************************************************************)
(* The life of the scenario runs of one TerraSentry API process: the       *)
(* background task of each run (RunManager._orchestrate under _guard), the *)
(* review and confirmation requests that act on finished runs, the rows    *)
(* they share in the database, the vendor state behind the ERP gateway,    *)
(* cancellation, deletion and restarts.                                    *)
(*                                                                         *)
(* Every action is the work between two awaits at which another coroutine  *)
(* can observe it: a committed session, a gateway call, or the start or    *)
(* the end of a task.                                                      *)
(***************************************************************************)
EXTENDS Integers, FiniteSets

CONSTANTS
    Runs,         \* run identifiers a client may create
    Suppliers,    \* vendors in the ERP
    SupplierOf,   \* the supplier of each run's record
    Requests,     \* reviewers' HTTP requests that may be in flight together
    NoRun,        \* the run of an idle request
    Modes,        \* the erp_mode values clients ask for
    StubErp,      \* TRUE for SAP_MODE=stub, FALSE for sandbox and live
    DbFaults,     \* TRUE when a session may raise (locked or lost database)
    Deletable,    \* runs a client may delete
    MaxCancels,   \* bound: cancel requests per run
    MaxRestarts,  \* bound: process restarts
    MaxRows       \* bound: failed ERP attempts are logged only up to this many rows

ASSUME LifecycleAssumption ==
    /\ SupplierOf \in [Runs -> Suppliers]
    /\ NoRun \notin Runs
    /\ Modes \subseteq {"auto", "confirm", "off"}
    /\ StubErp \in BOOLEAN
    /\ DbFaults \in BOOLEAN
    /\ Deletable \subseteq Runs
    /\ MaxCancels \in Nat /\ MaxRestarts \in Nat /\ MaxRows \in Nat

VARIABLES
    row,       \* the runs table with each run's verdict, DDS and review columns
    log,       \* the sap_actions table, a set of rows with ascending ids
    nextId,    \* the id the next sap_actions row gets
    vendor,    \* vendor status behind the gateway
    task,      \* the asyncio task of each run
    req,       \* the review and confirmation requests
    cancels,   \* cancel requests delivered to each run (bounds the model)
    restarts   \* restarts so far (bounds the model)

vars == <<row, log, nextId, vendor, task, req, cancels, restarts>>

-----------------------------------------------------------------------------
(* Domains.  "absent" is a run not yet created, "deleted" one whose row is *)
(* gone; the other row states are RunState.                                *)

RunState    == {"queued", "running", "awaiting_review", "complete", "failed"}
HeldVerdict == {"high_risk", "ambiguous"}
Verdict     == {"compliant"} \cup HeldVerdict
Decision    == {"approve", "override"}
Status      == {"approved", "blocked"}
ErpResult   == Status \cup {"none", "failed"}

(* Outcomes of the agent graph that carry a result: an accepted candidate  *)
(* with its verdict, or a rejected one (_finish with state FAILED).        *)
Outcome == Verdict \cup {"rejected"}

TaskPhase == {"none", "created", "starting", "graph", "erp", "store", "tail",
              "failing", "guard", "guardfail"}
ReqPhase  == {"idle", "plan", "erp", "store", "release"}

Row == [state    : RunState \cup {"absent", "deleted"},
        mode     : {"auto", "confirm", "off"},
        verdict  : Verdict \cup {"none"},
        pending  : BOOLEAN,
        released : BOOLEAN,
        review   : Decision \cup {"none"}]

Task == [phase : TaskPhase, res : Outcome \cup {"none"}, act : ErpResult]

Request == [phase  : ReqPhase,
            op     : {"decide", "confirm"},
            run    : Runs \cup {NoRun},
            review : Decision \cup {"none"},
            act    : ErpResult]

LogRow == [id : Nat, run : Runs, status : Status \cup {"failed"}]

BlankRow(s) == [state |-> s, mode |-> "off", verdict |-> "none",
                pending |-> FALSE, released |-> FALSE, review |-> "none"]
(* The mode a deleted run was created with is kept for the properties      *)
(* only: no action reads it.                                               *)
DeletedRow(w) == [BlankRow("deleted") EXCEPT !.mode = w.mode]
NoTask  == [phase |-> "none", res |-> "none", act |-> "none"]
IdleReq == [phase |-> "idle", op |-> "decide", run |-> NoRun,
            review |-> "none", act |-> "none"]

Exists(r)      == row[r].state \in RunState
Open(r)        == row[r].state \in {"queued", "running"}
IsExecuting(r) == task[r].phase # "none"
Locked(r)      == \E q \in Requests : req[q].phase # "idle" /\ req[q].run = r
ActionsOf(r)   == {a \in log : a.run = r}

(* get_sap_action: actions of one run never overlap, so the newest one is  *)
(* the one with the highest id.                                            *)
LatestFailed(r) ==
    \A a \in ActionsOf(r) :
        (\A b \in ActionsOf(r) : b.id <= a.id) => a.status = "failed"

(* planned_status: a decision wins; without one only a compliant verdict   *)
(* plans anything.                                                         *)
PlannedStatus(v, d) ==
    IF d # "none" THEN IF d = "approve" THEN "approved" ELSE "blocked"
    ELSE IF v = "compliant" THEN "approved" ELSE "none"

(* What startup replays into the stub: the newest successful row of each   *)
(* supplier, approved where there is none.                                 *)
Successes(s) == {a \in log : SupplierOf[a.run] = s /\ a.status # "failed"}
Replayed(s) ==
    IF \E a \in Successes(s) : /\ \A b \in Successes(s) : b.id <= a.id
                              /\ a.status = "blocked"
    THEN "blocked" ELSE "approved"

Init ==
    /\ row      = [r \in Runs |-> BlankRow("absent")]
    /\ log      = {}
    /\ nextId   = 1
    /\ vendor   = [s \in Suppliers |-> "approved"]
    /\ task     = [r \in Runs |-> NoTask]
    /\ req      = [q \in Requests |-> IdleReq]
    /\ cancels  = [r \in Runs |-> 0]
    /\ restarts = 0

-----------------------------------------------------------------------------
(* Shared steps: one session, one gateway call.                            *)

(* RunStore.set_state: nothing happens when the row is gone.               *)
SetState(r, s) ==
    row' = IF Exists(r) THEN [row EXCEPT ![r].state = s] ELSE row

SetPhase(r, p) == task' = [task EXCEPT ![r].phase = p]

(* record_sap_action, inside the session that persists the result.         *)
Record(r, act) ==
    IF act = "none"
    THEN UNCHANGED <<log, nextId>>
    ELSE /\ log' = log \cup {[id |-> nextId, run |-> r, status |-> act]}
         /\ nextId' = nextId + 1

(* SapActionService._apply: the stub always answers; an HTTP gateway may   *)
(* refuse, or apply the change and lose the answer.  Every exception is    *)
(* turned into a failed action.                                            *)
Gateway(s, status, act) ==
    \/ /\ act = status
       /\ vendor' = [vendor EXCEPT ![s] = status]
    \/ /\ ~StubErp
       /\ Cardinality(log) < MaxRows
       /\ act = "failed"
       /\ vendor' \in {vendor, [vendor EXCEPT ![s] = status]}

-----------------------------------------------------------------------------
(* The background task of a run.                                           *)

(* start_run: the row is committed, then the task is created.              *)
StartRun(r, m) ==
    /\ row[r].state = "absent"
    /\ row' = [row EXCEPT ![r] = [BlankRow("queued") EXCEPT !.mode = m]]
    /\ task' = [task EXCEPT ![r].phase = "created"]
    /\ UNCHANGED <<log, nextId, vendor, req, cancels, restarts>>

(* The event loop runs the task's first step: _guard enters its try block. *)
Begin(r) ==
    /\ task[r].phase = "created"
    /\ SetPhase(r, "starting")
    /\ UNCHANGED <<row, log, nextId, vendor, req, cancels, restarts>>

(* model_bundle_for or the accepted context raises CoreError.              *)
RefuseStart(r) ==
    /\ task[r].phase = "starting"
    /\ SetPhase(r, "failing")
    /\ UNCHANGED <<row, log, nextId, vendor, req, cancels, restarts>>

MarkRunning(r) ==
    /\ task[r].phase = "starting"
    /\ SetState(r, "running")
    /\ SetPhase(r, "graph")
    /\ UNCHANGED <<log, nextId, vendor, req, cancels, restarts>>

(* The graph returns a result in time and the step writer has drained.     *)
(* _erp_action then goes to the gateway only for a released candidate of   *)
(* an auto run.                                                            *)
GraphReturns(r, o) ==
    /\ task[r].phase = "graph"
    /\ task' = [task EXCEPT ![r].res = o,
                            ![r].phase = IF o = "compliant" /\ row[r].mode = "auto"
                                         THEN "erp" ELSE "store"]
    /\ UNCHANGED <<row, log, nextId, vendor, req, cancels, restarts>>

(* wait_for gives up, or the orchestrator itself raises: no result.        *)
GraphTimesOut(r) ==
    /\ task[r].phase = "graph"
    /\ SetPhase(r, "failing")
    /\ UNCHANGED <<row, log, nextId, vendor, req, cancels, restarts>>

CallErp(r) ==
    /\ task[r].phase = "erp"
    /\ \E act \in ErpResult :
          /\ Gateway(SupplierOf[r], PlannedStatus(task[r].res, "none"), act)
          /\ task' = [task EXCEPT ![r].phase = "store", ![r].act = act]
    /\ UNCHANGED <<row, log, nextId, req, cancels, restarts>>

(* What persist_result writes for the task's result.                       *)
ResultRow(old, o) ==
    IF o = "rejected"
    THEN [old EXCEPT !.state = "failed"]
    ELSE [old EXCEPT !.state    = IF o = "compliant" THEN "complete"
                                  ELSE "awaiting_review",
                     !.verdict  = o,
                     !.pending  = o # "compliant",
                     !.released = o = "compliant"]

(* _store_result: the result and its ERP action are one commit.            *)
StoreResult(r) ==
    /\ task[r].phase = "store"
    /\ row' = [row EXCEPT ![r] = ResultRow(row[r], task[r].res)]
    /\ Record(r, task[r].act)
    /\ SetPhase(r, "tail")
    /\ UNCHANGED <<vendor, req, cancels, restarts>>

(* Usage metrics are merged and "done" is published; the task is finished. *)
Finish(r) ==
    /\ task[r].phase = "tail"
    /\ task' = [task EXCEPT ![r] = NoTask]
    /\ UNCHANGED <<row, log, nextId, vendor, req, cancels, restarts>>

(* _fail, called by _orchestrate or by one of _guard's handlers, and the   *)
(* task ends.                                                              *)
Fail(r) ==
    /\ task[r].phase \in {"failing", "guard", "guardfail"}
    /\ SetState(r, "failed")
    /\ task' = [task EXCEPT ![r] = NoTask]
    /\ UNCHANGED <<log, nextId, vendor, req, cancels, restarts>>

(* A session raises.  Inside the coroutine _guard's second handler takes   *)
(* over; inside a handler the exception ends the task (it is logged, or    *)
(* dies with the task) and the row stays as it is.                         *)
DatabaseError(r) ==
    /\ DbFaults
    /\ \/ /\ task[r].phase \in {"starting", "graph", "erp", "store", "tail", "failing"}
          /\ SetPhase(r, "guardfail")
       \/ /\ task[r].phase \in {"guard", "guardfail"}
          /\ task' = [task EXCEPT ![r] = NoTask]
    /\ UNCHANGED <<row, log, nextId, vendor, req, cancels, restarts>>

(* cancel_run on a live task.  CancelledError surfaces in _guard, which    *)
(* answers with _fail, unless the coroutine never started or is already in *)
(* one of the handlers: then the task just ends.                           *)
CancelRun(r) ==
    /\ IsExecuting(r)
    /\ cancels[r] < MaxCancels
    /\ cancels' = [cancels EXCEPT ![r] = @ + 1]
    /\ IF task[r].phase \in {"created", "guard", "guardfail"}
       THEN task' = [task EXCEPT ![r] = NoTask]
       ELSE SetPhase(r, "guard")
    /\ UNCHANGED <<row, log, nextId, vendor, req, restarts>>

-----------------------------------------------------------------------------
(* Requests that act on a finished run.  Each holds the run's decision     *)
(* lock from the step that loads the run to the one that answers.          *)

(* decide: lock, load, and resume() to COMPLETE with the decision.         *)
Decide(q, r, d) ==
    /\ req[q].phase = "idle"
    /\ ~Locked(r)
    /\ row[r].state = "awaiting_review"
    /\ req' = [req EXCEPT ![q] = [phase |-> "plan", op |-> "decide", run |-> r,
                                  review |-> d, act |-> "none"]]
    /\ UNCHANGED <<row, log, nextId, vendor, task, cancels, restarts>>

(* Mutant of Plan: the mode is not asked.                                  *)
PlanAlways(q) ==
    /\ req[q].phase = "plan"
    /\ req' = [req EXCEPT ![q].phase = "erp"]
    /\ UNCHANGED <<row, log, nextId, vendor, task, cancels, restarts>>

(* _erp_action of a decision reads the mode again in a session of its own; *)
(* a run that was deleted in between counts as auto (_erp_mode).           *)
Plan(q) ==
    LET r == req[q].run
        mode == IF Exists(r) THEN row[r].mode ELSE "auto" IN
    /\ req[q].phase = "plan"
    /\ req' = [req EXCEPT ![q].phase = IF mode = "auto" THEN "erp" ELSE "store"]
    /\ UNCHANGED <<row, log, nextId, vendor, task, cancels, restarts>>

(* Mutant of Confirm: no decision lock.                                    *)
ConfirmUnlocked(q, r) ==
    /\ req[q].phase = "idle"
    /\ row[r].state = "complete" /\ ~row[r].pending /\ LatestFailed(r)
    /\ req' = [req EXCEPT ![q] = [phase |-> "erp", op |-> "confirm", run |-> r,
                                  review |-> row[r].review, act |-> "none"]]
    /\ UNCHANGED <<row, log, nextId, vendor, task, cancels, restarts>>

(* confirm_erp_action: lock, load, and refuse a run that is unfinished,    *)
(* already acted on, or plans nothing.                                     *)
Confirm(q, r) ==
    /\ req[q].phase = "idle"
    /\ ~Locked(r)
    /\ row[r].state = "complete"
    /\ ~row[r].pending
    /\ LatestFailed(r)
    /\ PlannedStatus(row[r].verdict, row[r].review) # "none"
    /\ req' = [req EXCEPT ![q] = [phase |-> "erp", op |-> "confirm", run |-> r,
                                  review |-> row[r].review, act |-> "none"]]
    /\ UNCHANGED <<row, log, nextId, vendor, task, cancels, restarts>>

(* The gateway call of either request.  A confirmation without a recorded  *)
(* review can only be about a compliant verdict.                           *)
RequestErp(q) ==
    /\ req[q].phase = "erp"
    /\ \E act \in ErpResult :
          /\ Gateway(SupplierOf[req[q].run],
                     PlannedStatus("compliant", req[q].review), act)
          /\ req' = [req EXCEPT ![q].phase = "store", ![q].act = act]
    /\ UNCHANGED <<row, log, nextId, task, cancels, restarts>>

(* Mutant of RequestStore: the state is committed, the release of the      *)
(* dossier is left to release_dds.                                         *)
RequestStoreStateOnly(q) ==
    LET r == req[q].run IN
    /\ req[q].phase = "store"
    /\ Exists(r)
    /\ row' = [row EXCEPT ![r].state = "complete", ![r].review = req[q].review]
    /\ Record(r, req[q].act)
    /\ req' = [req EXCEPT ![q].phase = "release"]
    /\ UNCHANGED <<vendor, task, cancels, restarts>>

(* Mutant of RequestStore: a request whose run was deleted waits for it.   *)
RequestStoreWaits(q) ==
    LET r == req[q].run IN
    /\ req[q].phase = "store"
    /\ Exists(r)
    /\ row' = [row EXCEPT ![r].state = "complete", ![r].pending = FALSE,
                          ![r].released = TRUE, ![r].review = req[q].review]
    /\ Record(r, req[q].act)
    /\ req' = [req EXCEPT ![q] = IdleReq]
    /\ UNCHANGED <<vendor, task, cancels, restarts>>

(* _store_result of the resumed (or reloaded) result.  When the run was    *)
(* deleted meanwhile persist_result returns and the first child row breaks *)
(* its foreign key: the request fails and nothing is committed.            *)
RequestStore(q) ==
    LET r == req[q].run IN
    /\ req[q].phase = "store"
    /\ IF Exists(r)
       THEN /\ row' = [row EXCEPT ![r].state = "complete", ![r].pending = FALSE,
                                  ![r].released = TRUE, ![r].review = req[q].review]
            /\ Record(r, req[q].act)
            /\ req' = [req EXCEPT ![q] = IF @.op = "decide"
                                         THEN [@ EXCEPT !.phase = "release"]
                                         ELSE IdleReq]
       ELSE /\ req' = [req EXCEPT ![q] = IdleReq]
            /\ UNCHANGED <<row, log, nextId>>
    /\ UNCHANGED <<vendor, task, cancels, restarts>>

(* release_dds in a session of its own, then the answer.                   *)
RequestRelease(q) ==
    LET r == req[q].run IN
    /\ req[q].phase = "release"
    /\ row' = IF Exists(r)
              THEN [row EXCEPT ![r].pending = FALSE, ![r].released = TRUE]
              ELSE row
    /\ req' = [req EXCEPT ![q] = IdleReq]
    /\ UNCHANGED <<log, nextId, vendor, task, cancels, restarts>>

(* A session of the request raises: the client gets a 500.                 *)
RequestError(q) ==
    /\ DbFaults
    /\ req[q].phase # "idle"
    /\ req' = [req EXCEPT ![q] = IdleReq]
    /\ UNCHANGED <<row, log, nextId, vendor, task, cancels, restarts>>

(* Mutant of DeleteRun: the foreign keys do not cascade.                   *)
DeleteRunKeepsLog(r) ==
    /\ r \in Deletable
    /\ Exists(r) /\ ~Open(r) /\ ~IsExecuting(r)
    /\ row' = [row EXCEPT ![r] = DeletedRow(@)]
    /\ UNCHANGED <<log, nextId, vendor, task, req, cancels, restarts>>

(* delete_run: refused while open or executing; ERP rows cascade.          *)
DeleteRun(r) ==
    /\ r \in Deletable
    /\ Exists(r) /\ ~Open(r) /\ ~IsExecuting(r)
    /\ row' = [row EXCEPT ![r] = DeletedRow(@)]
    /\ log' = {a \in log : a.run # r}
    /\ UNCHANGED <<nextId, vendor, task, req, cancels, restarts>>

(* Mutant of Restart: the oldest successful row of a supplier is replayed. *)
RestartOldestRow ==
    /\ restarts < MaxRestarts
    /\ restarts' = restarts + 1
    /\ task' = [r \in Runs |-> NoTask]
    /\ req'  = [q \in Requests |-> IdleReq]
    /\ vendor' = [s \in Suppliers |->
                    IF \E a \in Successes(s) : /\ \A b \in Successes(s) : a.id <= b.id
                                              /\ a.status = "blocked"
                    THEN "blocked" ELSE "approved"]
    /\ row' = [r \in Runs |-> IF Open(r) THEN [row[r] EXCEPT !.state = "failed"]
                              ELSE row[r]]
    /\ UNCHANGED <<log, nextId, cancels>>

(* Mutant of Restart: no startup sweep.                                    *)
RestartNoSweep ==
    /\ restarts < MaxRestarts
    /\ restarts' = restarts + 1
    /\ task' = [r \in Runs |-> NoTask]
    /\ req'  = [q \in Requests |-> IdleReq]
    /\ UNCHANGED <<row, log, nextId, vendor, cancels>>

(* The process stops (shutdown or crash) wherever its coroutines are, and  *)
(* build_services brings it up again: the stub is rebuilt from the log and *)
(* the sweep fails every open run.                                         *)
Restart ==
    /\ restarts < MaxRestarts
    /\ restarts' = restarts + 1
    /\ task' = [r \in Runs |-> NoTask]
    /\ req'  = [q \in Requests |-> IdleReq]
    /\ vendor' = IF StubErp THEN [s \in Suppliers |-> Replayed(s)] ELSE vendor
    /\ row' = [r \in Runs |-> IF Open(r) THEN [row[r] EXCEPT !.state = "failed"]
                              ELSE row[r]]
    /\ UNCHANGED <<log, nextId, cancels>>

-----------------------------------------------------------------------------
TaskStep(r) ==
    \/ Begin(r)
    \/ RefuseStart(r)
    \/ MarkRunning(r)
    \/ \E o \in Outcome : GraphReturns(r, o)
    \/ GraphTimesOut(r)
    \/ CallErp(r)
    \/ StoreResult(r)
    \/ Finish(r)
    \/ Fail(r)

RequestStep(q) == Plan(q) \/ RequestErp(q) \/ RequestStore(q) \/ RequestRelease(q)

Next ==
    \/ \E r \in Runs : \/ \E m \in Modes : StartRun(r, m)
                       \/ TaskStep(r)
                       \/ DatabaseError(r)
                       \/ CancelRun(r)
                       \/ DeleteRun(r)
    \/ \E q \in Requests : \/ \E r \in Runs, d \in Decision : Decide(q, r, d)
                           \/ \E r \in Runs : Confirm(q, r)
                           \/ RequestStep(q)
                           \/ RequestError(q)
    \/ Restart

Spec == Init /\ [][Next]_vars

(* The event loop keeps running every task and every accepted request: the *)
(* graph is under wait_for, the gateway and the sessions have timeouts.    *)
(* Nothing obliges a client to do anything, or the process to restart.     *)
Fairness ==
    /\ \A r \in Runs : WF_vars(TaskStep(r))
    /\ \A q \in Requests : WF_vars(RequestStep(q))

FairSpec == Spec /\ Fairness

-----------------------------------------------------------------------------
(* The rows, tasks, requests and action log have the shapes of the tables  *)
(* and coroutines they stand for.                                          *)
TypeOK ==
    /\ row \in [Runs -> Row]
    /\ log \subseteq LogRow
    /\ nextId \in Nat
    /\ vendor \in [Suppliers -> Status]
    /\ task \in [Runs -> Task]
    /\ req \in [Requests -> Request]
    /\ cancels \in [Runs -> Nat]
    /\ restarts \in Nat

(* A due-diligence statement that can be downloaded belongs to a compliant *)
(* verdict or to a recorded human decision, whatever was cancelled, failed *)
(* or restarted on the way (architecture rule 3).                          *)
NoUnreviewedRelease ==
    \A r \in Runs :
        row[r].released => row[r].verdict = "compliant" \/ row[r].review # "none"

(* The state a client sees agrees with the flags the other endpoints read: *)
(* a run that awaits review has an undecided, withheld dossier, a complete *)
(* run a released one, an open run none at all.                            *)
StateAgreesWithDossier ==
    \A r \in Runs :
        /\ row[r].state = "awaiting_review" =>
              row[r].pending /\ ~row[r].released /\ row[r].review = "none"
        /\ row[r].state = "complete" => row[r].released /\ ~row[r].pending
        /\ Open(r) => ~row[r].pending /\ ~row[r].released

(* However decisions, confirmations and the run's own task interleave, the *)
(* log holds at most one successful ERP action per run.                    *)
OneErpAction ==
    \A a, b \in log :
        a.run = b.run /\ a.status # "failed" /\ b.status # "failed" => a = b

(* A successful action on the log is backed by a released dossier and is   *)
(* the one its decision calls for: a vendor is logged blocked only under   *)
(* an override, approved only under an approval or a compliant verdict.    *)
LogFollowsDecision ==
    \A a \in log : a.status # "failed" =>
        /\ row[a.run].released
        /\ a.status = PlannedStatus(row[a.run].verdict, row[a.run].review)

(* The first recorded decision stands: no later request, retry or restart  *)
(* replaces it, short of deleting the run.                                 *)
DecisionIsFinal ==
    [][\A r \in Runs : row[r].review # "none" =>
          row'[r].review = row[r].review \/ row'[r].state = "deleted"]_vars

(* Every coroutine that is about to call the ERP for a run on file has a   *)
(* reason: its own task has released an auto run nothing was attempted     *)
(* for, a decision is about an undecided auto run, a confirmation about a  *)
(* released run whose every attempt failed; and no other coroutine of the  *)
(* run is at the gateway or carries a call it has not committed.           *)
AtErp(x)   == x.phase = "erp" \/ (x.phase = "store" /\ x.act # "none")
ErpCallsAreDue ==
    \A r \in Runs : Exists(r) =>
        /\ task[r].phase = "erp" =>
              /\ row[r].mode = "auto" /\ task[r].res = "compliant"
              /\ ActionsOf(r) = {}
              /\ \A q \in Requests : AtErp(req[q]) => req[q].run # r
        /\ \A q \in Requests : req[q].phase = "erp" /\ req[q].run = r =>
              /\ req[q].op = "decide" =>
                    /\ row[r].mode = "auto" /\ ActionsOf(r) = {}
                    /\ row[r].pending /\ row[r].review = "none"
              /\ req[q].op = "confirm" =>
                    /\ row[r].released /\ row[r].review = req[q].review
                    /\ \A a \in ActionsOf(r) : a.status = "failed"
              /\ ~AtErp(task[r])
              /\ \A p \in Requests \ {q} : AtErp(req[p]) => req[p].run # r

(* The steps in which the gateway is called for a run: by its task, or by  *)
(* a request about it.                                                     *)
TaskCalls(r)    == task[r].phase = "erp" /\ task'[r].phase = "store"
RequestCalls(q) == req[q].phase = "erp" /\ req'[q].phase = "store"

(* What the documents promise and the code does not keep.                  *)

(* A run created with erp_mode off never makes the gateway change a vendor *)
(* (architecture section 6, sap_actions): confirm_erp_action asks for no   *)
(* mode.                                                                   *)
OffNeverTouchesSap ==
    [][\A r \in Runs : row[r].mode = "off" =>
          /\ ~TaskCalls(r)
          /\ \A q \in Requests : RequestCalls(q) => req[q].run # r]_vars

(* No decision on a run created with mode confirm or off calls the ERP     *)
(* (_erp_action): _erp_mode takes a run deleted meanwhile for an auto run. *)
DecisionsActOnlyInAuto ==
    [][\A q \in Requests : RequestCalls(q) /\ req[q].op = "decide" =>
          row[req[q].run].mode = "auto"]_vars

(* A complete run stays complete until it is deleted (run_state):          *)
(* cancelled in the tail of its task it is failed by _guard.               *)
CompleteIsFinal ==
    [][\A r \in Runs : row[r].state = "complete" =>
          row'[r].state \in {"complete", "deleted"}]_vars

(* The promise of the review gate, with the dossier read off the flags.    *)
Dossier(r) == IF row[r].state = "deleted" THEN "withdrawn"
              ELSE IF row[r].released THEN "released"
              ELSE IF row[r].pending THEN "held" ELSE "none"
ActedOn(r) == IF \E a \in log : a.run = r /\ a.status = "blocked" THEN "blocked"
              ELSE IF \E a \in log : a.run = r /\ a.status = "approved"
                   THEN "approved" ELSE "none"

Gate == INSTANCE ReviewGate WITH
            dossier  <- [r \in Runs |-> Dossier(r)],
            verdict  <- [r \in Runs |-> row[r].verdict],
            decision <- [r \in Runs |-> row[r].review],
            acted    <- [r \in Runs |-> ActedOn(r)]

(* Whatever the faults, the lifecycle never breaks the review gate.        *)
GateHolds == Gate!GateSpec

(* Every accepted request answers, giving its run's decision lock back; an *)
(* open run closes, unless a cancellation reached its task before the      *)
(* first step and left it queued.                                          *)
LocksAreFreed == \A q \in Requests : req[q].phase # "idle" ~> req[q].phase = "idle"
OpenRunsClose ==
    \A r \in Runs : Open(r) ~>
        (~Open(r) \/ (cancels[r] > 0 /\ row[r].state = "queued"))

=============================================================================
