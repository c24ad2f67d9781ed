------------------------------ MODULE ApiRuns ------------------------------
(***************************************************************************)
(* The runs of the TerraSentry API as the programs that talk to it over    *)
(* HTTP see them: what GET /runs/{id} shows, and what the write endpoints  *)
(* do or refuse.  RunLifecycle and BatchRun have the phases of the tasks   *)
(* behind this; here a request is one step, except a decision and a        *)
(* confirmation: they hold the lock of their run from the step that loads  *)
(* it, over the call of the ERP, to the step that commits.                 *)
(*                                                                         *)
(* The cockpit is one more client.  McpAdapter and A2aAdapter are the two  *)
(* other clients of the repository; each says what the end of a decision   *)
(* or confirmation (Settle) is to its own calls.                           *)
(***************************************************************************)
EXTENDS Integers, FiniteSets

CONSTANTS
    Runs,        \* run identifiers; one is never given out twice
    MaxClock     \* bound: the clock stops here

ASSUME ApiAssumption == MaxClock \in Nat /\ Runs \subseteq Nat \ {0}

VARIABLES
    run,         \* run[r]: the row, its verdict, review and last ERP action
    live,        \* the runs whose task, or whose batch's task, has not ended
    lock,        \* lock[r]: the decision or confirmation that has r's lock
    sap,         \* the ERP calls for requests of the adapters (history)
    clock        \* the monotonic clock of the adapters

apiVars == <<run, live, lock, sap, clock>>

ErpModes  == {"off", "confirm", "auto"}
Verdicts  == {"compliant", "ambiguous", "high_risk"}
Decisions == {"approve", "override"}
Actions   == {"none", "approved", "blocked", "failed"}

(* Who decided is not a column: it is kept to say who may do what.         *)
RunRow(authors) ==
    [state     : {"absent", "working", "held", "complete", "failed", "deleted"},
     parent    : {"none", "open", "closed"},      \* of a batch: its parent run
     mode      : ErpModes,
     verdict   : Verdicts \cup {"none"},
     decision  : Decisions \cup {"none"},
     action    : Actions,
     decidedBy : authors]

LockRow(authors) ==
    [step   : {"free", "accepted", "acted"},
     op     : {"decide", "confirm"},
     by     : authors,
     choice : Decisions \cup {"none"},
     act    : Actions]

SapCall(authors) == [run : Runs, by : authors, status : {"approved", "blocked"}]
Cockpits == SapCall({"cockpit"})

Absent ==
    [state |-> "absent", parent |-> "none", mode |-> "off", verdict |-> "none",
     decision |-> "none", action |-> "none", decidedBy |-> "none"]

Free == [step |-> "free", op |-> "decide", by |-> "none", choice |-> "none", act |-> "none"]

Known(r) == run[r].state \notin {"absent", "deleted"}

(* The vendor status a finished run calls for: without a decision it is    *)
(* a compliant one.                                                        *)
Called(decision) == IF decision = "override" THEN "blocked" ELSE "approved"

----------------------------------------------------------------------------
(* POST /runs and POST /batch-runs: a fresh id.                            *)
Fresh(r) == run[r].state = "absent" /\ \A s \in Runs : s < r => run[s].state # "absent"

Started(r, parent, mode) ==
    /\ Fresh(r)
    /\ run' = [run EXCEPT ![r] = [Absent EXCEPT !.state = "working", !.parent = parent,
                                                !.mode = mode]]
    /\ live' = live \cup {r}
    /\ UNCHANGED <<lock, sap>>

(* GET /runs/{id}: the status waiting for a confirmation, in confirm mode. *)
ErpPending(row) ==
    IF row.mode = "confirm" /\ row.state = "complete" /\ row.action \in {"none", "failed"}
    THEN Called(row.decision) ELSE "none"

(* POST /runs/{id}/decision, and /erp-action, which does not ask for the   *)
(* mode of the run: confirm mode, or a retry after a failure.              *)
DecisionRefused(r, choice, note) ==
    \/ run[r].state # "held"
    \/ choice = "approve" /\ run[r].verdict = "high_risk" /\ ~note

ConfirmRefused(r) ==
    run[r].state # "complete" \/ run[r].action \notin {"none", "failed"}

(* Either waits for the lock of the run, then loads it.                    *)
Accepted(r, op, choice, who) ==
    /\ lock' = [lock EXCEPT ![r] = [step |-> "accepted", op |-> op, by |-> who,
                                    choice |-> choice, act |-> "none"]]
    /\ UNCHANGED <<run, live, sap>>

(* _erp_mode, which a decision asks in a session of its own: a run that    *)
(* was deleted meanwhile counts as auto.                                   *)
ErpMode(r) == IF Known(r) THEN run[r].mode ELSE "auto"

(* The ERP is called, or not.  Whatever the gateway raises is a failed     *)
(* action.                                                                 *)
Act(r) ==
    LET status == Called(lock[r].choice) IN
    /\ lock[r].step = "accepted"
    /\ IF lock[r].op = "decide" /\ ErpMode(r) # "auto"
       THEN /\ lock' = [lock EXCEPT ![r].step = "acted"]
            /\ UNCHANGED sap
       ELSE /\ \E a \in {status, "failed"} :
                  lock' = [lock EXCEPT ![r].step = "acted", ![r].act = a]
            /\ sap' = sap \cup ({[run |-> r, by |-> lock[r].by, status |-> status]}
                                    \ Cockpits)
    /\ UNCHANGED <<run, live, clock>>

(* What _store_result writes: the run as it was loaded, with the decision  *)
(* and the action.                                                         *)
Stored(row, held) ==
    [row EXCEPT !.state     = "complete",
                !.decision  = held.choice,
                !.action    = held.act,
                !.decidedBy = IF held.op = "decide" THEN held.by ELSE @]

(* The result is committed and the lock given back; or a session raises,   *)
(* or the run is gone, and only the lock is given back.                    *)
Settle(r, done) ==
    /\ lock[r].step # "free"
    /\ done => lock[r].step = "acted" /\ Known(r)
    /\ run' = IF done THEN [run EXCEPT ![r] = Stored(@, lock[r])] ELSE run
    /\ lock' = [lock EXCEPT ![r] = Free]
    /\ UNCHANGED <<live, sap, clock>>

(* POST /runs/{id}/cancel, of a batch for its runs: _guard fails a run     *)
(* that has a task of its own whatever it is by now, complete and held     *)
(* included, and a run of a batch that is still open.  Cancelled before    *)
(* its first step, or again in _guard's handler, a task closes nothing or  *)
(* only the runs of its batch.                                             *)
Stoppable(r) == r \in live

Stopped(r) ==
    /\ \E s \in {run[r].state,
                 IF Known(r) /\ (run[r].parent = "none" \/ run[r].state = "working")
                 THEN "failed" ELSE run[r].state},
          p \in {run[r].parent, IF run[r].parent = "open" THEN "closed" ELSE run[r].parent} :
          /\ s = "working" => p = run[r].parent
          /\ run' = [run EXCEPT ![r].state = s, ![r].parent = p]
    /\ live' = live \ {r}
    /\ UNCHANGED <<lock, sap>>

----------------------------------------------------------------------------
(* The run ends: released alone, held for a person, or failed.             *)
Finish(r) ==
    /\ run[r].state = "working" /\ run[r].parent # "closed" /\ r \in live
    /\ \/ \E a \in IF run[r].mode = "auto" THEN {"approved", "failed"} ELSE {"none"} :
             run' = [run EXCEPT ![r].state = "complete", ![r].verdict = "compliant",
                                ![r].action = a]
       \/ \E v \in Verdicts \ {"compliant"} :
             run' = [run EXCEPT ![r].state = "held", ![r].verdict = v]
       \/ run' = [run EXCEPT ![r].state = "failed"]
    /\ UNCHANGED <<live, lock, sap, clock>>

(* The parent closes after the last of its records, here the only one; a   *)
(* record whose session raised stays open.                                 *)
CloseBatch(r) ==
    /\ run[r].parent = "open" /\ r \in live
    /\ run' = [run EXCEPT ![r].parent = "closed"]
    /\ UNCHANGED <<live, lock, sap, clock>>

(* The tail of a task: metrics and done.  A session of it that raises      *)
(* fails the run of a task of its own.                                     *)
TaskEnds(r) ==
    /\ r \in live /\ run[r].parent # "open"
    /\ run[r].parent = "none" => run[r].state # "working"
    /\ \/ run' = run
       \/ Known(r) /\ run[r].parent = "none" /\ run' = [run EXCEPT ![r].state = "failed"]
    /\ live' = live \ {r}
    /\ UNCHANGED <<lock, sap, clock>>

(* The API starts again: what was executing is failed, what was under way  *)
(* is forgotten.                                                           *)
ApiRestarts ==
    LET Recovered(row) ==
            [row EXCEPT !.state  = IF @ = "working" THEN "failed" ELSE @,
                        !.parent = IF @ = "open" THEN "closed" ELSE @]
    IN  /\ run' = [r \in Runs |-> Recovered(run[r])]
        /\ live' = {}
        /\ lock' = [r \in Runs |-> Free]
        /\ <<run, live, lock>>' # <<run, live, lock>>
        /\ UNCHANGED <<sap, clock>>

(* DELETE /runs/{id}: refused while a task of its own drives it.  The mode *)
(* is kept as history.                                                     *)
Deleted(r) ==
    /\ run[r].state \in {"held", "complete", "failed"}
    /\ run[r].parent = "none" => r \notin live
    /\ run' = [run EXCEPT ![r] = [Absent EXCEPT !.state = "deleted", !.parent = run[r].parent,
                                                !.mode = run[r].mode]]
    /\ UNCHANGED <<live, lock, sap>>

(* A person in the cockpit may do at any moment what the adapters may.     *)
Cockpit(r) ==
    /\ \/ \E m \in ErpModes, p \in {"none", "open"} : Started(r, p, m)
       \/ /\ lock[r].step = "free"
          /\ \/ \E c \in Decisions, note \in BOOLEAN :
                   ~DecisionRefused(r, c, note) /\ Accepted(r, "decide", c, "cockpit")
             \/ ~ConfirmRefused(r) /\ Accepted(r, "confirm", run[r].decision, "cockpit")
       \/ Stoppable(r) /\ Stopped(r)
       \/ Deleted(r)
    /\ UNCHANGED clock

Tick ==
    /\ clock < MaxClock
    /\ clock' = clock + 1
    /\ UNCHANGED <<run, live, lock, sap>>

ApiInit ==
    /\ run = [r \in Runs |-> Absent]
    /\ live = {} /\ sap = {}
    /\ lock = [r \in Runs |-> Free]
    /\ clock = 0

ApiNext ==
    \/ ApiRestarts \/ Tick
    \/ \E r \in Runs : Finish(r) \/ CloseBatch(r) \/ TaskEnds(r) \/ Cockpit(r) \/ Act(r)
=============================================================================
