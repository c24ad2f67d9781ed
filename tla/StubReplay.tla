------------------------------ MODULE StubReplay ------------------------------
(***************************************************************************)
(* Whether the ERP stub survives a restart.  It lives in the process and   *)
(* is rebuilt from the action log, while a run's call to it and the commit *)
(* of the call's row are two steps: with several runs of one supplier the  *)
(* rows may enter the log in another order than the calls were made, and a *)
(* row may never enter it, or leave it with its run.                       *)
(*                                                                         *)
(* RunLifecycle is taken as it is.  Three history variables, which no      *)
(* action reads, remember whose call a vendor's state comes from and which *)
(* suppliers the log has lost track of.                                    *)
(***************************************************************************)
EXTENDS RunLifecycle

VARIABLES
    lastTask,   \* runs whose task carries its vendor's newest call, uncommitted
    lastReq,    \* requests that carry their vendor's newest call, uncommitted
    adrift      \* suppliers whose newest call is not the newest row of the log

replayVars == <<vars, lastTask, lastReq, adrift>>

ReplayInit ==
    /\ Init
    /\ lastTask = {}
    /\ lastReq  = {}
    /\ adrift   = {}

-----------------------------------------------------------------------------
(* What a step does to supplier s: a coroutine calls the gateway for it; a *)
(* call's row is committed; rows are removed none of the rest is as new    *)
(* as.                                                                     *)
Called(s) ==
    \/ \E r \in Runs : TaskCalls(r) /\ SupplierOf[r] = s
    \/ \E q \in Requests : RequestCalls(q) /\ SupplierOf[req[q].run] = s
Logged(s) ==
    \E a \in log' \ log : SupplierOf[a.run] = s /\ a.status # "failed"
Withdrawn(s) ==
    \E a \in Successes(s) \ log' : \A b \in Successes(s) \cap log' : b.id < a.id

(* The newest call for s is still on its way to the log.                   *)
Awaited(s) ==
    \/ \E r \in lastTask : SupplierOf[r] = s
    \/ \E q \in lastReq : SupplierOf[req[q].run] = s

(* A call is the newest until the next one for its supplier, or until its  *)
(* coroutine has committed it or has gone.                                 *)
NoteCalls ==
    /\ lastTask' = {r \in Runs :
                       /\ task'[r].phase = "store" /\ task'[r].act # "none"
                       /\ TaskCalls(r) \/ (r \in lastTask /\ ~Called(SupplierOf[r]))}
    /\ lastReq'  = {q \in Requests :
                       /\ req'[q].phase = "store" /\ req'[q].act # "none"
                       /\ \/ RequestCalls(q)
                          \/ q \in lastReq /\ ~Called(SupplierOf[req[q].run])}

(* A supplier goes adrift when its newest call is dropped instead of       *)
(* committed, when an older call is committed after the newest one has     *)
(* been dealt with, or when its newest row is removed.  The commit of its  *)
(* newest call brings it back, and so does a restart.                      *)
NoteDrift ==
    adrift' = {s \in Suppliers :
        /\ restarts' = restarts
        /\ IF Awaited(s) /\ ~Awaited(s)' THEN ~Logged(s)
           ELSE \/ s \in adrift
                \/ ~Awaited(s) /\ Logged(s)
                \/ Withdrawn(s)}

ReplayNext == Next /\ NoteCalls /\ NoteDrift

ReplaySpec == ReplayInit /\ [][ReplayNext]_replayVars

(* The history asks for no fairness of its own.                            *)
ReplayFairSpec == ReplaySpec /\ Fairness

-----------------------------------------------------------------------------
(* A restart would rebuild the stub to exactly what it holds, for every    *)
(* supplier whose newest call is neither on its way to the log nor lost    *)
(* to it: however many runs of the supplier act at once, are cancelled or  *)
(* fail, the newest successful row is the one that counts                  *)
(* (latest_vendor_states).                                                 *)
ReplayKeepsVendors ==
    StubErp => \A s \in Suppliers :
                   s \notin adrift /\ ~Awaited(s) => vendor[s] = Replayed(s)

(* What the documents promise and the code does not keep: a status flip    *)
(* survives a restart (services.py).  With no call on its way a restart    *)
(* keeps every vendor; but two runs of one supplier may commit in another  *)
(* order than they called.                                                 *)
Carried(s) ==
    \/ \E r \in Runs : /\ task[r].phase = "store" /\ task[r].act # "none"
                       /\ SupplierOf[r] = s
    \/ \E q \in Requests : /\ req[q].phase = "store" /\ req[q].act # "none"
                           /\ SupplierOf[req[q].run] = s
FlipsSurvive == \A s \in Suppliers : Carried(s) \/ vendor[s] = Replayed(s)

=============================================================================
