----------------------------- MODULE RunStream -----------------------------
(***************************************************************************)
(* The live stream of one scenario run: the writer that persists trace     *)
(* steps and publishes them, the run's task and the requests that publish  *)
(* states and the final event, RunManager.stream, which joins in the       *)
(* middle (subscribe, snapshot, replay, follow), and the clients: plain    *)
(* SSE readers, which read until "done", and the web cockpit, which keeps  *)
(* its steps over a reconnect and stops at the first terminal state.       *)
(*                                                                         *)
(* A step's id and its seq are both its position in the trace, and every   *)
(* writer extends the trace it has read, so the persisted steps of a run   *)
(* are 1..stored.  A commit and the publication that follows it are two    *)
(* actions: the session closes in between, and there another coroutine     *)
(* may read the row and a cancellation may land.                           *)
(***************************************************************************)
EXTENDS Integers, Sequences

CONSTANTS
    Clients,       \* the clients of the stream
    MaxSteps,      \* bound: steps the graph emits
    MaxConnects,   \* bound: connections of a cockpit (a reader connects once:
                   \* again would be another reader)
    MaxCancels,    \* bound: cancel requests
    MaxRestarts,   \* bound: process restarts
    MaxConfirms,   \* bound: ERP confirmations
    MaxFaults      \* bound: sessions that raise, and ERP actions that fail

ASSUME StreamAssumption ==
    /\ MaxSteps \in Nat /\ MaxConnects \in Nat /\ MaxCancels \in Nat
    /\ MaxRestarts \in Nat /\ MaxConfirms \in Nat /\ MaxFaults \in Nat

VARIABLES
    state,     \* the committed state of the run's row
    stored,    \* how many steps are committed
    acted,     \* the committed ERP action of the run
    task,      \* the run's task, with the result it carries
    emitted,   \* how many steps the task's trace has
    posted,    \* how many steps the writer or the task has published
    rvw,       \* the request that holds the decision lock
    done,      \* cancels, restarts, confirmations and faults so far (bounds)
    sub,       \* the server's side of each client's stream
    view       \* the client's side

vars == <<state, stored, acted, task, emitted, posted, rvw, done, sub, view>>

-----------------------------------------------------------------------------
Open     == {"queued", "running"}
Terminal == {"complete", "failed", "awaiting_review"}
RunState == Open \cup Terminal

(* "drain" and "stop" await the writer after the graph returned, timed out *)
(* or was cancelled; "stored", "failed" and "guarded" have committed and   *)
(* not yet published; "ended" is a task that is gone.                      *)
TaskPhase == {"created", "started", "graph", "drain", "stop", "store", "stored",
              "tail", "fail", "failed", "guard", "guarded", "ended"}
Action    == {"none", "ok", "failed"}
Result    == {"complete", "failed", "awaiting_review"}
SubPhase  == {"off", "joined", "replay", "follow"}

Event(k, n, s) == [kind |-> k, step |-> n, state |-> s]
StepEvent(n)   == Event("step", n, "none")
StateEvent(s)  == Event("state", 0, s)
DoneEvent(s)   == Event("done", 0, s)
StepEvents(a, b) == [i \in 1..(b - a) |-> StepEvent(a + i)]

(* A session raises, or an ERP action fails and may be confirmed again.    *)
Faults(n) ==
    /\ done.faults + n <= MaxFaults
    /\ done' = [done EXCEPT !.faults = @ + n]

Failures(act) == IF act = "failed" THEN 1 ELSE 0

(* An ERP action, failed or not, adds one step to the trace.              *)
Steps(act) == IF act = "none" THEN 0 ELSE 1

NoRvw == [phase |-> "idle", op |-> "decide", from |-> 0, to |-> 0, act |-> "none"]
NoSub == [phase |-> "off", queue |-> <<>>, backlog |-> <<>>, read |-> "none", seen |-> 0]

Events ==
    [kind : {"snapshot", "step", "state", "done"}, step : Nat, state : RunState \cup {"none"}]

SubRow ==
    [phase : SubPhase, queue : Seq(Events), backlog : Seq(Events),
     read : RunState \cup {"none"}, seen : Nat]

ViewRow ==
    [kind : {"reader", "cockpit"}, steps : Seq(Nat), state : RunState \cup {"none"},
     status : {"idle", "live", "closed"}, connects : Nat]

(* Row, trace, writer, request, subscribers and clients keep their shapes. *)
TypeOK ==
    /\ state \in RunState
    /\ stored \in Nat /\ emitted \in Nat /\ posted \in Nat
    /\ acted \in Action
    /\ task \in [phase : TaskPhase, res : Result \cup {"none"}, act : Action]
    /\ rvw \in [phase : {"idle", "loaded", "stored", "release"}, op : {"decide", "confirm"},
                from : Nat, to : Nat, act : Action]
    /\ done \in [cancels : Nat, restarts : Nat, confirms : Nat, faults : Nat]
    /\ sub \in [Clients -> SubRow]
    /\ view \in [Clients -> ViewRow]

Init ==
    /\ state = "queued" /\ stored = 0 /\ acted = "none"
    /\ task = [phase |-> "created", res |-> "none", act |-> "none"]
    /\ emitted = 0 /\ posted = 0
    /\ rvw = NoRvw
    /\ done = [cancels |-> 0, restarts |-> 0, confirms |-> 0, faults |-> 0]
    /\ sub  = [c \in Clients |-> NoSub]
    /\ \E kind \in [Clients -> {"reader", "cockpit"}] :
          view = [c \in Clients |-> [kind |-> kind[c], steps |-> <<>>, state |-> "none",
                                     status |-> "idle", connects |-> 0]]

-----------------------------------------------------------------------------
(* RunBroadcaster.publish: every registered queue gets the events.         *)
Publish(events) ==
    sub' = [c \in Clients |->
              IF sub[c].phase = "off" THEN sub[c]
              ELSE [sub[c] EXCEPT !.queue = @ \o events]]

TaskGoes(p) == task' = [task EXCEPT !.phase = p]

(* _set_state(RUNNING): commit, then publish.                              *)
MarkRunning ==
    /\ task.phase = "created"
    /\ state' = "running"
    /\ TaskGoes("started")
    /\ UNCHANGED <<stored, acted, emitted, posted, rvw, done, sub, view>>

PublishRunning ==
    /\ task.phase = "started"
    /\ Publish(<<StateEvent("running")>>)
    /\ TaskGoes("graph")
    /\ UNCHANGED <<state, stored, acted, emitted, posted, rvw, done, view>>

(* The graph adds a step to its trace; the hook only enqueues it.          *)
Emit ==
    /\ task.phase = "graph" /\ emitted < MaxSteps
    /\ emitted' = emitted + 1
    /\ UNCHANGED <<state, stored, acted, task, posted, rvw, done, sub, view>>

WriterLives == task.phase \in {"graph", "drain", "stop"}

(* _persist_steps, one step at a time: commit, then publish.               *)
WriterCommits ==
    /\ WriterLives /\ posted = stored /\ stored < emitted
    /\ stored' = stored + 1
    /\ UNCHANGED <<state, acted, task, emitted, posted, rvw, done, sub, view>>

WriterPublishes ==
    /\ WriterLives /\ posted < stored
    /\ Publish(<<StepEvent(stored)>>)
    /\ posted' = stored
    /\ UNCHANGED <<state, stored, acted, task, emitted, rvw, done, view>>

(* The graph returns a result, or times out or raises (no result).         *)
GraphEnds(res) ==
    /\ task.phase = "graph"
    /\ task' = [task EXCEPT !.phase = "drain", !.res = res]
    /\ UNCHANGED <<state, stored, acted, emitted, posted, rvw, done, sub, view>>

(* The writer has taken the sentinel.  A complete run may have an ERP      *)
(* action attached, which is one more step of the trace.                   *)
WriterDrained ==
    /\ posted = stored /\ stored = emitted
    /\ \/ /\ task.phase = "stop" /\ TaskGoes("guard")
          /\ UNCHANGED <<emitted, done>>
       \/ /\ task.phase = "drain" /\ task.res = "none" /\ TaskGoes("fail")
          /\ UNCHANGED <<emitted, done>>
       \/ /\ task.phase = "drain" /\ task.res # "none"
          /\ \E act \in Action :
                /\ act # "none" => task.res = "complete"
                /\ task' = [task EXCEPT !.phase = "store", !.act = act]
                /\ emitted' = emitted + Steps(act)
                /\ Faults(Failures(act))
    /\ UNCHANGED <<state, stored, acted, posted, rvw, sub, view>>

(* _store_result: one commit of the result and the missing steps ...       *)
StoreCommits ==
    /\ task.phase = "store"
    /\ state' = task.res
    /\ stored' = emitted
    /\ acted' = task.act
    /\ TaskGoes("stored")
    /\ UNCHANGED <<emitted, posted, rvw, done, sub, view>>

(* Mutant of StorePublishes: the state goes out before the fresh steps.    *)
StoreStateFirst ==
    /\ task.phase = "stored"
    /\ Publish(<<StateEvent(task.res)>> \o StepEvents(posted, emitted))
    /\ posted' = emitted
    /\ TaskGoes("tail")
    /\ UNCHANGED <<state, stored, acted, emitted, rvw, done, view>>

(* ... then the fresh steps and the state are published.                   *)
StorePublishes ==
    /\ task.phase = "stored"
    /\ Publish(Append(StepEvents(posted, emitted), StateEvent(task.res)))
    /\ posted' = emitted
    /\ TaskGoes("tail")
    /\ UNCHANGED <<state, stored, acted, emitted, rvw, done, view>>

(* Mutant of Finish: nothing is announced.                                 *)
FinishSilently ==
    /\ task.phase = "tail"
    /\ TaskGoes("ended")
    /\ UNCHANGED <<state, stored, acted, emitted, posted, rvw, done, sub, view>>

(* The end of _orchestrate, after a last session for the usage metrics.    *)
Finish ==
    /\ task.phase = "tail"
    /\ Publish(<<DoneEvent(task.res)>>)
    /\ TaskGoes("ended")
    /\ UNCHANGED <<state, stored, acted, emitted, posted, rvw, done, view>>

(* _fail, from _orchestrate and from _guard: commit, then state and done.  *)
FailCommits ==
    /\ \/ task.phase = "fail" /\ TaskGoes("failed")
       \/ task.phase = "guard" /\ TaskGoes("guarded")
    /\ state' = "failed"
    /\ UNCHANGED <<stored, acted, emitted, posted, rvw, done, sub, view>>

FailPublishes ==
    /\ task.phase \in {"failed", "guarded"}
    /\ Publish(<<StateEvent("failed"), DoneEvent("failed")>>)
    /\ TaskGoes("ended")
    /\ UNCHANGED <<state, stored, acted, emitted, posted, rvw, done, view>>

(* A session of the task raises: _guard calls _fail, and gives up when     *)
(* that raises too.                                                        *)
TaskFault ==
    /\ Faults(1)
    /\ \/ task.phase \in {"created", "drain", "store", "tail", "fail"} /\ TaskGoes("guard")
       \/ task.phase = "guard" /\ TaskGoes("ended")
    /\ UNCHANGED <<state, stored, acted, emitted, posted, rvw, sub, view>>

(* A session of a request raises: the request answers with an error.       *)
RequestFault ==
    /\ Faults(1)
    /\ rvw.phase \in {"loaded", "release"}
    /\ rvw' = NoRvw
    /\ UNCHANGED <<state, stored, acted, task, emitted, posted, sub, view>>

(* cancel_run.  A task that has not started never enters _guard.  While    *)
(* the graph runs, the writer still drains; while the task awaits the      *)
(* writer, the cancellation reaches the writer.  In _guard's handler a     *)
(* second cancellation ends the task.                                      *)
CancelRun ==
    /\ task.phase # "ended" /\ done.cancels < MaxCancels
    /\ done' = [done EXCEPT !.cancels = @ + 1]
    /\ TaskGoes(IF task.phase \in {"created", "guard", "guarded"} THEN "ended"
                ELSE IF task.phase = "graph" THEN "stop" ELSE "guard")
    /\ UNCHANGED <<state, stored, acted, emitted, posted, rvw, sub, view>>

-----------------------------------------------------------------------------
(* The requests that publish on a run: decide and confirm_erp_action.      *)

(* _decide_locked loads a held run, resumes it (the review step) and       *)
(* calls the ERP, which may add one step more.                             *)
DecideLoads(act) ==
    /\ rvw.phase = "idle" /\ state = "awaiting_review"
    /\ rvw' = [phase |-> "loaded", op |-> "decide", from |-> stored,
               to |-> stored + 1 + Steps(act), act |-> act]
    /\ Faults(Failures(act))
    /\ UNCHANGED <<state, stored, acted, task, emitted, posted, sub, view>>

(* confirm_erp_action loads a complete run that has no action on record,   *)
(* or only a failed one.                                                   *)
ConfirmLoads(act) ==
    /\ rvw.phase = "idle" /\ state = "complete"
    /\ acted # "ok" /\ act # "none"
    /\ done.confirms < MaxConfirms /\ done.faults + Failures(act) <= MaxFaults
    /\ done' = [done EXCEPT !.confirms = @ + 1, !.faults = @ + Failures(act)]
    /\ rvw' = [phase |-> "loaded", op |-> "confirm", from |-> stored,
               to |-> stored + 1, act |-> act]
    /\ UNCHANGED <<state, stored, acted, task, emitted, posted, sub, view>>

RequestCommits ==
    /\ rvw.phase = "loaded"
    /\ state' = "complete"
    /\ stored' = rvw.to
    /\ acted' = IF rvw.act = "none" THEN acted ELSE rvw.act
    /\ rvw' = [rvw EXCEPT !.phase = "stored"]
    /\ UNCHANGED <<task, emitted, posted, done, sub, view>>

RequestPublishes ==
    /\ rvw.phase = "stored"
    /\ Publish(Append(StepEvents(rvw.from, rvw.to), StateEvent("complete")))
    /\ rvw' = IF rvw.op = "decide" THEN [NoRvw EXCEPT !.phase = "release"] ELSE NoRvw
    /\ UNCHANGED <<state, stored, acted, task, emitted, posted, done, view>>

(* release_dds has committed: state once more, then done.                  *)
ReleasePublishes ==
    /\ rvw.phase = "release"
    /\ Publish(<<StateEvent("complete"), DoneEvent("complete")>>)
    /\ rvw' = NoRvw
    /\ UNCHANGED <<state, stored, acted, task, emitted, posted, done, view>>

-----------------------------------------------------------------------------
(* RunManager.stream and the clients.                                      *)

Cockpit(c) == view[c].kind = "cockpit"

(* The client opens the stream and the server registers its queue.  A      *)
(* reader starts from nothing, the cockpit keeps what it has.              *)
Connect(c) ==
    /\ view[c].status # "live"
    /\ view[c].connects < IF Cockpit(c) THEN MaxConnects ELSE 1
    /\ sub' = [sub EXCEPT ![c] = [NoSub EXCEPT !.phase = "joined"]]
    /\ view' = [view EXCEPT
          ![c].steps    = IF Cockpit(c) THEN @ ELSE <<>>,
          ![c].state    = IF Cockpit(c) THEN @ ELSE "none",
          ![c].status   = "live",
          ![c].connects = @ + 1]
    /\ UNCHANGED <<state, stored, acted, task, emitted, posted, rvw, done>>

(* _snapshot reads the run first ...                                       *)
SnapshotRun(c) ==
    /\ sub[c].phase = "joined" /\ sub[c].read = "none"
    /\ sub' = [sub EXCEPT ![c].read = state]
    /\ UNCHANGED <<state, stored, acted, task, emitted, posted, rvw, done, view>>

(* ... and the steps in a later statement.  What it found is yielded       *)
(* before the queue is read.                                               *)
Backlog(s, n) ==
    <<Event("snapshot", 0, s)>> \o StepEvents(0, n)
        \o (IF s \in Terminal THEN <<DoneEvent(s)>> ELSE <<>>)

(* Mutant of SnapshotSteps: seen stays empty.                              *)
SnapshotForgetsSeen(c) ==
    /\ sub[c].phase = "joined" /\ sub[c].read # "none"
    /\ sub' = [sub EXCEPT ![c].phase = "replay",
                          ![c].backlog = Backlog(sub[c].read, stored)]
    /\ UNCHANGED <<state, stored, acted, task, emitted, posted, rvw, done, view>>

SnapshotSteps(c) ==
    /\ sub[c].phase = "joined" /\ sub[c].read # "none"
    /\ sub' = [sub EXCEPT ![c].phase = "replay", ![c].seen = stored,
                          ![c].backlog = Backlog(sub[c].read, stored)]
    /\ UNCHANGED <<state, stored, acted, task, emitted, posted, rvw, done, view>>

(* applyRunEvent with mergeStep for the cockpit; a reader appends.         *)
Applied(c, e) ==
    IF e.kind = "step"
    THEN IF Cockpit(c) /\ \E i \in DOMAIN view[c].steps : view[c].steps[i] = e.step
         THEN view[c]
         ELSE [view[c] EXCEPT !.steps = Append(@, e.step)]
    ELSE [view[c] EXCEPT !.state = e.state]

(* Whether the stream is over for this client: isTerminalEvent.            *)
Ends(c, e) ==
    \/ e.kind = "done"
    \/ Cockpit(c) /\ e.kind = "state" /\ e.state \in Terminal

Receive(c, e, rest) ==
    IF Ends(c, e)
    THEN /\ sub' = [sub EXCEPT ![c] = NoSub]
         /\ view' = [view EXCEPT ![c] = [Applied(c, e) EXCEPT !.status = "closed"]]
    ELSE /\ sub' = [sub EXCEPT ![c] = rest]
         /\ view' = [view EXCEPT ![c] = Applied(c, e)]

Replay(c) ==
    /\ sub[c].phase = "replay"
    /\ LET b == Tail(sub[c].backlog)
       IN  Receive(c, Head(sub[c].backlog),
                   [sub[c] EXCEPT !.backlog = b,
                                  !.phase = IF b = <<>> THEN "follow" ELSE "replay"])
    /\ UNCHANGED <<state, stored, acted, task, emitted, posted, rvw, done>>

(* A live step the snapshot already had is skipped.                        *)
SkipSeen(c) ==
    /\ sub[c].phase = "follow" /\ sub[c].queue # <<>>
    /\ Head(sub[c].queue).kind = "step" /\ Head(sub[c].queue).step <= sub[c].seen
    /\ sub' = [sub EXCEPT ![c].queue = Tail(@)]
    /\ UNCHANGED <<state, stored, acted, task, emitted, posted, rvw, done, view>>

Follow(c) ==
    /\ sub[c].phase = "follow" /\ sub[c].queue # <<>>
    /\ LET e == Head(sub[c].queue)
       IN  /\ e.kind # "step" \/ e.step > sub[c].seen
           /\ Receive(c, e, [sub[c] EXCEPT !.queue = Tail(@)])
    /\ UNCHANGED <<state, stored, acted, task, emitted, posted, rvw, done>>

(* The client leaves, or the connection drops.                             *)
Disconnect(c) ==
    /\ view[c].status = "live"
    /\ sub' = [sub EXCEPT ![c] = NoSub]
    /\ view' = [view EXCEPT ![c].status = "idle"]
    /\ UNCHANGED <<state, stored, acted, task, emitted, posted, rvw, done>>

(* The process dies with its tasks, requests and streams; the next one     *)
(* fails the open run before it serves.                                    *)
Restart ==
    /\ done.restarts < MaxRestarts
    /\ done' = [done EXCEPT !.restarts = @ + 1]
    /\ state' = IF state \in Open THEN "failed" ELSE state
    /\ TaskGoes("ended")
    /\ rvw' = NoRvw
    /\ sub' = [c \in Clients |-> NoSub]
    /\ view' = [c \in Clients |-> [view[c] EXCEPT
                  !.status = IF @ = "live" THEN "idle" ELSE @]]
    /\ UNCHANGED <<stored, acted, emitted, posted>>

-----------------------------------------------------------------------------
TaskStep ==
    \/ MarkRunning \/ PublishRunning \/ Emit
    \/ \E res \in Result \cup {"none"} : GraphEnds(res)
    \/ WriterDrained \/ StoreCommits \/ StorePublishes \/ Finish
    \/ FailCommits \/ FailPublishes

WriterStep == WriterCommits \/ WriterPublishes

RequestStep ==
    \/ \E act \in Action : DecideLoads(act) \/ ConfirmLoads(act)
    \/ RequestCommits \/ RequestPublishes \/ ReleasePublishes

StreamStep(c) ==
    SnapshotRun(c) \/ SnapshotSteps(c) \/ Replay(c) \/ SkipSeen(c) \/ Follow(c)

Next ==
    \/ TaskStep \/ WriterStep \/ RequestStep
    \/ TaskFault \/ RequestFault \/ CancelRun \/ Restart
    \/ \E c \in Clients : Connect(c) \/ StreamStep(c) \/ Disconnect(c)

Spec == Init /\ [][Next]_vars

(* The event loop runs every task and every stream that can go on; clients *)
(* owe nothing, and an ERP confirmation is a client's choice.              *)
FairSpec ==
    /\ Spec
    /\ WF_vars(TaskStep) /\ WF_vars(WriterStep)
    /\ \A c \in Clients : WF_vars(StreamStep(c))

-----------------------------------------------------------------------------
(* Properties.                                                             *)

(* No one is shown a step that the trace does not have: what is published  *)
(* has been committed before, and a commit is never taken back.            *)
OnlyCommitted ==
    \A c \in Clients : \A i \in DOMAIN view[c].steps : view[c].steps[i] \in 1..stored

(* Nothing was cancelled and nothing has failed.                           *)
Undisturbed == done.cancels = 0 /\ done.faults = 0

(* Whenever a client joined and however often the cockpit reconnected, it  *)
(* has the trace from its first step on, without a gap, a repetition or an *)
(* inversion (subscribe before snapshot, seen, mergeStep).                 *)
TraceInOrder ==
    Undisturbed =>
        \A c \in Clients : \A i \in DOMAIN view[c].steps : view[c].steps[i] = i

(* A client whose stream ended is told the truth: the run is over and its  *)
(* row says so, whatever is cancelled, fails or restarts.  If nothing was  *)
(* disturbed it also has every step the task persisted (nothing falls      *)
(* between snapshot and queue, no terminal event overtakes a step) and the *)
(* run's state, or the held state that a decision has ended since.         *)
EndedSawAll ==
    \A c \in Clients : view[c].status = "closed" =>
        /\ state \in Terminal
        /\ Undisturbed =>
              /\ (1..emitted) \cap (1..stored) \subseteq
                    {view[c].steps[i] : i \in DOMAIN view[c].steps}
              /\ \/ view[c].state = state
                 \/ view[c].state = "awaiting_review" /\ state = "complete"

(* A stream that follows an undisturbed run ends, unless its client leaves *)
(* or the process dies first.                                              *)
StreamsEnd ==
    \A c \in Clients :
        (view[c].status = "live") ~> (view[c].status # "live" \/ ~Undisturbed)
=============================================================================
