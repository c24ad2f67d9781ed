------------------------ MODULE RunLifecycle_proofs ------------------------
(***************************************************************************)
(* Proofs about RunLifecycle, and about StubReplay on top of it, for every *)
(* set of runs, suppliers and requests, every erp_mode and every fault the *)
(* modules allow.                                                          *)
(***************************************************************************)
EXTENDS StubReplay, TLAPS

-----------------------------------------------------------------------------
(* The inductive invariant.                                                *)

(* A run's file is blank, held for a person, or out.                       *)
Blank(w) == /\ w.verdict = "none" /\ w.review = "none"
            /\ ~w.pending /\ ~w.released
Held(w)  == /\ w.verdict \in HeldVerdict /\ w.review = "none"
            /\ w.pending /\ ~w.released
Out(w)   == /\ w.verdict \in Verdict
            /\ w.verdict = "compliant" <=> w.review = "none"
            /\ ~w.pending /\ w.released

RowInv ==
    \A r \in Runs :
        /\ Blank(row[r]) \/ Held(row[r]) \/ Out(row[r])
        /\ row[r].state \in {"absent", "deleted", "queued", "running"} => Blank(row[r])
        /\ row[r].state = "awaiting_review" => Held(row[r])
        /\ row[r].state = "complete" => Out(row[r])

(* What a task holds between two steps, t, fits the row of its run, w.     *)
TaskFits(t, w) ==
    /\ t.phase = "none" => t = NoTask
    /\ t.phase # "none" => w.state \in RunState
    /\ t.phase \in {"created", "starting"} => w.state = "queued"
    /\ t.phase \in {"graph", "erp", "store"} => w.state = "running"
    /\ t.phase \in {"created", "starting", "graph", "erp"} => t.act = "none"
    /\ t.phase = "erp" => t.res = "compliant" /\ w.mode = "auto"
    /\ t.phase = "store" =>
          /\ t.res \in Outcome
          /\ t.act \in {"none", "approved", "failed"}
          /\ t.act # "none" => t.res = "compliant" /\ w.mode = "auto"

TaskInv == \A r \in Runs : TaskFits(task[r], row[r])

LogInv ==
    /\ \A a \in log : a.id < nextId
    /\ \A a, b \in log : a.id = b.id => a = b
    /\ \A a \in log : Out(row[a.run])
    /\ \A a \in log : a.status # "failed" =>
           a.status = PlannedStatus(row[a.run].verdict, row[a.run].review)
    /\ \A a, b \in log : a.run = b.run /\ a.status # "failed" => b.id <= a.id

(* What a request in flight has learnt, x, fits the row of its run, w,     *)
(* unless the run was deleted under it.                                    *)
ReqFits(x, w) ==
    /\ w.state # "absent"
    /\ x.phase \in {"plan", "erp"} => x.act = "none"
    /\ x.phase = "store" =>
          x.act \in {"none", "failed", PlannedStatus("compliant", x.review)}
    /\ x.op = "decide" => x.review \in Decision
    /\ x.op = "confirm" => x.phase \in {"erp", "store"}
    /\ w.state \in RunState =>
          /\ x.op = "decide" /\ x.phase # "release" => Held(w)
          /\ x.op = "decide" /\ x.phase = "release" => Out(w)
          /\ x.op = "decide" /\ (x.phase = "erp" \/ x.act # "none") => w.mode = "auto"
          /\ x.op = "confirm" => Out(w) /\ w.review = x.review

ReqInv ==
    \A q \in Requests : req[q].phase # "idle" =>
        /\ req[q].run \in Runs
        /\ ReqFits(req[q], row[req[q].run])
        /\ \A p \in Requests :
              req[p].phase # "idle" /\ req[p].run = req[q].run => p = q
        /\ req[q].op = "confirm" /\ Exists(req[q].run) =>
              \A a \in log : a.run = req[q].run => a.status = "failed"

IInv == TypeOK /\ RowInv /\ TaskInv /\ LogInv /\ ReqInv

-----------------------------------------------------------------------------
(* Facts about planned_status, so that no later step expands its cases: a  *)
(* decision decides alone, and a compliant verdict always plans a status.  *)
LEMMA Planned ==
    ASSUME NEW v \in Verdict, NEW d \in Decision \cup {"none"}
    PROVE  /\ PlannedStatus("compliant", d) \in Status
           /\ PlannedStatus("compliant", "none") = "approved"
           /\ d # "none" \/ v = "compliant"
                 => PlannedStatus(v, d) = PlannedStatus("compliant", d)
           /\ d = "none" /\ v # "compliant" => PlannedStatus(v, d) = "none"
  BY DEF PlannedStatus, Verdict, HeldVerdict, Decision, Status

(* Conjuncts of the invariant whose variables a step leaves alone.         *)
LEMMA RowFrame == RowInv /\ UNCHANGED row => RowInv'
  BY DEF RowInv, Blank, Held, Out
LEMMA TaskFrame == TaskInv /\ UNCHANGED <<row, task>> => TaskInv'
  BY DEF TaskInv, TaskFits
LEMMA LogFrame == LogInv /\ UNCHANGED <<row, log, nextId>> => LogInv'
  BY DEF LogInv, Out
LEMMA ReqFrame == ReqInv /\ UNCHANGED <<row, log, req>> => ReqInv'
  BY DEF ReqInv, ReqFits, Exists, Held, Out

(* A fresh process satisfies the invariant.                                *)
LEMMA InitInv == Init => IInv
<1> SUFFICES ASSUME Init PROVE IInv
  OBVIOUS
<1>1. TypeOK
  BY DEF Init, TypeOK, BlankRow, NoTask, IdleReq, Row, Task, Request, Status, Decision,
         Verdict, HeldVerdict, Outcome, TaskPhase, ReqPhase, ErpResult, RunState
<1>2. RowInv
  BY DEF Init, RowInv, BlankRow, Blank
<1>3. TaskInv
  BY DEF Init, TaskInv, TaskFits, NoTask
<1>4. LogInv
  BY DEF Init, LogInv
<1>5. ReqInv
  BY DEF Init, ReqInv, IdleReq
<1> QED
  BY <1>1, <1>2, <1>3, <1>4, <1>5 DEF IInv

-----------------------------------------------------------------------------
(* Steps of a run's task that touch the task alone.                        *)
LEMMA TaskMove ==
    ASSUME IInv, NEW r \in Runs, NEW t \in Task, TaskFits(t, row[r]),
           task' = [task EXCEPT ![r] = t],
           cancels' \in [Runs -> Nat],
           UNCHANGED <<row, log, nextId, vendor, req, restarts>>
    PROVE  IInv'
<1>1. TypeOK'
  BY DEF IInv, TypeOK
<1>2. TaskInv'
  BY DEF IInv, TypeOK, TaskInv, TaskFits
<1> QED
  BY <1>1, <1>2, RowFrame, LogFrame, ReqFrame DEF IInv

(* Begin, RefuseStart, GraphReturns, GraphTimesOut, Finish, DatabaseError  *)
(* and CancelRun are such steps.                                           *)
LEMMA TaskOnlySteps ==
    ASSUME IInv, NEW r \in Runs,
           \/ Begin(r) \/ RefuseStart(r) \/ GraphTimesOut(r) \/ Finish(r)
           \/ \E o \in Outcome : GraphReturns(r, o)
           \/ DatabaseError(r) \/ CancelRun(r)
    PROVE  IInv'
<1> USE DEF Task, TaskPhase, TaskFits, SetPhase, NoTask
<1>0. /\ task \in [Runs -> Task] /\ TaskFits(task[r], row[r])
      /\ cancels \in [Runs -> Nat]
      /\ NoTask \in Task
  BY DEF IInv, TypeOK, TaskInv, ErpResult, Outcome, Verdict
<1>1. CASE Begin(r)
  <2> DEFINE t == [task[r] EXCEPT !.phase = "starting"]
  <2>1. t \in Task /\ TaskFits(t, row[r]) /\ task' = [task EXCEPT ![r] = t]
    BY <1>0, <1>1 DEF Begin
  <2> QED BY <2>1, <1>0, <1>1, TaskMove DEF Begin
<1>2. CASE RefuseStart(r)
  <2> DEFINE t == [task[r] EXCEPT !.phase = "failing"]
  <2>1. t \in Task /\ TaskFits(t, row[r]) /\ task' = [task EXCEPT ![r] = t]
    BY <1>0, <1>2 DEF RefuseStart
  <2> QED BY <2>1, <1>0, <1>2, TaskMove DEF RefuseStart
<1>3. CASE GraphTimesOut(r)
  <2> DEFINE t == [task[r] EXCEPT !.phase = "failing"]
  <2>1. t \in Task /\ TaskFits(t, row[r]) /\ task' = [task EXCEPT ![r] = t]
    BY <1>0, <1>3 DEF GraphTimesOut
  <2> QED BY <2>1, <1>0, <1>3, TaskMove DEF GraphTimesOut
<1>4. CASE Finish(r)
  <2>1. TaskFits(NoTask, row[r]) /\ task' = [task EXCEPT ![r] = NoTask]
    BY <1>0, <1>4 DEF Finish
  <2> QED BY <2>1, <1>0, <1>4, TaskMove DEF Finish
<1>5. CASE \E o \in Outcome : GraphReturns(r, o)
  <2> PICK o \in Outcome : GraphReturns(r, o)
    BY <1>5
  <2> DEFINE p == IF o = "compliant" /\ row[r].mode = "auto" THEN "erp" ELSE "store"
             t == [task[r] EXCEPT !.res = o, !.phase = p]
  <2>1. t \in Task /\ TaskFits(t, row[r]) /\ task' = [task EXCEPT ![r] = t]
    BY <1>0 DEF GraphReturns, RunState
  <2>2. UNCHANGED <<row, log, nextId, vendor, req, cancels, restarts>>
    BY DEF GraphReturns
  <2> HIDE DEF p, t
  <2> QED BY <2>1, <2>2, <1>0, TaskMove
<1>6. CASE DatabaseError(r)
  <2>1. PICK t \in Task : TaskFits(t, row[r]) /\ task' = [task EXCEPT ![r] = t]
    <3>1. [task[r] EXCEPT !.phase = "guardfail"] \in Task
      BY <1>0
    <3> QED BY <3>1, <1>0, <1>6 DEF DatabaseError
  <2> QED BY <2>1, <1>0, <1>6, TaskMove DEF DatabaseError
<1>7. CASE CancelRun(r)
  <2>1. PICK t \in Task : TaskFits(t, row[r]) /\ task' = [task EXCEPT ![r] = t]
    <3>1. [task[r] EXCEPT !.phase = "guard"] \in Task
      BY <1>0
    <3> QED BY <3>1, <1>0, <1>7 DEF CancelRun, IsExecuting
  <2>2. cancels' \in [Runs -> Nat]
    BY <1>0, <1>7 DEF CancelRun
  <2> QED BY <2>1, <2>2, <1>7, TaskMove DEF CancelRun
<1> QED
  BY <1>1, <1>2, <1>3, <1>4, <1>5, <1>6, <1>7

-----------------------------------------------------------------------------
(* Steps of a run's task that write its row, the log or the vendor.        *)

(* A row whose state alone changes keeps its file.                         *)
LEMMA StateOnly ==
    ASSUME NEW w \in Row, NEW s \in RunState
    PROVE  LET u == [w EXCEPT !.state = s] IN
           /\ u \in Row /\ u.state = s
           /\ u.mode = w.mode /\ u.verdict = w.verdict /\ u.review = w.review
           /\ u.pending = w.pending /\ u.released = w.released
           /\ Blank(u) <=> Blank(w)
           /\ Held(u) <=> Held(w)
           /\ Out(u) <=> Out(w)
  BY DEF Row, Blank, Held, Out

(* set_state keeps the rows well formed and touches no other field.        *)
LEMMA SetStateKeeps ==
    ASSUME row \in [Runs -> Row], NEW r \in Runs, NEW s \in RunState, SetState(r, s)
    PROVE  /\ row' \in [Runs -> Row]
           /\ \A x \in Runs : /\ Blank(row'[x]) <=> Blank(row[x])
                              /\ Held(row'[x]) <=> Held(row[x])
                              /\ Out(row'[x]) <=> Out(row[x])
                              /\ x # r => row'[x] = row[x]
           /\ Exists(r) => row'[r].state = s
           /\ ~Exists(r) => row' = row
           /\ row'[r].mode = row[r].mode
           /\ row'[r].verdict = row[r].verdict /\ row'[r].review = row[r].review
           /\ row'[r].pending = row[r].pending /\ row'[r].released = row[r].released
<1>1. CASE Exists(r)
  <2>1. row' = [row EXCEPT ![r] = [row[r] EXCEPT !.state = s]]
    BY <1>1 DEF SetState
  <2> QED
    BY <1>1, <2>1, StateOnly
<1>2. CASE ~Exists(r)
  BY <1>2 DEF SetState
<1> QED
  BY <1>1, <1>2

(* StartRun, MarkRunning and Fail give the row of one run a new state.     *)
LEMMA StartRunInv ==
    ASSUME IInv, NEW r \in Runs, NEW m \in Modes, StartRun(r, m)
    PROVE  IInv'
<1>0. m \in {"auto", "confirm", "off"}
  BY LifecycleAssumption
<1>1. TypeOK'
  BY ZenonT(40), <1>0 DEF IInv, TypeOK, StartRun, BlankRow, Row, RunState, Decision, Verdict,
         Task, TaskPhase
<1>2. RowInv'
  BY DEF IInv, TypeOK, RowInv, StartRun, BlankRow, Blank, Held, Out
<1>3. TaskInv'
  BY DEF IInv, TypeOK, Task, TaskInv, TaskFits, StartRun, BlankRow, RunState, NoTask
<1>4. LogInv'
  BY DEF IInv, TypeOK, LogRow, RowInv, Blank, LogInv, StartRun, Out
<1>5. ReqInv'
  BY DEF IInv, TypeOK, ReqInv, ReqFits, StartRun, Held, Out, Exists
<1> QED
  BY <1>1, <1>2, <1>3, <1>4, <1>5 DEF IInv

LEMMA MarkRunningInv ==
    ASSUME IInv, NEW r \in Runs, MarkRunning(r)
    PROVE  IInv'
<1>1. TypeOK'
  BY SMTT(30), SetStateKeeps DEF IInv, TypeOK, MarkRunning, SetPhase, RunState, Task, TaskPhase
<1>2. RowInv'
  BY DEF IInv, TypeOK, Row, RowInv, TaskInv, TaskFits, MarkRunning, SetState, Blank, Held, Out
<1>3. TaskInv'
  BY DEF IInv, TypeOK, Row, Task, TaskInv, TaskFits, MarkRunning, SetState, SetPhase,
         Exists, RunState, NoTask
<1>4. LogInv'
  BY DEF IInv, TypeOK, Row, LogRow, LogInv, MarkRunning, SetState, Out
<1>5. ReqInv'
  BY DEF IInv, TypeOK, Row, ReqInv, ReqFits, MarkRunning, SetState, Held, Out, Exists, RunState
<1> QED
  BY <1>1, <1>2, <1>3, <1>4, <1>5 DEF IInv

LEMMA FailInv ==
    ASSUME IInv, NEW r \in Runs, Fail(r)
    PROVE  IInv'
<1>1. TypeOK'
  BY SetStateKeeps DEF IInv, TypeOK, Fail, RunState, Task, TaskPhase, NoTask, ErpResult
<1>2. RowInv'
  BY DEF IInv, TypeOK, Row, RowInv, Fail, SetState, Blank, Held, Out
<1>3. TaskInv'
  BY DEF IInv, TypeOK, Row, Task, TaskInv, TaskFits, Fail, SetState, NoTask
<1>4. LogInv'
  BY DEF IInv, TypeOK, Row, LogRow, LogInv, Fail, SetState, Out
<1>5. ReqInv'
  BY DEF IInv, TypeOK, Row, ReqInv, ReqFits, Fail, SetState, Held, Out, Exists, RunState
<1> QED
  BY <1>1, <1>2, <1>3, <1>4, <1>5 DEF IInv

(* The gateway leaves a legal vendor state and an answer that is the       *)
(* status asked for, or a failure.                                         *)
LEMMA GatewayKeeps ==
    ASSUME vendor \in [Suppliers -> Status], NEW s, NEW status \in Status,
           NEW act, Gateway(s, status, act)
    PROVE  vendor' \in [Suppliers -> Status] /\ act \in {status, "failed"}
  BY DEF Gateway

LEMMA CallErpInv ==
    ASSUME IInv, NEW r \in Runs, CallErp(r)
    PROVE  IInv'
<1>0. /\ task \in [Runs -> Task] /\ TaskFits(task[r], row[r])
      /\ vendor \in [Suppliers -> Status]
  BY DEF IInv, TypeOK, TaskInv
<1>1. PICK act \in ErpResult :
         /\ Gateway(SupplierOf[r], PlannedStatus(task[r].res, "none"), act)
         /\ task' = [task EXCEPT ![r].phase = "store", ![r].act = act]
  BY DEF CallErp
<1>2. PlannedStatus(task[r].res, "none") = "approved"
  BY <1>0, Planned DEF CallErp, TaskFits, Verdict, Decision
<1>3. vendor' \in [Suppliers -> Status] /\ act \in {"approved", "failed"}
  BY <1>0, <1>1, <1>2, GatewayKeeps DEF Status
<1>4. task[r].phase = "erp" /\ UNCHANGED <<row, log, nextId, req, cancels, restarts>>
  BY DEF CallErp
<1>5. TypeOK'
  BY ZenonT(40), <1>0, <1>1, <1>3, <1>4 DEF IInv, TypeOK, Task, TaskPhase
<1>6. TaskInv'
  BY <1>0, <1>1, <1>3, <1>4
  DEF IInv, TypeOK, Task, TaskInv, TaskFits, NoTask, Outcome, Verdict
<1> QED
  BY <1>4, <1>5, <1>6, RowFrame, LogFrame, ReqFrame DEF IInv

(* What the commit of a task's result makes of a blank row.                *)
LEMMA ResultRowKeeps ==
    ASSUME NEW w \in Row, Blank(w), w.state = "running", NEW o \in Outcome
    PROVE  LET u == ResultRow(w, o) IN
           /\ u \in Row /\ u.state \in RunState /\ u.mode = w.mode
           /\ Blank(u) \/ Held(u) \/ Out(u)
           /\ u.state \notin {"queued", "running"}
           /\ u.state = "awaiting_review" => Held(u)
           /\ u.state = "complete" => Out(u)
           /\ o = "compliant" => Out(u) /\ u.verdict = "compliant" /\ u.review = "none"
  BY DEF ResultRow, Row, Outcome, Verdict, HeldVerdict, RunState, Blank, Held, Out

LEMMA StoreResultInv ==
    ASSUME IInv, NEW r \in Runs, StoreResult(r)
    PROVE  IInv'
<1> DEFINE act == task[r].act
           u   == ResultRow(row[r], task[r].res)
<1>0. /\ row \in [Runs -> Row] /\ task \in [Runs -> Task]
      /\ task[r].phase = "store" /\ TaskFits(task[r], row[r])
      /\ row[r].state = "running" /\ Blank(row[r]) /\ task[r].res \in Outcome
      /\ act \in {"none", "approved", "failed"}
      /\ act # "none" => task[r].res = "compliant"
  BY DEF IInv, TypeOK, TaskInv, TaskFits, RowInv, StoreResult
<1>1. /\ u \in Row /\ u.state \in RunState
      /\ Blank(u) \/ Held(u) \/ Out(u)
      /\ u.state \notin {"queued", "running"}
      /\ u.state = "awaiting_review" => Held(u)
      /\ u.state = "complete" => Out(u)
      /\ act # "none" => Out(u) /\ u.verdict = "compliant" /\ u.review = "none"
  BY <1>0, ResultRowKeeps
<1>2. /\ row' = [row EXCEPT ![r] = u]
      /\ task' = [task EXCEPT ![r].phase = "tail"]
      /\ Record(r, act)
      /\ UNCHANGED <<vendor, req, cancels, restarts>>
  BY DEF StoreResult, SetPhase
<1>3. \A a \in log : a.run # r
  BY <1>0 DEF IInv, LogInv, Blank, Out
<1> HIDE DEF act, u
<1>4. TypeOK'
  BY <1>0, <1>1, <1>2 DEF IInv, TypeOK, Record, LogRow, Status, Task, TaskPhase
<1>5. RowInv'
  <2>1. \A x \in Runs : x # r => row'[x] = row[x]
    BY <1>0, <1>2
  <2>2. row'[r] = u
    BY <1>0, <1>2
  <2> QED BY <1>1, <2>1, <2>2 DEF IInv, RowInv, RunState
<1>6. TaskInv'
  BY <1>0, <1>1, <1>2 DEF IInv, TaskInv, TaskFits, Task, NoTask
<1>7. LogInv'
  <2>1. CASE act = "none"
    BY <1>0, <1>2, <1>3, <2>1 DEF IInv, TypeOK, LogRow, LogInv, Record
  <2>2. CASE act # "none"
    <3> DEFINE b == [id |-> nextId, run |-> r, status |-> act]
    <3>1. log' = log \cup {b} /\ nextId' = nextId + 1
      BY <1>2, <2>2 DEF Record
    <3>2. \A a \in log : row'[a.run] = row[a.run]
      BY <1>0, <1>2, <1>3 DEF IInv, TypeOK, LogRow
    <3>3. row'[r] = u /\ Out(u)
      BY <1>0, <1>1, <1>2, <2>2
    <3>4. act # "failed" => act = PlannedStatus(u.verdict, u.review)
      BY <1>0, <1>1, <2>2, Planned DEF Verdict, Decision
    <3> QED
      BY <1>3, <3>1, <3>2, <3>3, <3>4 DEF IInv, TypeOK, LogRow, LogInv
  <2> QED BY <2>1, <2>2
<1>8. ReqInv'
  <2>1. \A q \in Requests : req[q].phase # "idle" => req[q].run # r
    BY <1>0 DEF IInv, TypeOK, Request, ReqInv, ReqFits, Blank, Held, Out, RunState
  <2>2. log' \subseteq log \cup {[id |-> nextId, run |-> r, status |-> act]}
    BY <1>2 DEF Record
  <2> QED
    BY <1>0, <1>2, <2>1, <2>2 DEF IInv, ReqInv, Exists
<1> QED
  BY <1>4, <1>5, <1>6, <1>7, <1>8 DEF IInv

LEMMA DeleteRunInv ==
    ASSUME IInv, NEW r \in Runs, DeleteRun(r)
    PROVE  IInv'
<1>1. TypeOK'
  BY DEF IInv, TypeOK, DeleteRun, DeletedRow, BlankRow, Row
<1>2. RowInv'
  BY DEF IInv, TypeOK, RowInv, DeleteRun, DeletedRow, BlankRow, Blank, Held, Out
<1>3. TaskInv'
  BY DEF IInv, TypeOK, TaskInv, TaskFits, DeleteRun, IsExecuting
<1>4. LogInv'
  BY DEF IInv, TypeOK, LogRow, LogInv, DeleteRun
<1>5. ReqInv'
  BY DEF IInv, TypeOK, ReqInv, ReqFits, DeleteRun, DeletedRow, BlankRow, Exists, RunState
<1> QED
  BY <1>1, <1>2, <1>3, <1>4, <1>5 DEF IInv

LEMMA RestartInv ==
    ASSUME IInv, Restart
    PROVE  IInv'
<1>0. /\ row \in [Runs -> Row]
      /\ \A r \in Runs : row'[r] = IF Open(r) THEN [row[r] EXCEPT !.state = "failed"]
                                  ELSE row[r]
  BY DEF IInv, TypeOK, Restart
<1>1. /\ row' \in [Runs -> Row]
      /\ \A r \in Runs : /\ Blank(row'[r]) <=> Blank(row[r])
                         /\ Held(row'[r]) <=> Held(row[r])
                         /\ Out(row'[r]) <=> Out(row[r])
                         /\ row'[r].verdict = row[r].verdict
                         /\ row'[r].review = row[r].review
                         /\ row'[r].state \in {row[r].state, "failed"}
                         /\ Open(r) => row'[r].state = "failed"
                         /\ ~Open(r) => row'[r].state = row[r].state
  BY <1>0, StateOnly DEF Restart, RunState
<1>2. TypeOK'
  BY <1>1 DEF IInv, TypeOK, Restart, Task, TaskPhase, NoTask, ErpResult, Request, ReqPhase,
              IdleReq, Status, Replayed
<1>3. RowInv'
  BY <1>1 DEF IInv, RowInv, Open
<1>4. TaskInv'
  BY DEF Restart, TaskInv, TaskFits, NoTask
<1>5. LogInv'
  BY <1>1 DEF IInv, TypeOK, LogRow, LogInv, Restart
<1>6. ReqInv'
  BY DEF Restart, ReqInv, IdleReq
<1> QED
  BY <1>2, <1>3, <1>4, <1>5, <1>6 DEF IInv

-----------------------------------------------------------------------------
(* Steps of the requests.                                                  *)

(* A request that goes on, or gives up, without touching the database.     *)
LEMMA RequestMove ==
    ASSUME IInv, NEW q \in Requests, NEW x \in Request,
           req[q].phase # "idle",
           \/ x = IdleReq
           \/ /\ x.run = req[q].run /\ x.op = req[q].op
              /\ ReqFits(x, row[req[q].run]),
           req' = [req EXCEPT ![q] = x],
           vendor' \in [Suppliers -> Status],
           UNCHANGED <<row, log, nextId, task, cancels, restarts>>
    PROVE  IInv'
<1>1. TypeOK'
  BY DEF IInv, TypeOK
<1>2. ReqInv'
  <2> SUFFICES ASSUME NEW p \in Requests, req'[p].phase # "idle"
               PROVE  /\ req'[p].run \in Runs
                      /\ ReqFits(req[p], row[req[p].run])'
                      /\ \A y \in Requests :
                            req'[y].phase # "idle" /\ req'[y].run = req'[p].run => y = p
                      /\ req'[p].op = "confirm" /\ Exists(req[p].run)' =>
                            \A a \in log' : a.run = req'[p].run => a.status = "failed"
    BY DEF ReqInv
  <2>1. \A y \in Requests :
          /\ y # q => req'[y] = req[y]
          /\ req'[y].phase # "idle" =>
                req[y].phase # "idle" /\ req'[y].run = req[y].run /\ req'[y].op = req[y].op
    BY DEF IInv, TypeOK, IdleReq
  <2>2. req'[q] = x /\ (x.phase # "idle" => ReqFits(x, row[x.run]))
    BY DEF IInv, TypeOK, IdleReq
  <2>3. req'[p].run = req[p].run /\ req'[p].op = req[p].op /\ req[p].phase # "idle"
    BY <2>1
  <2>4. row' = row /\ log' = log
    OBVIOUS
  <2>5. ReqFits(req'[p], row[req'[p].run])
    BY <2>1, <2>2, <2>3 DEF IInv, ReqInv
  <2>6. ReqFits(req[p], row[req[p].run])'
    BY <2>4, <2>5 DEF ReqFits, Held, Out
  <2>7. Exists(req[p].run)' => Exists(req[p].run)
    BY <2>3, <2>4 DEF Exists
  <2> QED
    BY <2>1, <2>3, <2>4, <2>6, <2>7 DEF IInv, ReqInv
<1> QED
  BY <1>1, <1>2, RowFrame, TaskFrame, LogFrame DEF IInv

LEMMA PlanInv ==
    ASSUME IInv, NEW q \in Requests, Plan(q)
    PROVE  IInv'
<1>1. PICK p \in {"erp", "store"} :
         /\ req' = [req EXCEPT ![q].phase = p]
         /\ Exists(req[q].run) /\ p = "erp" => row[req[q].run].mode = "auto"
  BY DEF Plan
<1> DEFINE x == [req[q] EXCEPT !.phase = p]
<1>2. req[q] \in Request /\ req[q].phase = "plan" /\ ReqFits(req[q], row[req[q].run])
      /\ vendor \in [Suppliers -> Status]
  BY DEF IInv, TypeOK, Plan, ReqInv
<1>3. x \in Request /\ x.run = req[q].run /\ x.op = req[q].op
      /\ ReqFits(x, row[req[q].run]) /\ req' = [req EXCEPT ![q] = x]
  BY <1>1, <1>2 DEF Request, ReqPhase, ReqFits, Exists
<1>4. UNCHANGED <<row, log, nextId, vendor, task, cancels, restarts>>
  BY DEF Plan
<1> HIDE DEF x
<1> QED
  BY <1>2, <1>3, <1>4, RequestMove

LEMMA RequestErpInv ==
    ASSUME IInv, NEW q \in Requests, RequestErp(q)
    PROVE  IInv'
<1>1. PICK act \in ErpResult :
         /\ Gateway(SupplierOf[req[q].run], PlannedStatus("compliant", req[q].review), act)
         /\ req' = [req EXCEPT ![q].phase = "store", ![q].act = act]
  BY DEF RequestErp
<1>2. req[q] \in Request /\ req[q].phase = "erp" /\ ReqFits(req[q], row[req[q].run])
      /\ vendor \in [Suppliers -> Status]
  BY DEF IInv, TypeOK, RequestErp, ReqInv
<1>3. PlannedStatus("compliant", req[q].review) \in Status
  BY <1>2, Planned DEF Request, Verdict
<1>4. vendor' \in [Suppliers -> Status]
      /\ act \in {PlannedStatus("compliant", req[q].review), "failed"}
  BY <1>1, <1>2, <1>3, GatewayKeeps
<1> DEFINE x == [phase |-> "store", op |-> req[q].op, run |-> req[q].run,
                 review |-> req[q].review, act |-> act]
<1>5. x \in Request /\ x.run = req[q].run /\ x.op = req[q].op
      /\ ReqFits(x, row[req[q].run])
  BY <1>2, <1>4 DEF Request, ReqPhase, ReqFits
<1>6. req' = [req EXCEPT ![q] = x]
  <2>1. req \in [Requests -> Request]
    BY DEF IInv, TypeOK
  <2>2. /\ req' \in [Requests -> Request]
        /\ \A p \in Requests : p # q => req'[p] = req[p]
        /\ req'[q].phase = "store" /\ req'[q].act = act
        /\ req'[q].op = req[q].op /\ req'[q].run = req[q].run
        /\ req'[q].review = req[q].review
    BY <1>1, <2>1 DEF Request, ReqPhase
  <2>3. req'[q] = x
    BY <2>2 DEF Request
  <2> QED
    BY <2>1, <2>2, <2>3
<1>7. UNCHANGED <<row, log, nextId, task, cancels, restarts>>
  BY DEF RequestErp
<1> HIDE DEF x
<1> QED
  BY <1>2, <1>4, <1>5, <1>6, <1>7, RequestMove

LEMMA RequestErrorInv ==
    ASSUME IInv, NEW q \in Requests, RequestError(q)
    PROVE  IInv'
<1>1. IdleReq \in Request
  BY DEF IdleReq, Request, ReqPhase, ErpResult
<1> QED
  BY <1>1, RequestMove DEF RequestError, IInv, TypeOK

(* The two requests that take the lock: nobody else is at the same run.    *)
LEMMA DecideInv ==
    ASSUME IInv, NEW q \in Requests, NEW r \in Runs, NEW d \in Decision, Decide(q, r, d)
    PROVE  IInv'
<1>1. TypeOK'
  BY DEF IInv, TypeOK, Decide, Request, ReqPhase, ErpResult
<1>2. ReqInv'
  BY DEF IInv, TypeOK, RowInv, ReqInv, ReqFits, Decide, Locked, Exists, Held, Out
<1> QED
  BY <1>1, <1>2, RowFrame, TaskFrame, LogFrame DEF IInv, Decide

LEMMA ConfirmInv ==
    ASSUME IInv, NEW q \in Requests, NEW r \in Runs, Confirm(q, r)
    PROVE  IInv'
<1> DEFINE x == [phase |-> "erp", op |-> "confirm", run |-> r,
                 review |-> row[r].review, act |-> "none"]
<1>1. x \in Request
  BY DEF IInv, TypeOK, Row, Request, ReqPhase, ErpResult
<1>2. TypeOK'
  BY <1>1 DEF IInv, TypeOK, Confirm
<1>3. \A a \in log : a.run = r => a.status = "failed"
  BY DEF IInv, LogInv, Confirm, LatestFailed, ActionsOf
<1>4. ReqFits(x, row[r])
  BY DEF IInv, TypeOK, RowInv, ReqFits, Confirm
<1>5. \A p \in Requests : req[p].phase # "idle" => req[p].run # r
  BY DEF Confirm, Locked
<1>6. req' = [req EXCEPT ![q] = x] /\ UNCHANGED <<row, log, nextId, vendor, task, cancels, restarts>>
  BY DEF Confirm
<1> HIDE DEF x
<1>7. x.run = r /\ x.op = "confirm"
  BY DEF x
<1>8. ReqInv'
  BY <1>3, <1>4, <1>5, <1>6, <1>7 DEF IInv, TypeOK, ReqInv, ReqFits, Exists, Held, Out
<1> QED
  BY <1>2, <1>6, <1>8, RowFrame, TaskFrame, LogFrame DEF IInv

(* What the commit of a decision or a confirmation makes of the row.       *)
LEMMA SettledRow ==
    ASSUME NEW w \in Row, NEW x \in Request, ReqFits(x, w), w.state \in RunState,
           x.phase = "store"
    PROVE  LET u == [w EXCEPT !.state = "complete", !.pending = FALSE,
                              !.released = TRUE, !.review = x.review] IN
           /\ u \in Row /\ u.state = "complete" /\ Out(u) /\ u.review = x.review
           /\ u.mode = w.mode
           /\ PlannedStatus(u.verdict, u.review) = PlannedStatus("compliant", x.review)
           /\ x.op = "confirm" =>
                 u.verdict = w.verdict /\ u.review = w.review
<1>1. x.op \in {"decide", "confirm"} /\ x.review \in Decision \cup {"none"}
  BY DEF Request
<1>2. w.verdict \in Verdict /\ (w.verdict = "compliant" <=> x.review = "none")
  BY <1>1 DEF ReqFits, Held, Out, Verdict, HeldVerdict, Decision
<1>3. PlannedStatus(w.verdict, x.review) = PlannedStatus("compliant", x.review)
  BY <1>1, <1>2, Planned
<1> QED
  BY <1>1, <1>2, <1>3 DEF Row, RunState, Out, ReqFits

LEMMA RequestStoreInv ==
    ASSUME IInv, NEW q \in Requests, RequestStore(q)
    PROVE  IInv'
<1> DEFINE r == req[q].run
           x == req[q]
           u == [row[r] EXCEPT !.state = "complete", !.pending = FALSE,
                               !.released = TRUE, !.review = x.review]
<1>0. /\ row \in [Runs -> Row] /\ req \in [Requests -> Request]
      /\ x \in Request /\ x.phase = "store" /\ r \in Runs /\ ReqFits(x, row[r])
      /\ \A p \in Requests : req[p].phase # "idle" /\ req[p].run = r => p = q
      /\ IdleReq \in Request
  BY DEF IInv, TypeOK, ReqInv, RequestStore, IdleReq, Request, ReqPhase, ErpResult
<1>1. CASE ~Exists(r)
  <2>1. req' = [req EXCEPT ![q] = IdleReq]
        /\ UNCHANGED <<row, log, nextId, vendor, task, cancels, restarts>>
    BY <1>1 DEF RequestStore
  <2> QED
    BY <1>0, <2>1, RequestMove DEF IInv, TypeOK
<1>2. CASE Exists(r)
  <2>1. /\ row' = [row EXCEPT ![r] = u]
        /\ Record(r, x.act)
        /\ UNCHANGED <<vendor, task, cancels, restarts>>
    BY <1>0, <1>2 DEF RequestStore, Request, Row
  <2>2. PICK y \in Request :
          /\ req' = [req EXCEPT ![q] = y]
          /\ \/ y = IdleReq
             \/ /\ y.phase = "release" /\ y.run = r
                /\ y.op = "decide" /\ x.op = "decide" /\ y.review = x.review
                /\ y.act = x.act
    <3>1. CASE x.op = "decide"
      <4>1. req' = [req EXCEPT ![q] = [x EXCEPT !.phase = "release"]]
        BY <1>0, <1>2, <3>1 DEF RequestStore
      <4>2. [x EXCEPT !.phase = "release"] \in Request
        BY <1>0 DEF Request, ReqPhase
      <4> QED BY <1>0, <3>1, <4>1, <4>2 DEF Request
    <3>2. CASE x.op # "decide"
      BY <1>0, <1>2, <3>2 DEF RequestStore
    <3> QED BY <3>1, <3>2
  <2>3. /\ u \in Row /\ u.state = "complete" /\ Out(u) /\ u.review = x.review
        /\ u.mode = row[r].mode
        /\ PlannedStatus(u.verdict, u.review) = PlannedStatus("compliant", x.review)
        /\ x.op = "confirm" => u.verdict = row[r].verdict /\ u.review = row[r].review
    BY <1>0, <1>2, SettledRow DEF Exists
  <2>4. x.act \in {"none", "failed", PlannedStatus("compliant", x.review)}
        /\ x.act \in ErpResult
    BY <1>0 DEF ReqFits, Request
  <2>5. \A a \in log : a.run = r => a.status = "failed"
    BY <1>0, <1>2 DEF IInv, ReqInv, LogInv, ReqFits, Exists, Held, Out, Request
  <2>6. row[r].state \in RunState
    BY <1>2 DEF Exists
  <2> HIDE DEF u
  <2>7. TypeOK'
    BY <1>0, <2>1, <2>2, <2>3, <2>4 DEF IInv, TypeOK, Record, LogRow, ErpResult
  <2>8. RowInv'
    <3>1. \A z \in Runs : z # r => row'[z] = row[z]
      BY <1>0, <2>1
    <3>2. row'[r] = u
      BY <1>0, <2>1
    <3> QED BY <2>3, <3>1, <3>2 DEF IInv, RowInv
  <2>9. TaskInv'
    <3>1. task[r].phase \notin {"created", "starting", "graph", "erp", "store"}
      BY <1>0, <2>6 DEF IInv, TaskInv, TaskFits, ReqFits, RowInv, Blank, Held, Out, Request
    <3> QED
      BY <1>0, <2>1, <2>3, <3>1 DEF IInv, TaskInv, TaskFits, RunState
  <2>10. LogInv'
    <3>1. CASE x.act = "none"
      BY <1>0, <2>1, <2>3, <2>5, <3>1 DEF IInv, TypeOK, LogRow, LogInv, Record
    <3>2. CASE x.act # "none"
      <4> DEFINE b == [id |-> nextId, run |-> r, status |-> x.act]
      <4>1. log' = log \cup {b} /\ nextId' = nextId + 1
        BY <2>1, <3>2 DEF Record
      <4>2. \A a \in log : row'[a.run] = IF a.run = r THEN u ELSE row[a.run]
        BY <1>0, <2>1 DEF IInv, TypeOK, LogRow
      <4>3. row'[r] = u
        BY <1>0, <2>1
      <4>4. x.act # "failed" => x.act = PlannedStatus(u.verdict, u.review)
        BY <2>3, <2>4, <3>2
      <4> QED
        BY <2>3, <2>5, <4>1, <4>2, <4>3, <4>4 DEF IInv, TypeOK, LogRow, LogInv
    <3> QED BY <3>1, <3>2
  <2>11. ReqInv'
    <3>1. \A p \in Requests : p # q /\ req[p].phase # "idle" => req[p].run # r
      BY <1>0
    <3>2. \A a \in log' : a \in log \/ a.run = r
      BY <2>1 DEF Record
    <3>3. y.phase # "idle" => ReqFits(y, u) /\ y.op = "decide" /\ y.run = r
      BY <1>0, <2>2, <2>3, <2>6 DEF ReqFits, IdleReq, RunState
    <3>4. \A p \in Requests : p # q => req'[p] = req[p]
      BY <1>0, <2>2
    <3>5. req'[q] = y /\ row'[r] = u
      BY <1>0, <2>1, <2>2
    <3>6. \A z \in Runs : z # r => row'[z] = row[z]
      BY <1>0, <2>1
    <3> HIDE DEF r, x
    <3> QED
      BY <1>0, <3>1, <3>2, <3>3, <3>4, <3>5, <3>6 DEF IInv, ReqInv, Exists
  <2> QED
    BY <2>7, <2>8, <2>9, <2>10, <2>11 DEF IInv
<1> QED
  BY <1>1, <1>2

(* release_dds finds the flags as the result's own commit left them.       *)
LEMMA RequestReleaseInv ==
    ASSUME IInv, NEW q \in Requests, RequestRelease(q)
    PROVE  IInv'
<1> DEFINE r == req[q].run
<1>0. /\ row \in [Runs -> Row] /\ IdleReq \in Request /\ vendor \in [Suppliers -> Status]
      /\ r \in Runs /\ req[q].phase = "release" /\ ReqFits(req[q], row[r])
      /\ req[q] \in Request
  BY DEF IInv, TypeOK, ReqInv, RequestRelease, IdleReq, Request, ReqPhase, ErpResult
<1>1. Exists(r) => ~row[r].pending /\ row[r].released
  BY <1>0 DEF ReqFits, Out, Exists, Request
<1>2. row' = row
  BY ZenonT(40), <1>0, <1>1 DEF RequestRelease, Row
<1> QED
  BY <1>0, <1>2, RequestMove DEF RequestRelease

-----------------------------------------------------------------------------
(* Every step keeps the invariant.                                         *)
LEMMA NextInv == IInv /\ [Next]_vars => IInv'
<1> SUFFICES ASSUME IInv, [Next]_vars PROVE IInv'
  OBVIOUS
<1>1. CASE UNCHANGED vars
  BY <1>1, RowFrame, TaskFrame, LogFrame, ReqFrame DEF IInv, TypeOK, vars
<1>2. CASE Restart
  BY <1>2, RestartInv
<1>3. ASSUME NEW r \in Runs,
             \/ \E m \in Modes : StartRun(r, m)
             \/ TaskStep(r) \/ DatabaseError(r) \/ CancelRun(r) \/ DeleteRun(r)
      PROVE  IInv'
  BY <1>3, StartRunInv, TaskOnlySteps, MarkRunningInv, CallErpInv, StoreResultInv,
     FailInv, DeleteRunInv DEF TaskStep
<1>4. ASSUME NEW q \in Requests,
             \/ \E r \in Runs, d \in Decision : Decide(q, r, d)
             \/ \E r \in Runs : Confirm(q, r)
             \/ RequestStep(q) \/ RequestError(q)
      PROVE  IInv'
  BY <1>4, DecideInv, ConfirmInv, PlanInv, RequestErpInv, RequestStoreInv,
     RequestReleaseInv, RequestErrorInv DEF RequestStep
<1> QED
  BY <1>1, <1>2, <1>3, <1>4 DEF Next

(* The invariant holds in every state of every instance.                   *)
THEOREM Invariance == Spec => []IInv
  BY InitInv, NextInv, PTL DEF Spec

-----------------------------------------------------------------------------
(* What follows from it.                                                   *)

(* Every variable keeps its shape.                                         *)
THEOREM TypeCorrect == Spec => []TypeOK
  BY Invariance, PTL DEF IInv

(* No dossier is released without a compliant verdict or a decision.       *)
THEOREM ReleaseIsReviewed == Spec => []NoUnreviewedRelease
<1>1. IInv => NoUnreviewedRelease
  BY DEF IInv, RowInv, NoUnreviewedRelease, Blank, Held, Out
<1> QED
  BY <1>1, Invariance, PTL

(* The state of a run and the flags of its dossier never disagree.         *)
THEOREM StatesAgree == Spec => []StateAgreesWithDossier
<1>1. IInv => StateAgreesWithDossier
  BY DEF IInv, RowInv, StateAgreesWithDossier, Open, Blank, Held, Out
<1> QED
  BY <1>1, Invariance, PTL

(* No run has two successful ERP actions on the log.                       *)
THEOREM AtMostOneAction == Spec => []OneErpAction
<1>1. IInv => OneErpAction
  <2> SUFFICES ASSUME IInv, NEW a \in log, NEW b \in log, a.run = b.run,
                      a.status # "failed", b.status # "failed"
               PROVE  a = b
    BY DEF OneErpAction
  <2>1. a.id \in Nat /\ b.id \in Nat /\ b.id <= a.id /\ a.id <= b.id
    BY DEF IInv, TypeOK, LogRow, LogInv
  <2>2. a.id = b.id
    BY <2>1
  <2> QED
    BY <2>2 DEF IInv, LogInv
<1> QED
  BY <1>1, Invariance, PTL

(* Every successful action on the log is the one its dossier calls for.    *)
THEOREM LogIsCalledFor == Spec => []LogFollowsDecision
<1>1. IInv => LogFollowsDecision
  BY DEF IInv, LogInv, LogFollowsDecision, Out
<1> QED
  BY <1>1, Invariance, PTL

-----------------------------------------------------------------------------
(* What a step may do to the dossier of a run and to the log, from which   *)
(* the action properties and the refinement follow.                        *)

(* Steps that leave every dossier and the log alone: all but the commits   *)
(* of results and decisions and the deletion.                              *)
SameFiles ==
    /\ \A r \in Runs :
          /\ row'[r].verdict = row[r].verdict /\ row'[r].review = row[r].review
          /\ row'[r].pending = row[r].pending /\ row'[r].released = row[r].released
          /\ row'[r].state = "deleted" <=> row[r].state = "deleted"
    /\ log' = log

LEMMA QuietSteps ==
    ASSUME IInv, Next
    PROVE  \/ SameFiles
           \/ \E r \in Runs : StoreResult(r) \/ DeleteRun(r)
           \/ \E q \in Requests : RequestStore(q)
<1>0. row \in [Runs -> Row]
  BY DEF IInv, TypeOK
<1>1. CASE Restart
  <2>1. \A r \in Runs : row'[r] = IF Open(r) THEN [row[r] EXCEPT !.state = "failed"]
                                ELSE row[r]
    BY <1>1 DEF Restart
  <2> QED
    BY <1>0, <1>1, <2>1, StateOnly DEF Restart, SameFiles, RunState, Open
<1>2. ASSUME NEW r \in Runs, NEW m \in Modes, StartRun(r, m)
      PROVE  SameFiles
  <2>1. Blank(row[r]) /\ row[r] \in Row
    BY <1>0, <1>2 DEF StartRun, IInv, RowInv
  <2>2. row' = [row EXCEPT ![r] = [BlankRow("queued") EXCEPT !.mode = m]]
        /\ row[r].state = "absent" /\ log' = log
    BY <1>2 DEF StartRun
  <2> QED
    BY <1>0, <2>1, <2>2 DEF BlankRow, SameFiles, Blank, Row
<1>3. ASSUME NEW r \in Runs, MarkRunning(r) \/ Fail(r)
      PROVE  SameFiles
  <2>1. PICK s \in {"running", "failed"} : SetState(r, s)
    BY <1>3 DEF MarkRunning, Fail
  <2>2. log' = log
    BY <1>3 DEF MarkRunning, Fail
  <2> QED
    BY <1>0, <2>1, <2>2, SetStateKeeps DEF SameFiles, Exists, RunState
<1>4. ASSUME NEW r \in Runs,
             \/ Begin(r) \/ RefuseStart(r) \/ GraphTimesOut(r) \/ Finish(r)
             \/ \E o \in Outcome : GraphReturns(r, o)
             \/ CallErp(r) \/ DatabaseError(r) \/ CancelRun(r)
      PROVE  SameFiles
  BY <1>4 DEF Begin, RefuseStart, GraphTimesOut, Finish, GraphReturns, CallErp,
              DatabaseError, CancelRun, SameFiles
<1>5. ASSUME NEW q \in Requests,
             \/ \E r \in Runs, d \in Decision : Decide(q, r, d)
             \/ \E r \in Runs : Confirm(q, r)
             \/ Plan(q) \/ RequestErp(q) \/ RequestError(q)
      PROVE  SameFiles
  BY <1>5 DEF Decide, Confirm, Plan, RequestErp, RequestError, SameFiles
<1>6. ASSUME NEW q \in Requests, RequestRelease(q)
      PROVE  SameFiles
  <2> DEFINE r == req[q].run
  <2>1. /\ r \in Runs /\ ReqFits(req[q], row[r]) /\ req[q].phase = "release"
        /\ req[q] \in Request
    BY <1>6 DEF IInv, TypeOK, ReqInv, RequestRelease
  <2>2. Exists(r) => ~row[r].pending /\ row[r].released
    BY <2>1 DEF ReqFits, Out, Exists, Request
  <2>3. row' = row
    BY ZenonT(40), <1>0, <1>6, <2>1, <2>2 DEF RequestRelease, Row
  <2> QED
    BY <1>6, <2>3 DEF RequestRelease, SameFiles
<1> QED
  BY <1>1, <1>2, <1>3, <1>4, <1>5, <1>6 DEF Next, TaskStep, RequestStep

(* The three kinds of steps that do change a file, seen from the row they  *)
(* write: x is the action they log, if any.                                *)
Logs(r, x) ==
    \/ x \notin Status /\ log' \subseteq log \cup {[id |-> nextId, run |-> r, status |-> "failed"]}
                      /\ log \subseteq log'
    \/ x \in Status /\ log' = log \cup {[id |-> nextId, run |-> r, status |-> x]}

LEMMA StoreResultStep ==
    ASSUME IInv, NEW r \in Runs, StoreResult(r)
    PROVE  /\ \A y \in Runs : y # r => row'[y] = row[y]
           /\ Blank(row[r]) /\ row[r].state = "running"
           /\ row'[r] = ResultRow(row[r], task[r].res) /\ task[r].res \in Outcome
           /\ \A a \in log : a.run # r
           /\ Logs(r, task[r].act)
           /\ task[r].act \in {"none", "approved", "failed"}
           /\ task[r].act # "none" => task[r].res = "compliant" /\ row[r].mode = "auto"
<1>1. /\ row \in [Runs -> Row] /\ task[r].phase = "store" /\ TaskFits(task[r], row[r])
  BY DEF IInv, TypeOK, TaskInv, StoreResult
<1>2. Blank(row[r]) /\ row[r].state = "running" /\ \A a \in log : a.run # r
  BY <1>1 DEF IInv, RowInv, LogInv, TaskFits, Blank, Out
<1>3. Logs(r, task[r].act)
  BY <1>1 DEF StoreResult, Record, Logs, Status, TaskFits
<1> QED
  BY <1>1, <1>2, <1>3 DEF StoreResult, TaskFits

LEMMA RequestStoreStep ==
    ASSUME IInv, NEW q \in Requests, RequestStore(q), Exists(req[q].run)
    PROVE  LET r == req[q].run IN
           /\ r \in Runs /\ req[q] \in Request /\ ReqFits(req[q], row[r])
           /\ req[q].phase = "store"
           /\ \A y \in Runs : y # r => row'[y] = row[y]
           /\ row'[r] = [row[r] EXCEPT !.state = "complete", !.pending = FALSE,
                                       !.released = TRUE, !.review = req[q].review]
           /\ \A a \in log : a.run = r => a.status = "failed"
           /\ Logs(r, req[q].act)
<1> DEFINE r == req[q].run
<1>1. /\ row \in [Runs -> Row] /\ r \in Runs /\ req[q] \in Request
      /\ req[q].phase = "store" /\ ReqFits(req[q], row[r])
  BY DEF IInv, TypeOK, ReqInv, RequestStore
<1>2. \A a \in log : a.run = r => a.status = "failed"
  BY <1>1 DEF IInv, ReqInv, LogInv, ReqFits, Exists, Held, Out, Request
<1>3. Logs(r, req[q].act)
  <2>1. Record(r, req[q].act)
    BY DEF RequestStore
  <2> QED
    BY <1>1, <2>1 DEF Record, Logs, Request, ErpResult, Status
<1>4. row' = [row EXCEPT ![r].state = "complete", ![r].pending = FALSE,
                         ![r].released = TRUE, ![r].review = req[q].review]
  BY DEF RequestStore
<1>5. row' = [row EXCEPT ![r] = [row[r] EXCEPT !.state = "complete", !.pending = FALSE,
                                       !.released = TRUE, !.review = req[q].review]]
  BY <1>1, <1>4 DEF Row
<1> QED
  BY <1>1, <1>2, <1>3, <1>5

LEMMA DeleteRunStep ==
    ASSUME IInv, NEW r \in Runs, DeleteRun(r)
    PROVE  /\ \A y \in Runs : y # r => row'[y] = row[y]
           /\ row[r].state \in RunState /\ row'[r] = DeletedRow(row[r])
           /\ log' = {a \in log : a.run # r}
  BY DEF IInv, TypeOK, DeleteRun, Exists

(* The first decision stands.                                              *)
THEOREM DecisionsStand == Spec => DecisionIsFinal
<1> DEFINE Stands == \A r \in Runs : row[r].review # "none" =>
                        row'[r].review = row[r].review \/ row'[r].state = "deleted"
<1>1. IInv /\ [Next]_vars => [Stands]_vars
  <2> SUFFICES ASSUME IInv, Next PROVE Stands
    OBVIOUS
  <2>1. CASE SameFiles
    BY <2>1 DEF SameFiles
  <2>2. ASSUME NEW r \in Runs, StoreResult(r)
        PROVE  Stands
    BY <2>2, StoreResultStep DEF Blank
  <2>3. ASSUME NEW r \in Runs, DeleteRun(r)
        PROVE  Stands
    BY <2>3, DeleteRunStep DEF DeletedRow, BlankRow
  <2>4. ASSUME NEW q \in Requests, RequestStore(q)
        PROVE  Stands
    <3>1. CASE ~Exists(req[q].run)
      BY <2>4, <3>1 DEF RequestStore
    <3>2. CASE Exists(req[q].run)
      <4> DEFINE r == req[q].run
      <4>1. /\ \A y \in Runs : y # r => row'[y] = row[y]
            /\ row[r].review = "none" \/ row[r].review = req[q].review
        BY <2>4, <3>2, RequestStoreStep DEF ReqFits, Request, Held, Exists
      <4>2. row[r] \in Row => row'[r].review = req[q].review
        BY <2>4, <3>2, RequestStoreStep DEF Row
      <4> QED
        BY <2>4, <3>2, <4>1, <4>2, RequestStoreStep DEF IInv, TypeOK
    <3> QED BY <3>1, <3>2
  <2> QED
    BY <2>1, <2>2, <2>3, <2>4, QuietSteps
<1> QED
  BY <1>1, Invariance, PTL DEF Spec, DecisionIsFinal

(* Who is about to call the ERP for a run on file has a reason to, and is  *)
(* the only one there.                                                     *)
THEOREM CallsAreDue == Spec => []ErpCallsAreDue
<1>1. IInv => ErpCallsAreDue
  <2> SUFFICES ASSUME IInv, NEW r \in Runs, Exists(r)
               PROVE  /\ task[r].phase = "erp" =>
                            /\ row[r].mode = "auto" /\ task[r].res = "compliant"
                            /\ ActionsOf(r) = {}
                            /\ \A q \in Requests : AtErp(req[q]) => req[q].run # r
                      /\ \A q \in Requests : req[q].phase = "erp" /\ req[q].run = r =>
                            /\ req[q].op = "decide" =>
                                  /\ row[r].mode = "auto" /\ ActionsOf(r) = {}
                                  /\ row[r].pending /\ row[r].review = "none"
                            /\ req[q].op = "confirm" =>
                                  /\ row[r].released /\ row[r].review = req[q].review
                                  /\ \A a \in ActionsOf(r) : a.status = "failed"
                            /\ ~AtErp(task[r])
                            /\ \A p \in Requests \ {q} : AtErp(req[p]) => req[p].run # r
    BY DEF ErpCallsAreDue
  <2>0. /\ row[r].state \in RunState
        /\ TaskFits(task[r], row[r])
        /\ Blank(row[r]) \/ Held(row[r]) \/ Out(row[r])
        /\ row[r].state = "running" => Blank(row[r])
        /\ \A a \in log : a.run = r => Out(row[r])
        /\ \A q \in Requests : req[q] \in Request
    BY DEF IInv, TypeOK, TaskInv, RowInv, LogInv, Exists
  <2>1. \A q \in Requests : req[q].phase # "idle" /\ req[q].run = r =>
           /\ ReqFits(req[q], row[r])
           /\ Held(row[r]) \/ Out(row[r])
    BY <2>0 DEF IInv, ReqInv, ReqFits, Request
  <2>2. AtErp(task[r]) => /\ Blank(row[r])
                          /\ \A q \in Requests : AtErp(req[q]) => req[q].run # r
    BY <2>0, <2>1 DEF AtErp, TaskFits, Blank, Held, Out
  <2>3. task[r].phase = "erp" => ActionsOf(r) = {}
    BY <2>0, <2>2 DEF AtErp, ActionsOf, Blank, Out
  <2>4. ASSUME NEW q \in Requests, req[q].phase = "erp", req[q].run = r
        PROVE  /\ req[q].op = "decide" =>
                     /\ row[r].mode = "auto" /\ ActionsOf(r) = {}
                     /\ row[r].pending /\ row[r].review = "none"
               /\ req[q].op = "confirm" =>
                     /\ row[r].released /\ row[r].review = req[q].review
                     /\ \A a \in ActionsOf(r) : a.status = "failed"
               /\ ~AtErp(task[r])
               /\ \A p \in Requests \ {q} : AtErp(req[p]) => req[p].run # r
    <3>1. ReqFits(req[q], row[r])
      BY <2>1, <2>4
    <3>2. req[q].op = "decide" =>
             /\ row[r].mode = "auto" /\ ActionsOf(r) = {}
             /\ row[r].pending /\ row[r].review = "none"
      BY <2>0, <2>4, <3>1 DEF ReqFits, Held, Out, ActionsOf
    <3>3. req[q].op = "confirm" =>
             /\ row[r].released /\ row[r].review = req[q].review
             /\ \A a \in ActionsOf(r) : a.status = "failed"
      BY <2>0, <2>4, <3>1 DEF ReqFits, Out, ActionsOf, IInv, ReqInv
    <3>4. ~AtErp(task[r])
      BY <2>2, <2>4 DEF AtErp
    <3>5. \A p \in Requests \ {q} : AtErp(req[p]) => req[p].run # r
      BY <2>4 DEF IInv, ReqInv, AtErp
    <3> QED
      BY <3>2, <3>3, <3>4, <3>5
  <2> QED
    BY <2>0, <2>2, <2>3, <2>4 DEF AtErp, TaskFits
<1> QED
  BY <1>1, Invariance, PTL

-----------------------------------------------------------------------------
(* The lifecycle implements the review gate.                               *)

(* What the gate sees of one run.                                          *)
SameView(r) == /\ Dossier(r)' = Dossier(r) /\ ActedOn(r)' = ActedOn(r)
               /\ row'[r].verdict = row[r].verdict /\ row'[r].review = row[r].review

(* The log read through ActedOn before and after a row is appended.        *)
LEMMA ActedLogged ==
    ASSUME log \subseteq LogRow, NEW r \in Runs, NEW x \in ErpResult, Logs(r, x)
    PROVE  /\ \A y \in Runs : y # r => ActedOn(y)' = ActedOn(y)
           /\ (\A a \in log : a.run = r => a.status = "failed") =>
                 ActedOn(r) = "none" /\ ActedOn(r)' = IF x \in Status THEN x ELSE "none"
<1>1. PICK st \in {"failed", "approved", "blocked"} :
         /\ log \subseteq log'
         /\ log' \subseteq log \cup {[id |-> nextId, run |-> r, status |-> st]}
         /\ x \in Status => st = x /\ [id |-> nextId, run |-> r, status |-> st] \in log'
         /\ x \notin Status => st = "failed"
  BY DEF Logs, Status
<1>2. \A a \in log' : a \in log \/ (a.run = r /\ a.status = st)
  BY <1>1
<1>3. \A y \in Runs : y # r => ActedOn(y)' = ActedOn(y)
  BY <1>1, <1>2 DEF ActedOn
<1>4. ASSUME \A a \in log : a.run = r => a.status = "failed"
      PROVE  ActedOn(r) = "none" /\ ActedOn(r)' = IF x \in Status THEN x ELSE "none"
  <2>1. ActedOn(r) = "none"
    BY <1>4 DEF ActedOn
  <2>2. CASE x \in Status
    <3>1. \E a \in log' : a.run = r /\ a.status = x
      BY <1>1, <2>2
    <3>2. \A a \in log' : a.run = r => a.status \in {"failed", x}
      BY <1>1, <1>2, <1>4, <2>2
    <3> QED BY <2>1, <2>2, <3>1, <3>2 DEF ActedOn, Status
  <2>3. CASE x \notin Status
    <3>1. \A a \in log' : a.run = r => a.status = "failed"
      BY <1>1, <1>2, <1>4, <2>3
    <3> QED BY <2>1, <2>3, <3>1 DEF ActedOn
  <2> QED BY <2>2, <2>3
<1> QED
  BY <1>3, <1>4

LEMMA QuietView ==
    ASSUME SameFiles, NEW r \in Runs
    PROVE  SameView(r)
  BY DEF SameFiles, SameView, Dossier, ActedOn

(* A step that leaves the view of every other run alone is a step of the   *)
(* gate as soon as it is one for r.                                        *)
LEMMA GateStep ==
    ASSUME NEW r \in Runs, \A y \in Runs : y # r => SameView(y),
           \/ SameView(r)
           \/ /\ Dossier(r) = "none" /\ Dossier(r)' = "released"
              /\ row'[r].verdict = "compliant" /\ row'[r].review = row[r].review
              /\ ActedOn(r)' \in {ActedOn(r), "approved"}
           \/ /\ Dossier(r) = "none" /\ Dossier(r)' = "held"
              /\ row'[r].verdict \in HeldVerdict /\ row'[r].review = row[r].review
              /\ ActedOn(r)' = ActedOn(r)
           \/ /\ Dossier(r) = "held" /\ Dossier(r)' = "released"
              /\ row'[r].verdict = row[r].verdict /\ row'[r].review \in Decision
              /\ ActedOn(r)' \in {ActedOn(r), Gate!Called(row'[r].review)}
           \/ /\ Dossier(r) = "released" /\ Dossier(r)' = "released"
              /\ row'[r].verdict = row[r].verdict /\ row'[r].review = row[r].review
              /\ ActedOn(r) = "none" /\ ActedOn(r)' = Gate!Called(row[r].review)
           \/ /\ Dossier(r) # "withdrawn" /\ Dossier(r)' = "withdrawn"
              /\ row'[r].verdict = "none" /\ row'[r].review = "none"
              /\ ActedOn(r)' = "none"
    PROVE  [Gate!GateNext]_(Gate!gateVars)
<1> DEFINE D == [y \in Runs |-> Dossier(y)]
           V == [y \in Runs |-> row[y].verdict]
           R == [y \in Runs |-> row[y].review]
           A == [y \in Runs |-> ActedOn(y)]
<1>0. /\ D' = [y \in Runs |-> Dossier(y)'] /\ V' = [y \in Runs |-> row'[y].verdict]
      /\ R' = [y \in Runs |-> row'[y].review] /\ A' = [y \in Runs |-> ActedOn(y)']
  OBVIOUS
<1>1. /\ D' = [D EXCEPT ![r] = Dossier(r)'] /\ V' = [V EXCEPT ![r] = row'[r].verdict]
      /\ R' = [R EXCEPT ![r] = row'[r].review] /\ A' = [A EXCEPT ![r] = ActedOn(r)']
  BY <1>0 DEF SameView
<1>2. /\ Dossier(r)' = Dossier(r) => D' = D
      /\ row'[r].verdict = row[r].verdict => V' = V
      /\ row'[r].review = row[r].review => R' = R
      /\ ActedOn(r)' = ActedOn(r) => A' = A
      /\ D[r] = Dossier(r) /\ R[r] = row[r].review /\ A[r] = ActedOn(r)
  BY <1>1
<1> HIDE DEF D, V, R, A
<1>3. [ \E y \in Runs :
          \/ /\ D[y] = "none" /\ D' = [D EXCEPT ![y] = "released"]
             /\ V' = [V EXCEPT ![y] = "compliant"]
             /\ A' \in {A, [A EXCEPT ![y] = "approved"]} /\ R' = R
          \/ /\ D[y] = "none" /\ D' = [D EXCEPT ![y] = "held"]
             /\ \E v \in HeldVerdict : V' = [V EXCEPT ![y] = v]
             /\ R' = R /\ A' = A
          \/ /\ D[y] = "held" /\ D' = [D EXCEPT ![y] = "released"]
             /\ \E d \in Decision : /\ R' = [R EXCEPT ![y] = d]
                                   /\ A' \in {A, [A EXCEPT ![y] = Gate!Called(d)]}
             /\ V' = V
          \/ /\ D[y] = "released" /\ A[y] = "none"
             /\ A' = [A EXCEPT ![y] = Gate!Called(R[y])]
             /\ D' = D /\ V' = V /\ R' = R
          \/ /\ D[y] # "withdrawn" /\ D' = [D EXCEPT ![y] = "withdrawn"]
             /\ V' = [V EXCEPT ![y] = "none"] /\ R' = [R EXCEPT ![y] = "none"]
             /\ A' = [A EXCEPT ![y] = "none"]
      ]_<<D, V, R, A>>
  BY <1>1, <1>2 DEF SameView
<1> QED
  BY <1>3 DEF D, V, R, A, Gate!GateNext, Gate!gateVars, Gate!ReleaseAlone, Gate!Hold,
              Gate!Settle, Gate!Act, Gate!Withdraw, Gate!HeldVerdict, Gate!Choice,
              HeldVerdict, Decision

LEMMA StoreResultGate ==
    ASSUME IInv, NEW r \in Runs, StoreResult(r)
    PROVE  [Gate!GateNext]_(Gate!gateVars)
<1> DEFINE o == task[r].res
           x == task[r].act
<1>1. /\ Blank(row[r]) /\ row[r].state = "running" /\ row[r] \in Row
      /\ row'[r] = ResultRow(row[r], o) /\ o \in Outcome
      /\ x \in {"none", "approved", "failed"} /\ x \in ErpResult
      /\ x # "none" => o = "compliant"
  BY StoreResultStep DEF IInv, TypeOK, Task
<1>2. /\ \A y \in Runs : y # r => ActedOn(y)' = ActedOn(y)
      /\ ActedOn(r) = "none" /\ ActedOn(r)' = IF x \in Status THEN x ELSE "none"
  BY <1>1, StoreResultStep, ActedLogged DEF IInv, TypeOK
<1>3. \A y \in Runs : y # r => SameView(y)
  BY <1>2, StoreResultStep DEF SameView, Dossier
<1> HIDE DEF o, x
<1>4. CASE o = "rejected"
  <2>1. SameView(r)
    BY <1>1, <1>2, <1>4 DEF SameView, Dossier, ResultRow, Row, Blank, Status
  <2> QED BY <1>3, <2>1, GateStep
<1>5. CASE o = "compliant"
  <2>1. /\ Dossier(r) = "none" /\ Dossier(r)' = "released"
        /\ row'[r].verdict = "compliant" /\ row'[r].review = row[r].review
        /\ ActedOn(r)' \in {ActedOn(r), "approved"}
    BY <1>1, <1>2, <1>5 DEF Dossier, ResultRow, Row, Blank, Status
  <2> QED BY <1>3, <2>1, GateStep
<1>6. CASE o \in HeldVerdict
  <2>1. /\ Dossier(r) = "none" /\ Dossier(r)' = "held"
        /\ row'[r].verdict \in HeldVerdict /\ row'[r].review = row[r].review
        /\ ActedOn(r)' = ActedOn(r)
    BY <1>1, <1>2, <1>6 DEF Dossier, ResultRow, Row, Blank, Status, HeldVerdict
  <2> QED BY <1>3, <2>1, GateStep
<1> QED
  BY <1>1, <1>4, <1>5, <1>6 DEF Outcome, Verdict

LEMMA RequestStoreGate ==
    ASSUME IInv, NEW q \in Requests, RequestStore(q)
    PROVE  [Gate!GateNext]_(Gate!gateVars)
<1>0. /\ req[q].run \in Runs /\ req[q].act \in ErpResult
  BY DEF IInv, TypeOK, ReqInv, RequestStore, Request
<1> PICK r \in Runs, x \in ErpResult : r = req[q].run /\ x = req[q].act
  BY <1>0
<1>1. CASE ~Exists(r)
  <2>1. SameFiles
    BY <1>1 DEF RequestStore, SameFiles
  <2> QED BY <2>1, QuietView, GateStep
<1>2. CASE Exists(r)
  <2>1. /\ r \in Runs /\ req[q] \in Request /\ ReqFits(req[q], row[r])
        /\ req[q].phase = "store" /\ row[r] \in Row /\ row[r].state \in RunState
        /\ row'[r] = [row[r] EXCEPT !.state = "complete", !.pending = FALSE,
                                    !.released = TRUE, !.review = req[q].review]
        /\ \A y \in Runs : y # r => row'[y] = row[y]
    BY <1>2, RequestStoreStep DEF IInv, TypeOK, Exists
  <2>2. /\ x \in ErpResult
        /\ x \in {"none", "failed", PlannedStatus("compliant", req[q].review)}
        /\ req[q].op \in {"decide", "confirm"} /\ req[q].review \in Decision \cup {"none"}
    BY <2>1 DEF ReqFits, Request
  <2>3. /\ \A y \in Runs : y # r => ActedOn(y)' = ActedOn(y)
        /\ ActedOn(r) = "none" /\ ActedOn(r)' = IF x \in Status THEN x ELSE "none"
    BY <1>2, <2>1, <2>2, RequestStoreStep, ActedLogged DEF IInv, TypeOK
  <2>4. \A y \in Runs : y # r => SameView(y)
    BY <2>1, <2>3 DEF SameView, Dossier
  <2>5. PlannedStatus("compliant", req[q].review) = Gate!Called(req[q].review)
    BY <2>2 DEF PlannedStatus, Gate!Called, Decision
  <2>6. ActedOn(r)' \in {ActedOn(r), Gate!Called(req[q].review)}
    BY <2>2, <2>3, <2>5 DEF Status
  <2>7. /\ row'[r].review = req[q].review /\ row'[r].verdict = row[r].verdict
        /\ row'[r].state = "complete" /\ row'[r].released
    BY <2>1 DEF Row
  <2>8. Dossier(r)' = "released"
    BY <2>7 DEF Dossier
  <2>9. CASE req[q].op = "decide"
    <3>1. Dossier(r) = "held" /\ req[q].review \in Decision
      BY <2>1, <2>9 DEF Dossier, ReqFits, Held, RunState
    <3> QED BY <2>1, <2>4, <2>6, <2>7, <2>8, <3>1, GateStep
  <2>10. CASE req[q].op = "confirm"
    <3>1. Dossier(r) = "released" /\ row[r].review = req[q].review
      BY <2>1, <2>10 DEF Dossier, ReqFits, Out, RunState
    <3>2. CASE ActedOn(r)' = ActedOn(r)
      <4>1. SameView(r)
        BY <2>7, <2>8, <3>1, <3>2 DEF SameView
      <4> QED BY <2>1, <2>4, <4>1, GateStep
    <3>3. CASE ActedOn(r)' = Gate!Called(req[q].review)
      <4>1. /\ Dossier(r) = "released" /\ Dossier(r)' = "released"
            /\ row'[r].verdict = row[r].verdict /\ row'[r].review = row[r].review
            /\ ActedOn(r) = "none" /\ ActedOn(r)' = Gate!Called(row[r].review)
        BY <2>3, <2>7, <2>8, <3>1, <3>3
      <4> QED BY <2>4, <4>1, GateStep
    <3> QED BY <2>6, <3>2, <3>3
  <2> QED BY <2>2, <2>9, <2>10
<1> QED
  BY <1>1, <1>2

LEMMA DeleteRunGate ==
    ASSUME IInv, NEW r \in Runs, DeleteRun(r)
    PROVE  [Gate!GateNext]_(Gate!gateVars)
<1>1. /\ Dossier(r) # "withdrawn" /\ Dossier(r)' = "withdrawn"
      /\ row'[r].verdict = "none" /\ row'[r].review = "none"
  BY DeleteRunStep DEF Dossier, DeletedRow, BlankRow, RunState
<1>2. ActedOn(r)' = "none"
  BY DeleteRunStep DEF ActedOn
<1>3. \A y \in Runs : y # r => SameView(y)
  BY DeleteRunStep DEF SameView, Dossier, ActedOn
<1> QED
  BY <1>1, <1>2, <1>3, GateStep

(* Every behaviour of the lifecycle, with its faults, is one of the gate.  *)
THEOREM Refinement == Spec => GateHolds
<1>1. Init => Gate!GateInit
  BY DEF Init, BlankRow, Gate!GateInit, Dossier, ActedOn
<1>2. IInv /\ [Next]_vars => [Gate!GateNext]_(Gate!gateVars)
  <2> SUFFICES ASSUME IInv, [Next]_vars PROVE [Gate!GateNext]_(Gate!gateVars)
    OBVIOUS
  <2>1. CASE UNCHANGED vars
    BY <2>1 DEF vars, Gate!gateVars, Dossier, ActedOn
  <2>2. CASE Next
    <3>1. ASSUME SameFiles PROVE UNCHANGED (Gate!gateVars)
      BY <3>1, QuietView DEF SameView, Gate!gateVars
    <3> QED
      BY <2>2, <3>1, QuietSteps, StoreResultGate, RequestStoreGate, DeleteRunGate
  <2> QED BY <2>1, <2>2
<1> QED
  BY <1>1, <1>2, Invariance, PTL DEF Spec, GateHolds, Gate!GateSpec

-----------------------------------------------------------------------------
(* What a restart would replay, however many runs of a supplier act at     *)
(* once and whatever session raises.  The gateway is the stub.             *)

(* The newest call of a vendor, while it is on its way to the log, is the  *)
(* one the vendor shows.                                                   *)
TaskShown(r) == task[r].phase = "store" /\ task[r].act = vendor[SupplierOf[r]]
ReqShown(q)  == /\ req[q].phase = "store" /\ req[q].run \in Runs
                /\ req[q].act = vendor[SupplierOf[req[q].run]]
ReplayInv ==
    /\ \A r \in lastTask : r \in Runs /\ TaskShown(r)
    /\ \A q \in lastReq : q \in Requests /\ ReqShown(q)
    /\ ReplayKeepsVendors

LEMMA InitReplayInv == ReplayInit => ReplayInv
  BY DEF ReplayInit, Init, ReplayInv, ReplayKeepsVendors, Replayed, Successes

(* The kinds of steps.  One moves coroutines without a call or a commit;   *)
(* the others are a call or a commit, of a task or of a request.           *)
TaskKept(r) == task'[r].phase = "store" =>
                  \/ task'[r] = task[r]
                  \/ task[r].phase \notin {"erp", "store"} /\ task'[r].act = "none"
ReqKept(q)  == req'[q].phase = "store" =>
                  \/ req'[q] = req[q]
                  \/ req[q].phase \notin {"erp", "store"} /\ req'[q].act = "none"
MovesOnly ==
    /\ \A r \in Runs : TaskKept(r)
    /\ \A q \in Requests : ReqKept(q)
    /\ log' \subseteq log
    /\ UNCHANGED <<vendor, restarts>>
OnlyTask(r) == /\ \A t \in Runs : t # r => task'[t] = task[t]
               /\ req' = req /\ restarts' = restarts
OnlyReq(q)  == /\ \A p \in Requests : p # q => req'[p] = req[p]
               /\ task' = task /\ restarts' = restarts
TaskCall(r, x) ==
    /\ OnlyTask(r) /\ task[r].phase = "erp" /\ task'[r].phase = "store"
    /\ task'[r].act = x /\ log' = log
    /\ vendor' = [vendor EXCEPT ![SupplierOf[r]] = x]
ReqCall(q, x) ==
    /\ OnlyReq(q) /\ req[q].phase = "erp" /\ req'[q].phase = "store"
    /\ req[q].run \in Runs /\ req'[q].run = req[q].run
    /\ req'[q].act = x /\ log' = log
    /\ vendor' = [vendor EXCEPT ![SupplierOf[req[q].run]] = x]
TaskCommit(r) ==
    /\ OnlyTask(r) /\ task[r].phase = "store" /\ task'[r].phase # "store"
    /\ Logs(r, task[r].act) /\ vendor' = vendor
ReqCommit(q) ==
    /\ OnlyReq(q) /\ req[q].phase = "store" /\ req'[q].phase # "store"
    /\ req[q].run \in Runs
    /\ Logs(req[q].run, req[q].act) /\ vendor' = vendor

LEMMA TaskKinds ==
    ASSUME IInv, StubErp, NEW r \in Runs,
           \/ \E m \in Modes : StartRun(r, m)
           \/ TaskStep(r) \/ DatabaseError(r) \/ CancelRun(r) \/ DeleteRun(r)
    PROVE  \/ MovesOnly
           \/ \E x \in Status : TaskCall(r, x)
           \/ TaskCommit(r)
<1>0. /\ task \in [Runs -> Task] /\ TaskFits(task[r], row[r])
  BY DEF IInv, TypeOK, TaskInv
<1>1. CASE CallErp(r)
  <2>1. PICK act \in ErpResult :
           /\ Gateway(SupplierOf[r], PlannedStatus(task[r].res, "none"), act)
           /\ task' = [task EXCEPT ![r].phase = "store", ![r].act = act]
    BY <1>1 DEF CallErp
  <2>2. PlannedStatus(task[r].res, "none") = "approved"
    BY <1>0, <1>1, Planned DEF CallErp, TaskFits, Verdict, Decision
  <2>3. act = "approved" /\ vendor' = [vendor EXCEPT ![SupplierOf[r]] = "approved"]
    BY <2>1, <2>2 DEF Gateway
  <2>4. /\ task[r].phase = "erp" /\ UNCHANGED <<log, req, restarts>>
        /\ \A t \in Runs : t # r => task'[t] = task[t]
        /\ task'[r].phase = "store" /\ task'[r].act = "approved"
    BY <1>0, <1>1, <2>1, <2>3 DEF CallErp, Task
  <2> QED
    BY <2>3, <2>4 DEF TaskCall, OnlyTask, Status
<1>2. CASE StoreResult(r)
  <2>1. /\ task[r].phase = "store" /\ task' = [task EXCEPT ![r].phase = "tail"]
        /\ UNCHANGED <<vendor, req, restarts>>
    BY <1>2 DEF StoreResult, SetPhase
  <2>2. Logs(r, task[r].act)
    BY <1>2, StoreResultStep
  <2>3. task'[r].phase = "tail" /\ \A t \in Runs : t # r => task'[t] = task[t]
    BY <1>0, <2>1 DEF Task
  <2> QED
    BY <2>1, <2>2, <2>3 DEF TaskCommit, OnlyTask
<1>3. CASE \/ \E m \in Modes : StartRun(r, m)
           \/ Begin(r) \/ RefuseStart(r) \/ MarkRunning(r) \/ GraphTimesOut(r)
           \/ Finish(r) \/ Fail(r) \/ DatabaseError(r) \/ CancelRun(r) \/ DeleteRun(r)
  <2>1. log' \subseteq log /\ UNCHANGED <<vendor, req, restarts>>
    BY <1>3 DEF StartRun, Begin, RefuseStart, MarkRunning, GraphTimesOut, Finish, Fail,
                DatabaseError, CancelRun, DeleteRun
  <2>2. \A t \in Runs : t # r => task'[t] = task[t]
    BY <1>0, <1>3 DEF StartRun, Begin, RefuseStart, MarkRunning, GraphTimesOut, Finish,
                      Fail, DatabaseError, CancelRun, DeleteRun, SetPhase
  <2>3. task'[r] = task[r] \/ task'[r].phase # "store"
    <3>1. CASE \E m \in Modes : StartRun(r, m)
      BY <1>0, <3>1 DEF StartRun, Task
    <3> QED
      BY <1>0, <1>3, <3>1 DEF Begin, RefuseStart, MarkRunning, GraphTimesOut, Finish,
                     Fail, DatabaseError, CancelRun, DeleteRun, SetPhase, NoTask, Task
  <2> QED
    BY <2>1, <2>2, <2>3 DEF MovesOnly, TaskKept, ReqKept
<1>4. ASSUME NEW o \in Outcome, GraphReturns(r, o)
      PROVE  MovesOnly
  <2>1. /\ task[r].phase = "graph" /\ task[r].act = "none"
        /\ \A t \in Runs : t # r => task'[t] = task[t]
        /\ task'[r].act = "none" /\ UNCHANGED <<log, vendor, req, restarts>>
    BY <1>0, <1>4 DEF GraphReturns, TaskFits, Task
  <2> QED
    BY <2>1 DEF MovesOnly, TaskKept, ReqKept
<1> QED
  BY <1>1, <1>2, <1>3, <1>4 DEF TaskStep, Status

LEMMA RequestKinds ==
    ASSUME IInv, StubErp, NEW q \in Requests,
           \/ \E r \in Runs, d \in Decision : Decide(q, r, d)
           \/ \E r \in Runs : Confirm(q, r)
           \/ RequestStep(q) \/ RequestError(q)
    PROVE  \/ MovesOnly
           \/ \E x \in Status : ReqCall(q, x)
           \/ ReqCommit(q)
<1> DEFINE r == req[q].run
<1>0. /\ req \in [Requests -> Request]
      /\ req[q].phase # "idle" => r \in Runs /\ ReqFits(req[q], row[r])
  BY DEF IInv, TypeOK, ReqInv
<1>1. CASE RequestErp(q)
  <2> DEFINE status == PlannedStatus("compliant", req[q].review)
  <2>1. PICK act \in ErpResult : /\ Gateway(SupplierOf[r], status, act)
                                 /\ req' = [req EXCEPT ![q].phase = "store", ![q].act = act]
    BY <1>1 DEF RequestErp
  <2>2. status \in Status
    BY <1>0, Planned DEF Request, Verdict
  <2>3. act = status /\ vendor' = [vendor EXCEPT ![SupplierOf[r]] = status]
    BY <2>1 DEF Gateway
  <2>4. /\ req[q].phase = "erp" /\ r \in Runs /\ UNCHANGED <<log, task, restarts>>
        /\ \A p \in Requests : p # q => req'[p] = req[p]
        /\ req'[q].phase = "store" /\ req'[q].act = status /\ req'[q].run = r
    BY <1>0, <1>1, <2>1, <2>3 DEF RequestErp, Request
  <2> HIDE DEF status
  <2>5. ReqCall(q, status)
    BY <2>3, <2>4 DEF ReqCall, OnlyReq
  <2> QED
    BY <2>2, <2>5
<1>2. CASE RequestStore(q) /\ Exists(r)
  <2>1. Record(r, req[q].act) /\ req[q].phase = "store" /\ r \in Runs
    BY <1>0, <1>2 DEF RequestStore
  <2>2. Logs(r, req[q].act)
    BY <1>0, <2>1 DEF Record, Logs, Request, ErpResult, Status
  <2>3. /\ req' = [req EXCEPT ![q] = IF @.op = "decide" THEN [@ EXCEPT !.phase = "release"]
                                     ELSE IdleReq]
        /\ UNCHANGED <<vendor, task, restarts>>
    BY <1>2 DEF RequestStore
  <2>4. req'[q].phase # "store" /\ \A p \in Requests : p # q => req'[p] = req[p]
    BY <1>0, <2>3 DEF Request, IdleReq
  <2> QED
    BY <2>1, <2>2, <2>3, <2>4 DEF ReqCommit, OnlyReq
<1>3. CASE RequestStore(q) /\ ~Exists(r)
  <2>1. /\ UNCHANGED <<log, vendor, task, restarts>>
        /\ \A p \in Requests : p # q => req'[p] = req[p]
        /\ req'[q].phase = "idle"
    BY <1>0, <1>3 DEF RequestStore, IdleReq
  <2> QED
    BY <2>1 DEF MovesOnly, TaskKept, ReqKept
<1>4. CASE \/ \E t \in Runs, d \in Decision : Decide(q, t, d)
           \/ \E t \in Runs : Confirm(q, t)
           \/ Plan(q) \/ RequestRelease(q) \/ RequestError(q)
  <2>1. /\ UNCHANGED <<log, vendor, task, restarts>>
        /\ \A p \in Requests : p # q => req'[p] = req[p]
    BY <1>0, <1>4 DEF Decide, Confirm, Plan, RequestRelease, RequestError
  <2>2. ReqKept(q)
    BY <1>0, <1>4 DEF Decide, Confirm, Plan, RequestRelease, RequestError, ReqKept, ReqFits,
                      IdleReq, Request
  <2> QED
    BY <2>1, <2>2 DEF MovesOnly, TaskKept, ReqKept
<1> QED
  BY <1>1, <1>2, <1>3, <1>4 DEF RequestStep

(* The newest row of the log decides what is replayed.                     *)
LEMMA ReplayedLogged ==
    ASSUME IInv, NEW r \in Runs, NEW x \in Status,
           log' = log \cup {[id |-> nextId, run |-> r, status |-> x]}
    PROVE  Replayed(SupplierOf[r])' = x
<1> DEFINE s == SupplierOf[r]
           n == [id |-> nextId, run |-> r, status |-> x]
<1>1. /\ \A a \in log : a.id \in Nat /\ a.id < nextId
      /\ nextId \in Nat
  BY DEF IInv, TypeOK, LogInv, LogRow
<1>2. Successes(s)' = Successes(s) \cup {n}
  BY DEF Successes, Status
<1>3. \A b \in Successes(s)' : b.id <= n.id /\ (n.id <= b.id => b = n)
  BY <1>1, <1>2 DEF Successes
<1>4. n \in Successes(s)' /\ n.status = x
  BY <1>2
<1> HIDE DEF n
<1> QED
  BY <1>3, <1>4 DEF Replayed, Status

(* A commit that is no success of s changes nothing there.                 *)
LEMMA SuccessesElsewhere ==
    ASSUME NEW r \in Runs, NEW x, Logs(r, x), NEW s \in Suppliers,
           SupplierOf[r] # s \/ x \notin Status
    PROVE  Successes(s)' = Successes(s) /\ ~Logged(s)
  BY DEF Logs, Successes, Logged

(* Rows that leave the log while a newer one stays do not count.           *)
LEMMA ReplayedKept ==
    ASSUME IInv, NEW s \in Suppliers, log' \subseteq log, ~Withdrawn(s)
    PROVE  Replayed(s)' = Replayed(s)
<1>1. /\ \A a \in Successes(s) : a.id \in Nat
      /\ \A a, b \in Successes(s) : a.id = b.id => a = b
  BY DEF IInv, TypeOK, LogInv, LogRow, Successes
<1>2. Successes(s)' = Successes(s) \cap log'
  BY DEF Successes
<1>3. \A a \in Successes(s) \ log' : \E b \in Successes(s) \cap log' : ~(b.id < a.id)
  BY DEF Withdrawn
<1>4. ASSUME NEW a \in Successes(s), \A b \in Successes(s) : b.id <= a.id
      PROVE  a \in Successes(s)' /\ \A b \in Successes(s)' : b.id <= a.id
  <2>1. a \in log'
    <3> SUFFICES ASSUME a \notin log' PROVE FALSE
      OBVIOUS
    <3>1. PICK b \in Successes(s) \cap log' : ~(b.id < a.id)
      BY <1>3
    <3>2. b.id = a.id
      BY <1>1, <1>4, <3>1
    <3> QED
      BY <1>1, <3>1, <3>2
  <2> QED
    BY <1>2, <1>4, <2>1
<1>5. ASSUME NEW a \in Successes(s)', \A b \in Successes(s)' : b.id <= a.id
      PROVE  a \in Successes(s) /\ \A b \in Successes(s) : b.id <= a.id
  <2>1. ASSUME NEW b \in Successes(s) PROVE b.id <= a.id
    <3>1. CASE b \in log'
      BY <1>2, <1>5, <3>1
    <3>2. CASE b \notin log'
      <4>1. PICK c \in Successes(s) \cap log' : ~(c.id < b.id)
        BY <1>3, <3>2
      <4>2. c.id <= a.id
        BY <1>2, <1>5, <4>1
      <4>3. a.id \in Nat /\ b.id \in Nat /\ c.id \in Nat
        BY <1>1, <1>2, <1>5, <4>1
      <4> QED
        BY <4>1, <4>2, <4>3
    <3> QED BY <3>1, <3>2
  <2> QED
    BY <1>2, <1>5, <2>1
<1>6. (\E a \in Successes(s) : (\A b \in Successes(s) : b.id <= a.id) /\ a.status = "blocked")
      <=> (\E a \in Successes(s)' : (\A b \in Successes(s)' : b.id <= a.id)
                                    /\ a.status = "blocked")
  BY <1>4, <1>5
<1> QED
  BY <1>6 DEF Replayed

(* Steps that call nobody and commit nothing.                              *)
LEMMA MovesKeepReplay ==
    ASSUME IInv, StubErp, ReplayInv, MovesOnly, NoteCalls, NoteDrift
    PROVE  ReplayInv'
<1>1. \A s \in Suppliers : ~Called(s) /\ ~Logged(s)
  BY DEF MovesOnly, TaskKept, ReqKept, Called, TaskCalls, RequestCalls, Logged
<1>2. \A r \in lastTask' : r \in lastTask /\ task'[r] = task[r]
  BY DEF NoteCalls, MovesOnly, TaskKept, TaskCalls
<1>3. \A q \in lastReq' : q \in lastReq /\ req'[q] = req[q]
  BY DEF NoteCalls, MovesOnly, ReqKept, RequestCalls
<1>4. \A r \in lastTask' : r \in Runs /\ TaskShown(r)'
  BY <1>2 DEF ReplayInv, TaskShown, MovesOnly
<1>5. \A q \in lastReq' : q \in Requests /\ ReqShown(q)'
  BY <1>3 DEF ReplayInv, ReqShown, MovesOnly
<1>6. ASSUME NEW s \in Suppliers, s \notin adrift', ~Awaited(s)'
      PROVE  vendor'[s] = Replayed(s)'
  <2>1. s \notin adrift /\ ~Awaited(s) /\ ~Withdrawn(s)
    BY <1>1, <1>6 DEF NoteDrift, MovesOnly
  <2>2. Replayed(s)' = Replayed(s)
    BY <2>1, ReplayedKept DEF MovesOnly
  <2> QED
    BY <2>1, <2>2 DEF MovesOnly, ReplayInv, ReplayKeepsVendors
<1> QED
  BY <1>4, <1>5, <1>6 DEF ReplayInv, ReplayKeepsVendors

(* The next one to call a vendor takes over as its newest call.            *)
LEMMA CallsKeepReplay ==
    ASSUME IInv, StubErp, ReplayInv, NoteCalls, NoteDrift, NEW x \in Status,
           \/ \E r \in Runs : TaskCall(r, x)
           \/ \E q \in Requests : ReqCall(q, x)
    PROVE  ReplayInv'
<1>0. PICK v \in Suppliers : /\ Called(v) /\ \A s \in Suppliers : Called(s) => s = v
                             /\ vendor' = [vendor EXCEPT ![v] = x]
                             /\ log' = log /\ restarts' = restarts
                             /\ Awaited(v)'
                             /\ \A r \in Runs : TaskCalls(r) => SupplierOf[r] = v
                                                                /\ task'[r].act = x
                             /\ \A q \in Requests : RequestCalls(q) =>
                                   /\ req'[q].run \in Runs /\ SupplierOf[req'[q].run] = v
                                   /\ req'[q].act = x
                             /\ \A r \in Runs : TaskCalls(r) \/ task'[r] = task[r]
                             /\ \A q \in Requests : RequestCalls(q) \/ req'[q] = req[q]
  <2>1. ASSUME NEW r \in Runs, TaskCall(r, x)
        PROVE  /\ SupplierOf[r] \in Suppliers
               /\ Called(SupplierOf[r])
               /\ \A s \in Suppliers : Called(s) => s = SupplierOf[r]
               /\ r \in lastTask'
    BY <2>1, LifecycleAssumption
       DEF TaskCall, OnlyTask, Called, TaskCalls, RequestCalls, NoteCalls, Status
  <2>2. ASSUME NEW q \in Requests, ReqCall(q, x)
        PROVE  /\ SupplierOf[req[q].run] \in Suppliers
               /\ Called(SupplierOf[req[q].run])
               /\ \A s \in Suppliers : Called(s) => s = SupplierOf[req[q].run]
               /\ q \in lastReq'
    BY <2>2, LifecycleAssumption
       DEF ReqCall, OnlyReq, Called, TaskCalls, RequestCalls, NoteCalls, Status
  <2>3. ASSUME NEW r \in Runs, TaskCall(r, x)
        PROVE  /\ Awaited(SupplierOf[r])'
               /\ \A t \in Runs : TaskCalls(t) => t = r
               /\ \A q \in Requests : ~RequestCalls(q)
               /\ \A t \in Runs : TaskCalls(t) \/ task'[t] = task[t]
               /\ req' = req
    BY <2>1, <2>3 DEF TaskCall, OnlyTask, TaskCalls, RequestCalls, Awaited
  <2>4. ASSUME NEW q \in Requests, ReqCall(q, x)
        PROVE  /\ Awaited(SupplierOf[req[q].run])'
               /\ \A p \in Requests : RequestCalls(p) => p = q
               /\ \A t \in Runs : ~TaskCalls(t)
               /\ \A p \in Requests : RequestCalls(p) \/ req'[p] = req[p]
               /\ task' = task
    BY <2>2, <2>4 DEF ReqCall, OnlyReq, TaskCalls, RequestCalls, Awaited
  <2>5. ASSUME NEW r \in Runs, TaskCall(r, x)
        PROVE  /\ vendor' = [vendor EXCEPT ![SupplierOf[r]] = x]
               /\ log' = log /\ restarts' = restarts /\ task'[r].act = x
    BY <2>5 DEF TaskCall, OnlyTask
  <2>6. ASSUME NEW q \in Requests, ReqCall(q, x)
        PROVE  /\ vendor' = [vendor EXCEPT ![SupplierOf[req[q].run]] = x]
               /\ log' = log /\ restarts' = restarts /\ req'[q].act = x
               /\ req[q].run \in Runs /\ req'[q].run = req[q].run
    BY <2>6 DEF ReqCall, OnlyReq
  <2>7. CASE \E r \in Runs : TaskCall(r, x)
    BY <2>1, <2>3, <2>5, <2>7
  <2>8. CASE \E q \in Requests : ReqCall(q, x)
    BY <2>2, <2>4, <2>6, <2>8
  <2> QED
    BY <2>7, <2>8
<1>1. vendor \in [Suppliers -> Status] /\ SupplierOf \in [Runs -> Suppliers]
  BY LifecycleAssumption DEF IInv, TypeOK
<1>2. ASSUME NEW r \in lastTask' PROVE r \in Runs /\ TaskShown(r)'
  <2>1. /\ r \in Runs /\ task'[r].phase = "store"
        /\ TaskCalls(r) \/ (r \in lastTask /\ ~Called(SupplierOf[r]))
    BY <1>2 DEF NoteCalls
  <2>2. CASE TaskCalls(r)
    BY <1>0, <1>1, <2>1, <2>2 DEF TaskShown
  <2>3. CASE ~TaskCalls(r)
    <3>1. SupplierOf[r] # v /\ task'[r] = task[r]
      BY <1>0, <2>1, <2>3
    <3> QED
      BY <1>0, <1>1, <2>1, <2>3, <3>1 DEF TaskShown, ReplayInv
  <2> QED BY <2>2, <2>3
<1>3. ASSUME NEW q \in lastReq' PROVE q \in Requests /\ ReqShown(q)'
  <2>1. /\ q \in Requests /\ req'[q].phase = "store"
        /\ RequestCalls(q) \/ (q \in lastReq /\ ~Called(SupplierOf[req[q].run]))
    BY <1>3 DEF NoteCalls
  <2>2. CASE RequestCalls(q)
    BY <1>0, <1>1, <2>1, <2>2 DEF ReqShown
  <2>3. CASE ~RequestCalls(q)
    <3>1. SupplierOf[req[q].run] # v /\ req'[q] = req[q] /\ ReqShown(q)
      BY <1>0, <2>1, <2>3 DEF ReplayInv
    <3>2. vendor'[SupplierOf[req[q].run]] = vendor[SupplierOf[req[q].run]]
      BY <1>0, <1>1, <3>1 DEF ReqShown
    <3> QED
      BY <2>1, <3>1, <3>2 DEF ReqShown
  <2> QED BY <2>2, <2>3
<1>4. ASSUME NEW s \in Suppliers, s \notin adrift', ~Awaited(s)'
      PROVE  vendor'[s] = Replayed(s)'
  <2>1. s # v
    BY <1>0, <1>4
  <2>2. ~Called(s) /\ ~Logged(s)
    BY <1>0, <2>1 DEF Logged
  <2>3. s \notin adrift /\ ~Awaited(s)
    BY <1>0, <1>4, <2>2 DEF NoteDrift
  <2>4. vendor'[s] = vendor[s] /\ Replayed(s)' = Replayed(s)
    BY <1>0, <1>1, <2>1 DEF Replayed, Successes
  <2> QED
    BY <2>3, <2>4 DEF ReplayInv, ReplayKeepsVendors
<1> QED
  BY <1>2, <1>3, <1>4 DEF ReplayInv, ReplayKeepsVendors

(* The commit of a call.  If it was its vendor's newest the log is in step *)
(* with the vendor; if the newest one has been dealt with before, the      *)
(* supplier is adrift.                                                     *)
LEMMA CommitsKeepReplay ==
    ASSUME IInv, StubErp, ReplayInv, NoteCalls, NoteDrift,
           \/ \E r \in Runs : TaskCommit(r)
           \/ \E q \in Requests : ReqCommit(q)
    PROVE  ReplayInv'
<1>0. /\ vendor' = vendor /\ restarts' = restarts
      /\ \A r \in Runs : ~TaskCalls(r) /\ (task'[r].phase = "store" => task'[r] = task[r])
      /\ \A q \in Requests :
            ~RequestCalls(q) /\ (req'[q].phase = "store" => req'[q] = req[q])
  BY DEF TaskCommit, ReqCommit, OnlyTask, OnlyReq, TaskCalls, RequestCalls
<1>1. \A s \in Suppliers : ~Called(s)
  BY <1>0 DEF Called
<1>2. \A r \in lastTask' : r \in Runs /\ TaskShown(r)'
  BY <1>0 DEF NoteCalls, ReplayInv, TaskShown
<1>3. \A q \in lastReq' : q \in Requests /\ ReqShown(q)'
  BY <1>0 DEF NoteCalls, ReplayInv, ReqShown
<1>4. PICK r \in Runs, x \in ErpResult :
           /\ Logs(r, x)
           /\ \A s \in Suppliers : Awaited(s) /\ ~Awaited(s)' =>
                 SupplierOf[r] = s /\ vendor[s] = x
  <2>0. /\ vendor \in [Suppliers -> Status] /\ SupplierOf \in [Runs -> Suppliers]
        /\ \A s \in Suppliers : vendor[s] # "none"
    BY LifecycleAssumption DEF IInv, TypeOK, Status
  <2>1. ASSUME NEW s \in Suppliers, Awaited(s), ~Awaited(s)'
        PROVE  \/ \E t \in lastTask : SupplierOf[t] = s /\ task'[t] # task[t]
               \/ \E p \in lastReq : SupplierOf[req[p].run] = s /\ req'[p] # req[p]
    <3>1. CASE \E t \in lastTask : SupplierOf[t] = s
      <4>1. PICK t \in lastTask : SupplierOf[t] = s
        BY <3>1
      <4>2. /\ t \in Runs /\ t \notin lastTask' /\ task[t].phase = "store"
            /\ task[t].act = vendor[s]
        BY <2>1, <4>1 DEF Awaited, ReplayInv, TaskShown
      <4>3. task'[t] # task[t]
        BY <1>1, <2>0, <4>1, <4>2 DEF NoteCalls
      <4> QED
        BY <4>1, <4>3
    <3>2. CASE \E p \in lastReq : SupplierOf[req[p].run] = s
      <4>1. PICK p \in lastReq : SupplierOf[req[p].run] = s
        BY <3>2
      <4>2. /\ p \in Requests /\ req[p].phase = "store" /\ req[p].act = vendor[s]
        BY <2>1, <4>1 DEF ReplayInv, ReqShown
      <4>3. ASSUME req'[p] = req[p] PROVE FALSE
        <5>1. p \in lastReq'
          BY <1>1, <2>0, <4>1, <4>2, <4>3 DEF NoteCalls
        <5> QED
          BY <2>1, <4>1, <4>3, <5>1 DEF Awaited
      <4> QED
        BY <4>1, <4>3
    <3> QED
      BY <2>1, <3>1, <3>2 DEF Awaited
  <2>2. ASSUME NEW r \in Runs, TaskCommit(r), NEW s \in Suppliers, Awaited(s), ~Awaited(s)'
        PROVE  SupplierOf[r] = s /\ vendor[s] = task[r].act
    <3>1. PICK t \in lastTask : SupplierOf[t] = s /\ task'[t] # task[t]
      BY <2>1, <2>2 DEF TaskCommit, OnlyTask
    <3>2. t = r
      BY <2>2, <3>1 DEF TaskCommit, OnlyTask, ReplayInv
    <3> QED
      BY <3>1, <3>2 DEF ReplayInv, TaskShown
  <2>3. ASSUME NEW q \in Requests, ReqCommit(q), NEW s \in Suppliers, Awaited(s), ~Awaited(s)'
        PROVE  SupplierOf[req[q].run] = s /\ vendor[s] = req[q].act
    <3>1. PICK p \in lastReq : SupplierOf[req[p].run] = s /\ req'[p] # req[p]
      BY <2>1, <2>3 DEF ReqCommit, OnlyReq
    <3>2. p = q
      BY <2>3, <3>1 DEF ReqCommit, OnlyReq, ReplayInv
    <3> QED
      BY <3>1, <3>2 DEF ReplayInv, ReqShown
  <2>4. CASE \E r \in Runs : TaskCommit(r)
    <3>1. PICK r \in Runs : TaskCommit(r)
      BY <2>4
    <3>2. Logs(r, task[r].act) /\ task[r].act \in ErpResult
      BY <3>1 DEF TaskCommit, IInv, TypeOK, Task
    <3> QED
      BY <2>2, <3>1, <3>2
  <2>5. CASE \E q \in Requests : ReqCommit(q)
    <3>1. PICK q \in Requests : ReqCommit(q)
      BY <2>5
    <3>2. /\ req[q].run \in Runs /\ Logs(req[q].run, req[q].act)
          /\ req[q].act \in ErpResult
      BY <3>1 DEF ReqCommit, IInv, TypeOK, Request
    <3> QED
      BY <2>3, <3>1, <3>2
  <2> QED
    BY <2>4, <2>5
<1>5. ASSUME NEW s \in Suppliers, s \notin adrift', ~Awaited(s)'
      PROVE  vendor'[s] = Replayed(s)'
  <2>1. CASE Awaited(s)
    <3>1. Logged(s) /\ SupplierOf[r] = s /\ vendor[s] = x
      BY <1>0, <1>4, <1>5, <2>1 DEF NoteDrift
    <3>2. x \in Status
      BY <1>4, <3>1, SuccessesElsewhere
    <3>3. Replayed(s)' = x
      BY <1>4, <3>1, <3>2, ReplayedLogged DEF Logs
    <3> QED
      BY <1>0, <3>1, <3>3
  <2>2. CASE ~Awaited(s)
    <3>1. s \notin adrift /\ ~Logged(s)
      BY <1>0, <1>5, <2>2 DEF NoteDrift
    <3>2. SupplierOf[r] # s \/ x \notin Status
      <4>1. ASSUME SupplierOf[r] = s, x \in Status PROVE FALSE
        <5> DEFINE n == [id |-> nextId, run |-> r, status |-> x]
        <5>1. n \in log' /\ n.run = r /\ n.status # "failed" /\ n.id = nextId
          BY <1>4, <4>1 DEF Logs, Status
        <5>2. n \notin log
          BY <5>1 DEF IInv, TypeOK, LogInv, LogRow
        <5> HIDE DEF n
        <5> QED
          BY <3>1, <4>1, <5>1, <5>2 DEF Logged
      <4> QED
        BY <4>1
    <3>3. Replayed(s)' = Replayed(s)
      BY <1>4, <3>2, SuccessesElsewhere DEF Replayed
    <3> QED
      BY <1>0, <2>2, <3>1, <3>3 DEF ReplayInv, ReplayKeepsVendors
  <2> QED BY <2>1, <2>2
<1> QED
  BY <1>2, <1>3, <1>5 DEF ReplayInv, ReplayKeepsVendors

LEMMA RestartKeepsReplay ==
    ASSUME StubErp, Restart, NoteCalls
    PROVE  ReplayInv'
<1>1. lastTask' = {} /\ lastReq' = {}
  BY DEF Restart, NoteCalls, NoTask, IdleReq
<1>2. \A s \in Suppliers : vendor'[s] = Replayed(s)'
  BY DEF Restart, Replayed, Successes
<1> QED
  BY <1>1, <1>2 DEF ReplayInv, ReplayKeepsVendors

LEMMA NextReplayInv ==
    ASSUME IInv, StubErp, ReplayInv, [ReplayNext]_replayVars
    PROVE  ReplayInv'
<1>1. CASE UNCHANGED replayVars
  BY <1>1 DEF replayVars, vars, ReplayInv, TaskShown, ReqShown, ReplayKeepsVendors,
              Awaited, Replayed, Successes
<1>2. CASE ReplayNext
  <2>1. \/ MovesOnly
        \/ \E x \in Status : \/ \E r \in Runs : TaskCall(r, x)
                             \/ \E q \in Requests : ReqCall(q, x)
        \/ \E r \in Runs : TaskCommit(r)
        \/ \E q \in Requests : ReqCommit(q)
        \/ Restart
    BY <1>2, TaskKinds, RequestKinds DEF ReplayNext, Next
  <2> QED
    BY <1>2, <2>1, MovesKeepReplay, CallsKeepReplay, CommitsKeepReplay, RestartKeepsReplay
       DEF ReplayNext
<1> QED
  BY <1>1, <1>2

(* However many runs of one supplier act at once, are cancelled, fail,     *)
(* lose a session or are deleted, a restart rebuilds every vendor whose    *)
(* newest call is the newest row of the log.                               *)
THEOREM ReplayRebuilds == ReplaySpec => []ReplayKeepsVendors
<1>1. CASE StubErp
  <2>1. IInv /\ ReplayInv /\ [ReplayNext]_replayVars => ReplayInv'
    BY <1>1, NextReplayInv
  <2>2. ReplayInit => Init
    BY DEF ReplayInit
  <2>3. [ReplayNext]_replayVars => [Next]_vars
    BY DEF ReplayNext, replayVars
  <2>4. ReplayInv => ReplayKeepsVendors
    BY DEF ReplayInv
  <2> QED
    BY <2>1, <2>2, <2>3, <2>4, InitReplayInv, Invariance, PTL DEF ReplaySpec, Spec
<1>2. CASE ~StubErp
  <2>1. ReplayKeepsVendors
    BY <1>2 DEF ReplayKeepsVendors
  <2> QED
    BY <2>1, PTL
<1> QED
  BY <1>1, <1>2

-----------------------------------------------------------------------------
(* Who closes an open run.  No session raises.                             *)

(* An open run without a task was cancelled before its task began, or a    *)
(* second time while _guard was closing it.                                *)
OpenRunsAreDriven ==
    \A r \in Runs : Open(r) /\ ~IsExecuting(r) =>
        cancels[r] > 0 /\ (row[r].state = "queued" \/ cancels[r] > 1)

(* What makes it inductive: who leaves _guard's body was cancelled, and a  *)
(* task in its tail has closed its run.                                    *)
Driven(r) ==
    /\ task[r].phase # "guardfail"
    /\ task[r].phase = "guard" => cancels[r] > 0
    /\ task[r].phase = "tail" => ~Open(r)
    /\ Open(r) /\ ~IsExecuting(r) =>
          cancels[r] > 0 /\ (row[r].state = "queued" \/ cancels[r] > 1)

DrivenInv == \A r \in Runs : Driven(r)

LEMMA NextDrivenInv ==
    ASSUME ~DbFaults, IInv, DrivenInv, [Next]_vars
    PROVE  DrivenInv'
<1>0. /\ row \in [Runs -> Row] /\ task \in [Runs -> Task] /\ cancels \in [Runs -> Nat]
      /\ \A r \in Runs : TaskFits(task[r], row[r]) /\ Driven(r)
      /\ \A q \in Requests : req[q].phase # "idle" => req[q].run \in Runs
  BY DEF IInv, TypeOK, TaskInv, ReqInv, DrivenInv
<1> USE DEF DrivenInv, Driven, Open, IsExecuting
<1>1. ASSUME NEW r \in Runs, NEW m \in Modes, StartRun(r, m) PROVE DrivenInv'
  BY <1>0, <1>1 DEF StartRun, BlankRow, Row, Task
<1>2. ASSUME NEW r \in Runs,
             \/ Begin(r) \/ RefuseStart(r) \/ GraphTimesOut(r) \/ Finish(r)
             \/ \E o \in Outcome : GraphReturns(r, o)
             \/ CallErp(r)
      PROVE  DrivenInv'
  <2>1. row' = row /\ cancels' = cancels
    BY <1>2 DEF Begin, RefuseStart, GraphTimesOut, Finish, GraphReturns, CallErp
  <2>2. \A t \in Runs : t # r => task'[t] = task[t]
    <3>1. CASE Begin(r) \/ RefuseStart(r) \/ GraphTimesOut(r) \/ Finish(r)
      BY <1>0, <3>1 DEF Begin, RefuseStart, GraphTimesOut, Finish, SetPhase
    <3>2. CASE \E o \in Outcome : GraphReturns(r, o)
      BY <1>0, <3>2 DEF GraphReturns
    <3>3. CASE CallErp(r)
      BY <1>0, <3>3 DEF CallErp
    <3> QED
      BY <1>2, <3>1, <3>2, <3>3
  <2>3. \/ task'[r].phase \in {"starting", "failing", "erp", "store"}
        \/ task'[r].phase = "none" /\ ~Open(r)
    <3>1. CASE Begin(r) \/ RefuseStart(r) \/ GraphTimesOut(r)
      BY <1>0, <3>1 DEF Begin, RefuseStart, GraphTimesOut, SetPhase, Task
    <3>2. CASE \E o \in Outcome : GraphReturns(r, o)
      BY <1>0, <3>2 DEF GraphReturns, Task
    <3>3. CASE CallErp(r)
      BY <1>0, <3>3 DEF CallErp, Task
    <3>4. CASE Finish(r)
      BY <1>0, <3>4 DEF Finish, NoTask
    <3> QED
      BY <1>2, <3>1, <3>2, <3>3, <3>4
  <2> QED
    BY <1>0, <2>1, <2>2, <2>3
<1>3. ASSUME NEW r \in Runs, MarkRunning(r) PROVE DrivenInv'
  BY <1>0, <1>3 DEF MarkRunning, SetState, SetPhase, Row, Task
<1>4. ASSUME NEW r \in Runs, StoreResult(r) PROVE DrivenInv'
  <2>1. ResultRow(row[r], task[r].res).state \notin {"queued", "running"}
    BY <1>0 DEF ResultRow, Row
  <2>2. /\ \A t \in Runs : t # r => row'[t] = row[t] /\ task'[t] = task[t]
        /\ row'[r] = ResultRow(row[r], task[r].res) /\ task'[r].phase = "tail"
        /\ cancels' = cancels
    BY <1>0, <1>4 DEF StoreResult, SetPhase, Task
  <2> QED
    BY <1>0, <2>1, <2>2
<1>5. ASSUME NEW r \in Runs, Fail(r) PROVE DrivenInv'
  <2>1. Exists(r)
    BY <1>0, <1>5 DEF Fail, TaskFits, Exists
  <2>2. /\ \A t \in Runs : t # r => row'[t] = row[t] /\ task'[t] = task[t]
        /\ row'[r].state = "failed" /\ task'[r].phase = "none" /\ cancels' = cancels
    BY <1>0, <1>5, <2>1 DEF Fail, SetState, NoTask, Row
  <2> QED
    BY <1>0, <2>2
<1>6. ASSUME NEW r \in Runs, CancelRun(r) PROVE DrivenInv'
  <2>1. /\ \A t \in Runs : t # r => task'[t] = task[t] /\ cancels'[t] = cancels[t]
        /\ row' = row /\ cancels'[r] = cancels[r] + 1 /\ cancels[r] \in Nat
    BY <1>0, <1>6 DEF CancelRun, SetPhase
  <2>2. CASE task[r].phase = "created"
    <3>1. task'[r].phase = "none" /\ row[r].state = "queued"
      BY <1>0, <1>6, <2>2 DEF CancelRun, NoTask, TaskFits
    <3> QED
      BY <1>0, <2>1, <3>1
  <2>3. CASE task[r].phase \in {"guard", "guardfail"}
    <3>1. task'[r].phase = "none" /\ cancels[r] > 0
      BY <1>0, <1>6, <2>3 DEF CancelRun, NoTask
    <3> QED
      BY <1>0, <2>1, <3>1
  <2>4. CASE task[r].phase \notin {"created", "guard", "guardfail"}
    <3>1. task'[r].phase = "guard"
      BY <1>0, <1>6, <2>4 DEF CancelRun, SetPhase, Task
    <3> QED
      BY <1>0, <2>1, <3>1
  <2> QED
    BY <2>2, <2>3, <2>4
<1>7. ASSUME NEW r \in Runs, DeleteRun(r) PROVE DrivenInv'
  BY <1>0, <1>7 DEF DeleteRun, DeletedRow, BlankRow
<1>8. ASSUME NEW q \in Requests,
             \/ \E r \in Runs, d \in Decision : Decide(q, r, d)
             \/ \E r \in Runs : Confirm(q, r)
             \/ Plan(q) \/ RequestErp(q) \/ RequestError(q)
      PROVE  DrivenInv'
  <2>1. UNCHANGED <<row, task, cancels>>
    BY <1>8 DEF Decide, Confirm, Plan, RequestErp, RequestError
  <2> QED
    BY <1>0, <2>1
<1>9. ASSUME NEW q \in Requests, RequestStore(q) \/ RequestRelease(q) PROVE DrivenInv'
  <2>1. req[q].run \in Runs /\ task' = task /\ cancels' = cancels
    BY <1>0, <1>9 DEF RequestStore, RequestRelease
  <2>2. \A t \in Runs : row'[t].state \in {row[t].state, "complete"}
    BY <1>0, <1>9, <2>1 DEF RequestStore, RequestRelease, Row
  <2> QED
    BY <1>0, <2>1, <2>2
<1>10. CASE Restart
  BY <1>0, <1>10 DEF Restart, NoTask, Row
<1>11. CASE UNCHANGED vars
  BY <1>0, <1>11 DEF vars
<1> QED
  BY <1>1, <1>2, <1>3, <1>4, <1>5, <1>6, <1>7, <1>8, <1>9, <1>10, <1>11
     DEF Next, TaskStep, RequestStep, DatabaseError

(* While the database answers, an open run has a task that will close it,  *)
(* unless a cancellation reached the task before its first step, or a      *)
(* second one reached it in _guard: this is what OpenRunsClose rests on.   *)
THEOREM OpenRunsHaveTasks ==
    ASSUME ~DbFaults
    PROVE  Spec => []OpenRunsAreDriven
<1>1. Init => DrivenInv
  BY DEF Init, DrivenInv, Driven, Open, IsExecuting, BlankRow, NoTask
<1>2. IInv /\ DrivenInv /\ [Next]_vars => DrivenInv'
  BY NextDrivenInv
<1>3. DrivenInv => OpenRunsAreDriven
  BY DEF DrivenInv, Driven, OpenRunsAreDriven
<1> QED
  BY <1>1, <1>2, <1>3, Invariance, PTL DEF Spec
=============================================================================
