-------------------------- MODULE Adapters_proofs --------------------------
(* The two servers that agents talk to.  What the tools of the MCP server  *)
(* do is what their user was shown, for any number of runs and of tool     *)
(* calls that meet on them; the A2A server goes ahead only with the        *)
(* supplier a name stands for, while the registry grows, and keeps to its  *)
(* budget in every hour, for any number of chats, names and suppliers.     *)
EXTENDS McpAdapter, A2aAdapter, SequenceTheorems, FiniteSetTheorems,
        WellFoundedInduction, TLAPS

Row  == RunRow(Authors)
Lock == LockRow(Authors)
Seen == {"held", "complete", "failed"}

(* Nothing was decided of the run and nothing is on its log.               *)
Quiet(row) == row.decision = "none" /\ row.decidedBy = "none" /\ row.action = "none"

(* Nothing can be decided of the run any more.                             *)
Settled(row) ==
    /\ row.state \in {"complete", "failed"}
    /\ row.decision # "none" \/ row.verdict = "compliant"

RowFits(row) ==
    /\ row.state \notin {"complete", "failed"} => Quiet(row)
    /\ row.state = "complete" => Settled(row)
    /\ row.state = "held" => row.verdict # "compliant"
    /\ row.decision = "none" => row.decidedBy = "none"

(* What a decision or a confirmation has loaded still holds of its run:    *)
(* nobody else has decided it, though it may have failed or be gone.       *)
LockFits(held, row) ==
    /\ held.step = "free" => held.by = "none"
    /\ held.step # "free" /\ row.state # "deleted" =>
          /\ held.op = "decide" =>
                /\ row.state \in {"held", "failed"}
                /\ Quiet(row) /\ row.verdict # "compliant"
          /\ held.op = "confirm" => Settled(row) /\ held.choice = row.decision
    /\ held.step # "free" /\ held.op = "decide" => held.choice # "none" /\ held.by # "none"

ApiTypes ==
    /\ run \in [Runs -> Row] /\ live \in SUBSET Runs /\ lock \in [Runs -> Lock]
    /\ sap \in SUBSET SapCall(Authors) /\ clock \in 0 .. MaxClock

ApiGood == ApiTypes /\ \A r \in Runs : RowFits(run[r]) /\ LockFits(lock[r], run[r])

DecisionPrompt(row) == [verdict |-> row.verdict, effect |-> SapEffect(row.mode)]
ErpPrompt(row)      == [verdict |-> row.verdict, pending |-> Called(row.decision)]

(* What a call has shown stays true of its run until it is deleted.        *)
WaitFits(c) ==
    LET row == run[call[c].run] IN
    /\ call[c].tool \in {"decide", "confirm", "cancel"} => call[c].run \in Runs
    /\ call[c].pc # "done" => call[c].answer = "none"
    /\ call[c].pc \in {"ask", "user", "sent"} => call[c].tool \in {"decide", "confirm"}
    /\ call[c].pc \in {"write", "read"} => call[c].tool \in {"decide", "confirm", "cancel"}
    /\ call[c].pc = "write" /\ call[c].tool # "cancel" => call[c].ticked
    /\ call[c].pc \in {"user", "write"} /\ call[c].tool = "decide" =>
          row.state = "deleted" \/ (row.state \in Seen /\ call[c].shown = DecisionPrompt(row))
    /\ call[c].pc \in {"user", "write"} /\ call[c].tool = "confirm" =>
          row.state = "deleted" \/ (Settled(row) /\ call[c].shown = ErpPrompt(row))

(* What is there under a call's name, what it is doing and what it made    *)
(* SAP do was shown and ticked before.                                     *)
DecidedFits(c, r) ==
    /\ call[c].tool = "decide" /\ call[c].run = r /\ call[c].ticked
    /\ call[c].pc \in {"read", "done"} /\ call[c].answer # "declined"
    /\ call[c].choice = run[r].decision
    /\ call[c].shown = DecisionPrompt(run[r])

HolderFits(c, r) ==
    /\ call[c].tool = lock[r].op /\ call[c].run = r /\ call[c].ticked
    /\ call[c].pc \in {"sent", "done"} /\ call[c].answer \notin {"declined", "recorded"}
    /\ lock[r].op = "decide" =>
          /\ lock[r].choice = call[c].choice
          /\ run[r].state = "deleted" \/ call[c].shown = DecisionPrompt(run[r])
    /\ lock[r].op = "confirm" =>
          /\ call[c].shown.pending = Called(lock[r].choice)
          /\ run[r].state = "deleted" \/ call[c].shown.verdict = run[r].verdict

SapFits(c, e) ==
    /\ call[c].run = e.run /\ call[c].ticked
    /\ call[c].pc \in {"sent", "read", "done"} /\ call[c].answer # "declined"
    /\ run[e.run].state \in Seen \cup {"deleted"}
    /\ \/ /\ call[c].tool = "decide" /\ e.status = Called(call[c].choice)
          /\ call[c].shown.effect = "now" \/ run[e.run].state = "deleted"
       \/ /\ call[c].tool = "confirm" /\ e.status = call[c].shown.pending
          /\ call[c].shown.verdict = run[e.run].verdict \/ run[e.run].state = "deleted"

AuthorFits(c) ==
    /\ \A r \in Runs : run[r].decidedBy = c => DecidedFits(c, r)
    /\ \A r \in Runs : lock[r].by = c => HolderFits(c, r)
    /\ \A e \in sap : e.by = c => SapFits(c, e)

(* A write that came back is in the row.                                   *)
ToldFits(c) ==
    /\ call[c].answer = "recorded" => call[c].tool = "decide" /\ call[c].pc = "done"
    /\ \/ call[c].pc = "read" /\ call[c].tool = "decide"
       \/ call[c].answer = "recorded"
       => \/ run[call[c].run].state = "deleted"
          \/ /\ run[call[c].run].decidedBy = c
             /\ run[call[c].run].decision = call[c].choice

CallFits(c) == WaitFits(c) /\ AuthorFits(c) /\ ToldFits(c)

MInv ==
    /\ ApiGood
    /\ call \in [Calls -> CallRow]
    /\ \A c \in Calls : CallFits(c)

(* What becomes of a row and of a lock while call d does not write.        *)
Follows(old, new, d) ==
    /\ old.state = "deleted" => new.state = "deleted"
    /\ old.state \in Seen => new.state \in Seen \cup {"deleted"}
    /\ old.state \in Seen /\ new.state # "deleted" =>
          new.verdict = old.verdict /\ new.mode = old.mode
    /\ Settled(old) /\ new.state # "deleted" =>
          Settled(new) /\ new.decision = old.decision /\ new.decidedBy = old.decidedBy
    /\ new.decidedBy = d => old.decidedBy = d

LockKeeps(old, new, d) ==
    new.by = d => old.by = d /\ new.op = old.op /\ new.choice = old.choice

Overtaken(d) ==
    /\ \A r \in Runs : Follows(run[r], run'[r], d) /\ LockKeeps(lock[r], lock'[r], d)
    /\ \A e \in sap' : e.by = d => e \in sap \/ SapFits(d, e)'

----------------------------------------------------------------------------
(* The rows and locks: what each operation of the API makes of them.       *)

(* A row that fits and is not touched follows itself.                      *)
LEMMA Untouched ==
    ASSUME NEW row \in Row, NEW held \in Lock, NEW d \in Calls
    PROVE  Follows(row, row, d) /\ LockKeeps(held, held, d)
BY DEF Follows, LockKeeps, Row, RunRow, Settled, Seen

(* One row and its lock change: the API stays good, and whoever is         *)
(* overtaken there is overtaken.                                           *)
LEMMA RowStep ==
    ASSUME ApiGood, NEW r \in Runs, NEW row \in Row, NEW held \in Lock,
           run' = [run EXCEPT ![r] = row], lock' = [lock EXCEPT ![r] = held],
           live' \in SUBSET Runs, sap' = sap, clock' \in 0 .. MaxClock,
           RowFits(row), LockFits(held, row)
    PROVE  /\ ApiGood' /\ run'[r] = row /\ lock'[r] = held
           /\ \A s \in Runs : s # r => run'[s] = run[s] /\ lock'[s] = lock[s]
           /\ \A d \in Calls : Follows(run[r], row, d) /\ LockKeeps(lock[r], held, d)
                                 => Overtaken(d)
<1>1. run \in [Runs -> Row] /\ lock \in [Runs -> Lock] /\ sap \in SUBSET SapCall(Authors)
  BY DEF ApiGood, ApiTypes
<1>2. /\ run' \in [Runs -> Row] /\ lock' \in [Runs -> Lock]
      /\ run'[r] = row /\ lock'[r] = held
      /\ \A s \in Runs : s # r => run'[s] = run[s] /\ lock'[s] = lock[s]
  BY <1>1
<1>3. ApiTypes'
  BY <1>1, <1>2 DEF ApiTypes
<1>4. \A s \in Runs : RowFits(run'[s]) /\ LockFits(lock'[s], run'[s])
  BY <1>2 DEF ApiGood
<1>5. ASSUME NEW d \in Calls, Follows(run[r], row, d), LockKeeps(lock[r], held, d)
      PROVE  Overtaken(d)
  <2>1. \A s \in Runs : Follows(run[s], run'[s], d) /\ LockKeeps(lock[s], lock'[s], d)
    BY <1>1, <1>2, <1>5, Untouched
  <2>2. QED
    BY <2>1 DEF Overtaken
<1>6. QED
  BY <1>2, <1>3, <1>4, <1>5 DEF ApiGood

(* Only the row changes.                                                   *)
LEMMA RowOnly ==
    ASSUME ApiGood, NEW r \in Runs, NEW row \in Row, run' = [run EXCEPT ![r] = row],
           lock' = lock, live' \in SUBSET Runs, sap' = sap, clock' \in 0 .. MaxClock,
           RowFits(row), LockFits(lock[r], row),
           \A d \in Calls : Follows(run[r], row, d)
    PROVE  ApiGood' /\ \A d \in Calls : Overtaken(d)
<1>1. lock[r] \in Lock /\ lock' = [lock EXCEPT ![r] = lock[r]]
  BY DEF ApiGood, ApiTypes
<1>2. \A d \in Calls : LockKeeps(lock[r], lock[r], d)
  BY DEF LockKeeps
<1>3. QED
  BY <1>1, <1>2, RowStep

(* A row whose run or batch ends is otherwise the same.                    *)
Ended(row, s, p) == [row EXCEPT !.state = s, !.parent = p]

LEMMA EndedIs ==
    ASSUME NEW row \in Row, NEW s \in {"absent", "working", "held", "complete", "failed", "deleted"},
           NEW p \in {"none", "open", "closed"}
    PROVE  /\ Ended(row, s, p) \in Row /\ Ended(row, s, p).state = s
           /\ Ended(row, s, p).mode = row.mode /\ Ended(row, s, p).verdict = row.verdict
           /\ Ended(row, s, p).decision = row.decision /\ Ended(row, s, p).action = row.action
           /\ Ended(row, s, p).decidedBy = row.decidedBy
BY ZenonT(40) DEF Ended, Row, RunRow

LEMMA EndedFits ==
    ASSUME NEW row \in Row, NEW held \in Lock, RowFits(row), LockFits(held, row),
           NEW s, NEW p \in {"none", "open", "closed"},
           \/ s = row.state
           \/ s = "failed" /\ row.state \in {"working", "held", "complete", "failed"}
    PROVE  /\ Ended(row, s, p) \in Row /\ RowFits(Ended(row, s, p))
           /\ LockFits(held, Ended(row, s, p))
           /\ \A d \in Calls : Follows(row, Ended(row, s, p), d)
<1>1. s \in {"absent", "working", "held", "complete", "failed", "deleted"}
  BY DEF Row, RunRow
<1> DEFINE new == Ended(row, s, p)
<1>2. /\ new \in Row /\ new.state = s /\ new.mode = row.mode /\ new.verdict = row.verdict
      /\ new.decision = row.decision /\ new.action = row.action
      /\ new.decidedBy = row.decidedBy
  BY <1>1, EndedIs
<1> HIDE DEF new
<1>3. RowFits(new)
  BY <1>2 DEF RowFits, Quiet, Settled
<1>4. LockFits(held, new)
  BY <1>2 DEF LockFits, Quiet, Settled, Lock, LockRow
<1>5. \A d \in Calls : Follows(row, new, d)
  BY <1>2 DEF Follows, Settled, Seen
<1>6. QED
  BY <1>2, <1>3, <1>4, <1>5 DEF new

(* A fresh run starts working.                                             *)
LEMMA StartedRow ==
    ASSUME ApiGood, NEW r \in Runs, NEW parent \in {"none", "open"}, NEW mode \in ErpModes,
           Started(r, parent, mode), clock' \in 0 .. MaxClock
    PROVE  ApiGood' /\ \A d \in Calls : Overtaken(d)
<1> DEFINE row == [state |-> "working", parent |-> parent, mode |-> mode, verdict |-> "none",
                   decision |-> "none", action |-> "none", decidedBy |-> "none"]
<1>1. /\ run' = [run EXCEPT ![r] = row] /\ run[r].state = "absent"
      /\ lock' = lock /\ sap' = sap /\ live' \in SUBSET Runs
  <2>1. [Absent EXCEPT !.state = "working", !.parent = parent, !.mode = mode] = row
    <3> DEFINE one == [Absent EXCEPT !.state = "working"]
               two == [one EXCEPT !.parent = parent]
    <3>1. one = [state |-> "working", parent |-> "none", mode |-> "off", verdict |-> "none",
                 decision |-> "none", action |-> "none", decidedBy |-> "none"]
      BY DEF Absent
    <3> HIDE DEF one
    <3>2. two = [state |-> "working", parent |-> parent, mode |-> "off", verdict |-> "none",
                 decision |-> "none", action |-> "none", decidedBy |-> "none"]
      BY <3>1
    <3> HIDE DEF two
    <3>3. [two EXCEPT !.mode = mode] = row
      BY <3>2
    <3>4. QED
      BY <3>3 DEF two, one
  <2>2. QED
    BY <2>1 DEF Started, Fresh, ApiGood, ApiTypes
<1>2. /\ row \in Row /\ row.state = "working" /\ Quiet(row) /\ row.verdict = "none"
  BY DEF Row, RunRow, Authors, Quiet, Actions
<1> HIDE DEF row
<1>3. run[r] \in Row /\ lock[r] \in Lock /\ RowFits(run[r]) /\ LockFits(lock[r], run[r])
  BY DEF ApiGood, ApiTypes
<1>4. LockFits(lock[r], row)
  BY <1>1, <1>2, <1>3 DEF LockFits, Settled, Lock, LockRow
<1>5. RowFits(row) /\ \A d \in Calls : Follows(run[r], row, d)
  BY <1>1, <1>2, McpAssumption DEF RowFits, Quiet, Settled, Follows, Seen
<1>6. QED
  BY <1>1, <1>2, <1>4, <1>5, RowOnly

(* A decision or a confirmation is accepted.                               *)
LEMMA AcceptedLock ==
    ASSUME ApiGood, NEW r \in Runs, lock[r].step = "free", NEW who \in {"cockpit"} \cup Calls,
           NEW op \in {"decide", "confirm"}, NEW choice,
           \/ /\ op = "decide" /\ choice \in Decisions /\ run[r].state = "held"
           \/ /\ op = "confirm" /\ choice = run[r].decision /\ run[r].state = "complete",
           Accepted(r, op, choice, who), clock' \in 0 .. MaxClock
    PROVE  /\ ApiGood' /\ run' = run /\ sap' = sap
           /\ \A d \in Calls \ {who} : Overtaken(d)
           /\ lock'[r].by = who /\ lock'[r].op = op /\ lock'[r].choice = choice
           /\ \A s \in Runs : s # r => lock'[s] = lock[s]
<1> DEFINE held == [step |-> "accepted", op |-> op, by |-> who, choice |-> choice,
                    act |-> "none"]
<1>1. /\ run[r] \in Row /\ RowFits(run[r]) /\ run \in [Runs -> Row] /\ lock \in [Runs -> Lock]
      /\ live' \in SUBSET Runs /\ run' = run /\ sap' = sap
      /\ lock' = [lock EXCEPT ![r] = held]
  BY DEF ApiGood, ApiTypes, Accepted
<1>2. choice \in Decisions \cup {"none"}
  BY <1>1 DEF Row, RunRow
<1>3. /\ held \in Lock /\ held.step = "accepted" /\ held.op = op /\ held.by = who
      /\ held.choice = choice
  BY <1>2 DEF Lock, LockRow, Authors, Actions
<1> HIDE DEF held
<1>4. LockFits(held, run[r])
  BY <1>1, <1>3, McpAssumption DEF LockFits, RowFits, Settled, Quiet, Decisions
<1>5. run' = [run EXCEPT ![r] = run[r]]
  BY <1>1
<1>6. /\ ApiGood' /\ lock'[r] = held /\ \A s \in Runs : s # r => lock'[s] = lock[s]
      /\ \A d \in Calls : Follows(run[r], run[r], d) /\ LockKeeps(lock[r], held, d)
                            => Overtaken(d)
  BY <1>1, <1>3, <1>4, <1>5, RowStep
<1>7. \A d \in Calls \ {who} : Follows(run[r], run[r], d) /\ LockKeeps(lock[r], held, d)
  BY <1>1, <1>3 DEF LockKeeps, Follows, Settled, Seen
<1>8. QED
  BY <1>1, <1>3, <1>6, <1>7

(* A run or a batch is stopped.                                            *)
LEMMA StoppedRow ==
    ASSUME ApiGood, NEW r \in Runs, Stopped(r), clock' \in 0 .. MaxClock
    PROVE  ApiGood' /\ \A d \in Calls : Overtaken(d)
<1>1. /\ run[r] \in Row /\ lock[r] \in Lock /\ RowFits(run[r]) /\ LockFits(lock[r], run[r])
      /\ lock' = lock /\ sap' = sap /\ live' \in SUBSET Runs
  BY DEF ApiGood, ApiTypes, Stopped
<1>2. PICK s \in {run[r].state,
                  IF Known(r) /\ (run[r].parent = "none" \/ run[r].state = "working")
                  THEN "failed" ELSE run[r].state},
           p \in {run[r].parent, IF run[r].parent = "open" THEN "closed" ELSE run[r].parent} :
        run' = [run EXCEPT ![r].state = s, ![r].parent = p]
  BY DEF Stopped
<1>3. /\ \/ s = run[r].state
         \/ s = "failed" /\ run[r].state \in {"working", "held", "complete", "failed"}
      /\ p \in {"none", "open", "closed"}
  BY <1>1 DEF Known, Row, RunRow
<1>4. run' = [run EXCEPT ![r] = Ended(run[r], s, p)]
  BY <1>2 DEF Ended
<1>5. QED
  BY <1>1, <1>3, <1>4, EndedFits, RowOnly

(* A run ends by itself.                                                   *)
LEMMA FinishedRow ==
    ASSUME ApiGood, NEW r \in Runs, Finish(r)
    PROVE  ApiGood' /\ \A d \in Calls : Overtaken(d)
<1>1. /\ run[r].state = "working" /\ run[r] \in Row /\ Quiet(run[r]) /\ lock[r] \in Lock
      /\ LockFits(lock[r], run[r]) /\ lock' = lock /\ sap' = sap /\ live' \in SUBSET Runs
      /\ clock' \in 0 .. MaxClock
  BY DEF Finish, RowFits, ApiGood, ApiTypes
<1> DEFINE Ends(row) ==
      /\ run' = [run EXCEPT ![r] = row]
      /\ row.decision = "none" /\ row.decidedBy = "none"
      /\ \/ row.state = "complete" /\ row.verdict = "compliant"
         \/ row.state = "held" /\ row.verdict # "compliant" /\ Quiet(row)
         \/ row.state = "failed"
<1>2. \E row \in Row : Ends(row)
  <2>1. ASSUME NEW a \in IF run[r].mode = "auto" THEN {"approved", "failed"} ELSE {"none"},
               run' = [run EXCEPT ![r].state = "complete", ![r].verdict = "compliant",
                                  ![r].action = a]
        PROVE  \E row \in Row : Ends(row)
    <3> DEFINE row == [run[r] EXCEPT !.state = "complete", !.verdict = "compliant",
                                     !.action = a]
    <3>1. a \in Actions
      BY <2>1 DEF Actions
    <3>2. row \in Row /\ run' = [run EXCEPT ![r] = row]
      BY ZenonT(40), <1>1, <2>1, <3>1 DEF Row, RunRow, Verdicts
    <3>3. Ends(row)
      BY <1>1, <3>2 DEF Row, RunRow, Quiet
    <3> QED
      BY <3>2, <3>3
  <2>2. ASSUME NEW v \in Verdicts \ {"compliant"},
               run' = [run EXCEPT ![r].state = "held", ![r].verdict = v]
        PROVE  \E row \in Row : Ends(row)
    <3> DEFINE row == [run[r] EXCEPT !.state = "held", !.verdict = v]
    <3>1. row \in Row /\ run' = [run EXCEPT ![r] = row]
      BY <1>1, <2>2 DEF Row, RunRow, Verdicts
    <3>2. Ends(row)
      BY <1>1, <3>1 DEF Row, RunRow, Quiet
    <3> QED
      BY <3>1, <3>2
  <2>3. ASSUME run' = [run EXCEPT ![r].state = "failed"]
        PROVE  \E row \in Row : Ends(row)
    <3> DEFINE row == [run[r] EXCEPT !.state = "failed"]
    <3>1. row \in Row /\ run' = [run EXCEPT ![r] = row]
      BY <1>1, <2>3 DEF Row, RunRow
    <3>2. Ends(row)
      BY <1>1, <3>1 DEF Row, RunRow, Quiet
    <3> QED
      BY <3>1, <3>2
  <2> QED
    BY <2>1, <2>2, <2>3 DEF Finish
<1>3. PICK row \in Row : Ends(row)
  BY <1>2
<1>4. RowFits(row)
  BY <1>3 DEF RowFits, Quiet, Settled
<1>5. LockFits(lock[r], row)
  BY <1>1 DEF LockFits, Settled, Lock, LockRow
<1>6. \A d \in Calls : Follows(run[r], row, d)
  BY <1>1, <1>3, McpAssumption DEF Follows, Settled, Seen
<1>7. QED
  BY <1>1, <1>3, <1>4, <1>5, <1>6, RowOnly

(* The run is deleted.                                                     *)
LEMMA DeletedRow ==
    ASSUME ApiGood, NEW r \in Runs, Deleted(r), clock' \in 0 .. MaxClock
    PROVE  ApiGood' /\ \A d \in Calls : Overtaken(d)
<1> DEFINE row == [Absent EXCEPT !.state = "deleted", !.parent = run[r].parent,
                                 !.mode = run[r].mode]
<1>1. /\ run[r] \in Row /\ lock[r] \in Lock /\ LockFits(lock[r], run[r])
      /\ lock' = lock /\ sap' = sap /\ live' \in SUBSET Runs
      /\ run' = [run EXCEPT ![r] = row]
  BY DEF ApiGood, ApiTypes, Deleted
<1>2. row \in Row /\ row.state = "deleted" /\ Quiet(row)
  BY <1>1 DEF Absent, Row, RunRow, Authors, Quiet, Actions
<1> HIDE DEF row
<1>3. RowFits(row) /\ LockFits(lock[r], row)
  BY <1>1, <1>2 DEF RowFits, LockFits, Quiet
<1>4. \A d \in Calls : Follows(run[r], row, d)
  BY <1>2, McpAssumption DEF Follows, Quiet
<1>5. QED
  BY <1>1, <1>2, <1>3, <1>4, RowOnly

(* The API starts again.                                                   *)
LEMMA RestartedRows ==
    ASSUME ApiGood, ApiRestarts
    PROVE  ApiGood' /\ \A d \in Calls : Overtaken(d)
<1> DEFINE State(row)  == IF row.state = "working" THEN "failed" ELSE row.state
           Parent(row) == IF row.parent = "open" THEN "closed" ELSE row.parent
<1>1. /\ run' = [r \in Runs |-> Ended(run[r], State(run[r]), Parent(run[r]))]
      /\ lock' = [r \in Runs |-> Free] /\ live' = {} /\ sap' = sap /\ clock' = clock
  BY DEF ApiRestarts, Ended
<1>2. ASSUME NEW s \in Runs
      PROVE  /\ run'[s] \in Row /\ lock'[s] \in Lock
             /\ RowFits(run'[s]) /\ LockFits(lock'[s], run'[s])
             /\ \A d \in Calls : Follows(run[s], run'[s], d) /\ LockKeeps(lock[s], lock'[s], d)
  <2>1. /\ run[s] \in Row /\ lock[s] \in Lock /\ RowFits(run[s]) /\ LockFits(lock[s], run[s])
        /\ run'[s] = Ended(run[s], State(run[s]), Parent(run[s])) /\ lock'[s] = Free
    BY <1>1 DEF ApiGood, ApiTypes
  <2>2. Parent(run[s]) \in {"none", "open", "closed"}
    BY <2>1 DEF Row, RunRow
  <2>3. /\ run'[s] \in Row /\ RowFits(run'[s])
        /\ \A d \in Calls : Follows(run[s], run'[s], d)
    BY <2>1, <2>2, EndedFits
  <2>4. lock'[s] \in Lock /\ lock'[s].step = "free" /\ lock'[s].by = "none"
    BY <2>1 DEF Free, Lock, LockRow, Authors, Actions
  <2>5. LockFits(lock'[s], run'[s]) /\ \A d \in Calls : LockKeeps(lock[s], lock'[s], d)
    BY <2>4, McpAssumption DEF LockFits, LockKeeps
  <2>6. QED
    BY <2>3, <2>4, <2>5
<1>3. run' \in [Runs -> Row] /\ lock' \in [Runs -> Lock]
  BY <1>1, <1>2
<1>4. ApiTypes'
  BY <1>1, <1>3 DEF ApiGood, ApiTypes
<1>5. QED
  BY <1>1, <1>2, <1>4 DEF ApiGood, Overtaken

(* The API's own steps and the cockpit, but for the call of the ERP.       *)
LEMMA ApiRows ==
    ASSUME ApiGood, ApiNext, \A r \in Runs : ~Act(r)
    PROVE  ApiGood' /\ \A d \in Calls : Overtaken(d)
<1> DEFINE Goal == ApiGood' /\ \A d \in Calls : Overtaken(d)
<1>1. CASE Tick
  <2>1. /\ run' = run /\ lock' = lock /\ live' = live /\ sap' = sap
        /\ clock' \in 0 .. MaxClock
    BY <1>1, ApiAssumption DEF Tick, ApiGood, ApiTypes
  <2>2. ApiGood'
    BY <2>1 DEF ApiGood, ApiTypes
  <2>3. \A r \in Runs : run[r] \in Row /\ lock[r] \in Lock
    BY DEF ApiGood, ApiTypes
  <2>4. QED
    BY <2>1, <2>2, <2>3, Untouched DEF Overtaken
<1>2. ASSUME NEW r \in Runs, CloseBatch(r)
      PROVE  Goal
  <2>1. /\ run[r] \in Row /\ lock[r] \in Lock /\ RowFits(run[r]) /\ LockFits(lock[r], run[r])
        /\ lock' = lock /\ sap' = sap /\ live' \in SUBSET Runs /\ clock' \in 0 .. MaxClock
    BY <1>2 DEF ApiGood, ApiTypes, CloseBatch
  <2>2. run' = [run EXCEPT ![r] = Ended(run[r], run[r].state, "closed")]
    <3>1. [run[r] EXCEPT !.parent = "closed"] = Ended(run[r], run[r].state, "closed")
      BY <2>1 DEF Ended, Row, RunRow
    <3>2. QED
      BY <1>2, <3>1 DEF CloseBatch
  <2>3. QED
    BY <2>1, <2>2, EndedFits, RowOnly
<1>3. ASSUME NEW r \in Runs, TaskEnds(r)
      PROVE  Goal
  <2>1. /\ run \in [Runs -> Row] /\ run[r] \in Row /\ lock[r] \in Lock
        /\ RowFits(run[r]) /\ LockFits(lock[r], run[r])
        /\ lock' = lock /\ sap' = sap /\ live' \in SUBSET Runs /\ clock' \in 0 .. MaxClock
    BY <1>3 DEF ApiGood, ApiTypes, TaskEnds
  <2>2. CASE run' = run
    <3>1. run' = [run EXCEPT ![r] = run[r]] /\ \A d \in Calls : Follows(run[r], run[r], d)
      BY <2>1, <2>2, Untouched
    <3>2. QED
      BY <2>1, <3>1, RowOnly
  <2>3. CASE Known(r) /\ run' = [run EXCEPT ![r].state = "failed"]
    <3>1. run' = [run EXCEPT ![r] = Ended(run[r], "failed", run[r].parent)]
      <4>1. [run[r] EXCEPT !.state = "failed"] = Ended(run[r], "failed", run[r].parent)
        BY <2>1 DEF Ended, Row, RunRow
      <4>2. QED
        BY <2>3, <4>1
    <3>2. /\ run[r].state \in {"working", "held", "complete", "failed"}
          /\ run[r].parent \in {"none", "open", "closed"}
      BY <2>1, <2>3 DEF Known, Row, RunRow
    <3>3. QED
      BY <2>1, <3>1, <3>2, EndedFits, RowOnly
  <2>4. QED
    BY <1>3, <2>2, <2>3 DEF TaskEnds
<1>4. ASSUME NEW r \in Runs, Cockpit(r)
      PROVE  Goal
  <2>1. clock' \in 0 .. MaxClock
    BY <1>4 DEF Cockpit, ApiGood, ApiTypes
  <2>2. Calls \ {"cockpit"} = Calls
    BY McpAssumption
  <2>3. ASSUME NEW m \in ErpModes, NEW p \in {"none", "open"}, Started(r, p, m)
        PROVE  Goal
    BY <2>1, <2>3, StartedRow
  <2>4. ASSUME NEW c \in Decisions, NEW note \in BOOLEAN, lock[r].step = "free",
               ~DecisionRefused(r, c, note), Accepted(r, "decide", c, "cockpit")
        PROVE  Goal
    <3>1. run[r].state = "held"
      BY <2>4 DEF DecisionRefused
    <3>2. QED
      BY <2>1, <2>2, <2>4, <3>1, AcceptedLock
  <2>5. ASSUME lock[r].step = "free", ~ConfirmRefused(r),
               Accepted(r, "confirm", run[r].decision, "cockpit")
        PROVE  Goal
    <3>1. run[r].state = "complete"
      BY <2>5 DEF ConfirmRefused
    <3>2. QED
      BY <2>1, <2>2, <2>5, <3>1, AcceptedLock
  <2>6. QED
    BY <1>4, <2>1, <2>3, <2>4, <2>5, StoppedRow, DeletedRow DEF Cockpit
<1>5. QED
  BY <1>1, <1>2, <1>3, <1>4, RestartedRows, FinishedRow DEF ApiNext

----------------------------------------------------------------------------
(* The calls: one that does not move fits whatever the others write.       *)
LEMMA CallStays ==
    ASSUME ApiGood, ApiGood', NEW d \in Calls, CallFits(d), Overtaken(d),
           call[d] \in CallRow, call'[d] = call[d]
    PROVE  CallFits(d)'
<1>1. d \notin {"none", "rule", "cockpit"} /\ WaitFits(d) /\ AuthorFits(d) /\ ToldFits(d)
  BY McpAssumption DEF CallFits
<1>2. \A r \in Runs : /\ Follows(run[r], run'[r], d) /\ LockKeeps(lock[r], lock'[r], d)
                      /\ RowFits(run[r]) /\ LockFits(lock[r], run[r])
                      /\ RowFits(run'[r]) /\ LockFits(lock'[r], run'[r])
                      /\ run[r] \in Row /\ run'[r] \in Row
                      /\ lock[r] \in Lock /\ lock'[r] \in Lock
  BY DEF Overtaken, ApiGood, ApiTypes
<1>3. WaitFits(d)'
  <2>1. CASE call[d].tool \notin {"decide", "confirm", "cancel"}
    BY <1>1, <2>1 DEF WaitFits
  <2>2. CASE call[d].tool \in {"decide", "confirm", "cancel"}
    <3>1. call[d].run \in Runs
      BY <1>1, <2>2 DEF WaitFits
    <3> DEFINE old == run[call[d].run]
               new == run'[call[d].run]
    <3>2. Follows(old, new, d)
      BY <1>2, <3>1
    <3>3. old.state \in Seen /\ new.state # "deleted" =>
            DecisionPrompt(new) = DecisionPrompt(old) /\ new.state \in Seen
      BY <3>2 DEF Follows, DecisionPrompt
    <3>4. Settled(old) /\ new.state # "deleted" =>
            ErpPrompt(new) = ErpPrompt(old) /\ Settled(new)
      BY <3>2 DEF Follows, ErpPrompt, Settled, Seen
    <3>5. old.state = "deleted" => new.state = "deleted"
      BY <3>2 DEF Follows
    <3>6. QED
      BY <1>1, <3>1, <3>3, <3>4, <3>5 DEF WaitFits
  <2>3. QED
    BY <2>1, <2>2
<1>4. ASSUME NEW r \in Runs, run'[r].decidedBy = d
      PROVE  DecidedFits(d, r)'
  <2>1. run[r].decidedBy = d /\ DecidedFits(d, r)
    BY <1>1, <1>2, <1>4 DEF Follows, AuthorFits
  <2>2. Settled(run[r]) /\ run[r].state \in Seen
    BY <1>1, <1>2, <2>1 DEF RowFits, Quiet, Settled, Seen
  <2>3. run'[r].state # "deleted"
    BY <1>1, <1>2, <1>4 DEF RowFits, Quiet
  <2>4. /\ run'[r].decision = run[r].decision
        /\ DecisionPrompt(run'[r]) = DecisionPrompt(run[r])
    BY <1>2, <2>2, <2>3 DEF Follows, DecisionPrompt
  <2>5. QED
    BY <2>1, <2>4 DEF DecidedFits
<1>5. ASSUME NEW r \in Runs, lock'[r].by = d
      PROVE  HolderFits(d, r)'
  <2>1. /\ lock[r].by = d /\ HolderFits(d, r)
        /\ lock'[r].op = lock[r].op /\ lock'[r].choice = lock[r].choice
    BY <1>1, <1>2, <1>5 DEF LockKeeps, AuthorFits
  <2>2. lock[r].step # "free" /\ lock[r].op \in {"decide", "confirm"}
    BY <1>1, <1>2, <2>1 DEF LockFits, Lock, LockRow
  <2>3. run[r].state = "deleted" \/ run[r].state \in Seen
    BY <1>2, <2>2 DEF LockFits, Settled, Seen
  <2>4. CASE run'[r].state = "deleted"
    BY <2>1, <2>4 DEF HolderFits
  <2>5. CASE run'[r].state # "deleted"
    <3>1. /\ run[r].state # "deleted" /\ run'[r].verdict = run[r].verdict
          /\ DecisionPrompt(run'[r]) = DecisionPrompt(run[r])
      BY <1>2, <2>3, <2>5 DEF Follows, DecisionPrompt
    <3>2. QED
      BY <2>1, <3>1 DEF HolderFits
  <2>6. QED
    BY <2>4, <2>5
<1>6. ASSUME NEW e \in sap', e.by = d
      PROVE  SapFits(d, e)'
  <2>1. CASE e \in sap
    <3>1. SapFits(d, e) /\ e.run \in Runs
      BY <1>1, <1>6, <2>1 DEF AuthorFits, ApiGood, ApiTypes, SapCall
    <3>2. Follows(run[e.run], run'[e.run], d)
      BY <1>2, <3>1
    <3>3. QED
      BY <3>1, <3>2 DEF SapFits, Follows, Seen
  <2>2. QED
    BY <1>6, <2>1 DEF Overtaken
<1>7. AuthorFits(d)'
  BY <1>4, <1>5, <1>6 DEF AuthorFits
<1>8. ToldFits(d)'
  <2>1. CASE (call[d].pc = "read" /\ call[d].tool = "decide") \/ call[d].answer = "recorded"
    <3>1. call[d].run \in Runs
      BY <1>1, <2>1 DEF ToldFits, WaitFits
    <3>2. CASE run[call[d].run].state = "deleted"
      BY <1>1, <1>2, <3>1, <3>2 DEF Follows, ToldFits
    <3>3. CASE run[call[d].run].decidedBy = d /\ run[call[d].run].decision = call[d].choice
      <4>1. Settled(run[call[d].run])
        BY <1>1, <1>2, <3>1, <3>3 DEF RowFits, Quiet, Settled
      <4>2. QED
        BY <1>1, <1>2, <3>1, <3>3, <4>1 DEF Follows, ToldFits
    <3>4. QED
      BY <1>1, <2>1, <3>2, <3>3 DEF ToldFits
  <2>2. QED
    BY <1>1, <2>1 DEF ToldFits
<1>9. QED
  BY <1>3, <1>7, <1>8 DEF CallFits

(* A call moves, and what it becomes fits: all the rest does.              *)
LEMMA CallMoves ==
    ASSUME MInv, NEW c \in Calls, NEW moved \in CallRow, call' = [call EXCEPT ![c] = moved],
           ApiGood', \A d \in Calls \ {c} : Overtaken(d), CallFits(c)'
    PROVE  MInv'
<1>1. call' \in [Calls -> CallRow]
  BY DEF MInv
<1>2. ASSUME NEW d \in Calls \ {c}
      PROVE  CallFits(d)'
  <2>1. call'[d] = call[d] /\ call[d] \in CallRow /\ CallFits(d) /\ ApiGood
    BY DEF MInv
  <2>2. QED
    BY <2>1, CallStays
<1>3. QED
  BY <1>1, <1>2 DEF MInv

(* When no call moves.                                                     *)
LEMMA NoCallMoves ==
    ASSUME MInv, call' = call, ApiGood', \A d \in Calls : Overtaken(d)
    PROVE  MInv'
<1>1. ASSUME NEW d \in Calls
      PROVE  CallFits(d)'
  BY CallStays DEF MInv
<1>2. QED
  BY <1>1 DEF MInv

(* When the API is left alone.                                             *)
LEMMA QuietApi ==
    ASSUME MInv, UNCHANGED apiVars
    PROVE  /\ ApiGood' /\ \A d \in Calls : Overtaken(d)
           /\ run' = run /\ lock' = lock /\ sap' = sap
<1>1. run' = run /\ live' = live /\ lock' = lock /\ sap' = sap /\ clock' = clock
  BY DEF apiVars
<1>2. ApiGood'
  BY <1>1 DEF MInv, ApiGood, ApiTypes
<1>3. \A r \in Runs : run[r] \in Row /\ lock[r] \in Lock
  BY DEF MInv, ApiGood, ApiTypes
<1>4. QED
  BY <1>1, <1>2, <1>3, Untouched DEF Overtaken

(* Before its write a call is nobody's author.                             *)
LEMMA NotYetAuthor ==
    ASSUME MInv, NEW c \in Calls, call[c].pc \notin {"sent", "read", "done"}
    PROVE  /\ \A r \in Runs : run[r].decidedBy # c /\ lock[r].by # c
           /\ \A e \in sap : e.by # c
           /\ call[c].answer = "none"
BY DEF MInv, CallFits, AuthorFits, WaitFits, DecidedFits, HolderFits, SapFits

(* A call that has not been made is a call.                                *)
LEMMA IdleRow == Idle \in CallRow
BY ApiAssumption DEF Idle, CallRow, Decisions, NothingShown

(* A call that has not written yet goes on to where it has not either,     *)
(* whatever becomes of the API's rows.                                     *)
LEMMA StepBeforeWrite ==
    ASSUME MInv, NEW c \in Calls, NEW moved \in CallRow, call' = [call EXCEPT ![c] = moved],
           ApiGood', \A d \in Calls : Overtaken(d), sap' = sap,
           call[c].pc \notin {"sent", "read", "done"},
           moved.answer # "recorded",
           moved.pc = "read" => moved.tool # "decide", WaitFits(c)'
    PROVE  MInv'
<1>1. call'[c] = moved
  BY DEF MInv
<1>2. \A r \in Runs : run'[r].decidedBy # c /\ lock'[r].by # c
  BY NotYetAuthor DEF Overtaken, Follows, LockKeeps
<1>3. AuthorFits(c)' /\ ToldFits(c)'
  BY <1>1, <1>2, NotYetAuthor DEF AuthorFits, ToldFits
<1>4. QED
  BY <1>3, CallMoves DEF CallFits

(* A call ends without writing now.                                        *)
LEMMA AnswerEnds ==
    ASSUME MInv, NEW c \in Calls, UNCHANGED apiVars,
           NEW a \in {"error", "declined", "recorded", "applied", "cancelled", "verdict",
                      "later"},
           Answers(c, a),
           a = "declined" => call[c].pc = "user",
           a = "recorded" => call[c].pc = "read" /\ call[c].tool = "decide"
    PROVE  MInv'
<1> DEFINE moved == [call[c] EXCEPT !.pc = "done", !.answer = a]
<1>1. call[c] \in CallRow /\ run' = run /\ lock' = lock /\ sap' = sap /\ CallFits(c)
  BY DEF MInv, apiVars
<1>2. call' = [call EXCEPT ![c] = moved] /\ moved \in CallRow
  BY <1>1 DEF Answers, CallRow
<1>3. /\ call'[c].pc = "done" /\ call'[c].answer = a
      /\ call'[c].tool = call[c].tool /\ call'[c].run = call[c].run
      /\ call'[c].choice = call[c].choice /\ call'[c].ticked = call[c].ticked
      /\ call'[c].shown = call[c].shown
  BY <1>1, <1>2 DEF MInv, CallRow
<1>4. WaitFits(c)'
  BY <1>1, <1>3 DEF WaitFits, CallFits
<1>5. AuthorFits(c)'
  <2>1. CASE call[c].pc \notin {"sent", "read", "done"}
    BY <1>1, <2>1, NotYetAuthor DEF AuthorFits
  <2>2. CASE call[c].pc \in {"sent", "read", "done"}
    <3>1. a # "declined"
      BY <2>2
    <3>2. \A r \in Runs : run[r].decidedBy = c => DecidedFits(c, r)'
      BY <1>1, <1>3, <3>1 DEF AuthorFits, CallFits, DecidedFits, DecisionPrompt
    <3>3. \A r \in Runs : lock[r].by = c => HolderFits(c, r)'
      <4>1. \A r \in Runs : lock[r].by = c => call[c].pc # "read"
        BY <1>1 DEF AuthorFits, CallFits, HolderFits
      <4>2. QED
        BY <1>1, <1>3, <3>1, <4>1 DEF AuthorFits, CallFits, HolderFits, DecisionPrompt
    <3>4. \A e \in sap : e.by = c => SapFits(c, e)'
      BY <1>1, <1>3, <3>1 DEF AuthorFits, CallFits, SapFits
    <3>5. QED
      BY <1>1, <3>2, <3>3, <3>4 DEF AuthorFits
  <2>3. QED
    BY <2>1, <2>2
<1>6. ToldFits(c)'
  BY <1>1, <1>3 DEF ToldFits, CallFits
<1>7. QED
  BY <1>2, <1>4, <1>5, <1>6, QuietApi, CallMoves DEF CallFits

(* A call that goes on, with or without its answer, is otherwise the same. *)
Went(row, p, a) == [row EXCEPT !.pc = p, !.answer = a]

Same(old, new) ==
    /\ new.tool = old.tool /\ new.run = old.run /\ new.choice = old.choice
    /\ new.ticked = old.ticked /\ new.shown = old.shown

LEMMA WentIs ==
    ASSUME MInv, NEW c \in Calls,
           NEW p \in {"start", "sent", "read", "done"}, NEW a \in {"none", "error"},
           \/ call' = [call EXCEPT ![c].pc = p] /\ call[c].answer = a
           \/ call' = [call EXCEPT ![c].pc = p, ![c].answer = a]
    PROVE  /\ Went(call[c], p, a) \in CallRow /\ Same(call[c], Went(call[c], p, a))
           /\ Went(call[c], p, a).pc = p /\ Went(call[c], p, a).answer = a
           /\ call' = [call EXCEPT ![c] = Went(call[c], p, a)]
           /\ call'[c] = Went(call[c], p, a)
<1>1. call[c] \in CallRow
  BY DEF MInv
<1>2. /\ Went(call[c], p, a) \in CallRow /\ Same(call[c], Went(call[c], p, a))
      /\ Went(call[c], p, a).pc = p /\ Went(call[c], p, a).answer = a
  BY <1>1 DEF Went, Same, CallRow
<1>3. CASE call' = [call EXCEPT ![c].pc = p] /\ call[c].answer = a
  <2>1. [call[c] EXCEPT !.pc = p] = Went(call[c], p, a)
    BY <1>1, <1>3 DEF Went, CallRow
  <2>2. QED
    BY <1>2, <1>3, <2>1 DEF MInv
<1>4. CASE call' = [call EXCEPT ![c].pc = p, ![c].answer = a]
  BY <1>2, <1>4 DEF Went, MInv
<1>5. QED
  BY <1>3, <1>4

----------------------------------------------------------------------------
(* The ERP is called for the call that has the lock, or for the cockpit.   *)
LEMMA ActKeeps ==
    ASSUME MInv, NEW r \in Runs, Act(r), call' = call
    PROVE  MInv'
<1> DEFINE entry == [run |-> r, by |-> lock[r].by, status |-> Called(lock[r].choice)]
<1>1. /\ run \in [Runs -> Row] /\ lock \in [Runs -> Lock] /\ RowFits(run[r])
      /\ lock[r] \in Lock /\ run[r] \in Row /\ LockFits(lock[r], run[r])
      /\ run' = run /\ live' = live /\ clock' = clock /\ lock[r].step = "accepted"
      /\ sap \in SUBSET SapCall(Authors)
  BY DEF MInv, ApiGood, ApiTypes, Act
<1>2. PICK a \in Actions : lock' = [lock EXCEPT ![r] = [lock[r] EXCEPT !.step = "acted", !.act = a]]
  <2>1. [lock[r] EXCEPT !.step = "acted"] = [lock[r] EXCEPT !.step = "acted", !.act = lock[r].act]
        /\ lock[r].act \in Actions
    BY <1>1 DEF Lock, LockRow
  <2>2. {Called(lock[r].choice), "failed"} \subseteq Actions
    BY DEF Called, Actions
  <2>3. QED
    BY <1>1, <2>1, <2>2 DEF Act
<1> DEFINE held == [lock[r] EXCEPT !.step = "acted", !.act = a]
<1>3. /\ held \in Lock /\ held.step = "acted" /\ held.op = lock[r].op /\ held.by = lock[r].by
      /\ held.choice = lock[r].choice
  BY <1>1 DEF Lock, LockRow
<1> HIDE DEF held
<1>4. /\ lock' \in [Runs -> Lock] /\ lock'[r] = held
      /\ \A s \in Runs : s # r => lock'[s] = lock[s]
  BY <1>1, <1>2, <1>3 DEF held
<1>5. \/ sap' = sap
      \/ /\ sap' = sap \cup ({entry} \ Cockpits)
         /\ lock[r].op = "decide" => ErpMode(r) = "auto"
  BY DEF Act
<1>6. sap' \in SUBSET SapCall(Authors)
  <2>1. entry \in SapCall(Authors)
    BY <1>1 DEF SapCall, Lock, LockRow, Called
  <2>2. QED
    BY <1>1, <1>5, <2>1
<1>7. ApiGood'
  <2>1. LockFits(held, run[r])
    BY <1>1, <1>3 DEF LockFits
  <2>2. \A s \in Runs : RowFits(run'[s]) /\ LockFits(lock'[s], run'[s])
    BY <1>1, <1>4, <2>1 DEF MInv, ApiGood
  <2>3. QED
    BY <1>1, <1>4, <1>6, <2>2 DEF MInv, ApiGood, ApiTypes
<1>8. ASSUME NEW d \in Calls
      PROVE  Overtaken(d)
  <2>1. \A s \in Runs : Follows(run[s], run'[s], d)
    BY <1>1, Untouched
  <2>2. \A s \in Runs : LockKeeps(lock[s], lock'[s], d)
    BY <1>3, <1>4 DEF LockKeeps
  <2>3. ASSUME NEW e \in sap', e.by = d, e \notin sap
        PROVE  SapFits(d, e)'
    <3>1. /\ e = entry /\ lock[r].by = d /\ e.run = r
          /\ e.status = Called(lock[r].choice)
          /\ lock[r].op = "decide" => ErpMode(r) = "auto"
      BY <1>5, <2>3
    <3>2. HolderFits(d, r)
      BY <3>1 DEF MInv, CallFits, AuthorFits
    <3>3. run[r].state \in Seen \cup {"deleted"}
      BY <1>1 DEF LockFits, Settled, Seen, Lock, LockRow
    <3>4. /\ call[d].run = e.run /\ call[d].ticked /\ call[d].answer # "declined"
          /\ call[d].pc \in {"sent", "read", "done"}
      BY <3>1, <3>2 DEF HolderFits
    <3>5. CASE lock[r].op = "decide"
      <4>1. run[r].state = "deleted" \/ run[r].mode = "auto"
        BY <3>1, <3>3, <3>5 DEF ErpMode, Known, Seen
      <4>2. run[r].state = "deleted" \/ call[d].shown.effect = "now"
        BY <3>2, <3>5, <4>1 DEF HolderFits, DecisionPrompt, SapEffect
      <4>3. call[d].tool = "decide" /\ e.status = Called(call[d].choice)
        BY <3>1, <3>2, <3>5 DEF HolderFits
      <4>4. SapFits(d, e)
        BY <3>1, <3>3, <3>4, <4>2, <4>3 DEF SapFits
      <4>5. QED
        BY <1>1, <4>4 DEF SapFits
    <3>6. CASE lock[r].op = "confirm"
      <4>1. /\ call[d].tool = "confirm" /\ e.status = call[d].shown.pending
            /\ call[d].shown.verdict = run[r].verdict \/ run[r].state = "deleted"
        BY <3>1, <3>2, <3>6 DEF HolderFits
      <4>2. SapFits(d, e)
        BY <3>1, <3>3, <3>4, <4>1 DEF SapFits
      <4>3. QED
        BY <1>1, <4>2 DEF SapFits
    <3>7. QED
      BY <1>1, <3>5, <3>6 DEF Lock, LockRow
  <2>4. QED
    BY <2>1, <2>2, <2>3 DEF Overtaken
<1>9. QED
  BY <1>7, <1>8, NoCallMoves

(* The end of a decision or a confirmation, for the API's rows.            *)
LEMMA SettledRow ==
    ASSUME ApiGood, NEW r \in Runs, NEW done \in BOOLEAN, Settle(r, done)
    PROVE  /\ ApiGood' /\ sap' = sap /\ lock'[r].by = "none"
           /\ \A s \in Runs : s # r => run'[s] = run[s] /\ lock'[s] = lock[s]
           /\ run'[r].verdict = run[r].verdict /\ run'[r].mode = run[r].mode
           /\ ~done => run'[r] = run[r]
           /\ done => /\ run[r].state # "deleted" /\ run'[r].state = "complete"
                      /\ run'[r].decision = lock[r].choice
                      /\ lock[r].op = "decide" => run'[r].decidedBy = lock[r].by
                      /\ lock[r].op = "confirm" => run'[r].decidedBy = run[r].decidedBy
           /\ \A d \in Calls : ~done \/ lock[r].op = "confirm" \/ d # lock[r].by
                                 => Overtaken(d)
<1>1. /\ run[r] \in Row /\ lock[r] \in Lock /\ RowFits(run[r]) /\ LockFits(lock[r], run[r])
      /\ run \in [Runs -> Row] /\ lock \in [Runs -> Lock]
      /\ live' \in SUBSET Runs /\ sap' = sap /\ clock' \in 0 .. MaxClock
      /\ lock' = [lock EXCEPT ![r] = Free] /\ lock[r].step # "free"
      /\ lock[r].op \in {"decide", "confirm"}
  BY DEF ApiGood, ApiTypes, Settle, Lock, LockRow
<1>2. Free \in Lock /\ Free.step = "free" /\ Free.by = "none"
  BY DEF Free, Lock, LockRow, Authors, Actions
<1>3. /\ \A row \in Row : LockFits(Free, row)
      /\ \A d \in Calls : LockKeeps(lock[r], Free, d)
  BY <1>2, McpAssumption DEF LockFits, LockKeeps
<1>4. CASE ~done
  <2>1. run' = [run EXCEPT ![r] = run[r]]
    BY <1>1, <1>4 DEF Settle
  <2>2. \A d \in Calls : Follows(run[r], run[r], d)
    BY <1>1, Untouched
  <2>3. /\ ApiGood' /\ run'[r] = run[r] /\ lock'[r] = Free
        /\ \A s \in Runs : s # r => run'[s] = run[s] /\ lock'[s] = lock[s]
        /\ \A d \in Calls : Overtaken(d)
    BY <1>1, <1>2, <1>3, <2>1, <2>2, RowStep
  <2>4. QED
    BY <1>1, <1>2, <1>4, <2>3
<1>5. CASE done
  <2> DEFINE row == Stored(run[r], lock[r])
  <2>1. run' = [run EXCEPT ![r] = row] /\ run[r].state \notin {"absent", "deleted"}
    BY <1>5 DEF Settle, Known
  <2>2. /\ row \in Row /\ row.state = "complete" /\ row.decision = lock[r].choice
        /\ row.verdict = run[r].verdict /\ row.mode = run[r].mode
        /\ row.decidedBy = IF lock[r].op = "decide" THEN lock[r].by ELSE run[r].decidedBy
    BY <1>1 DEF Stored, Row, RunRow, Lock, LockRow
  <2> HIDE DEF row
  <2>3. RowFits(row)
    BY <1>1, <2>1, <2>2 DEF RowFits, LockFits, Settled
  <2>4. ASSUME NEW d \in Calls, lock[r].op = "confirm" \/ d # lock[r].by
        PROVE  Follows(run[r], row, d)
    <3>1. CASE lock[r].op = "decide"
      BY <1>1, <2>1, <2>2, <2>4, <3>1 DEF Follows, LockFits, Quiet, Settled, Seen
    <3>2. CASE lock[r].op = "confirm"
      BY <1>1, <2>1, <2>2, <3>2 DEF Follows, LockFits, Settled, Seen
    <3>3. QED
      BY <1>1, <3>1, <3>2
  <2>5. /\ ApiGood' /\ run'[r] = row /\ lock'[r] = Free
        /\ \A s \in Runs : s # r => run'[s] = run[s] /\ lock'[s] = lock[s]
        /\ \A d \in Calls : Follows(run[r], row, d) => Overtaken(d)
    BY <1>1, <1>2, <1>3, <2>1, <2>2, <2>3, RowStep
  <2>6. QED
    BY <1>1, <1>2, <1>5, <2>1, <2>2, <2>4, <2>5
<1>6. QED
  BY <1>4, <1>5

(* And for the call that had the lock: it waits for its answer, or has     *)
(* given up on it.                                                         *)
LEMMA HolderSettled ==
    ASSUME MInv, NEW r \in Runs, NEW done \in BOOLEAN, Settle(r, done),
           NEW c \in Calls, lock[r].by = c, NEW moved \in CallRow,
           call' = [call EXCEPT ![c] = moved], Same(call[c], moved),
           \/ done /\ moved.pc = call[c].pc /\ moved.answer = call[c].answer
              /\ call[c].pc = "done"
           \/ done /\ moved.pc = "read" /\ moved.answer = "none" /\ call[c].pc = "sent"
           \/ ~done /\ moved.pc = "done" /\ moved.answer = "error" /\ call[c].pc = "sent"
    PROVE  MInv'
<1>1. /\ ApiGood' /\ sap' = sap /\ lock'[r].by = "none"
      /\ \A s \in Runs : s # r => run'[s] = run[s] /\ lock'[s] = lock[s]
      /\ run'[r].verdict = run[r].verdict /\ run'[r].mode = run[r].mode
      /\ ~done => run'[r] = run[r]
      /\ done => /\ run[r].state # "deleted" /\ run'[r].state = "complete"
                 /\ run'[r].decision = lock[r].choice
                 /\ lock[r].op = "decide" => run'[r].decidedBy = c
                 /\ lock[r].op = "confirm" => run'[r].decidedBy = run[r].decidedBy
      /\ \A d \in Calls \ {c} : Overtaken(d)
  BY SettledRow DEF MInv
<1>2. /\ WaitFits(c) /\ AuthorFits(c) /\ ToldFits(c) /\ HolderFits(c, r) /\ call[c] \in CallRow
      /\ c # "none" /\ lock[r].op \in {"decide", "confirm"} /\ call'[c] = moved
  BY McpAssumption DEF MInv, CallFits, AuthorFits, ApiGood, ApiTypes, Lock, LockRow
<1>3. /\ moved.tool = lock[r].op /\ moved.run = r /\ moved.ticked
      /\ moved.shown = call[c].shown /\ moved.choice = call[c].choice
      /\ moved.answer \notin {"declined", "recorded"} /\ moved.pc \in {"read", "done"}
      /\ moved.pc # "done" => moved.answer = "none"
  BY <1>2 DEF Same, HolderFits, WaitFits
<1>4. WaitFits(c)'
  BY <1>2, <1>3 DEF WaitFits
<1>5. ASSUME NEW s \in Runs, run'[s].decidedBy = c
      PROVE  DecidedFits(c, s)'
  <2>1. CASE s # r
    <3>1. DecidedFits(c, s)
      BY <1>1, <1>2, <1>5, <2>1 DEF AuthorFits
    <3>2. QED
      BY <1>2, <2>1, <3>1 DEF DecidedFits, HolderFits
  <2>2. CASE s = r /\ done /\ lock[r].op = "decide"
    <3>1. /\ lock[r].choice = call[c].choice /\ call[c].shown = DecisionPrompt(run[r])
      BY <1>1, <1>2, <2>2 DEF HolderFits
    <3>2. DecisionPrompt(run'[r]) = DecisionPrompt(run[r])
      BY <1>1 DEF DecisionPrompt
    <3>3. QED
      BY <1>1, <1>2, <1>3, <2>2, <3>1, <3>2 DEF DecidedFits
  <2>3. CASE s = r /\ ~(done /\ lock[r].op = "decide")
    <3>1. DecidedFits(c, r)
      BY <1>1, <1>2, <1>5, <2>3 DEF AuthorFits
    <3>2. lock[r].op = "decide" /\ call[c].pc = "done" /\ ~done
      BY <1>2, <2>3, <3>1 DEF DecidedFits, HolderFits
    <3>3. QED
      BY <3>2
  <2>4. QED
    BY <2>1, <2>2, <2>3
<1>6. ASSUME NEW s \in Runs, lock'[s].by = c
      PROVE  FALSE
  <2>1. s # r /\ HolderFits(c, s)
    BY <1>1, <1>2, <1>6 DEF AuthorFits
  <2>2. QED
    BY <1>2, <2>1 DEF HolderFits
<1>7. ASSUME NEW e \in sap', e.by = c
      PROVE  SapFits(c, e)'
  <2>1. SapFits(c, e) /\ e.run = r
    BY <1>1, <1>2, <1>3, <1>7 DEF AuthorFits, SapFits, HolderFits
  <2>2. run'[r].state \in Seen \cup {"deleted"} /\ (run[r].state = "deleted" => run'[r].state = "deleted")
    BY <1>1, <2>1 DEF SapFits, Seen
  <2>3. QED
    BY <1>1, <1>2, <1>3, <2>1, <2>2 DEF SapFits, Same
<1>8. ToldFits(c)'
  <2>1. CASE moved.pc = "read" /\ lock[r].op = "decide"
    BY <1>1, <1>2, <1>3, <2>1 DEF ToldFits, HolderFits
  <2>2. QED
    BY <1>2, <1>3, <2>1 DEF ToldFits
<1>9. AuthorFits(c)'
  BY <1>5, <1>6, <1>7 DEF AuthorFits
<1>10. QED
  BY <1>1, <1>4, <1>8, <1>9, CallMoves DEF CallFits

LEMMA ApiAnswersKeeps ==
    ASSUME MInv, NEW r \in Runs, NEW done \in BOOLEAN, ApiAnswers(r, done)
    PROVE  MInv'
<1> DEFINE c == lock[r].by
<1>1. Settle(r, done) /\ ApiGood /\ lock[r].op \in {"decide", "confirm"}
  BY DEF ApiAnswers, MInv, ApiGood, ApiTypes, Lock, LockRow
<1>2. /\ ApiGood'
      /\ \A d \in Calls : ~done \/ lock[r].op = "confirm" \/ d # c => Overtaken(d)
  BY <1>1, SettledRow
<1>3. CASE c \in Calls /\ call[c].pc = "sent"
  <2>1. WaitFits(c)
    BY <1>3 DEF MInv, CallFits
  <2>2. CASE done
    <3>1. call' = [call EXCEPT ![c].pc = "read"] /\ call[c].answer = "none"
      BY <1>3, <2>1, <2>2 DEF ApiAnswers, WaitFits
    <3> DEFINE moved == Went(call[c], "read", "none")
    <3>2. /\ moved \in CallRow /\ Same(call[c], moved) /\ moved.pc = "read" /\ moved.answer = "none"
          /\ call' = [call EXCEPT ![c] = moved]
      BY <1>3, <3>1, WentIs
    <3> HIDE DEF moved
    <3>3. QED
      BY <1>1, <1>3, <2>2, <3>2, HolderSettled
  <2>3. CASE ~done
    <3>1. call' = [call EXCEPT ![c].pc = "done", ![c].answer = "error"]
      BY <1>3, <2>3 DEF ApiAnswers, Answers
    <3> DEFINE moved == Went(call[c], "done", "error")
    <3>2. /\ moved \in CallRow /\ Same(call[c], moved) /\ moved.pc = "done" /\ moved.answer = "error"
          /\ call' = [call EXCEPT ![c] = moved]
      BY <1>3, <3>1, WentIs
    <3> HIDE DEF moved
    <3>3. QED
      BY <1>1, <1>3, <2>3, <3>2, HolderSettled
  <2>4. QED
    BY <2>2, <2>3
<1>4. CASE ~(c \in Calls /\ call[c].pc = "sent")
  <2>1. call' = call
    BY <1>4 DEF ApiAnswers
  <2>2. CASE ~done \/ lock[r].op = "confirm" \/ c \notin Calls
    BY <1>2, <2>1, <2>2, NoCallMoves
  <2>3. CASE done /\ c \in Calls
    <3>1. call[c] \in CallRow /\ call[c].pc = "done" /\ call' = [call EXCEPT ![c] = call[c]]
      BY <1>4, <2>1, <2>3 DEF MInv, CallFits, AuthorFits, HolderFits
    <3>2. Same(call[c], call[c])
      BY DEF Same
    <3>3. QED
      BY <1>1, <2>3, <3>1, <3>2, HolderSettled
  <2>4. QED
    BY <2>2, <2>3
<1>5. QED
  BY <1>3, <1>4

----------------------------------------------------------------------------
(* Each step of a tool.                                                    *)
LEMMA CallToolKeeps ==
    ASSUME MInv, NEW c \in Calls, NEW tool \in {"decide", "confirm", "cancel"},
           NEW r \in Runs, CallTool(c, tool, r)
    PROVE  MInv'
<1>1. PICK choice \in Decisions, note \in BOOLEAN :
        call' = [call EXCEPT ![c] =
                   [Idle EXCEPT !.tool = tool, !.run = r, !.choice = choice, !.note = note,
                                !.pc = IF tool = "cancel" THEN "write" ELSE "ask"]]
  BY DEF CallTool, Decisions
<1> DEFINE moved == [Idle EXCEPT !.tool = tool, !.run = r, !.choice = choice, !.note = note,
                                 !.pc = IF tool = "cancel" THEN "write" ELSE "ask"]
<1>2. moved \in CallRow
  BY IdleRow DEF CallRow
<1>3. call'[c] = moved /\ call[c].pc = "idle" /\ UNCHANGED apiVars
  BY <1>1, <1>2 DEF MInv, CallTool
<1>4. /\ moved.answer = "none" /\ moved.tool = tool /\ moved.run = r
      /\ moved.pc = IF tool = "cancel" THEN "write" ELSE "ask"
  BY DEF Idle
<1> HIDE DEF moved
<1>5. WaitFits(c)'
  BY <1>3, <1>4 DEF WaitFits
<1>6. call' = [call EXCEPT ![c] = moved]
  BY <1>1 DEF moved
<1>7. QED
  BY <1>2, <1>3, <1>4, <1>5, <1>6, QuietApi, StepBeforeWrite

LEMMA AskDecisionKeeps ==
    ASSUME MInv, NEW c \in Calls, AskDecision(c)
    PROVE  MInv'
<1> DEFINE row == run[call[c].run]
           moved == [call[c] EXCEPT !.pc = "user", !.shown = DecisionPrompt(row)]
<1>1. call[c] \in CallRow /\ call[c].tool = "decide" /\ call[c].pc = "ask" /\ UNCHANGED apiVars
  BY DEF MInv, AskDecision, At
<1>2. CASE Answers(c, "error")
  BY <1>1, <1>2, AnswerEnds
<1>3. CASE row.state = "held" /\ call' = [call EXCEPT ![c].pc = "user", ![c].shown = DecisionPrompt(row)]
  <2>1. row \in Row /\ call[c].run \in Runs
    BY <1>1 DEF MInv, CallFits, WaitFits, ApiGood, ApiTypes
  <2>2. DecisionPrompt(row) \in Prompts
    BY <2>1 DEF DecisionPrompt, Prompts, SapEffect, Row, RunRow, ErpModes
  <2>3. call' = [call EXCEPT ![c] = moved] /\ moved \in CallRow
    BY <1>1, <1>3, <2>2 DEF CallRow
  <2>4. call'[c] = moved /\ run' = run
    BY <1>1, <2>3 DEF MInv, apiVars
  <2>5. moved.answer = "none" /\ moved.tool = "decide" /\ moved.pc = "user"
        /\ moved.run = call[c].run /\ moved.shown = DecisionPrompt(row)
    BY <1>1, NotYetAuthor DEF CallRow
  <2>6. WaitFits(c)'
    BY <1>3, <2>1, <2>4, <2>5 DEF WaitFits, Seen
  <2>7. QED
    BY <1>1, <2>3, <2>5, <2>6, QuietApi, StepBeforeWrite
<1>4. QED
  BY <1>2, <1>3 DEF AskDecision, DecisionPrompt

LEMMA AskErpKeeps ==
    ASSUME MInv, NEW c \in Calls, AskErp(c)
    PROVE  MInv'
<1> DEFINE row == run[call[c].run]
           moved == [call[c] EXCEPT !.pc = "user", !.shown = ErpPrompt(row)]
<1>1. call[c] \in CallRow /\ call[c].tool = "confirm" /\ call[c].pc = "ask" /\ UNCHANGED apiVars
  BY DEF MInv, AskErp, At
<1>2. CASE Answers(c, "error")
  BY <1>1, <1>2, AnswerEnds
<1>3. CASE row.state = "complete" /\ call' = [call EXCEPT ![c].pc = "user", ![c].shown = ErpPrompt(row)]
  <2>1. row \in Row /\ call[c].run \in Runs /\ Settled(row)
    BY <1>1, <1>3 DEF MInv, CallFits, WaitFits, ApiGood, ApiTypes, RowFits
  <2>2. ErpPrompt(row) \in Prompts
    BY <2>1 DEF ErpPrompt, Prompts, Called, Row, RunRow
  <2>3. call' = [call EXCEPT ![c] = moved] /\ moved \in CallRow
    BY <1>1, <1>3, <2>2 DEF CallRow
  <2>4. call'[c] = moved /\ run' = run
    BY <1>1, <2>3 DEF MInv, apiVars
  <2>5. moved.answer = "none" /\ moved.tool = "confirm" /\ moved.pc = "user"
        /\ moved.run = call[c].run /\ moved.shown = ErpPrompt(row)
    BY <1>1, NotYetAuthor DEF CallRow
  <2>6. WaitFits(c)'
    BY <2>1, <2>4, <2>5 DEF WaitFits
  <2>7. QED
    BY <1>1, <2>3, <2>5, <2>6, QuietApi, StepBeforeWrite
<1>4. QED
  <2>1. ErpPending(row) # "none" => row.state = "complete" /\ ErpPending(row) = Called(row.decision)
    BY DEF ErpPending
  <2>2. QED
    BY <1>2, <1>3, <2>1 DEF AskErp, ErpPrompt

LEMMA UserConfirmsKeeps ==
    ASSUME MInv, NEW c \in Calls, UserConfirms(c)
    PROVE  MInv'
<1> DEFINE moved == [call[c] EXCEPT !.pc = "write", !.ticked = TRUE]
<1>1. call[c] \in CallRow /\ call[c].pc = "user" /\ UNCHANGED apiVars /\ WaitFits(c)
  BY DEF MInv, UserConfirms, CallFits
<1>2. call' = [call EXCEPT ![c] = moved] /\ moved \in CallRow
  BY <1>1 DEF UserConfirms, CallRow
<1>3. call'[c] = moved /\ run' = run
  BY <1>1, <1>2 DEF MInv, apiVars
<1>4. WaitFits(c)'
  BY <1>1, <1>3 DEF WaitFits, CallRow
<1>5. moved.pc = "write" /\ moved.answer = "none"
  BY <1>1, NotYetAuthor DEF CallRow
<1>6. QED
  BY <1>1, <1>2, <1>4, <1>5, QuietApi, StepBeforeWrite

(* The API accepts what was confirmed; the call waits or has given up.     *)
LEMMA SendsKeeps ==
    ASSUME MInv, NEW c \in Calls, NEW op \in {"decide", "confirm"}, NEW choice,
           call[c].tool = op, call[c].pc = "write", lock[call[c].run].step = "free",
           \/ op = "decide" /\ choice = call[c].choice /\ run[call[c].run].state = "held"
           \/ /\ op = "confirm" /\ choice = run[call[c].run].decision
              /\ run[call[c].run].state = "complete",
           Sends(c, op, choice)
    PROVE  MInv'
<1>0. PICK r \in Runs : r = call[c].run
  BY DEF MInv, CallFits, WaitFits
<1>1. /\ call[c] \in CallRow /\ WaitFits(c) /\ call[c].ticked /\ c # "none"
      /\ call[c].answer = "none" /\ ApiGood /\ clock' \in 0 .. MaxClock
  BY McpAssumption DEF MInv, CallFits, WaitFits, Sends, ApiGood, ApiTypes
<1>2. /\ ApiGood' /\ run' = run /\ sap' = sap
      /\ \A d \in Calls \ {c} : Overtaken(d)
      /\ lock'[r].by = c /\ lock'[r].op = op /\ lock'[r].choice = choice
      /\ \A s \in Runs : s # r => lock'[s] = lock[s]
  <2>1. choice \in Decisions \/ op = "confirm"
    BY <1>1 DEF CallRow
  <2>2. QED
    BY <1>0, <1>1, <2>1, AcceptedLock DEF Sends
<1>3. PICK moved \in CallRow :
        /\ call' = [call EXCEPT ![c] = moved] /\ call'[c] = moved /\ Same(call[c], moved)
        /\ moved.pc \in {"sent", "done"} /\ moved.answer \in {"none", "error"}
        /\ moved.pc # "done" => moved.answer = "none"
  <2>1. CASE call' = [call EXCEPT ![c].pc = "sent"]
    <3> DEFINE next == Went(call[c], "sent", "none")
    <3>1. /\ next \in CallRow /\ Same(call[c], next) /\ next.pc = "sent" /\ next.answer = "none"
          /\ call' = [call EXCEPT ![c] = next] /\ call'[c] = next
      BY <1>1, <2>1, WentIs
    <3> HIDE DEF next
    <3>2. QED
      BY <3>1
  <2>2. CASE Answers(c, "error")
    <3> DEFINE next == Went(call[c], "done", "error")
    <3>1. /\ next \in CallRow /\ Same(call[c], next) /\ next.pc = "done" /\ next.answer = "error"
          /\ call' = [call EXCEPT ![c] = next] /\ call'[c] = next
      BY <2>2, WentIs DEF Answers
    <3> HIDE DEF next
    <3>2. QED
      BY <3>1
  <2>3. QED
    BY <2>1, <2>2 DEF Sends
<1>4. moved.tool = op /\ moved.run = r /\ moved.ticked /\ moved.choice = call[c].choice
      /\ moved.shown = call[c].shown
  BY <1>0, <1>1, <1>3 DEF Same
<1>5. WaitFits(c)'
  BY <1>1, <1>3, <1>4 DEF WaitFits
<1>6. HolderFits(c, r)'
  <2>1. CASE op = "decide"
    <3>1. call[c].shown = DecisionPrompt(run[r])
      BY <1>0, <1>1, <2>1 DEF WaitFits
    <3>2. QED
      BY <1>2, <1>3, <1>4, <2>1, <3>1 DEF HolderFits, DecisionPrompt
  <2>2. CASE op = "confirm"
    <3>1. call[c].shown = ErpPrompt(run[r]) /\ choice = run[r].decision
      BY <1>0, <1>1, <2>2 DEF WaitFits
    <3>2. call[c].shown.pending = Called(choice) /\ call[c].shown.verdict = run[r].verdict
      BY <3>1 DEF ErpPrompt
    <3>3. QED
      BY <1>2, <1>3, <1>4, <2>2, <3>2 DEF HolderFits
  <2>3. QED
    BY <2>1, <2>2
<1>7. AuthorFits(c)'
  <2>1. /\ \A s \in Runs : run[s].decidedBy # c /\ lock[s].by # c
        /\ \A e \in sap : e.by # c
    BY NotYetAuthor
  <2>2. /\ \A s \in Runs : run'[s].decidedBy # c /\ (lock'[s].by = c => s = r)
        /\ \A e \in sap' : e.by # c
    BY <1>2, <2>1
  <2>3. QED
    BY <1>6, <2>2 DEF AuthorFits
<1>8. ToldFits(c)'
  BY <1>3 DEF ToldFits
<1>9. QED
  BY <1>2, <1>3, <1>5, <1>7, <1>8, CallMoves DEF CallFits

LEMMA PostKeeps ==
    ASSUME MInv, NEW c \in Calls, PostDecision(c) \/ PostConfirmation(c)
    PROVE  MInv'
<1>1. CASE Refused(c) /\ call[c].pc = "write"
  BY <1>1, AnswerEnds DEF Refused
<1>2. CASE PostDecision(c) /\ ~Refused(c)
  BY <1>2, SendsKeeps DEF PostDecision, At, DecisionRefused
<1>3. CASE PostConfirmation(c) /\ ~Refused(c)
  BY <1>3, SendsKeeps DEF PostConfirmation, At, ConfirmRefused
<1>4. QED
  BY <1>1, <1>2, <1>3 DEF PostDecision, PostConfirmation, At

LEMMA PostCancelKeeps ==
    ASSUME MInv, NEW c \in Calls, PostCancel(c)
    PROVE  MInv'
<1> DEFINE r == call[c].run
<1>1. /\ call[c] \in CallRow /\ call[c].tool = "cancel" /\ call[c].pc = "write"
      /\ WaitFits(c) /\ r \in Runs /\ call[c].answer = "none"
  BY DEF MInv, PostCancel, At, CallFits, WaitFits
<1>2. CASE Refused(c)
  BY <1>1, <1>2, AnswerEnds DEF Refused
<1>3. CASE Stopped(r) /\ Wrote(c)
  <2>1. /\ ApiGood' /\ sap' = sap /\ \A d \in Calls : Overtaken(d)
    BY <1>1, <1>3, StoppedRow DEF MInv, ApiGood, ApiTypes, Wrote, Stopped
  <2>2. PICK moved \in CallRow :
             /\ call' = [call EXCEPT ![c] = moved] /\ call'[c] = moved /\ Same(call[c], moved)
             /\ moved.pc \in {"read", "done"} /\ moved.answer \in {"none", "error"}
             /\ moved.pc # "done" => moved.answer = "none"
    <3>1. CASE call' = [call EXCEPT ![c].pc = "read"]
      <4> DEFINE next == Went(call[c], "read", "none")
      <4>1. /\ next \in CallRow /\ Same(call[c], next) /\ next.pc = "read" /\ next.answer = "none"
            /\ call' = [call EXCEPT ![c] = next] /\ call'[c] = next
        BY <1>1, <3>1, WentIs
      <4> HIDE DEF next
      <4>2. QED
        BY <4>1
    <3>2. CASE Answers(c, "error")
      <4> DEFINE next == Went(call[c], "done", "error")
      <4>1. /\ next \in CallRow /\ Same(call[c], next) /\ next.pc = "done" /\ next.answer = "error"
            /\ call' = [call EXCEPT ![c] = next] /\ call'[c] = next
        BY <3>2, WentIs DEF Answers
      <4> HIDE DEF next
      <4>2. QED
        BY <4>1
    <3>3. QED
      BY <1>3, <3>1, <3>2 DEF Wrote
  <2>3. WaitFits(c)'
    BY <1>1, <2>2 DEF WaitFits, Same
  <2>4. QED
    BY <1>1, <2>1, <2>2, <2>3, StepBeforeWrite DEF Same
<1>4. QED
  BY <1>2, <1>3 DEF PostCancel

LEMMA ReadBackKeeps ==
    ASSUME MInv, NEW c \in Calls, ReadBack(c)
    PROVE  MInv'
<1> DEFINE a == IF ~Known(call[c].run) THEN "error"
                ELSE CASE call[c].tool = "decide"  -> "recorded"
                       [] call[c].tool = "confirm" -> "applied"
                       [] call[c].tool = "cancel"  -> "cancelled"
<1>1. call[c].pc = "read" /\ Answers(c, a) /\ UNCHANGED apiVars
  BY DEF ReadBack
<1>2. call[c].tool \in {"decide", "confirm", "cancel"}
  BY <1>1 DEF MInv, CallFits, WaitFits
<1>3. a \in {"error", "recorded", "applied", "cancelled"}
      /\ (a = "recorded" => call[c].tool = "decide")
  BY <1>2
<1> HIDE DEF a
<1>4. QED
  BY <1>1, <1>3, AnswerEnds

LEMMA ScreenKeeps ==
    ASSUME MInv, NEW c \in Calls, Screen(c)
    PROVE  MInv'
<1> DEFINE moved == [Idle EXCEPT !.tool = "screen", !.pc = "record"]
<1>1. /\ moved \in CallRow /\ moved.tool = "screen" /\ moved.pc = "record"
      /\ moved.answer = "none"
  BY IdleRow DEF CallRow, Idle
<1> HIDE DEF moved
<1>2. /\ call' = [call EXCEPT ![c] = moved] /\ call[c].pc = "idle" /\ UNCHANGED apiVars
  BY DEF Screen, moved
<1>3. call'[c] = moved
  BY <1>1, <1>2 DEF MInv
<1>4. WaitFits(c)'
  BY <1>1, <1>3 DEF WaitFits
<1>5. QED
  BY <1>1, <1>2, <1>4, QuietApi, StepBeforeWrite

LEMMA PostRecordKeeps ==
    ASSUME MInv, NEW c \in Calls, PostRecord(c)
    PROVE  MInv'
<1>1. call[c].tool = "screen" /\ call[c].pc = "record" /\ UNCHANGED apiVars /\ WaitFits(c)
  BY DEF PostRecord, At, MInv, CallFits
<1>2. CASE Answers(c, "error")
  BY <1>1, <1>2, AnswerEnds
<1>3. CASE call' = [call EXCEPT ![c].pc = "start"]
  <2> DEFINE moved == Went(call[c], "start", "none")
  <2>1. /\ moved \in CallRow /\ Same(call[c], moved) /\ moved.pc = "start"
        /\ moved.answer = "none" /\ call' = [call EXCEPT ![c] = moved] /\ call'[c] = moved
    BY <1>1, <1>3, WentIs DEF WaitFits
  <2> HIDE DEF moved
  <2>2. WaitFits(c)'
    BY <1>1, <2>1 DEF WaitFits, Same
  <2>3. QED
    BY <1>1, <2>1, <2>2, QuietApi, StepBeforeWrite
<1>4. QED
  BY <1>2, <1>3 DEF PostRecord

LEMMA PostScreeningKeeps ==
    ASSUME MInv, NEW c \in Calls, PostScreening(c)
    PROVE  MInv'
<1>1. PICK r \in Runs, parent \in {"none", "open"}, mode \in ErpModes,
           wait \in Waits \cup {McpWait} :
        /\ Started(r, parent, mode)
        /\ LET limit == IF clock + wait < MaxClock THEN clock + wait ELSE MaxClock
           IN  \/ call' = [call EXCEPT ![c].run = r, ![c].pc = "poll", ![c].until = limit]
               \/ Answers(c, "error")
  BY DEF PostScreening
<1>2. /\ call[c].tool = "screen" /\ call[c].pc = "start" /\ call[c].answer = "none"
      /\ call[c] \in CallRow /\ clock' \in 0 .. MaxClock /\ clock \in 0 .. MaxClock
  BY DEF PostScreening, At, MInv, CallFits, WaitFits, ApiGood, ApiTypes
<1>3. ApiGood' /\ sap' = sap /\ \A d \in Calls : Overtaken(d)
  BY <1>1, <1>2, StartedRow DEF MInv, Started
<1>4. PICK moved \in CallRow :
        /\ call' = [call EXCEPT ![c] = moved] /\ call'[c] = moved /\ moved.tool = "screen"
        /\ moved.pc \in {"poll", "done"} /\ moved.answer \in {"none", "error"}
        /\ moved.pc # "done" => moved.answer = "none"
  <2> DEFINE limit == IF clock + wait < MaxClock THEN clock + wait ELSE MaxClock
             polls == [call[c] EXCEPT !.run = r, !.pc = "poll", !.until = limit]
  <2>1. limit \in 0 .. MaxClock
    BY <1>2, ApiAssumption, McpAssumption
  <2>2. CASE call' = [call EXCEPT ![c].run = r, ![c].pc = "poll", ![c].until = limit]
    <3> HIDE DEF limit
    <3>1. polls \in CallRow /\ polls.tool = "screen" /\ polls.pc = "poll" /\ polls.answer = "none"
      BY <1>2, <2>1 DEF CallRow
    <3>2. call' = [call EXCEPT ![c] = polls]
      BY <2>2
    <3>3. QED
      BY <3>1, <3>2 DEF MInv
  <2>3. CASE Answers(c, "error")
    <3> DEFINE next == Went(call[c], "done", "error")
    <3>1. /\ next \in CallRow /\ Same(call[c], next) /\ next.pc = "done" /\ next.answer = "error"
          /\ call' = [call EXCEPT ![c] = next] /\ call'[c] = next
      BY <2>3, WentIs DEF Answers
    <3> HIDE DEF next
    <3>2. QED
      BY <3>1, <1>2 DEF Same
  <2>4. QED
    BY <1>1, <2>2, <2>3
<1>5. WaitFits(c)'
  BY <1>4 DEF WaitFits
<1>6. QED
  BY <1>2, <1>3, <1>4, <1>5, StepBeforeWrite

----------------------------------------------------------------------------
(* The invariant holds at the start and every step keeps it.               *)
LEMMA InitInv == Init => MInv
<1> SUFFICES ASSUME Init PROVE MInv
  OBVIOUS
<1>1. /\ run = [r \in Runs |-> Absent] /\ live = {} /\ sap = {} /\ clock = 0
      /\ lock = [r \in Runs |-> Free] /\ call = [c \in Calls |-> Idle]
  BY DEF Init, ApiInit
<1>2. Absent \in Row /\ Free \in Lock /\ Idle \in CallRow
  BY IdleRow DEF Absent, Row, RunRow, ErpModes, Free, Lock, LockRow, Authors, Actions
<1>3. ApiTypes
  BY <1>1, <1>2, ApiAssumption DEF ApiTypes
<1>4. \A r \in Runs : RowFits(run[r]) /\ LockFits(lock[r], run[r])
  BY <1>1 DEF RowFits, Quiet, Absent, LockFits, Free
<1>5. ASSUME NEW c \in Calls
      PROVE  CallFits(c)
  <2>1. call[c] = Idle /\ c # "none"
    BY <1>1, McpAssumption
  <2>2. WaitFits(c) /\ ToldFits(c)
    BY <2>1 DEF WaitFits, ToldFits, Idle
  <2>3. AuthorFits(c)
    BY <1>1, <2>1 DEF AuthorFits, Absent, Free
  <2>4. QED
    BY <2>2, <2>3 DEF CallFits
<1>6. QED
  BY <1>1, <1>2, <1>3, <1>4, <1>5 DEF MInv, ApiGood

LEMMA NextInv == MInv /\ [Next]_vars => MInv'
<1> SUFFICES ASSUME MInv, [Next]_vars PROVE MInv'
  OBVIOUS
<1>1. CASE ApiNext /\ UNCHANGED call
  <2>1. ASSUME NEW r \in Runs, Act(r)
        PROVE  MInv'
    BY <1>1, <2>1, ActKeeps
  <2>2. CASE \A r \in Runs : ~Act(r)
    <3>1. ApiGood' /\ \A d \in Calls : Overtaken(d)
      BY <1>1, <2>2, ApiRows DEF MInv
    <3>2. QED
      BY <1>1, <3>1, NoCallMoves
  <2>3. QED
    BY <2>1, <2>2
<1>2. ASSUME NEW c \in Calls, McpStep(c)
      PROVE  MInv'
  <2>1. ASSUME Poll(c) \/ TimesOut(c)
        PROVE  MInv'
    BY <2>1, AnswerEnds DEF Poll, TimesOut
  <2>2. QED
    BY <1>2, <2>1, AskDecisionKeeps, AskErpKeeps, PostKeeps, PostCancelKeeps, ReadBackKeeps,
       PostRecordKeeps, PostScreeningKeeps DEF McpStep
<1>3. ASSUME NEW c \in Calls, NotDelivered(c) \/ UserDeclines(c) \/ CannotAsk(c)
      PROVE  MInv'
  BY <1>3, AnswerEnds DEF NotDelivered, UserDeclines, CannotAsk
<1>4. ASSUME NEW c \in Calls, NEW tool \in {"decide", "confirm", "cancel"}, NEW r \in Runs,
             CallTool(c, tool, r)
      PROVE  MInv'
  BY <1>4, CallToolKeeps
<1>5. CASE UNCHANGED vars
  BY <1>5, QuietApi, NoCallMoves DEF vars
<1>6. QED
  BY <1>1, <1>2, <1>3, <1>4, <1>5, ApiAnswersKeeps, ScreenKeeps, UserConfirmsKeeps DEF Next

LEMMA Invariance == Spec => []MInv
BY InitInv, NextInv, PTL DEF Spec

----------------------------------------------------------------------------
(* Type correctness, for any number of runs and calls.                     *)
THEOREM McpTypes == Spec => []TypeOK
<1>1. MInv => TypeOK
  BY DEF MInv, ApiGood, ApiTypes, TypeOK, Row, Lock
<1>2. QED
  BY <1>1, Invariance, PTL

(* What an agent got done was ticked by a user who had been shown it: a    *)
(* decision with the verdict and the effect at SAP that the run still has, *)
(* and whatever SAP was asked for.                                         *)
THEOREM UserSawWhatIsDone == Spec => []ShownIsDone
<1>1. MInv => ShownIsDone
  <2> SUFFICES ASSUME MInv, NEW c \in Calls
               PROVE  /\ \A r \in Runs : run[r].decidedBy = c =>
                           /\ call[c].run = r /\ call[c].ticked
                           /\ call[c].choice = run[r].decision
                           /\ call[c].shown = DecisionPrompt(run[r])
                      /\ \A done \in sap : done.by = c => SapFits(c, done)
    BY DEF ShownIsDone, SapFits, DecisionPrompt
  <2>1. AuthorFits(c)
    BY DEF MInv, CallFits
  <2>2. QED
    BY <2>1 DEF AuthorFits, DecidedFits
<1>2. QED
  BY <1>1, Invariance, PTL

(* Recorded is recorded by this very call; declined has done nothing, and  *)
(* is not about to.                                                        *)
THEOREM WhatIsToldIsTrue == Spec => []ToldIsTrue
<1>1. MInv => ToldIsTrue
  <2> SUFFICES ASSUME MInv, NEW c \in Calls
               PROVE  /\ call[c].answer = "recorded" /\ run[call[c].run].state # "deleted" =>
                           /\ run[call[c].run].decidedBy = c
                           /\ run[call[c].run].decision = call[c].choice
                      /\ call[c].answer = "declined" =>
                           /\ \A r \in Runs : run[r].decidedBy # c /\ lock[r].by # c
                           /\ \A done \in sap : done.by # c
    BY DEF ToldIsTrue
  <2>1. AuthorFits(c) /\ ToldFits(c)
    BY DEF MInv, CallFits
  <2>2. QED
    BY <2>1 DEF AuthorFits, ToldFits, DecidedFits, HolderFits, SapFits
<1>2. QED
  BY <1>1, Invariance, PTL
----------------------------------------------------------------------------
(* The A2A server.  First the pure parts: the least of a set of numbers,   *)
(* the order of the registry, and the matching of names.                   *)

LEMMA LeastOf ==
    ASSUME NEW T \in SUBSET Nat, T # {}
    PROVE  \E x \in T : \A y \in T : x <= y
<1> DEFINE R == {ss \in Nat \X Nat : ss[1] < ss[2]}
<1>1. IsWellFoundedOn(R, Nat)
  BY NatLessThanWellFounded DEF OpToRel
<1>2. PICK x \in T : \A y \in T : ~(<<y, x>> \in R)
  <2> HIDE DEF R
  <2> QED BY <1>1, WFMin
<1>3. \A y \in T : ~(y < x)
  BY <1>2
<1> QED
  BY <1>3

LEMMA SmallerOf ==
    ASSUME NEW m \in Int, NEW n \in Int
    PROVE  /\ Smaller(m, n) \in {m, n}
           /\ Smaller(m, n) <= m /\ Smaller(m, n) <= n
BY DEF Smaller

(* The suppliers listed up to s, s among them.                             *)
UpTo(s) == {t \in listed : t <= s}

LEMMA RankIs ==
    ASSUME listed \in SUBSET Suppliers
    PROVE  /\ IsFiniteSet(listed) /\ Cardinality(listed) \in Nat
           /\ \A s \in Suppliers : /\ IsFiniteSet(UpTo(s)) /\ Rank(s) = Cardinality(UpTo(s))
                                   /\ Rank(s) \in Nat /\ Rank(s) <= Cardinality(listed)
           /\ \A s \in listed : Rank(s) >= 1
<1>1. IsFiniteSet(listed) /\ Cardinality(listed) \in Nat
  BY FS_Subset, FS_CardinalityType, A2aAssumption DEF A2aConstants
<1>2. ASSUME NEW s \in Suppliers
      PROVE  /\ IsFiniteSet(UpTo(s)) /\ Rank(s) = Cardinality(UpTo(s))
             /\ Rank(s) \in Nat /\ Rank(s) <= Cardinality(listed)
  <2>1. UpTo(s) \in SUBSET listed /\ Rank(s) = Cardinality(UpTo(s))
    BY DEF UpTo, Rank
  <2>2. IsFiniteSet(UpTo(s)) /\ Cardinality(UpTo(s)) <= Cardinality(listed)
    BY <1>1, <2>1, FS_Subset
  <2>3. Cardinality(UpTo(s)) \in Nat
    BY <2>2, FS_CardinalityType
  <2> QED
    BY <2>1, <2>2, <2>3
<1>3. ASSUME NEW s \in listed
      PROVE  Rank(s) >= 1
  <2>1. s \in UpTo(s)
    BY A2aAssumption DEF UpTo, A2aConstants
  <2>2. Cardinality(UpTo(s)) # 0
    BY <1>2, <2>1, FS_EmptySet
  <2> QED
    BY <1>2, <2>2
<1> QED
  BY <1>1, <1>2, <1>3

(* No two suppliers share a rank.                                          *)
LEMMA RankTells ==
    ASSUME listed \in SUBSET Suppliers, NEW s \in listed, NEW t \in listed, Rank(s) = Rank(t)
    PROVE  s = t
<1>1. ASSUME NEW x \in listed, NEW y \in listed, x < y, Rank(x) = Rank(y)
      PROVE  FALSE
  <2>1. \A u \in listed : u \in Nat
    BY A2aAssumption DEF A2aConstants
  <2>2. UpTo(x) \in SUBSET UpTo(y) /\ y \in UpTo(y) /\ y \notin UpTo(x)
    BY <1>1, <2>1 DEF UpTo
  <2>3. IsFiniteSet(UpTo(y)) /\ Cardinality(UpTo(x)) = Cardinality(UpTo(y))
    BY <1>1, RankIs
  <2>4. UpTo(y) = UpTo(x)
    BY <2>2, <2>3, FS_Subset
  <2> QED
    BY <2>2, <2>4
<1>2. s \in Nat /\ t \in Nat
  BY A2aAssumption DEF A2aConstants
<1> QED
  BY <1>1, <1>2

(* Every position of the list holds a supplier, and that is its rank.      *)
LEMMA RankOnto ==
    ASSUME listed \in SUBSET Suppliers
    PROVE  /\ \A i \in 1 .. Cardinality(listed) :
                 SupplierAt(i) \in listed /\ Rank(SupplierAt(i)) = i
           /\ \A s \in listed : SupplierAt(Rank(s)) = s
<1> DEFINE C == Cardinality(listed)
           f == [s \in listed |-> Rank(s)]
<1>1. IsFiniteSet(listed) /\ C \in Nat /\ \A s \in listed : Rank(s) \in 1 .. C
  BY RankIs
<1>2. f \in Injection(listed, 1 .. C)
  BY <1>1, RankTells DEF Injection, IsInjective
<1>3. IsFiniteSet(1 .. C) /\ Cardinality(1 .. C) = C
  BY <1>1, FS_Interval
<1>4. f \in Surjection(listed, 1 .. C)
  <2> HIDE DEF f
  <2> QED
    BY <1>2, <1>3, FS_Injection
<1>5. ASSUME NEW i \in 1 .. C
      PROVE  SupplierAt(i) \in listed /\ Rank(SupplierAt(i)) = i
  <2>1. \E s \in listed : Rank(s) = i
    BY <1>4 DEF Surjection
  <2> QED
    BY <2>1 DEF SupplierAt
<1>6. ASSUME NEW s \in listed
      PROVE  SupplierAt(Rank(s)) = s
  BY <1>1, <1>5, RankTells
<1> QED
  BY <1>5, <1>6

(* Ranks only grow while others submit.                                    *)
LEMMA RankGrows ==
    ASSUME listed \in SUBSET Suppliers, listed' \in SUBSET Suppliers, listed \subseteq listed'
    PROVE  /\ Cardinality(listed) <= Cardinality(listed')
           /\ \A s \in Suppliers : Rank(s) <= Rank(s)'
<1>1. IsFiniteSet(listed')
  BY FS_Subset, A2aAssumption DEF A2aConstants
<1>2. Cardinality(listed) <= Cardinality(listed')
  BY <1>1, FS_Subset
<1>3. ASSUME NEW s \in Suppliers
      PROVE  Rank(s) <= Rank(s)'
  <2> DEFINE U == {t \in listed : t <= s}
             V == {t \in listed' : t <= s}
  <2>1. V \in SUBSET listed' /\ U \in SUBSET V
    OBVIOUS
  <2>2. IsFiniteSet(V)
    BY <1>1, <2>1, FS_Subset
  <2>3. Cardinality(U) <= Cardinality(V)
    BY <2>1, <2>2, FS_Subset
  <2> QED
    BY <2>3 DEF Rank
<1> QED
  BY <1>2, <1>3

(* The oldest entries are dropped up to the first that is not forgotten.   *)
LEMMA RecentIs ==
    ASSUME NEW times \in Seq(Nat)
    PROVE  \E k \in 0 .. Len(times) :
              /\ Recent(times) \in Seq(Nat) /\ Len(Recent(times)) = Len(times) - k
              /\ \A i \in 1 .. Len(times) - k : Recent(times)[i] = times[k + i]
              /\ \A i \in 1 .. k : Forgotten(times[i])
<1> DEFINE stay == {i \in DOMAIN times : ~Forgotten(times[i])}
<1>1. CASE stay = {}
  <2>1. Recent(times) = <<>> /\ \A i \in 1 .. Len(times) : Forgotten(times[i])
    BY <1>1 DEF Recent
  <2>2. Len(times) \in 0 .. Len(times)
    OBVIOUS
  <2> QED
    BY <2>1, <2>2
<1>2. CASE stay # {}
  <2>1. stay \in SUBSET Nat
    OBVIOUS
  <2>2. \E m \in stay : \A j \in stay : m <= j
    BY <1>2, <2>1, LeastOf
  <2> DEFINE least == CHOOSE m \in stay : \A j \in stay : m <= j
  <2>3. least \in stay /\ \A j \in stay : least <= j
    BY <2>2
  <2>4. Recent(times) = SubSeq(times, least, Len(times))
    BY <1>2 DEF Recent
  <2> HIDE DEF least
  <2> DEFINE k == least - 1
  <2>5. k \in 0 .. Len(times) /\ least = k + 1 /\ least \in 1 .. Len(times)
    BY <2>3
  <2>6. \A i \in 1 .. k : i \in DOMAIN times /\ i \notin stay
    BY <2>3, <2>5
  <2>7. \A i \in 1 .. k : Forgotten(times[i])
    BY <2>6
  <2> HIDE DEF k, stay
  <2>8. /\ Recent(times) \in Seq(Nat) /\ Len(Recent(times)) = Len(times) - k
        /\ \A i \in 1 .. Len(times) - k : Recent(times)[i] = times[k + i]
    <3>1. Recent(times) = SubSeq(times, k + 1, Len(times)) /\ k \in Nat /\ k < Len(times)
      BY <2>4, <2>5
    <3>2. Recent(times) = [i \in 1 .. Len(times) - k |-> times[k + i]]
      BY <3>1, SubSeqProperties
    <3> QED
      BY <3>1, <3>2
  <2> QED
    BY <2>5, <2>7, <2>8
<1> QED
  BY <1>1, <1>2

(* A page adds what comes next: whoever was not beyond it has been read.   *)
Pages == Seq(Suppliers)

LEMMA PageReads ==
    ASSUME listed \in SUBSET Suppliers, NEW pages \in Pages,
           Len(pages) <= Cardinality(listed)
    PROVE  LET page == Page(Len(pages)) IN
           /\ pages \o page \in Pages
           /\ Len(pages \o page) <= Cardinality(listed)
           /\ LastPage(page) => Len(pages \o page) = Cardinality(listed)
           /\ \A i \in DOMAIN pages :
                 i \in DOMAIN (pages \o page) /\ (pages \o page)[i] = pages[i]
           /\ \A s \in listed : Rank(s) > Len(pages) =>
                 \/ \E i \in DOMAIN (pages \o page) : (pages \o page)[i] = s
                 \/ Rank(s) > Len(pages \o page)
<1> DEFINE C    == Cardinality(listed)
           off  == Len(pages)
           m    == Smaller(PageSize, C - off)
           page == [i \in 1 .. m |-> SupplierAt(off + i)]
<1>1. C \in Nat /\ off \in Nat /\ off <= C /\ PageSize \in Nat
  BY RankIs, A2aAssumption DEF A2aConstants, Pages
<1>2. m \in Nat /\ off + m <= C /\ (m < PageSize => off + m = C)
  BY <1>1, SmallerOf
<1>3. Page(off) = page
  BY DEF Page
<1> HIDE DEF C, m
<1>4. \A i \in 1 .. m : SupplierAt(off + i) \in Suppliers
  BY <1>1, <1>2, RankOnto DEF C
<1>5. page \in Pages /\ Len(page) = m /\ \A i \in 1 .. m : page[i] = SupplierAt(off + i)
  BY <1>2, <1>4 DEF Pages
<1> HIDE DEF page
<1>6. pages \o page \in Pages /\ Len(pages \o page) = off + m
  BY <1>5, ConcatProperties DEF Pages
<1>7. /\ \A i \in DOMAIN pages :
            i \in DOMAIN (pages \o page) /\ (pages \o page)[i] = pages[i]
      /\ \A i \in 1 .. m : (pages \o page)[off + i] = page[i]
  BY <1>1, <1>2, <1>5, <1>6, ConcatProperties DEF Pages
<1>8. LastPage(page) => off + m = C
  BY <1>2, <1>5 DEF LastPage
<1>9. ASSUME NEW s \in listed, Rank(s) > off
      PROVE  \/ \E i \in DOMAIN (pages \o page) : (pages \o page)[i] = s
             \/ Rank(s) > off + m
  <2>1. Rank(s) \in Nat
    BY RankIs
  <2>2. CASE Rank(s) <= off + m
    <3>1. Rank(s) - off \in 1 .. m /\ off + (Rank(s) - off) = Rank(s)
      BY <1>1, <1>2, <1>9, <2>1, <2>2
    <3>2. page[Rank(s) - off] = s
      BY <1>5, <3>1, RankOnto
    <3>3. (pages \o page)[Rank(s)] = s
      BY <1>7, <3>1, <3>2
    <3>4. Rank(s) \in DOMAIN (pages \o page)
      BY <1>1, <1>2, <1>6, <1>9, <2>1, <2>2 DEF Pages
    <3> QED
      BY <3>3, <3>4
  <2> QED
    BY <1>1, <1>2, <2>1, <2>2
<1> QED
  BY <1>2, <1>3, <1>6, <1>7, <1>8, <1>9 DEF C

----------------------------------------------------------------------------
(* The invariant of the A2A server.                                        *)

(* The window is the end of the history; what went before is forgotten.    *)
WindowFits ==
    /\ Len(window) <= Len(admitted)
    /\ \A i \in DOMAIN window : window[i] = admitted[Len(admitted) - Len(window) + i]
    /\ \A i \in 1 .. Len(admitted) - Len(window) : clock - admitted[i] > Hour

Budgeted ==
    \A i \in DOMAIN admitted :
        i + Budget \in DOMAIN admitted => admitted[i + Budget] - admitted[i] > Hour

(* While x reads the list: whoever was there to begin with has been read   *)
(* or is still to come.                                                    *)
ListFits(x) ==
    x.pc = "list" =>
        /\ x.name \in Names /\ x.choice = NoSupplier
        /\ x.before \subseteq listed
        /\ Len(x.pages) <= Cardinality(listed)
        /\ \A s \in x.before :
              \/ \E i \in DOMAIN x.pages : x.pages[i] = s
              \/ Rank(s) > Len(x.pages)

(* Supplier s is chosen for name n among the suppliers of B.               *)
Wins(n, s, B) ==
    /\ Likeness[n][s] >= Cutoff
    /\ \A t \in B \ {s} :
          \/ Likeness[n][t] < Cutoff
          \/ Likeness[n][s] >= 85 /\ Likeness[n][t] <= Likeness[n][s] - 10
          \/ Likeness[n][s] = 100 /\ Likeness[n][t] < 100

Stands(x) == x.name # "byId" /\ x.choice # NoSupplier => Wins(x.name, x.choice, x.before)

ChatsFit ==
    /\ listed \in SUBSET Suppliers
    /\ chat \in [Chats -> ChatRow]
    /\ \A c \in Chats : ListFits(chat[c]) /\ Stands(chat[c])

A2aInv == A2aTypeOK /\ WindowFits /\ Budgeted /\ ChatsFit

(* What matches among all that were listed wins among them.                *)
LEMMA MatchWins ==
    ASSUME NEW n \in Names, NEW pages \in Pages, NEW i \in DOMAIN pages, Matches(n, pages, i),
           NEW B, \A s \in B : \E j \in DOMAIN pages : pages[j] = s
    PROVE  Wins(n, pages[i], B)
<1>1. /\ pages[i] \in Suppliers
      /\ \A s \in Suppliers : Likeness[n][s] \in 0 .. 100
  BY A2aAssumption DEF A2aConstants, Pages
<1>2. Likeness[n][pages[i]] >= Cutoff
  BY DEF Matches, Candidates, Score
<1>3. ASSUME NEW t \in B \ {pages[i]}, Likeness[n][t] >= Cutoff
      PROVE  \/ Likeness[n][pages[i]] >= 85 /\ Likeness[n][t] <= Likeness[n][pages[i]] - 10
             \/ Likeness[n][pages[i]] = 100 /\ Likeness[n][t] < 100
  <2>1. PICK j \in DOMAIN pages : pages[j] = t
    OBVIOUS
  <2>2. j \in Candidates(n, pages) /\ j # i
    BY <1>3, <2>1 DEF Candidates, Score
  <2>3. ClearlyWins(n, pages, i)
    BY <2>2 DEF Matches
  <2>4. t \in Suppliers
    BY <2>1 DEF Pages
  <2>5. Score(n, pages, j) \in {Score(n, pages, k) : k \in Candidates(n, pages) \ {i}}
    BY <2>2
  <2>6. \/ Score(n, pages, i) = 100 /\ Score(n, pages, j) < 100
        \/ Score(n, pages, i) >= 85 /\ WellAhead(Score(n, pages, i), Score(n, pages, j))
    BY <2>3, <2>5 DEF ClearlyWins
  <2>7. /\ Score(n, pages, i) = Likeness[n][pages[i]] /\ Score(n, pages, j) = Likeness[n][t]
        /\ Likeness[n][pages[i]] \in Int /\ Likeness[n][t] \in Int
    BY <1>1, <2>1, <2>4 DEF Score
  <2> QED
    BY <2>6, <2>7 DEF WellAhead
<1>4. \A t \in B : Likeness[n][t] \in 0 .. 100
  BY <1>1 DEF Pages
<1> QED
  BY <1>2, <1>3, <1>4 DEF Wins, Cutoff

(* A step that gives chat c the row x.                                     *)
LEMMA ChatMove ==
    ASSUME ChatsFit, NEW c \in Chats, NEW x \in ChatRow, ListFits(x), Stands(x),
           chat' = [chat EXCEPT ![c] = x], UNCHANGED listed
    PROVE  ChatsFit'
<1>1. chat' \in [Chats -> ChatRow] /\ \A d \in Chats : chat'[d] = x \/ chat'[d] = chat[d]
  BY DEF ChatsFit
<1>2. \A d \in Chats : ListFits(chat'[d]) /\ Stands(chat'[d])
  BY <1>1 DEF ChatsFit
<1>3. \A d \in Chats : ListFits(chat[d])' /\ Stands(chat[d])'
  BY <1>2 DEF ListFits, Stands, Rank
<1> QED
  BY <1>1, <1>3 DEF ChatsFit

(* A reply, or any step past the list that keeps the choice.               *)
LEMMA PastList ==
    ASSUME ChatsFit, NEW c \in Chats, NEW x \in ChatRow, x.pc # "list",
           x.name = chat[c].name, x.choice = chat[c].choice, x.before = chat[c].before,
           chat' = [chat EXCEPT ![c] = x], UNCHANGED listed
    PROVE  ChatsFit'
<1>1. ListFits(x) /\ Stands(x)
  BY DEF ChatsFit, ListFits, Stands
<1> QED
  BY <1>1, ChatMove

LEMMA Replied ==
    ASSUME ChatsFit, NEW c \in Chats, UNCHANGED listed,
           NEW reply \in {"error", "which", "unknown", "limited", "later", "verdict"},
           Replies(c, reply)
    PROVE  ChatsFit'
<1> DEFINE y == [chat[c] EXCEPT !.pc = "done"]
           x == [y EXCEPT !.reply = reply]
<1>1. chat[c] \in ChatRow
  BY DEF ChatsFit
<1>a. /\ y \in ChatRow /\ y.pc = "done"
      /\ y.name = chat[c].name /\ y.choice = chat[c].choice /\ y.before = chat[c].before
  BY <1>1 DEF ChatRow
<1>2. /\ x \in ChatRow /\ x.pc = "done"
      /\ x.name = chat[c].name /\ x.choice = chat[c].choice /\ x.before = chat[c].before
  <2> HIDE DEF y
  <2> QED
    BY <1>a DEF ChatRow
<1>3. chat' = [chat EXCEPT ![c] = x]
  BY <1>1 DEF Replies, ChatsFit
<1> HIDE DEF x
<1> QED
  BY <1>2, <1>3, PastList

----------------------------------------------------------------------------
(* The steps of a chat.                                                    *)

(* What a chat knows when it begins fits its row.                          *)
LEMMA BegunRow ==
    ASSUME NEW skill \in {"none", "screen", "investigate", "status"},
           NEW n \in Names \cup {"byId"}, NEW pc \in {"idle", "list", "start", "read"},
           NEW before \in SUBSET Suppliers, NEW choice \in Suppliers \cup {NoSupplier},
           NEW r \in Runs \cup {0}
    PROVE  Begun(skill, n, pc, before, choice, r) \in ChatRow
<1>1. 0 \in 0 .. MaxClock /\ <<>> \in Seq(Suppliers)
  BY ApiAssumption, EmptySeq
<1> QED
  BY <1>1 DEF Begun, ChatRow

(* A chat that begins: with a name to look up, an id, or a run.            *)
LEMMA AskKeeps ==
    ASSUME ChatsFit, NEW c \in Chats,
           \/ \E skill \in {"screen", "investigate"} : Ask(c, skill)
           \/ AskStatus(c) \/ Sent(c)
    PROVE  ChatsFit'
<1>0. listed \in SUBSET Suppliers
  BY DEF ChatsFit
<1>1. ASSUME NEW skill \in {"screen", "investigate"}, NEW n \in Names, listed' = listed,
             chat' = [chat EXCEPT ![c] = Begun(skill, n, "list", listed, NoSupplier, 0)]
      PROVE  ChatsFit'
  <2> DEFINE x == Begun(skill, n, "list", listed, NoSupplier, 0)
  <2>1. x \in ChatRow
    BY <1>0, BegunRow
  <2>2. \A s \in listed : Rank(s) > 0
    BY <1>0, RankIs
  <2>3. Cardinality(listed) >= 0
    BY <1>0, RankIs
  <2>4. ListFits(x) /\ Stands(x)
    BY <2>2, <2>3 DEF ListFits, Stands, Begun
  <2> QED
    BY <1>1, <2>1, <2>4, ChatMove
<1>2. ASSUME NEW skill, NEW pc \in {"idle", "start", "read"}, NEW s, NEW r, listed' = listed,
             Begun(skill, "byId", pc, {}, s, r) \in ChatRow,
             chat' = [chat EXCEPT ![c] = Begun(skill, "byId", pc, {}, s, r)]
      PROVE  ChatsFit'
  <2> DEFINE x == Begun(skill, "byId", pc, {}, s, r)
  <2>1. ListFits(x) /\ Stands(x)
    BY DEF ListFits, Stands, Begun
  <2> QED
    BY <1>2, <2>1, ChatMove
<1>3. ASSUME NEW skill \in {"screen", "investigate"}, Ask(c, skill)
      PROVE  ChatsFit'
  <2>1. listed' = listed
    BY <1>3 DEF Ask
  <2>2. CASE \E n \in Names :
                chat' = [chat EXCEPT ![c] = Begun(skill, n, "list", listed, NoSupplier, 0)]
    BY <1>1, <2>1, <2>2
  <2>3. CASE \E s \in Suppliers :
                chat' = [chat EXCEPT ![c] = Begun(skill, "byId", "start", {}, s, 0)]
    <3>1. PICK s \in Suppliers :
             chat' = [chat EXCEPT ![c] = Begun(skill, "byId", "start", {}, s, 0)]
      BY <2>3
    <3>2. Begun(skill, "byId", "start", {}, s, 0) \in ChatRow
      BY BegunRow
    <3> QED
      BY <1>2, <2>1, <3>1, <3>2
  <2> QED
    BY <1>3, <2>2, <2>3 DEF Ask
<1>4. CASE AskStatus(c)
  <2>1. listed' = listed
    BY <1>4 DEF AskStatus
  <2>2. PICK r \in Runs :
           chat' = [chat EXCEPT ![c] = Begun("status", "byId", "read", {}, NoSupplier, r)]
    BY <1>4 DEF AskStatus
  <2>3. Begun("status", "byId", "read", {}, NoSupplier, r) \in ChatRow
    BY BegunRow
  <2> QED
    BY <1>2, <2>1, <2>2, <2>3
<1>5. CASE Sent(c)
  <2>1. Begun("none", "byId", "idle", {}, NoSupplier, 0) \in ChatRow
    BY BegunRow
  <2> QED
    BY <1>2, <1>5, <2>1 DEF Sent, Silent
<1> QED
  BY <1>3, <1>4, <1>5

(* One more page, and on the last one the match.                           *)
LEMMA ListPageKeeps ==
    ASSUME ChatsFit, NEW c \in Chats, ListPage(c)
    PROVE  ChatsFit'
<1> DEFINE n     == chat[c].name
           page  == Page(Len(chat[c].pages))
           pages == chat[c].pages \o page
<1>1. /\ chat[c] \in ChatRow /\ chat[c].pc = "list" /\ listed' = listed
      /\ listed \in SUBSET Suppliers /\ ListFits(chat[c])
  BY DEF ListPage, ChatsFit
<1>2. chat[c].pages \in Pages
  BY <1>1 DEF ChatRow, Pages
<1>3. /\ n \in Names /\ chat[c].choice = NoSupplier /\ chat[c].before \subseteq listed
      /\ Len(chat[c].pages) <= Cardinality(listed)
      /\ \A s \in chat[c].before :
            (\E i \in DOMAIN chat[c].pages : chat[c].pages[i] = s) \/ Rank(s) > Len(chat[c].pages)
  BY <1>1 DEF ListFits
<1>4. /\ pages \in Pages /\ Len(pages) <= Cardinality(listed)
      /\ LastPage(page) => Len(pages) = Cardinality(listed)
      /\ \A i \in DOMAIN chat[c].pages : i \in DOMAIN pages /\ pages[i] = chat[c].pages[i]
      /\ \A s \in listed : Rank(s) > Len(chat[c].pages) =>
            (\E i \in DOMAIN pages : pages[i] = s) \/ Rank(s) > Len(pages)
  BY <1>1, <1>2, <1>3, PageReads
<1>6. \A s \in chat[c].before : (\E i \in DOMAIN pages : pages[i] = s) \/ Rank(s) > Len(pages)
  <2> HIDE DEF pages
  <2> QED
    BY <1>3, <1>4
<1> HIDE DEF page, pages
<1>7. CASE ~LastPage(page)
  <2> DEFINE x == [chat[c] EXCEPT !.pages = pages]
  <2>1. x \in ChatRow
    BY <1>1, <1>4 DEF ChatRow, Pages
  <2>2. ListFits(x) /\ Stands(x)
    BY <1>1, <1>3, <1>4, <1>6 DEF ListFits, Stands, ChatRow
  <2>3. chat' = [chat EXCEPT ![c] = x]
    BY <1>1, <1>7 DEF ListPage, ChatsFit, page, pages
  <2> HIDE DEF x
  <2> QED
    BY <1>1, <2>1, <2>2, <2>3, ChatMove
<1>8. ASSUME NEW i \in DOMAIN pages, Matches(n, pages, i), LastPage(page),
             chat' = [chat EXCEPT ![c].pc = "start", ![c].pages = <<>>, ![c].choice = pages[i]]
      PROVE  ChatsFit'
  <2> DEFINE y == [chat[c] EXCEPT !.pc = "start"]
             z == [y EXCEPT !.pages = <<>>]
             x == [z EXCEPT !.choice = pages[i]]
  <2>1. pages[i] \in Suppliers
    BY <1>4 DEF Pages
  <2>2. y \in ChatRow /\ y.pc = "start" /\ y.name = n /\ y.before = chat[c].before
    BY <1>1 DEF ChatRow
  <2>3. z \in ChatRow /\ z.pc = "start" /\ z.name = n /\ z.before = chat[c].before
    <3> HIDE DEF y
    <3> QED BY <2>2, EmptySeq DEF ChatRow
  <2>4. /\ x \in ChatRow /\ x.pc = "start" /\ x.name = n /\ x.before = chat[c].before
        /\ x.choice = pages[i]
    <3> HIDE DEF z
    <3> QED BY <2>1, <2>3 DEF ChatRow
  <2>5. chat' = [chat EXCEPT ![c] = x]
    BY <1>1, <1>8 DEF ChatsFit
  <2> HIDE DEF x
  <2>6. \A s \in chat[c].before : \E j \in DOMAIN pages : pages[j] = s
    <3>1. \A s \in chat[c].before : s \in listed /\ Rank(s) \in Nat /\ Rank(s) <= Cardinality(listed)
      BY <1>1, <1>3, RankIs
    <3>2. Len(pages) = Cardinality(listed) /\ Cardinality(listed) \in Nat
      BY <1>1, <1>4, <1>8, RankIs
    <3> QED
      BY <1>6, <3>1, <3>2
  <2>7. Wins(n, pages[i], chat[c].before)
    BY <1>3, <1>4, <1>8, <2>6, MatchWins
  <2> QED
    BY <1>1, <2>4, <2>5, <2>7, ChatMove DEF ListFits, Stands
<1>9. CASE \E reply \in {"unknown", "which"} : Replies(c, reply)
  BY <1>1, <1>9, Replied
<1> QED
  BY <1>7, <1>8, <1>9 DEF ListPage, page, pages

(* Others submit while the list is being read.                             *)
LEMMA SubmitKeeps ==
    ASSUME ChatsFit, NEW s \in Suppliers, Submit(s)
    PROVE  ChatsFit'
<1>1. /\ chat' = chat /\ listed \in SUBSET Suppliers /\ listed' \in SUBSET Suppliers
      /\ listed \subseteq listed'
  BY DEF Submit, ChatsFit
<1>2. /\ Cardinality(listed) <= Cardinality(listed')
      /\ \A u \in Suppliers : Rank(u) <= Rank(u)' /\ Rank(u) \in Nat
      /\ Cardinality(listed) \in Nat
  BY <1>1, RankGrows, RankIs
<1>3. Cardinality(listed') \in Nat
  BY <1>1, FS_Subset, FS_CardinalityType, A2aAssumption DEF A2aConstants
<1>4. \A u \in Suppliers : Rank(u)' \in Nat
  <2> SUFFICES ASSUME NEW u \in Suppliers PROVE Cardinality({v \in listed' : v <= u}) \in Nat
    BY DEF Rank
  <2>1. IsFiniteSet(listed')
    BY <1>1, FS_Subset, A2aAssumption DEF A2aConstants
  <2> QED
    BY <2>1, FS_Subset, FS_CardinalityType
<1>5. ASSUME NEW c \in Chats
      PROVE  ListFits(chat[c])'
  <2>1. ListFits(chat[c]) /\ chat[c] \in ChatRow
    BY DEF ChatsFit
  <2>2. chat[c].pages \in Seq(Suppliers) /\ Len(chat[c].pages) \in Nat
    BY <2>1 DEF ChatRow
  <2> DEFINE C == Cardinality(listed)
             D == Cardinality(listed')
  <2>3. C \in Nat /\ D \in Nat /\ C <= D
    BY <1>2, <1>3
  <2> HIDE DEF C, D
  <2> SUFFICES ASSUME chat[c].pc = "list"
               PROVE  /\ chat[c].name \in Names /\ chat[c].choice = NoSupplier
                      /\ chat[c].before \subseteq listed'
                      /\ Len(chat[c].pages) <= D
                      /\ \A u \in chat[c].before :
                            \/ \E i \in DOMAIN chat[c].pages : chat[c].pages[i] = u
                            \/ Rank(u)' > Len(chat[c].pages)
    BY <1>1 DEF ListFits, D
  <2>4. Len(chat[c].pages) <= D
    BY <2>1, <2>2, <2>3 DEF ListFits, C
  <2>5. ASSUME NEW u \in chat[c].before
        PROVE  \/ \E i \in DOMAIN chat[c].pages : chat[c].pages[i] = u
               \/ Rank(u)' > Len(chat[c].pages)
    <3>1. u \in Suppliers
      BY <1>1, <2>1 DEF ListFits
    <3>2. Rank(u) <= Rank(u)' /\ Rank(u) \in Nat /\ Rank(u)' \in Nat
      BY <1>2, <1>4, <3>1
    <3>3. \/ \E i \in DOMAIN chat[c].pages : chat[c].pages[i] = u
          \/ Rank(u) > Len(chat[c].pages)
      BY <2>1 DEF ListFits
    <3> QED
      BY <2>2, <3>2, <3>3
  <2> QED
    BY <1>1, <2>1, <2>4, <2>5 DEF ListFits
<1>6. \A c \in Chats : Stands(chat[c])'
  BY <1>1 DEF ChatsFit, Stands
<1> QED
  BY <1>1, <1>5, <1>6 DEF ChatsFit

(* The steps past the list.                                                *)
LEMMA RestKeeps ==
    ASSUME ChatsFit, clock \in 0 .. MaxClock, NEW c \in Chats,
           \/ StartScreening(c) \/ Investigate(c) \/ StartAgentRun(c) \/ SleepOn(c)
           \/ PollBatch(c) \/ ReplyLater(c) \/ ReplyVerdict(c) \/ Unreachable(c)
    PROVE  ChatsFit'
<1>0. chat[c] \in ChatRow /\ chat \in [Chats -> ChatRow]
  BY DEF ChatsFit
<1>1. listed' = listed
  BY DEF StartScreening, Investigate, StartAgentRun, SleepOn, PollBatch, ReplyLater,
         ReplyVerdict, Unreachable
<1>2. CASE \E reply \in {"error", "limited", "later", "verdict"} : Replies(c, reply)
  BY <1>1, <1>2, Replied
<1>3. ASSUME NEW r \in Runs,
             chat' = [chat EXCEPT ![c].pc = "poll", ![c].run = r,
                                  ![c].until = Smaller(clock + ReplyBudget, MaxClock)]
      PROVE  ChatsFit'
  <2> DEFINE w == [chat[c] EXCEPT !.pc = "poll"]
             y == [w EXCEPT !.run = r]
             x == [y EXCEPT !.until = Smaller(clock + ReplyBudget, MaxClock)]
             Kept(v) == /\ v \in ChatRow /\ v.pc # "list" /\ v.name = chat[c].name
                        /\ v.choice = chat[c].choice /\ v.before = chat[c].before
  <2>1. Kept(w)
    BY <1>0 DEF ChatRow
  <2>2. Kept(y)
    <3> HIDE DEF w
    <3> QED BY <2>1 DEF ChatRow
  <2>3. Smaller(clock + ReplyBudget, MaxClock) \in 0 .. MaxClock
    BY ApiAssumption, A2aAssumption DEF A2aConstants, Smaller
  <2>4. Kept(x)
    <3> HIDE DEF y
    <3> QED BY <2>2, <2>3 DEF ChatRow
  <2>5. chat' = [chat EXCEPT ![c] = x]
    BY <1>0, <1>3
  <2> HIDE DEF x
  <2> QED
    BY <1>1, <2>4, <2>5, PastList
<1>4. ASSUME NEW pc \in {"post", "sleep", "poll", "read"}, chat' = [chat EXCEPT ![c].pc = pc]
      PROVE  ChatsFit'
  <2> DEFINE x == [chat[c] EXCEPT !.pc = pc]
  <2>1. /\ x \in ChatRow /\ x.pc # "list" /\ x.name = chat[c].name
        /\ x.choice = chat[c].choice /\ x.before = chat[c].before
    BY <1>0 DEF ChatRow
  <2>2. chat' = [chat EXCEPT ![c] = x]
    BY <1>0, <1>4
  <2> HIDE DEF x
  <2> QED
    BY <1>1, <2>1, <2>2, PastList
<1>5. ASSUME NEW r \in Runs,
             chat' = [chat EXCEPT ![c].pc = "done", ![c].run = r, ![c].reply = "started"]
      PROVE  ChatsFit'
  <2> DEFINE w == [chat[c] EXCEPT !.pc = "done"]
             y == [w EXCEPT !.run = r]
             x == [y EXCEPT !.reply = "started"]
             Kept(v) == /\ v \in ChatRow /\ v.pc # "list" /\ v.name = chat[c].name
                        /\ v.choice = chat[c].choice /\ v.before = chat[c].before
  <2>1. Kept(w)
    BY <1>0 DEF ChatRow
  <2>2. Kept(y)
    <3> HIDE DEF w
    <3> QED BY <2>1 DEF ChatRow
  <2>3. Kept(x)
    <3> HIDE DEF y
    <3> QED BY <2>2 DEF ChatRow
  <2>4. chat' = [chat EXCEPT ![c] = x]
    BY <1>0, <1>5
  <2> HIDE DEF x
  <2> QED
    BY <1>1, <2>3, <2>4, PastList
<1>7. CASE StartScreening(c)
  BY <1>2, <1>3, <1>7 DEF StartScreening
<1>8. CASE Investigate(c)
  BY <1>2, <1>4, <1>8 DEF Investigate
<1>9. CASE StartAgentRun(c)
  BY <1>2, <1>5, <1>9 DEF StartAgentRun
<1>10. CASE SleepOn(c) \/ PollBatch(c)
  BY <1>4, <1>10 DEF SleepOn, PollBatch
<1>11. CASE ReplyLater(c) \/ ReplyVerdict(c) \/ Unreachable(c)
  BY <1>2, <1>11 DEF ReplyLater, ReplyVerdict, Unreachable
<1> QED
  BY <1>7, <1>8, <1>9, <1>10, <1>11

(* The rows, the locks and the clock of the API keep their shape.          *)
ApiRow  == RunRow({"none", "cockpit"})
ApiLock == LockRow({"none", "cockpit"})

ApiShapes ==
    /\ run \in [Runs -> ApiRow] /\ live \in SUBSET Runs /\ lock \in [Runs -> ApiLock]
    /\ sap \in SUBSET SapCall({"none", "cockpit"})

LEMMA StartedFits ==
    ASSUME ApiShapes, NEW r \in Runs, NEW parent \in {"none", "open"},
           NEW mode \in ErpModes, Started(r, parent, mode)
    PROVE  ApiShapes'
<1> DEFINE row == [Absent EXCEPT !.state = "working", !.parent = parent, !.mode = mode]
<1>1. row \in ApiRow
  <2> DEFINE one == [Absent EXCEPT !.state = "working"]
             two == [one EXCEPT !.parent = parent]
  <2>1. one \in ApiRow
    BY DEF Absent, ApiRow, RunRow, ErpModes, Actions
  <2> HIDE DEF one
  <2>2. two \in ApiRow
    BY <2>1 DEF ApiRow, RunRow
  <2> HIDE DEF two
  <2>3. [two EXCEPT !.mode = mode] \in ApiRow
    BY <2>2 DEF ApiRow, RunRow
  <2> QED
    BY <2>3 DEF one, two
<1>2. run' = [run EXCEPT ![r] = row]
  BY DEF Started
<1> HIDE DEF row
<1> QED
  BY <1>1, <1>2 DEF Started, ApiShapes

LEMMA AcceptedFits ==
    ASSUME ApiShapes, NEW r \in Runs, NEW op \in {"decide", "confirm"},
           NEW choice \in Decisions \cup {"none"}, Accepted(r, op, choice, "cockpit")
    PROVE  ApiShapes'
<1>1. [step |-> "accepted", op |-> op, by |-> "cockpit", choice |-> choice, act |-> "none"]
        \in ApiLock
  BY DEF ApiLock, LockRow, Actions
<1> QED
  BY <1>1 DEF Accepted, ApiShapes

LEMMA ActFits ==
    ASSUME ApiShapes, NEW r \in Runs, Act(r)
    PROVE  ApiShapes'
<1>1. lock[r] \in ApiLock /\ run' = run /\ live' = live
  BY DEF ApiShapes, Act
<1>2. [lock[r] EXCEPT !.step = "acted"] \in ApiLock
  BY <1>1 DEF ApiLock, LockRow
<1>3. \A a \in Actions : [lock[r] EXCEPT !.step = "acted", !.act = a] \in ApiLock
  BY <1>1 DEF ApiLock, LockRow
<1>4. [run |-> r, by |-> lock[r].by, status |-> Called(lock[r].choice)]
         \in SapCall({"none", "cockpit"})
  BY <1>1 DEF SapCall, ApiLock, LockRow, Called
<1>5. {Called(lock[r].choice), "failed"} \subseteq Actions
  BY DEF Called, Actions
<1>6. lock' \in [Runs -> ApiLock]
  <2>1. CASE lock' = [lock EXCEPT ![r].step = "acted"]
    BY <1>2, <2>1 DEF ApiShapes
  <2>2. ASSUME NEW a \in Actions, lock' = [lock EXCEPT ![r].step = "acted", ![r].act = a]
        PROVE  lock' \in [Runs -> ApiLock]
    <3>1. lock' = [lock EXCEPT ![r] = [lock[r] EXCEPT !.step = "acted", !.act = a]]
      BY <2>2
    <3> QED
      BY <1>3, <3>1 DEF ApiShapes
  <2> QED
    BY <1>5, <2>1, <2>2 DEF Act
<1> QED
  BY <1>1, <1>4, <1>6 DEF Act, ApiShapes

LEMMA SettleFits ==
    ASSUME ApiShapes, NEW r \in Runs, NEW done \in BOOLEAN, Settle(r, done)
    PROVE  ApiShapes'
<1>1. lock[r] \in ApiLock /\ run[r] \in ApiRow
  BY DEF ApiShapes
<1>2. Stored(run[r], lock[r]) \in ApiRow
  BY <1>1 DEF Stored, ApiRow, RunRow, ApiLock, LockRow
<1>3. Free \in ApiLock
  BY DEF Free, ApiLock, LockRow, Actions
<1> QED
  BY <1>2, <1>3 DEF Settle, ApiShapes

(* One row gets another state or parent, or an outcome.                    *)
LEMMA RowFitsIn ==
    ASSUME ApiShapes, NEW r \in Runs, NEW row \in ApiRow, run' = [run EXCEPT ![r] = row],
           live' \in SUBSET Runs, UNCHANGED <<lock, sap>>
    PROVE  ApiShapes'
BY DEF ApiShapes

LEMMA CockpitFits ==
    ASSUME ApiShapes, NEW r \in Runs, Cockpit(r)
    PROVE  ApiShapes'
<1>1. run[r] \in ApiRow /\ live \in SUBSET Runs
  BY DEF ApiShapes
<1>2. CASE Stopped(r)
  <2>1. PICK s \in {run[r].state, "failed"}, p \in {run[r].parent, "closed"} :
           run' = [run EXCEPT ![r].state = s, ![r].parent = p]
    BY <1>2 DEF Stopped
  <2>2. [run[r] EXCEPT !.state = s, !.parent = p] \in ApiRow
    BY <1>1 DEF ApiRow, RunRow
  <2>3. run' = [run EXCEPT ![r] = [run[r] EXCEPT !.state = s, !.parent = p]]
    BY <2>1
  <2> QED
    BY <1>1, <1>2, <2>2, <2>3, RowFitsIn DEF Stopped
<1>3. CASE Deleted(r)
  <2> DEFINE one == [Absent EXCEPT !.state = "deleted"]
             two == [one EXCEPT !.parent = run[r].parent]
             row == [two EXCEPT !.mode = run[r].mode]
  <2>1. one \in ApiRow
    BY DEF Absent, ApiRow, RunRow, ErpModes, Actions
  <2>2. two \in ApiRow
    <3> HIDE DEF one
    <3> QED
      BY <1>1, <2>1 DEF ApiRow, RunRow
  <2>3. row \in ApiRow
    <3> HIDE DEF two
    <3> QED
      BY <1>1, <2>2 DEF ApiRow, RunRow
  <2>4. run' = [run EXCEPT ![r] = row]
    BY <1>3 DEF Deleted
  <2> HIDE DEF row
  <2> QED
    BY <1>1, <1>3, <2>3, <2>4, RowFitsIn DEF Deleted
<1>4. run[r].decision \in Decisions \cup {"none"}
  BY <1>1 DEF ApiRow, RunRow
<1> QED
  BY <1>2, <1>3, <1>4, StartedFits, AcceptedFits DEF Cockpit

LEMMA FinishFits ==
    ASSUME ApiShapes, NEW r \in Runs, Finish(r) \/ CloseBatch(r) \/ TaskEnds(r)
    PROVE  ApiShapes'
<1>1. /\ run \in [Runs -> ApiRow] /\ run[r] \in ApiRow /\ live' \in SUBSET Runs
      /\ UNCHANGED <<lock, sap>>
  BY DEF ApiShapes, Finish, CloseBatch, TaskEnds
<1>2. ASSUME NEW a \in Actions,
             run' = [run EXCEPT ![r].state = "complete", ![r].verdict = "compliant",
                                ![r].action = a]
      PROVE  ApiShapes'
  <2> DEFINE one == [run[r] EXCEPT !.state = "complete"]
             two == [one EXCEPT !.verdict = "compliant"]
             row == [two EXCEPT !.action = a]
  <2>1. one \in ApiRow
    BY <1>1 DEF ApiRow, RunRow
  <2>2. two \in ApiRow
    <3> HIDE DEF one
    <3> QED
      BY <2>1 DEF ApiRow, RunRow, Verdicts
  <2>3. row \in ApiRow
    <3> HIDE DEF two
    <3> QED
      BY <2>2 DEF ApiRow, RunRow
  <2>4. run' = [run EXCEPT ![r] = row]
    BY <1>2
  <2> HIDE DEF row
  <2> QED
    BY <1>1, <2>3, <2>4, RowFitsIn
<1>3. ASSUME NEW v \in Verdicts, run' = [run EXCEPT ![r].state = "held", ![r].verdict = v]
      PROVE  ApiShapes'
  <2>1. [run[r] EXCEPT !.state = "held", !.verdict = v] \in ApiRow
    BY <1>1 DEF ApiRow, RunRow
  <2> QED
    BY <1>1, <1>3, <2>1, RowFitsIn
<1>4. CASE run' = [run EXCEPT ![r].state = "failed"]
  <2>1. [run[r] EXCEPT !.state = "failed"] \in ApiRow
    BY <1>1 DEF ApiRow, RunRow
  <2> QED
    BY <1>1, <1>4, <2>1, RowFitsIn
<1>5. CASE run' = [run EXCEPT ![r].parent = "closed"]
  <2>1. [run[r] EXCEPT !.parent = "closed"] \in ApiRow
    BY <1>1 DEF ApiRow, RunRow
  <2> QED
    BY <1>1, <1>5, <2>1, RowFitsIn
<1>6. CASE run' = run
  BY <1>1, <1>6 DEF ApiShapes
<1>7. \A a \in (IF run[r].mode = "auto" THEN {"approved", "failed"} ELSE {"none"}) :
         a \in Actions
  BY DEF Actions
<1>8. CASE Finish(r)
  BY <1>2, <1>3, <1>4, <1>7, <1>8 DEF Finish
<1> QED
  BY <1>4, <1>5, <1>6, <1>8 DEF CloseBatch, TaskEnds

LEMMA ApiFits ==
    ASSUME ApiShapes, clock \in 0 .. MaxClock, ApiNext
    PROVE  ApiShapes' /\ clock' \in 0 .. MaxClock /\ clock <= clock'
<1>1. CASE ApiRestarts
  <2> DEFINE Recovered(row) ==
            [row EXCEPT !.state  = IF @ = "working" THEN "failed" ELSE @,
                        !.parent = IF @ = "open" THEN "closed" ELSE @]
  <2>1. ASSUME NEW row \in ApiRow
        PROVE  Recovered(row) \in ApiRow
    BY DEF ApiRow, RunRow
  <2>2. /\ run' = [r \in Runs |-> Recovered(run[r])] /\ clock' = clock /\ sap' = sap
        /\ lock' = [r \in Runs |-> Free] /\ live' = {}
    BY <1>1 DEF ApiRestarts
  <2> HIDE DEF Recovered
  <2>3. Free \in ApiLock
    BY DEF Free, ApiLock, LockRow, Actions
  <2>4. run' \in [Runs -> ApiRow] /\ lock' \in [Runs -> ApiLock]
    BY <2>1, <2>2, <2>3 DEF ApiShapes
  <2> QED
    BY <2>2, <2>4, ApiAssumption DEF ApiShapes
<1>2. CASE Tick
  BY <1>2, ApiAssumption DEF Tick, ApiShapes
<1>3. ASSUME NEW r \in Runs, Finish(r) \/ CloseBatch(r) \/ TaskEnds(r) \/ Cockpit(r) \/ Act(r)
      PROVE  ApiShapes' /\ clock' \in 0 .. MaxClock /\ clock <= clock'
  <2>1. clock' = clock
    BY <1>3 DEF Finish, CloseBatch, TaskEnds, Cockpit, Act
  <2>2. ApiShapes'
    BY <1>3, FinishFits, CockpitFits, ActFits
  <2> QED
    BY <2>1, <2>2, ApiAssumption
<1> QED
  BY <1>1, <1>2, <1>3 DEF ApiNext

----------------------------------------------------------------------------
(* The hour's window.                                                      *)

(* Time passes, and the window and the history stay.                       *)
LEMMA WindowStays ==
    ASSUME A2aTypeOK, WindowFits, Budgeted, UNCHANGED <<window, admitted>>,
           clock' \in 0 .. MaxClock, clock <= clock'
    PROVE  WindowFits' /\ Budgeted'
<1>1. \A i \in 1 .. Len(admitted) - Len(window) : admitted[i] \in Nat
  <2>1. /\ admitted \in Seq(0 .. MaxClock) /\ Len(admitted) \in Nat
        /\ Len(window) \in Nat
    BY LenProperties DEF A2aTypeOK
  <2>2. \A i \in 1 .. Len(admitted) : admitted[i] \in 0 .. MaxClock
    BY <2>1, ElementOfSeq
  <2> QED
    BY <2>1, <2>2
<1>2. \A i \in 1 .. Len(admitted) - Len(window) : clock' - admitted[i] > Hour
  <2> SUFFICES ASSUME NEW i \in 1 .. Len(admitted) - Len(window)
               PROVE  clock' - admitted[i] > Hour
    OBVIOUS
  <2>1. admitted[i] \in Nat /\ clock - admitted[i] > Hour
    BY <1>1 DEF WindowFits
  <2>2. clock \in Nat /\ clock' \in Nat /\ Hour \in Nat
    BY ApiAssumption, A2aAssumption DEF A2aTypeOK, A2aConstants
  <2> QED
    BY <2>1, <2>2
<1>3. WindowFits'
  BY <1>2 DEF WindowFits
<1> QED
  BY <1>3 DEF Budgeted

(* What _allow_agent_run keeps of the window is again the end of the       *)
(* history, and all before it is forgotten.                                *)
LEMMA RecentFits ==
    ASSUME A2aTypeOK, WindowFits
    PROVE  LET times == Recent(window)
               gone  == Len(admitted) - Len(times)
           IN  /\ times \in Seq(0 .. MaxClock) /\ Len(times) <= Budget
               /\ Len(times) \in Nat /\ gone \in Nat
               /\ \A i \in 1 .. Len(times) : times[i] = admitted[gone + i]
               /\ \A i \in 1 .. gone : clock - admitted[i] > Hour
<1> DEFINE times == Recent(window)
           gone  == Len(admitted) - Len(times)
<1>0. /\ window \in Seq(0 .. MaxClock) /\ Len(window) <= Budget
      /\ admitted \in Seq(0 .. MaxClock) /\ Len(admitted) \in Nat /\ Len(window) \in Nat
      /\ Len(window) <= Len(admitted) /\ Budget \in Nat
  BY A2aAssumption, LenProperties DEF A2aTypeOK, WindowFits, A2aConstants
<1>1. \A i \in 1 .. Len(window) : window[i] \in 0 .. MaxClock
  BY <1>0, ElementOfSeq
<1>9. window \in Seq(Nat)
  <2>1. 0 .. MaxClock \subseteq Nat
    OBVIOUS
  <2> QED
    BY <1>0, <2>1, SeqMonotonic
<1>2. PICK k \in 0 .. Len(window) :
         /\ times \in Seq(Nat) /\ Len(times) = Len(window) - k
         /\ \A i \in 1 .. Len(window) - k : times[i] = window[k + i]
         /\ \A i \in 1 .. k : Forgotten(window[i])
  BY <1>9, RecentIs
<1> HIDE DEF times
<1>3. /\ Len(times) \in Nat /\ Len(times) <= Budget /\ gone \in Nat
      /\ gone = (Len(admitted) - Len(window)) + k
  BY <1>0, <1>2
<1>4. ASSUME NEW i \in 1 .. Len(times)
      PROVE  times[i] \in 0 .. MaxClock /\ times[i] = admitted[gone + i]
  <2>1. k + i \in 1 .. Len(window) /\ times[i] = window[k + i]
    BY <1>0, <1>2, <1>3
  <2>2. window[k + i] \in 0 .. MaxClock
    BY <1>1, <2>1
  <2>3. window[k + i] = admitted[(Len(admitted) - Len(window)) + (k + i)]
    BY <2>1 DEF WindowFits
  <2>4. (Len(admitted) - Len(window)) + (k + i) = gone + i
    BY <1>0, <1>3, <2>1
  <2> QED
    BY <2>1, <2>2, <2>3, <2>4
<1>5. times \in Seq(0 .. MaxClock)
  <2>1. times \in [1 .. Len(times) -> 0 .. MaxClock]
    BY <1>2, <1>4, LenProperties
  <2> QED
    BY <1>3, <2>1, SeqDef
<1>6. ASSUME NEW i \in 1 .. gone
      PROVE  clock - admitted[i] > Hour
  <2>1. CASE i <= Len(admitted) - Len(window)
    BY <1>0, <2>1 DEF WindowFits
  <2>2. CASE i > Len(admitted) - Len(window)
    <3> DEFINE j == i - (Len(admitted) - Len(window))
    <3>1. j \in 1 .. k /\ j \in DOMAIN window /\ (Len(admitted) - Len(window)) + j = i
      BY <1>0, <1>2, <1>3, <2>2
    <3> HIDE DEF j
    <3>2. window[j] = admitted[i]
      BY <3>1 DEF WindowFits
    <3> QED
      BY <1>2, <3>1, <3>2 DEF Forgotten
  <2> QED
    BY <1>0, <2>1, <2>2
<1> QED
  BY <1>3, <1>4, <1>5, <1>6 DEF times, gone

(* An investigation is let through only where the budget has room: the     *)
(* one that was a whole budget before it is among the forgotten.           *)
LEMMA InvestigateKeeps ==
    ASSUME A2aTypeOK, WindowFits, Budgeted, NEW c \in Chats, Investigate(c)
    PROVE  /\ window' \in Seq(0 .. MaxClock) /\ Len(window') <= Budget
           /\ admitted' \in Seq(0 .. MaxClock)
           /\ WindowFits' /\ Budgeted'
<1> DEFINE times == Recent(window)
           n     == Len(admitted)
           gone  == n - Len(times)
<1>1. /\ times \in Seq(0 .. MaxClock) /\ Len(times) <= Budget
      /\ Len(times) \in Nat /\ gone \in Nat
      /\ \A i \in 1 .. Len(times) : times[i] = admitted[gone + i]
      /\ \A i \in 1 .. gone : clock - admitted[i] > Hour
  BY RecentFits
<1>2. /\ clock' = clock /\ clock \in 0 .. MaxClock /\ n \in Nat /\ Budget \in Nat
      /\ admitted \in Seq(0 .. MaxClock)
  BY A2aAssumption DEF Investigate, apiVars, A2aTypeOK, A2aConstants
<1> HIDE DEF times
<1>3. CASE window' = times /\ admitted' = admitted
  <2>1. Len(admitted') - Len(window') = gone /\ Len(window') <= Len(admitted')
    BY <1>1, <1>2, <1>3
  <2>2. \A i \in DOMAIN window' : window'[i] = admitted'[gone + i]
    <3>1. DOMAIN times = 1 .. Len(times)
      BY <1>1, LenProperties
    <3> HIDE DEF gone
    <3> QED
      BY <1>1, <1>3, <3>1
  <2>3. \A i \in 1 .. gone : clock' - admitted'[i] > Hour
    BY <1>1, <1>2, <1>3
  <2>4. WindowFits'
    <3> HIDE DEF gone
    <3> QED
      BY <2>1, <2>2, <2>3 DEF WindowFits
  <2> QED
    BY <1>1, <1>2, <1>3, <2>4 DEF Budgeted
<1>4. CASE /\ Allowed(times) /\ window' = Append(times, clock)
           /\ admitted' = Append(admitted, clock)
  <2>1. /\ window' \in Seq(0 .. MaxClock) /\ Len(window') = Len(times) + 1
        /\ \A i \in 1 .. Len(times) : window'[i] = times[i]
        /\ window'[Len(times) + 1] = clock
    BY <1>1, <1>2, <1>4
  <2>2. /\ admitted' \in Seq(0 .. MaxClock) /\ Len(admitted') = n + 1
        /\ \A i \in 1 .. n : admitted'[i] = admitted[i]
        /\ admitted'[n + 1] = clock
    BY <1>2, <1>4
  <2>3. Len(times) < Budget
    BY <1>4 DEF Allowed
  <2> HIDE DEF n
  <2>4. /\ Len(admitted') - Len(window') = gone /\ gone <= n
        /\ Len(window') <= Len(admitted') /\ Len(window') <= Budget
    BY <1>1, <1>2, <2>1, <2>2, <2>3
  <2>5. ASSUME NEW i \in DOMAIN window'
        PROVE  window'[i] = admitted'[gone + i]
    <3>1. CASE i \in 1 .. Len(times)
      <4>1. gone + i \in 1 .. n
        BY <1>1, <1>2, <3>1
      <4> QED
        BY <1>1, <2>1, <2>2, <3>1, <4>1
    <3>2. CASE i = Len(times) + 1
      <4>1. gone + i = n + 1
        BY <1>1, <1>2, <3>2
      <4> QED
        BY <2>1, <2>2, <3>2, <4>1
    <3>3. i \in 1 .. Len(times) + 1
      BY <2>1
    <3> QED
      BY <1>1, <3>1, <3>2, <3>3
  <2>6. \A i \in 1 .. gone : clock' - admitted'[i] > Hour
    <3>1. \A i \in 1 .. gone : i \in 1 .. n
      BY <1>1, <1>2, <2>4
    <3> HIDE DEF gone
    <3> QED
      BY <1>1, <1>2, <2>2, <3>1
  <2>7. WindowFits'
    <3> HIDE DEF gone
    <3> QED
      BY <2>4, <2>5, <2>6 DEF WindowFits
  <2>8. ASSUME NEW i \in DOMAIN admitted', i + Budget \in DOMAIN admitted'
        PROVE  admitted'[i + Budget] - admitted'[i] > Hour
    <3>1. i \in 1 .. n + 1 /\ i + Budget \in 1 .. n + 1
      BY <2>2, <2>8
    <3>2. CASE i + Budget \in 1 .. n
      <4>1. i \in 1 .. n /\ i \in DOMAIN admitted /\ i + Budget \in DOMAIN admitted
        BY <1>2, <3>1, <3>2 DEF n
      <4>2. admitted[i + Budget] - admitted[i] > Hour
        BY <4>1 DEF Budgeted
      <4> QED
        BY <2>2, <3>2, <4>1, <4>2
    <3>3. CASE i + Budget = n + 1
      <4>1. i \in 1 .. gone
        BY <1>1, <1>2, <2>3, <3>1, <3>3
      <4>2. clock - admitted'[i] > Hour
        BY <1>2, <2>6, <4>1
      <4> QED
        BY <2>2, <3>3, <4>2
    <3> QED
      BY <1>2, <3>1, <3>2, <3>3
  <2>9. Budgeted'
    BY <2>8 DEF Budgeted
  <2> QED
    BY <2>1, <2>2, <2>4, <2>7, <2>9
<1> QED
  BY <1>3, <1>4 DEF Investigate, times
(* The invariant holds to begin with, and every step keeps it.             *)
LEMMA InitA2aInv == A2aInit => A2aInv
<1> SUFFICES ASSUME A2aInit PROVE A2aInv
  OBVIOUS
<1>1. /\ run = [r \in Runs |-> Absent] /\ live = {} /\ sap = {}
      /\ lock = [r \in Runs |-> Free] /\ clock = 0 /\ listed \in SUBSET Suppliers
      /\ chat = [c \in Chats |-> Silent] /\ window = <<>> /\ admitted = <<>>
  BY A2aAssumption DEF A2aInit, ApiInit, A2aConstants
<1>2. ApiShapes /\ clock \in 0 .. MaxClock
  <2>1. Absent \in ApiRow /\ Free \in ApiLock
    BY DEF ApiRow, RunRow, Absent, ErpModes, ApiLock, LockRow, Free, Actions
  <2> QED
    BY <1>1, <2>1, ApiAssumption DEF ApiShapes
<1>3. window \in Seq(0 .. MaxClock) /\ admitted \in Seq(0 .. MaxClock)
      /\ Len(window) = 0 /\ Len(admitted) = 0
  BY <1>1, EmptySeq
<1>4. WindowFits /\ Budgeted
  BY <1>1, <1>3 DEF WindowFits, Budgeted
<1>5. Silent \in ChatRow /\ Silent.pc = "idle" /\ Silent.name = "byId"
  BY BegunRow DEF Silent, Begun
<1>6. \A c \in Chats : ListFits(chat[c]) /\ Stands(chat[c])
  BY <1>1, <1>5 DEF ListFits, Stands
<1>7. chat \in [Chats -> ChatRow]
  BY <1>1, <1>5
<1>8. A2aTypeOK
  BY <1>1, <1>2, <1>3, <1>7, A2aAssumption
     DEF A2aTypeOK, ApiShapes, ApiRow, ApiLock, A2aConstants
<1> QED
  BY <1>1, <1>4, <1>6, <1>7, <1>8 DEF A2aInv, ChatsFit

(* A step that leaves the hour's window to the clock.                      *)
LEMMA A2aJoined ==
    ASSUME A2aInv, ChatsFit', ApiShapes', UNCHANGED <<window, admitted>>,
           clock' \in 0 .. MaxClock, clock <= clock'
    PROVE  A2aInv'
<1>1. WindowFits' /\ Budgeted'
  BY WindowStays DEF A2aInv
<1>2. A2aTypeOK'
  BY DEF A2aInv, A2aTypeOK, ChatsFit, ApiShapes, ApiRow, ApiLock
<1> QED
  BY <1>1, <1>2 DEF A2aInv

LEMMA NextA2aInv == A2aInv /\ [A2aNext]_a2aVars => A2aInv'
<1> SUFFICES ASSUME A2aInv, [A2aNext]_a2aVars PROVE A2aInv'
  OBVIOUS
<1>1. /\ ApiShapes /\ clock \in 0 .. MaxClock /\ clock <= clock
      /\ A2aTypeOK /\ WindowFits /\ Budgeted /\ ChatsFit
  BY ApiAssumption DEF A2aInv, A2aTypeOK, ApiShapes, ApiRow, ApiLock
<1>0. ASSUME UNCHANGED apiVars
      PROVE  ApiShapes' /\ clock' = clock
  BY <1>0, <1>1 DEF apiVars, ApiShapes
<1>2. ASSUME ApiNext \/ \E r \in Runs, done \in BOOLEAN : Settle(r, done),
             UNCHANGED <<listed, chat, window, admitted>>
      PROVE  A2aInv'
  <2>1. ChatsFit'
    BY <1>1, <1>2 DEF ChatsFit, ListFits, Stands, Rank
  <2>2. ApiShapes' /\ clock' \in 0 .. MaxClock /\ clock <= clock'
    <3>1. CASE ApiNext
      BY <1>1, <3>1, ApiFits
    <3>2. ASSUME NEW r \in Runs, NEW done \in BOOLEAN, Settle(r, done)
          PROVE  ApiShapes' /\ clock' = clock
      BY <1>1, <3>2, SettleFits DEF Settle
    <3> QED
      BY <1>1, <1>2, <3>1, <3>2
  <2> QED
    BY <1>1, <1>2, <2>1, <2>2, A2aJoined
<1>3. ASSUME NEW s \in Suppliers, Submit(s)
      PROVE  A2aInv'
  <2>1. ApiShapes' /\ UNCHANGED <<clock, window, admitted>>
    BY <1>0, <1>3 DEF Submit
  <2> QED
    BY <1>1, <1>3, <2>1, SubmitKeeps, A2aJoined
<1>4. ASSUME NEW c \in Chats,
             \/ \E skill \in {"screen", "investigate"} : Ask(c, skill)
             \/ AskStatus(c) \/ Sent(c)
      PROVE  A2aInv'
  <2>1. ApiShapes' /\ UNCHANGED <<clock, window, admitted>>
    BY <1>0, <1>4 DEF Ask, AskStatus, Sent
  <2> QED
    BY <1>1, <1>4, <2>1, AskKeeps, A2aJoined
<1>5. ASSUME NEW c \in Chats, ListPage(c)
      PROVE  A2aInv'
  <2>1. ApiShapes' /\ UNCHANGED <<clock, window, admitted>>
    BY <1>0, <1>5 DEF ListPage
  <2> QED
    BY <1>1, <1>5, <2>1, ListPageKeeps, A2aJoined
<1>6. ASSUME NEW c \in Chats, StartScreening(c) \/ StartAgentRun(c)
      PROVE  A2aInv'
  <2>1. UNCHANGED <<clock, window, admitted>>
    BY <1>0, <1>6 DEF StartScreening, StartAgentRun
  <2>2. \/ UNCHANGED apiVars
        \/ \E r \in Runs : Started(r, "open", "off")
        \/ \E r \in Runs : Started(r, "none", "off")
    BY <1>6 DEF StartScreening, StartAgentRun
  <2>3. ApiShapes'
    BY <1>0, <1>1, <2>2, StartedFits DEF ErpModes
  <2> QED
    BY <1>1, <1>6, <2>1, <2>3, RestKeeps, A2aJoined
<1>7. ASSUME NEW c \in Chats, Investigate(c)
      PROVE  A2aInv'
  <2>1. ApiShapes' /\ clock' = clock
    BY <1>0, <1>7 DEF Investigate
  <2>2. /\ window' \in Seq(0 .. MaxClock) /\ Len(window') <= Budget
        /\ admitted' \in Seq(0 .. MaxClock) /\ WindowFits' /\ Budgeted'
    BY <1>1, <1>7, InvestigateKeeps
  <2>3. ChatsFit'
    BY <1>1, <1>7, RestKeeps
  <2> QED
    BY <1>1, <2>1, <2>2, <2>3
       DEF A2aInv, A2aTypeOK, ChatsFit, ApiShapes, ApiRow, ApiLock
<1>8. ASSUME NEW c \in Chats,
             \/ SleepOn(c) \/ PollBatch(c) \/ ReplyLater(c) \/ ReplyVerdict(c)
             \/ Unreachable(c)
      PROVE  A2aInv'
  <2>1. ApiShapes' /\ UNCHANGED <<clock, window, admitted>>
    BY <1>0, <1>8 DEF SleepOn, PollBatch, ReplyLater, ReplyVerdict, Unreachable
  <2> QED
    BY <1>1, <1>8, <2>1, RestKeeps, A2aJoined
<1>9. CASE UNCHANGED a2aVars
  <2>1. ApiShapes' /\ UNCHANGED <<clock, listed, chat, window, admitted>>
    BY <1>0, <1>9 DEF a2aVars
  <2>2. ChatsFit'
    BY <1>1, <2>1 DEF ChatsFit, ListFits, Stands, Rank
  <2> QED
    BY <1>1, <2>1, <2>2, A2aJoined
<1> QED
  BY <1>2, <1>3, <1>4, <1>5, <1>6, <1>7, <1>8, <1>9 DEF A2aNext, A2aStep

(* The registry, the chats and the hour's window keep their shapes, and    *)
(* stay in step with one another (skills.py: lists, replies and limit).    *)
THEOREM A2aInvariance == A2aSpec => []A2aInv
<1>1. A2aInv /\ [A2aNext]_a2aVars => A2aInv'
  BY NextA2aInv
<1> QED
  BY <1>1, InitA2aInv, PTL DEF A2aSpec

(* No hour, wherever it begins, sees more agent runs let through than the  *)
(* budget (_allow_agent_run), for any number of chats and any clock.       *)
THEOREM BudgetIsKept == A2aSpec => []BudgetHolds
<1>1. A2aInv => BudgetHolds
  BY DEF A2aInv, Budgeted, BudgetHolds
<1> QED
  BY <1>1, A2aInvariance, PTL

(* A supplier chosen by name is, of all that were in the registry when the *)
(* reading of the pages began, alone in resembling it or clearly the best  *)
(* (list_suppliers, match_suppliers, _resolve), for any page size.         *)
THEOREM NamesAreResolved == A2aSpec => []ClearWinner
<1>1. ASSUME A2aInv PROVE ClearWinner
  <2>1. \A c \in Chats : Stands(chat[c])
    BY <1>1 DEF A2aInv, ChatsFit
  <2> QED
    BY <2>1 DEF Stands, Wins, ClearWinner
<1> QED
  BY <1>1, A2aInvariance, PTL
=============================================================================
