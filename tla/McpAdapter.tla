---------------------------- MODULE McpAdapter ----------------------------
(***************************************************************************)
(* The MCP server: tools an agent calls, each a few HTTP requests to the   *)
(* API.  Two tools, record_review_decision and confirm_erp_action, ask the *)
(* user between reading the run and writing to it; meanwhile the cockpit   *)
(* and the other clients go on.  A request may be lost before it reaches   *)
(* the API or its answer after, and the client does not repeat it.         *)
(***************************************************************************)
EXTENDS ApiRuns

CONSTANTS
    Calls,       \* tool calls of agents; each is made at most once
    McpWait,     \* mcp_wait_seconds, how long a screening tool polls
    Waits        \* the wait_seconds that agents ask for instead

ASSUME McpAssumption ==
    McpWait \in Nat /\ Waits \subseteq Nat /\ Calls \cap {"none", "rule", "cockpit"} = {}

VARIABLE call    \* call[c]: its arguments, what it has read, where it is

(* What a tool says of SAP: to be left alone, to change later, or now.     *)
SapEffect(mode) ==
    CASE mode = "off" -> "untouched" [] mode = "confirm" -> "later" [] mode = "auto" -> "now"

Prompts ==
    [verdict : Verdicts \cup {"none"}, effect : {"untouched", "later", "now"}]
      \cup [verdict : Verdicts \cup {"none"}, pending : {"approved", "blocked"}]

NothingShown == [verdict |-> "none"]

CallRow ==
    [tool    : {"none", "screen", "decide", "confirm", "cancel"},
     run     : Runs \cup {0},
     choice  : Decisions,
     note    : BOOLEAN,
     pc      : {"idle", "ask", "user", "record", "start", "write", "sent", "read", "poll",
                "done"},
     shown   : Prompts \cup {NothingShown},
     ticked  : BOOLEAN,
     until   : 0 .. MaxClock,
     answer  : {"none", "error", "declined", "recorded", "applied", "cancelled",
                "verdict", "later"}]

Idle ==
    [tool |-> "none", run |-> 0, choice |-> "approve", note |-> FALSE, pc |-> "idle",
     shown |-> NothingShown, ticked |-> FALSE, until |-> 0, answer |-> "none"]

Init == ApiInit /\ call = [c \in Calls |-> Idle]

(* The call ends with an answer; an ApiError becomes "error".              *)
Answers(c, a) == call' = [call EXCEPT ![c].pc = "done", ![c].answer = a]

At(c, tool, pc) == call[c].tool = tool /\ call[c].pc = pc

----------------------------------------------------------------------------
(* The agent calls a gated tool, or cancel_run, on a run it knows.         *)
CallTool(c, tool, r) ==
    /\ call[c].pc = "idle" /\ Known(r)
    /\ \E choice \in IF tool = "decide" THEN Decisions ELSE {"approve"},
          note \in IF tool = "decide" THEN BOOLEAN ELSE {FALSE} :
          call' = [call EXCEPT ![c] =
                      [Idle EXCEPT !.tool = tool, !.run = r, !.choice = choice, !.note = note,
                                   !.pc = IF tool = "cancel" THEN "write" ELSE "ask"]]
    /\ UNCHANGED apiVars

(* ask_decision: only a held run; a note is asked for before the user is.  *)
(* mutant: the state of the run is not looked at                           *)
AskDecisionAnyState(c) ==
    LET row == run[call[c].run] IN
    /\ At(c, "decide", "ask")
    /\ IF ~Known(call[c].run) THEN Answers(c, "error")
       ELSE call' = [call EXCEPT ![c].pc = "user",
                        ![c].shown = [verdict |-> row.verdict, effect |-> SapEffect(row.mode)]]
    /\ UNCHANGED apiVars

AskDecision(c) ==
    LET row == run[call[c].run] IN
    /\ At(c, "decide", "ask")
    /\ IF \/ row.state # "held"
          \/ call[c].choice = "approve" /\ row.verdict = "high_risk" /\ ~call[c].note
       THEN Answers(c, "error")
       ELSE call' = [call EXCEPT ![c].pc = "user",
                        ![c].shown = [verdict |-> row.verdict, effect |-> SapEffect(row.mode)]]
    /\ UNCHANGED apiVars

(* ask_erp: only a run that has a change waiting.                          *)
AskErp(c) ==
    LET row == run[call[c].run] IN
    /\ At(c, "confirm", "ask")
    /\ IF ErpPending(row) = "none"
       THEN Answers(c, "error")
       ELSE call' = [call EXCEPT ![c].pc = "user",
                        ![c].shown = [verdict |-> row.verdict, pending |-> ErpPending(row)]]
    /\ UNCHANGED apiVars

(* A GET fails on the way.                                                 *)
NotDelivered(c) ==
    /\ call[c].pc \in {"ask", "read", "poll"}
    /\ Answers(c, "error")
    /\ UNCHANGED apiVars

(* The user accepts with the box ticked.                                   *)
UserConfirms(c) ==
    /\ call[c].pc = "user"
    /\ call' = [call EXCEPT ![c].pc = "write", ![c].ticked = TRUE]
    /\ UNCHANGED apiVars

(* The user accepts the form without ticking it, declines or cancels.      *)
UserDeclines(c) ==
    /\ call[c].pc = "user"
    /\ Answers(c, "declined")
    /\ UNCHANGED apiVars

(* The client has no elicitation: the call is refused.                     *)
CannotAsk(c) ==
    /\ call[c].pc = "user"
    /\ Answers(c, "error")
    /\ UNCHANGED apiVars

----------------------------------------------------------------------------
(* A POST does not reach the API, waits too long for the lock of its run,  *)
(* or its answer is lost; what the API has accepted goes on.               *)
TimesOut(c) ==
    /\ call[c].pc \in {"record", "start", "write", "sent"}
    /\ Answers(c, "error")
    /\ UNCHANGED apiVars

(* mutant: a refusal is taken for the decision being there already         *)
RefusedTakenAsDone(c) ==
    call' = [call EXCEPT ![c].pc = "read"] /\ UNCHANGED apiVars

(* Every ApiError ends the call, a refusal like a lost answer.             *)
Refused(c) == Answers(c, "error") /\ UNCHANGED apiVars

(* The API accepts a decision or a confirmation once the lock is free.  A  *)
(* client that gave up while it waited is one whose answer is lost now.    *)
Sends(c, op, choice) ==
    /\ Accepted(call[c].run, op, choice, c)
    /\ \/ call' = [call EXCEPT ![c].pc = "sent"]
       \/ Answers(c, "error")
    /\ UNCHANGED clock

PostDecision(c) ==
    LET r == call[c].run IN
    /\ At(c, "decide", "write") /\ lock[r].step = "free"
    /\ IF DecisionRefused(r, call[c].choice, call[c].note) THEN Refused(c)
       ELSE Sends(c, "decide", call[c].choice)

PostConfirmation(c) ==
    LET r == call[c].run IN
    /\ At(c, "confirm", "write") /\ lock[r].step = "free"
    /\ IF ConfirmRefused(r) THEN Refused(c) ELSE Sends(c, "confirm", run[r].decision)

(* The API is done with a decision or confirmation; a tool that still      *)
(* waits for it gets its answer.                                           *)
ApiAnswers(r, done) ==
    /\ Settle(r, done)
    /\ LET c == lock[r].by IN
       IF c \in Calls /\ call[c].pc = "sent"
       THEN IF done THEN call' = [call EXCEPT ![c].pc = "read"] ELSE Answers(c, "error")
       ELSE UNCHANGED call

(* The cancellation reaches the API; the answer comes back or is lost.     *)
Wrote(c) ==
    /\ \/ call' = [call EXCEPT ![c].pc = "read"]
       \/ Answers(c, "error")
    /\ UNCHANGED clock

PostCancel(c) ==
    LET r == call[c].run IN
    /\ At(c, "cancel", "write")
    /\ IF Stoppable(r) THEN Stopped(r) /\ Wrote(c) ELSE Refused(c)

(* The last GET, for the view the tool returns.  "applied" is what the     *)
(* tool says of a confirmation, however the ERP took it.                   *)
ReadBack(c) ==
    /\ call[c].pc = "read"
    /\ Answers(c, IF ~Known(call[c].run) THEN "error"
                  ELSE CASE call[c].tool = "decide"  -> "recorded"
                         [] call[c].tool = "confirm" -> "applied"
                         [] call[c].tool = "cancel"  -> "cancelled")
    /\ UNCHANGED apiVars

----------------------------------------------------------------------------
(* screen_plot: one POST submits the record; one starts the run (agent     *)
(* mode) or a batch of one; then the tool polls until the run settles or   *)
(* its time is up.                                                         *)
Screen(c) ==
    /\ call[c].pc = "idle"
    /\ call' = [call EXCEPT ![c] = [Idle EXCEPT !.tool = "screen", !.pc = "record"]]
    /\ UNCHANGED apiVars

PostRecord(c) ==
    /\ At(c, "screen", "record")
    /\ \/ call' = [call EXCEPT ![c].pc = "start"]
       \/ Answers(c, "error")
    /\ UNCHANGED apiVars

PostScreening(c) ==
    /\ At(c, "screen", "start")
    /\ \E r \in Runs, parent \in {"none", "open"}, mode \in ErpModes,
          wait \in Waits \cup {McpWait} :
          /\ Started(r, parent, mode)
          /\ LET limit == IF clock + wait < MaxClock THEN clock + wait ELSE MaxClock
             IN  \/ call' = [call EXCEPT ![c].run = r, ![c].pc = "poll", ![c].until = limit]
                 \/ Answers(c, "error")
    /\ UNCHANGED clock

(* mutant: a poll that finds the run open always sleeps again              *)
TimeIsUpNever(c) == FALSE

TimeIsUp(c) == clock >= call[c].until

Poll(c) ==
    LET row == run[call[c].run] IN
    /\ At(c, "screen", "poll")
    /\ \/ ~Known(call[c].run) /\ Answers(c, "error")
       \/ row.state \in {"complete", "failed", "held"} /\ Answers(c, "verdict")
       \/ row.state = "working" /\ TimeIsUp(c) /\ Answers(c, "later")
    /\ UNCHANGED apiVars

----------------------------------------------------------------------------
McpStep(c) ==
    \/ AskDecision(c) \/ AskErp(c)
    \/ PostDecision(c) \/ PostConfirmation(c) \/ PostCancel(c) \/ ReadBack(c)
    \/ PostRecord(c) \/ PostScreening(c) \/ Poll(c)
    \/ TimesOut(c)

Next ==
    \/ ApiNext /\ UNCHANGED call
    \/ \E r \in Runs, done \in BOOLEAN : ApiAnswers(r, done)
    \/ \E c \in Calls :
          \/ McpStep(c) \/ NotDelivered(c)
          \/ Screen(c)
          \/ UserConfirms(c) \/ UserDeclines(c) \/ CannotAsk(c)
          \/ \E tool \in {"decide", "confirm", "cancel"}, r \in Runs : CallTool(c, tool, r)

vars == <<apiVars, call>>

Spec == Init /\ [][Next]_vars

(* The event loop runs what is ready, an HTTP request ends by its timeout, *)
(* and time passes; nothing is assumed of the API's runs or of the user.   *)
FairSpec ==
    /\ Spec
    /\ WF_vars(Tick /\ UNCHANGED call)
    /\ \A c \in Calls : WF_vars(McpStep(c))

----------------------------------------------------------------------------
(* The shapes of the API's rows and locks and of the tool calls.           *)
Authors == {"none", "cockpit"} \cup Calls

TypeOK ==
    /\ run \in [Runs -> RunRow(Authors)]
    /\ live \subseteq Runs
    /\ lock \in [Runs -> LockRow(Authors)]
    /\ sap \subseteq SapCall(Authors)
    /\ clock \in 0 .. MaxClock
    /\ call \in [Calls -> CallRow]

(* What an agent got done through the MCP server was confirmed by a user   *)
(* who had been shown it: a decision on the verdict the run has, under the *)
(* effect at SAP that its mode has; and a vendor status that SAP was asked *)
(* for, unless the run was deleted while it was decided.  This holds       *)
(* whatever the cockpit, a cancellation or a restart did to the run while  *)
(* the question was open or the request under way.                         *)
ShownIsDone ==
    \A c \in Calls :
        /\ \A r \in Runs : run[r].decidedBy = c =>
              /\ call[c].run = r /\ call[c].ticked /\ call[c].choice = run[r].decision
              /\ call[c].shown = [verdict |-> run[r].verdict, effect |-> SapEffect(run[r].mode)]
        /\ \A done \in sap : done.by = c =>
              /\ call[c].run = done.run /\ call[c].ticked
              /\ \/ /\ call[c].tool = "decide" /\ done.status = Called(call[c].choice)
                    /\ call[c].shown.effect = "now" \/ run[done.run].state = "deleted"
                 \/ /\ call[c].tool = "confirm" /\ done.status = call[c].shown.pending
                    /\ call[c].shown.verdict = run[done.run].verdict
                          \/ run[done.run].state = "deleted"

(* A tool that says recorded has recorded just that decision, itself, and  *)
(* one that was declined has done nothing: of two calls and a reviewer in  *)
(* the cockpit deciding the same run, at most one is told so.              *)
ToldIsTrue ==
    \A c \in Calls :
        /\ call[c].answer = "recorded" /\ run[call[c].run].state # "deleted" =>
              /\ run[call[c].run].decidedBy = c
              /\ run[call[c].run].decision = call[c].choice
        /\ call[c].answer = "declined" =>
              /\ \A r \in Runs : run[r].decidedBy # c /\ lock[r].by # c
              /\ \A done \in sap : done.by # c

(* A tool call ends or waits for its user, though the run it polls may     *)
(* never settle.                                                           *)
CallsEnd ==
    \A c \in Calls :
        call[c].pc \notin {"idle", "user", "done"} ~> call[c].pc \in {"user", "done"}

(* What the documents promise and the code does not keep.                  *)

(* What confirm_erp_action says it applied is what the log shows applied.  *)
AppliedIsApplied ==
    \A c \in Calls :
        call[c].answer = "applied" => run[call[c].run].action # "failed"

(* No tool an agent calls ever makes the API touch SAP for a run that was  *)
(* created with erp off: the API takes a run that is deleted while it is   *)
(* decided for an auto run.                                                *)
AgentsLeaveOffRunsAlone ==
    \A done \in sap : done.by \in Calls => run[done.run].mode # "off"
=============================================================================
