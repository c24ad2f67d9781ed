---------------------------- MODULE A2aAdapter ----------------------------
(***************************************************************************)
(* The A2A server, through which Joule screens a supplier, starts an agent *)
(* investigation, or asks for the status of a run.  A supplier may be      *)
(* named: the proxy reads the whole list, page by page, while others       *)
(* submit records, and goes ahead only if one supplier matches alone.      *)
(* Agent runs are limited per hour.                                        *)
(***************************************************************************)
EXTENDS ApiRuns, Sequences

CONSTANTS
    Chats,       \* messages of Joule, handled concurrently by one process
    Suppliers,   \* supplier ids, in the order the API lists them
    AtStart,     \* the registries to begin with
    Names,       \* what a user may write instead of an id
    Likeness,    \* Likeness[n][s]: best similarity, in hundredths
    PageSize,    \* _PAGE
    Budget,      \* a2a_max_agent_runs_per_hour
    Hour,        \* 3600 s in clock ticks
    ReplyBudget  \* a2a_reply_budget_seconds

A2aConstants ==
    /\ Suppliers \subseteq Nat \ {0} /\ IsFiniteSet(Suppliers)
    /\ AtStart \subseteq SUBSET Suppliers
    /\ Likeness \in [Names -> [Suppliers -> 0 .. 100]]
    /\ PageSize \in Nat \ {0} /\ Budget \in Nat /\ Hour \in Nat \ {0} /\ ReplyBudget \in Nat
    /\ "byId" \notin Names

ASSUME A2aAssumption == A2aConstants

VARIABLES
    listed,      \* the suppliers of the registry
    chat,        \* chat[c]: one message on its way to a reply
    window,      \* _agent_runs: when the agent runs of the last hour began
    admitted     \* when each agent run was let through, ever (history)

a2aVars == <<apiVars, listed, chat, window, admitted>>

NoSupplier == 0

ChatRow ==
    [skill  : {"none", "screen", "investigate", "status"},
     name   : Names \cup {"byId"},
     pc     : {"idle", "list", "start", "post", "poll", "sleep", "read", "done"},
     pages  : Seq(Suppliers),                \* what list_suppliers has so far
     before : SUBSET Suppliers,              \* listed when it began (history)
     choice : Suppliers \cup {NoSupplier},
     run    : Runs \cup {0},
     until  : 0 .. MaxClock,
     reply  : {"none", "error", "which", "unknown", "limited", "started", "later", "verdict"}]

Begun(skill, name, pc, before, choice, r) ==
    [skill |-> skill, name |-> name, pc |-> pc, pages |-> <<>>, before |-> before,
     choice |-> choice, run |-> r, until |-> 0, reply |-> "none"]

Silent == Begun("none", "byId", "idle", {}, NoSupplier, 0)

A2aInit ==
    /\ ApiInit
    /\ listed \in AtStart
    /\ chat = [c \in Chats |-> Silent]
    /\ window = <<>> /\ admitted = <<>>

Replies(c, reply) == chat' = [chat EXCEPT ![c].pc = "done", ![c].reply = reply]

(* POST /records by anybody: a supplier appears, anywhere in the order.    *)
Submit(s) ==
    /\ s \notin listed
    /\ listed' = listed \cup {s}
    /\ UNCHANGED <<apiVars, chat, window, admitted>>

----------------------------------------------------------------------------
(* parse_intent: a skill with an id, a skill with a name, or a run id.     *)
Ask(c, skill) ==
    /\ chat[c].pc = "idle"
    /\ \/ \E n \in Names :
             chat' = [chat EXCEPT ![c] = Begun(skill, n, "list", listed, NoSupplier, 0)]
       \/ \E s \in Suppliers :
             chat' = [chat EXCEPT ![c] = Begun(skill, "byId", "start", {}, s, 0)]
    /\ UNCHANGED <<apiVars, listed, window, admitted>>

AskStatus(c) ==
    /\ chat[c].pc = "idle"
    /\ \E r \in Runs :
          /\ Known(r)
          /\ chat' = [chat EXCEPT ![c] = Begun("status", "byId", "read", {}, NoSupplier, r)]
    /\ UNCHANGED <<apiVars, listed, window, admitted>>

(* GET /suppliers?limit&offset: by supplier_id, as the table is now.       *)
Smaller(m, n)  == IF m <= n THEN m ELSE n
Rank(s)        == Cardinality({t \in listed : t <= s})
SupplierAt(i)  == CHOOSE s \in listed : Rank(s) = i
Page(offset) ==
    [i \in 1 .. Smaller(PageSize, Cardinality(listed) - offset) |-> SupplierAt(offset + i)]

(* A page that is not full is the last one.                                *)
(* mutant: the first page is taken for the list                            *)
LastPageIsFirst(page) == TRUE

LastPage(page) == Len(page) < PageSize

----------------------------------------------------------------------------
(* match_suppliers, over positions: a supplier may be listed twice.        *)
Cutoff == 62
Score(n, pages, i) == Likeness[n][pages[i]]

Candidates(n, pages) == {i \in DOMAIN pages : Score(n, pages, i) >= Cutoff}

(* The order of the ranking: best score first, then the smaller id.        *)
Ahead(n, pages, i, j) ==
    \/ Score(n, pages, i) > Score(n, pages, j)
    \/ Score(n, pages, i) = Score(n, pages, j) /\ pages[i] <= pages[j]

(* The margin is a tenth, and the scores are floating-point numbers: of    *)
(* two that are ten hundredths apart the difference is below 0.1 unless    *)
(* the better one is 0.92 or 0.93.                                         *)
WellAhead(top, next) == top - next > 10 \/ (top - next = 10 /\ top \in {92, 93})

(* A clear winner is exact and alone in that, or good and well ahead.      *)
ClearlyWins(n, pages, i) ==
    LET top  == Score(n, pages, i)
        rest == {Score(n, pages, j) : j \in Candidates(n, pages) \ {i}}
    IN  /\ \A j \in Candidates(n, pages) : Ahead(n, pages, i, j)
        /\ \/ top = 100 /\ \A next \in rest : next < 100
           \/ top >= 85 /\ \A next \in rest : WellAhead(top, next)

(* What comes back alone is gone ahead with: a clear winner, but also an   *)
(* only candidate, however faint.                                          *)
Matches(n, pages, i) ==
    i \in Candidates(n, pages) /\ (Candidates(n, pages) = {i} \/ ClearlyWins(n, pages, i))

(* list_suppliers, one page per step, then _resolve.                       *)
ListPage(c) ==
    LET n     == chat[c].name
        page  == Page(Len(chat[c].pages))
        pages == chat[c].pages \o page
    IN
    /\ chat[c].pc = "list"
    /\ IF ~LastPage(page)
       THEN chat' = [chat EXCEPT ![c].pages = pages]
       ELSE \/ Candidates(n, pages) = {} /\ Replies(c, "unknown")
            \/ /\ Candidates(n, pages) # {}
               /\ ~\E i \in DOMAIN pages : Matches(n, pages, i)
               /\ Replies(c, "which")
            \/ \E i \in DOMAIN pages :
                  /\ Matches(n, pages, i)
                  /\ chat' = [chat EXCEPT ![c].pc = "start", ![c].pages = <<>>,
                                          ![c].choice = pages[i]]
    /\ UNCHANGED <<apiVars, listed, window, admitted>>

----------------------------------------------------------------------------
(* POST /batch-runs for one record, the ERP off; the deadline follows.     *)
StartScreening(c) ==
    /\ chat[c].pc = "start" /\ chat[c].skill = "screen"
    /\ IF chat[c].choice \notin listed
       THEN Replies(c, "error") /\ UNCHANGED apiVars
       ELSE \E r \in Runs :
               /\ Started(r, "open", "off") /\ UNCHANGED clock
               /\ \/ chat' = [chat EXCEPT ![c].pc = "poll", ![c].run = r,
                                ![c].until = Smaller(clock + ReplyBudget, MaxClock)]
                  \/ Replies(c, "error")
    /\ UNCHANGED <<listed, window, admitted>>

(* mutant: a run begun just an hour ago is forgotten already               *)
ForgottenEarly(began) == clock - began >= Hour

Forgotten(began) == clock - began > Hour

(* _allow_agent_run: the oldest are dropped while they are forgotten.      *)
Recent(times) ==
    LET stay == {i \in DOMAIN times : ~Forgotten(times[i])}
    IN  IF stay = {} THEN <<>>
        ELSE SubSeq(times, CHOOSE i \in stay : \A j \in stay : i <= j, Len(times))

Allowed(times) == Len(times) < Budget

(* Counted before it is asked for, and still counted if that fails.        *)
Investigate(c) ==
    LET times == Recent(window) IN
    /\ chat[c].pc = "start" /\ chat[c].skill = "investigate"
    /\ IF ~Allowed(times)
       THEN Replies(c, "limited") /\ window' = times /\ UNCHANGED admitted
       ELSE /\ window' = Append(times, clock)
            /\ admitted' = Append(admitted, clock)
            /\ chat' = [chat EXCEPT ![c].pc = "post"]
    /\ UNCHANGED <<apiVars, listed>>

(* POST /runs, the ERP off; the run is left to itself.                     *)
StartAgentRun(c) ==
    /\ chat[c].pc = "post"
    /\ IF chat[c].choice \notin listed
       THEN Replies(c, "error") /\ UNCHANGED apiVars
       ELSE \E r \in Runs :
               /\ Started(r, "none", "off") /\ UNCHANGED clock
               /\ \/ chat' = [chat EXCEPT ![c].pc = "done", ![c].run = r,
                                          ![c].reply = "started"]
                  \/ Replies(c, "error")
    /\ UNCHANGED <<listed, window, admitted>>

(* A request that does not reach the API ends the chat.                    *)
Unreachable(c) ==
    /\ \/ chat[c].pc \in {"list", "post", "sleep", "read"}
       \/ chat[c].pc = "start" /\ chat[c].skill = "screen"
    /\ Replies(c, "error")
    /\ UNCHANGED <<apiVars, listed, window, admitted>>

----------------------------------------------------------------------------
(* mutant: the batch is polled until it ends                               *)
ReplyIsNeverDue(c) == FALSE

ReplyIsDue(c) == clock >= chat[c].until

(* _screen: while the batch is open and time is not up it sleeps, and then *)
(* reads the batch once more, however late it is.                          *)
SleepOn(c) ==
    /\ chat[c].pc = "poll" /\ ~ReplyIsDue(c)
    /\ chat' = [chat EXCEPT ![c].pc = "sleep"]
    /\ UNCHANGED <<apiVars, listed, window, admitted>>

PollBatch(c) ==
    /\ chat[c].pc = "sleep"
    /\ chat' = [chat EXCEPT ![c].pc = IF run[chat[c].run].parent = "closed" THEN "read"
                                      ELSE "poll"]
    /\ UNCHANGED <<apiVars, listed, window, admitted>>

ReplyLater(c) ==
    /\ chat[c].pc = "poll" /\ ReplyIsDue(c)
    /\ Replies(c, "later")
    /\ UNCHANGED <<apiVars, listed, window, admitted>>

(* GET /runs/{id} for the reply, of a screening or of a status.            *)
ReplyVerdict(c) ==
    /\ chat[c].pc = "read"
    /\ Replies(c, IF Known(chat[c].run) THEN "verdict" ELSE "error")
    /\ UNCHANGED <<apiVars, listed, window, admitted>>

A2aStep(c) ==
    \/ ListPage(c) \/ StartScreening(c) \/ Investigate(c) \/ StartAgentRun(c)
    \/ SleepOn(c) \/ PollBatch(c) \/ ReplyLater(c) \/ ReplyVerdict(c)

(* The reply is sent; the next message may come.                           *)
Sent(c) ==
    /\ chat[c].pc = "done"
    /\ chat' = [chat EXCEPT ![c] = Silent]
    /\ UNCHANGED <<apiVars, listed, window, admitted>>

A2aNext ==
    \/ /\ ApiNext \/ \E r \in Runs, done \in BOOLEAN : Settle(r, done)
       /\ UNCHANGED <<listed, chat, window, admitted>>
    \/ \E s \in Suppliers : Submit(s)
    \/ \E c \in Chats :
          \/ A2aStep(c) \/ Unreachable(c) \/ AskStatus(c) \/ Sent(c)
          \/ \E skill \in {"screen", "investigate"} : Ask(c, skill)

A2aSpec == A2aInit /\ [][A2aNext]_a2aVars

(* As for the MCP server: what is ready runs, requests end, time passes.   *)
A2aFairSpec ==
    /\ A2aSpec
    /\ WF_a2aVars(Tick /\ UNCHANGED <<listed, chat, window, admitted>>)
    /\ \A c \in Chats : WF_a2aVars(A2aStep(c))

----------------------------------------------------------------------------
(* The shapes of the registry, the chats and the hour's window.            *)
A2aTypeOK ==
    /\ run \in [Runs -> RunRow({"none", "cockpit"})]
    /\ live \subseteq Runs
    /\ lock \in [Runs -> LockRow({"none", "cockpit"})]
    /\ sap \subseteq SapCall({"none", "cockpit"})
    /\ clock \in 0 .. MaxClock
    /\ listed \subseteq Suppliers
    /\ chat \in [Chats -> ChatRow]
    /\ window \in Seq(0 .. MaxClock) /\ Len(window) <= Budget
    /\ admitted \in Seq(0 .. MaxClock)

(* No hour, wherever it begins, sees more agent runs let through than the  *)
(* budget, with chats in any order and runs that never start; and the      *)
(* window itself never holds more entries than that (A2aTypeOK).           *)
BudgetHolds ==
    /\ A2aTypeOK
    /\ \A i \in DOMAIN admitted :
        i + Budget \in DOMAIN admitted => admitted[i + Budget] - admitted[i] > Hour

(* A supplier chosen by name is, of all that were in the registry when the *)
(* reading began, the only one that resembles the name, or clearly the     *)
(* best: no page is missed while others submit.                            *)
ClearWinner ==
    \A c \in Chats :
        LET n == chat[c].name
            s == chat[c].choice
        IN  n # "byId" /\ s # NoSupplier =>
                /\ Likeness[n][s] >= Cutoff
                /\ \A t \in chat[c].before \ {s} :
                      \/ Likeness[n][t] < Cutoff
                      \/ Likeness[n][s] >= 85 /\ Likeness[n][t] <= Likeness[n][s] - 10
                      \/ Likeness[n][s] = 100 /\ Likeness[n][t] < 100

(* Joule gets its reply, though the API never settles the run: a screening *)
(* answers by its deadline.  Only the bound on Runs stops a chat.          *)
OutOfRuns(c) == chat[c].pc \in {"start", "post"} /\ ~\E r \in Runs : Fresh(r)

ChatsEnd ==
    \A c \in Chats :
        chat[c].pc \notin {"idle", "done"} ~> (chat[c].pc = "done" \/ OutOfRuns(c))
=============================================================================
