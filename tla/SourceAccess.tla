---------------------------- MODULE SourceAccess ----------------------------
(***************************************************************************)
(* How the facts about one plot are acquired: callers (the runs, the       *)
(* reference pipeline, the media tool, the preflight) go through the       *)
(* source clients, which look in the response cache, ask the upstream      *)
(* service with retries, page or chunk the query, and store what they got. *)
(*                                                                         *)
(* A caller follows a plan, one kind of source after the other.  The plan  *)
(* of a plot is fetch_polygon_sources: annual loss, fire detections, then  *)
(* every context layer.  The services upstream are an environment: a       *)
(* request is answered, fails for a while (time-outs, 429, 5xx) or is      *)
(* refused (401, 403, other 4xx, a body that cannot be read).              *)
(*                                                                         *)
(* A payload is the set of items the code got and their number: years with *)
(* loss, days asked for, rows read.  Geometry, amounts and the limiter's   *)
(* waiting are left out; the clock moves at any time.                      *)
(***************************************************************************)
EXTENDS Integers, Sequences, FiniteSets

CONSTANTS
    Callers,        \* concurrent callers: runs, tools, command lines
    Configs,        \* settings and plots, see Config
    Layers,         \* LAYER_DEFINITIONS, in order
    Paged,          \* the layers that are not raster sums
    IndonesiaOnly,  \* the layers that exist for Indonesia only
    MaxAttempts,    \* SourceHttpConfig.max_attempts
    PageSize, RowLimit,  \* 100 rows a page, 1000 rows a layer
    DayRange,       \* firms_day_range_max, between 1 and 5
    Window,         \* window_days of the FIRMS query
    FirstYear,      \* 2021, the year after the cutoff
    CoverageEnd,    \* last year the pinned loss release covers
    MaxWait,        \* max_wait_seconds of a batch job
    MaxClock, MaxRestarts  \* bounds of the model

LayerSet == {Layers[i] : i \in DOMAIN Layers}
Kinds    == {"loss", "fires", "media", "job"} \cup LayerSet

(* ttl 0 disables expiry; verified is false for a release whose coverage   *)
(* is unknown; primed says whether CACHE_FIXTURES_DIR is set; truth is the *)
(* set of years with loss, published or not; rows is what a paged layer    *)
(* holds; faulty says whether the cache file may fail; plans is what a     *)
(* caller may come for.                                                    *)
Config == [backend : {"sqlite", "memory"}, ttl : Nat, offline : BOOLEAN, keyed : BOOLEAN,
           primed : BOOLEAN, country : {"ID", "other", "missing"}, verified : BOOLEAN,
           asOf : Nat, truth : SUBSET Nat, rows : Nat, faulty : BOOLEAN,
           plans : [Callers -> SUBSET {"plot", "media", "job"}]]

ASSUME SourceAssumption ==
    /\ Configs \subseteq Config
    /\ Layers \in Seq(STRING) /\ LayerSet \cap {"loss", "fires", "media", "job"} = {}
    /\ Paged \subseteq LayerSet /\ IndonesiaOnly \subseteq LayerSet
    /\ MaxAttempts \in Nat \ {0} /\ PageSize \in Nat \ {0} /\ RowLimit \in Nat
    /\ DayRange \in Nat \ {0} /\ Window \in Nat \ {0}
    /\ FirstYear \in Nat \ {0} /\ CoverageEnd \in Nat /\ CoverageEnd >= FirstYear
    /\ MaxWait \in Nat /\ MaxClock \in Nat /\ MaxRestarts \in Nat

VARIABLES
    config,    \* the settings of the process, and the plot
    clock,
    entries,   \* the cache: a snapshot and its expiry for every kind, or none
    fixtures,  \* data/fixtures: the exported snapshots
    calls,     \* where every caller is, and what it has
    restarts   \* process restarts so far (bounds the model)

vars == <<config, clock, entries, fixtures, calls, restarts>>

Payload == [items : SUBSET Nat, count : Nat]
Nothing == [items |-> {}, count |-> 0]

(* A cache entry; until = 0 means that it never expires.                   *)
Entry   == [held : BOOLEAN, payload : Payload, until : Nat]
NoEntry == [held |-> FALSE, payload |-> Nothing, until |-> 0]

Fixture   == [held : BOOLEAN, payload : Payload]
NoFixture == [held |-> FALSE, payload |-> Nothing]

(* What a caller has of a kind: nothing yet, an answer of the service, a   *)
(* cached answer, and whether it had expired, the mark of a layer that     *)
(* does not apply, or an error.                                            *)
Result   == [status : {"none", "fetched", "cached", "not_applicable", "error"},
             payload : Payload, stale : BOOLEAN]
NoResult == [status |-> "none", payload |-> Nothing, stale |-> FALSE]

Plans == {"plot", "media", "job"}
Plan(p) == CASE p = "plot"  -> <<"loss", "fires">> \o Layers
             [] p = "media" -> <<"media">>
             [] p = "job"   -> <<"job">>

(* waiting is the pause before a retry or the next poll; sent says whether *)
(* the caller asked a service for anything, gap whether it noted years     *)
(* that the release does not cover, warm whether all it needs was in the   *)
(* cache, for good, when it started.                                       *)
Call == [plan : Plans, phase : {"idle", "look", "send", "poll", "download", "store",
                                "done", "raised"},
         stage : Nat, refresh : BOOLEAN, cursor : Nat, tries : Nat, waiting : BOOLEAN,
         got : Payload, deadline : Nat, results : [Kinds -> Result], gap : BOOLEAN,
         sent : BOOLEAN, warm : BOOLEAN]

Idle == [plan |-> "plot", phase |-> "idle", stage |-> 1, refresh |-> FALSE, cursor |-> 0,
         tries |-> 0, waiting |-> FALSE, got |-> Nothing, deadline |-> 0,
         results |-> [k \in Kinds |-> NoResult], gap |-> FALSE, sent |-> FALSE, warm |-> FALSE]

(* Cache, fixtures and callers keep their shapes; in particular no caller  *)
(* runs past the end of its plan (fetch_polygon_sources).                  *)
TypeOK ==
    /\ config \in Config
    /\ clock \in Nat
    /\ entries \in [Kinds -> Entry]
    /\ fixtures \in [Kinds -> Fixture]
    /\ calls \in [Callers -> Call]
    /\ \A c \in Callers : calls[c].stage \in 1..Len(Plan(calls[c].plan))
    /\ restarts \in Nat

Init ==
    /\ config \in Configs
    /\ clock = 0
    /\ entries = [k \in Kinds |-> NoEntry]
    /\ fixtures = [k \in Kinds |-> NoFixture]
    /\ calls = [c \in Callers |-> Idle]
    /\ restarts = 0

-----------------------------------------------------------------------------
(* What the services hold, and what one request returns.                   *)

Least(m, n) == IF m <= n THEN m ELSE n

(* The assessment date asks for the years up to the one before it.         *)
RequiredEnd == config.asOf - 1
CoveredEnd  == Least(RequiredEnd, CoverageEnd)

(* The release has no row for a year that it does not cover, nor for a     *)
(* year without loss.                                                      *)
LossRows == {y \in FirstYear..CoveredEnd : y \in config.truth /\ y <= CoverageEnd}

(* All there is to know of a kind.                                         *)
Whole(k) ==
    CASE k = "loss"   -> [items |-> LossRows, count |-> Cardinality(LossRows)]
      [] k = "fires"  -> [items |-> 1..Window, count |-> Window]
      [] k \in Paged  -> [items |-> 1..config.rows, count |-> config.rows]
      [] OTHER        -> [items |-> {1}, count |-> 1]

(* The last day of the chunk that starts on day d.                         *)
ChunkEnd(d) == Least(d + DayRange - 1, Window)

(* The rows of the page at an offset.                                      *)
PageEnd(offset) == Least(offset + PageSize, config.rows)

FirstCursor(k) == IF k = "fires" THEN 1 ELSE 0

(* One answer: a chunk of days, a page of rows, or everything.             *)
Reply(k, cursor) ==
    CASE k = "fires" ->
           [items |-> cursor..ChunkEnd(cursor), count |-> ChunkEnd(cursor) - cursor + 1]
      [] k \in Paged ->
           [items |-> (cursor + 1)..PageEnd(cursor), count |-> PageEnd(cursor) - cursor]
      [] OTHER -> Whole(k)

NextCursor(k, cursor) ==
    IF k = "fires" THEN ChunkEnd(cursor) + 1 ELSE cursor + PageSize

(* The offsets are range(0, RowLimit + 1, PageSize).                       *)
LastOffsetEarly == RowLimit - PageSize
LastOffset == RowLimit

IsLast(k, cursor) ==
    CASE k = "fires"  -> ChunkEnd(cursor) >= Window
      [] k \in Paged  -> Reply(k, cursor).count < PageSize \/ cursor + PageSize > LastOffset
      [] OTHER        -> TRUE

TooMany(k, payload) == k \in Paged /\ payload.count > RowLimit

Add(p, q) == [items |-> p.items \cup q.items, count |-> p.count + q.count]

-----------------------------------------------------------------------------
(* The cache.                                                              *)

Live(k) == entries[k].held /\ (entries[k].until = 0 \/ entries[k].until > clock)

(* The memory backend keeps what it has; SQLite's set writes an expiry.    *)
ExpiryAlways == IF config.backend = "sqlite" THEN clock + config.ttl ELSE 0
Expiry ==
    IF config.backend = "sqlite" /\ config.ttl > 0 THEN clock + config.ttl ELSE 0

Put(payload) == [held |-> TRUE, payload |-> payload, until |-> Expiry]

-----------------------------------------------------------------------------
(* Where a caller is in its plan.                                          *)

KindOf(call) == Plan(call.plan)[call.stage]

(* The call with a result for its kind, at the next kind or done.          *)
Advanced(call, result) ==
    [call EXCEPT !.results = [@ EXCEPT ![KindOf(call)] = result],
                 !.phase = IF call.stage < Len(Plan(call.plan)) THEN "look" ELSE "done",
                 !.stage = IF call.stage < Len(Plan(call.plan)) THEN call.stage + 1
                           ELSE call.stage,
                 !.cursor = 0, !.tries = 0, !.got = Nothing, !.deadline = 0]

Fetched(payload) == [status |-> "fetched", payload |-> payload, stale |-> FALSE]
Marked(status)   == [status |-> status, payload |-> Nothing, stale |-> FALSE]

(* An exception takes what the caller had got so far with it.              *)
Raised(call) == [Idle EXCEPT !.plan = call.plan, !.phase = "raised",
                             !.refresh = call.refresh, !.sent = call.sent,
                             !.warm = call.warm]

(* What fails: the source (SourceError, MissingCredentialError) or the     *)
(* cache (CacheMissError and any other IntegrationError).  A layer and the *)
(* media lookup report everything as unavailable; fetch_polygon_sources    *)
(* notes what the loss and the fire client say of their sources; the rest  *)
(* is raised to the caller.                                                *)
Tolerated(k, cause) ==
    \/ k \in LayerSet \cup {"media"}
    \/ k \in {"loss", "fires"} /\ cause = "source"

Failed(call, cause) ==
    IF Tolerated(KindOf(call), cause)
    THEN Advanced(call, Marked("error"))
    ELSE Raised(call)

Becomes(c, call) == calls' = [calls EXCEPT ![c] = call]

(* Years before the assessment date that the release does not cover.       *)
Uncovered == RequiredEnd > CoverageEnd

(* No loss query: the date is too early, or the release is not verified.   *)
NoLossQuery == RequiredEnd < FirstYear \/ ~config.verified

NotForPlotAlways(k) == k \in IndonesiaOnly /\ config.country # "ID"
NotForPlot(k) == k \in IndonesiaOnly /\ config.country = "other"
CountryMissing(k) == k \in IndonesiaOnly /\ config.country = "missing"

Queried(k) ==
    /\ k = "loss" => ~NoLossQuery
    /\ ~NotForPlot(k) /\ ~CountryMissing(k)

Needed(p) == {Plan(p)[i] : i \in DOMAIN Plan(p)}

Start(c) ==
    /\ calls[c].phase = "idle"
    /\ \E p \in config.plans[c], refresh \in BOOLEAN :
          Becomes(c, [calls[c] EXCEPT
              !.plan = p, !.phase = "look", !.refresh = refresh,
              !.warm = config.ttl = 0 /\ \A k \in Needed(p) : Queried(k) => entries[k].held])
    /\ UNCHANGED <<config, clock, entries, fixtures, restarts>>

-----------------------------------------------------------------------------
(* The lookup.                                                             *)

Looks(c, k) == calls[c].phase = "look" /\ KindOf(calls[c]) = k

SkipLoss(c) ==
    /\ Looks(c, "loss") /\ NoLossQuery
    /\ Becomes(c, Advanced(calls[c], Marked("error")))
    /\ UNCHANGED <<config, clock, entries, fixtures, restarts>>

SkipLayer(c, k) ==
    /\ Looks(c, k)
    /\ \/ NotForPlot(k) /\ Becomes(c, Advanced(calls[c], Marked("not_applicable")))
       \/ CountryMissing(k) /\ Becomes(c, Advanced(calls[c], Marked("error")))
    /\ UNCHANGED <<config, clock, entries, fixtures, restarts>>

(* Years without coverage are noted before the query.                      *)
NotesGap(call, k) == [call EXCEPT !.gap = @ \/ (k = "loss" /\ Uncovered)]

HitUnchecked(c, k) ==
    /\ Looks(c, k) /\ Queried(k) /\ ~calls[c].refresh
    /\ entries[k].held
    /\ Becomes(c, Advanced(NotesGap(calls[c], k),
           [status |-> "cached", payload |-> entries[k].payload, stale |-> ~Live(k)]))
    /\ UNCHANGED <<config, clock, entries, fixtures, restarts>>

Hit(c, k) ==
    /\ Looks(c, k) /\ Queried(k) /\ ~calls[c].refresh
    /\ Live(k)
    /\ Becomes(c, Advanced(NotesGap(calls[c], k),
           [status |-> "cached", payload |-> entries[k].payload, stale |-> ~Live(k)]))
    /\ UNCHANGED <<config, clock, entries, fixtures, restarts>>

(* A lookup deletes the expired entry; a refresh looks nothing up.         *)
Purged(k) == IF Live(k) THEN entries ELSE [entries EXCEPT ![k] = NoEntry]

Asking(call, k) == [call EXCEPT !.phase = "send", !.cursor = FirstCursor(k)]

(* Offline the cache raises; then the client wants its credentials, which  *)
(* the media lookup takes as given.                                        *)
AfterMiss(call, k) ==
    CASE ~call.refresh /\ config.offline -> Failed(call, "cache")
      [] ~config.keyed /\ k # "media" /\ (call.refresh \/ ~config.offline) ->
           Failed(call, "source")
      [] OTHER -> Asking(call, k)

Miss(c, k) ==
    /\ Looks(c, k) /\ Queried(k)
    /\ calls[c].refresh \/ ~Live(k)
    /\ entries' = IF calls[c].refresh THEN entries ELSE Purged(k)
    /\ Becomes(c, AfterMiss(NotesGap(calls[c], k), k))
    /\ UNCHANGED <<config, clock, fixtures, restarts>>

(* The database file is locked, gone or corrupt.                           *)
LookupFails(c, k) ==
    /\ Looks(c, k) /\ Queried(k) /\ ~calls[c].refresh
    /\ config.faulty /\ config.backend = "sqlite"
    /\ Becomes(c, Failed(NotesGap(calls[c], k), "cache"))
    /\ UNCHANGED <<config, clock, entries, fixtures, restarts>>

-----------------------------------------------------------------------------
(* Requests and answers.                                                   *)

InRequest(c, phases) == calls[c].phase \in phases /\ ~calls[c].waiting

(* A time-out, a transport error, 429 or 5xx: again, a bounded number of   *)
(* times.                                                                  *)
NotAnsweredForever(c) ==
    /\ InRequest(c, {"send", "poll", "download"})
    /\ Becomes(c, [calls[c] EXCEPT !.sent = TRUE, !.waiting = TRUE])
    /\ UNCHANGED <<config, clock, entries, fixtures, restarts>>

NotAnswered(c) ==
    /\ InRequest(c, {"send", "poll", "download"})
    /\ LET asked == [calls[c] EXCEPT !.sent = TRUE]
       IN  IF calls[c].tries + 1 < MaxAttempts
           THEN Becomes(c, [asked EXCEPT !.tries = @ + 1, !.waiting = TRUE])
           ELSE Becomes(c, Failed(asked, "source"))
    /\ UNCHANGED <<config, clock, entries, fixtures, restarts>>

(* 401, 403, another 4xx, an answer that is too long or cannot be read.    *)
Refused(c) ==
    /\ InRequest(c, {"send", "poll", "download"})
    /\ Becomes(c, Failed([calls[c] EXCEPT !.sent = TRUE], "source"))
    /\ UNCHANGED <<config, clock, entries, fixtures, restarts>>

Waited(c) ==
    /\ calls[c].waiting
    /\ Becomes(c, [calls[c] EXCEPT !.waiting = FALSE])
    /\ UNCHANGED <<config, clock, entries, fixtures, restarts>>

Answered(c) ==
    /\ InRequest(c, {"send"}) /\ KindOf(calls[c]) # "job"
    /\ LET k == KindOf(calls[c])
           payload == Add(calls[c].got, Reply(k, calls[c].cursor))
           asked == [calls[c] EXCEPT !.sent = TRUE, !.tries = 0]
       IN  CASE TooMany(k, payload) -> Becomes(c, Failed(asked, "source"))
             [] ~TooMany(k, payload) /\ IsLast(k, calls[c].cursor) ->
                  Becomes(c, [asked EXCEPT !.got = payload, !.phase = "store"])
             [] OTHER ->
                  Becomes(c, [asked EXCEPT !.got = payload,
                                           !.cursor = NextCursor(k, @)])
    /\ UNCHANGED <<config, clock, entries, fixtures, restarts>>

(* The batch job is created; the clock of the model ends the wait at the   *)
(* latest when it stops.                                                   *)
JobCreated(c) ==
    /\ InRequest(c, {"send"}) /\ KindOf(calls[c]) = "job"
    /\ Becomes(c, [calls[c] EXCEPT !.sent = TRUE, !.tries = 0, !.phase = "poll",
                                   !.deadline = Least(clock + MaxWait, MaxClock)])
    /\ UNCHANGED <<config, clock, entries, fixtures, restarts>>

JobPending(c) ==
    /\ InRequest(c, {"poll"})
    /\ IF clock >= calls[c].deadline
       THEN Becomes(c, Failed(calls[c], "source"))
       ELSE Becomes(c, [calls[c] EXCEPT !.tries = 0, !.waiting = TRUE])
    /\ UNCHANGED <<config, clock, entries, fixtures, restarts>>

(* A finished job without a download link has no rows.                     *)
JobEnded(c) ==
    /\ InRequest(c, {"poll"})
    /\ \E phase \in {"download", "store"} :
          Becomes(c, [calls[c] EXCEPT !.tries = 0, !.phase = phase])
    /\ UNCHANGED <<config, clock, entries, fixtures, restarts>>

(* A download without a list of rows has no rows either.                   *)
Downloaded(c) ==
    /\ InRequest(c, {"download"})
    /\ \E payload \in {Whole("job"), Nothing} :
          Becomes(c, [calls[c] EXCEPT !.tries = 0, !.got = payload, !.phase = "store"])
    /\ UNCHANGED <<config, clock, entries, fixtures, restarts>>

(* The snapshot is stored before the caller has it.                        *)
Store(c) ==
    /\ calls[c].phase = "store"
    /\ entries' = [entries EXCEPT ![KindOf(calls[c])] = Put(calls[c].got)]
    /\ Becomes(c, Advanced(calls[c], Fetched(calls[c].got)))
    /\ UNCHANGED <<config, clock, fixtures, restarts>>

StoreFails(c) ==
    /\ calls[c].phase = "store"
    /\ config.faulty /\ config.backend = "sqlite"
    /\ Becomes(c, Failed(calls[c], "cache"))
    /\ UNCHANGED <<config, clock, entries, fixtures, restarts>>

(* The task of the caller is cancelled: no handler of the clients sees it. *)
Cancelled(c) ==
    /\ calls[c].phase \notin {"idle", "done", "raised"}
    /\ Becomes(c, Raised(calls[c]))
    /\ UNCHANGED <<config, clock, entries, fixtures, restarts>>

-----------------------------------------------------------------------------
(* Time, fixtures and the process.                                         *)

Tick ==
    /\ clock < MaxClock
    /\ clock' = clock + 1
    /\ UNCHANGED <<config, entries, fixtures, calls, restarts>>

(* fixtures export: every live entry becomes a file; older files stay.     *)
Export ==
    /\ config.backend = "sqlite"
    /\ fixtures' = [k \in Kinds |->
           IF Live(k) THEN [held |-> TRUE, payload |-> entries[k].payload] ELSE fixtures[k]]
    /\ entries' = [k \in Kinds |-> IF Live(k) THEN entries[k] ELSE NoEntry]
    /\ UNCHANGED <<config, clock, calls, restarts>>

Primed(kept) ==
    [k \in Kinds |-> IF fixtures[k].held THEN Put(fixtures[k].payload) ELSE kept[k]]

(* fixtures prime: the files overwrite what the cache holds, one by one.   *)
Prime(k) ==
    /\ config.backend = "sqlite" /\ fixtures[k].held
    /\ entries' = [entries EXCEPT ![k] = Put(fixtures[k].payload)]
    /\ UNCHANGED <<config, clock, fixtures, calls, restarts>>

(* The process ends with its callers; the next one may be an offline       *)
(* rehearsal, and primes its cache before it serves.                       *)
Restart ==
    /\ restarts < MaxRestarts
    /\ restarts' = restarts + 1
    /\ config' \in {config, [config EXCEPT !.offline = TRUE]}
    /\ calls' = [c \in Callers |-> Idle]
    /\ LET kept == IF config.backend = "sqlite" THEN entries ELSE [k \in Kinds |-> NoEntry]
       IN  entries' = IF config.primed THEN Primed(kept) ELSE kept
    /\ UNCHANGED <<clock, fixtures>>

-----------------------------------------------------------------------------
Lookup(c) ==
    \/ SkipLoss(c)
    \/ \E k \in Kinds : SkipLayer(c, k) \/ Hit(c, k) \/ Miss(c, k) \/ LookupFails(c, k)

Step(c) ==
    \/ Lookup(c) \/ NotAnswered(c) \/ Refused(c) \/ Waited(c) \/ Answered(c)
    \/ JobCreated(c) \/ JobPending(c) \/ JobEnded(c) \/ Downloaded(c)
    \/ Store(c) \/ StoreFails(c)

Next ==
    \/ \E c \in Callers : Start(c) \/ Step(c) \/ Cancelled(c)
    \/ Tick \/ Export \/ (\E k \in Kinds : Prime(k)) \/ Restart

Spec == Init /\ [][Next]_vars

(* Every request is answered or times out, and time passes.                *)
FairSpec ==
    /\ Spec
    /\ WF_vars(Tick)
    /\ \A c \in Callers : WF_vars(Step(c))

-----------------------------------------------------------------------------
(* Properties.                                                             *)

Good(result) == result.status \in {"fetched", "cached"}

(* PolygonSources.complete.                                                *)
Complete(call) ==
    /\ call.plan = "plot" /\ call.phase = "done" /\ ~call.gap
    /\ \A k \in Needed("plot") : call.results[k].status \notin {"none", "error"}

(* A fetch that broke off, was cut short by a page or row limit or by a    *)
(* cancellation leaves nothing behind: what the cache, the fixtures and    *)
(* the callers hold of a plot is all the service had, each day and each    *)
(* row once.                                                               *)
WholeOrNothing ==
    \A k \in Kinds \ {"job"} :
        /\ entries[k].held => entries[k].payload = Whole(k)
        /\ fixtures[k].held => fixtures[k].payload = Whole(k)
        /\ \A c \in Callers :
              Good(calls[c].results[k]) => calls[c].results[k].payload = Whole(k)

(* A year that the loss result does not mention reads as no loss           *)
(* (_fill_zero_years), so its window never reaches past what the release   *)
(* covers.                                                                 *)
NoFalseZero ==
    \A c \in Callers : Good(calls[c].results["loss"]) =>
        \A y \in FirstYear..CoveredEnd :
            y \notin calls[c].results["loss"].payload.items => y \notin config.truth

(* What counts as complete has every year up to the assessment, every day  *)
(* and every layer that applies to the plot's known country.               *)
CompleteMeansCovered ==
    \A c \in Callers : Complete(calls[c]) =>
        /\ FirstYear <= RequiredEnd /\ RequiredEnd <= CoverageEnd /\ config.verified
        /\ \A k \in Needed("plot") :
              \/ Good(calls[c].results[k])
              \/ k \in IndonesiaOnly /\ config.country = "other"

(* Nobody asks a service without credentials for it, nor offline without   *)
(* having been told to refresh.                                            *)
SilentUnlessAsked ==
    \A c \in Callers : calls[c].sent =>
        /\ config.offline => calls[c].refresh
        /\ config.keyed \/ calls[c].plan = "media"

(* The SQLite cache answers nothing past its time to live, in whatever     *)
(* order writes, primings, exports and lookups meet.                       *)
ServedWithinTtl ==
    \A c \in Callers, k \in Kinds : ~calls[c].results[k].stale

(* A rerun from a warm cache that never expires asks no service anything   *)
(* and misses nothing, whatever the other callers do.                      *)
WarmRerunIsSilent ==
    \A c \in Callers : calls[c].warm /\ ~calls[c].refresh =>
        /\ ~calls[c].sent
        /\ ~config.faulty => \A k \in Kinds :
              Queried(k) => calls[c].results[k].status \in {"none", "cached"}

(* Whatever the services answer, every acquisition ends: retries, pages,   *)
(* chunks and polls are bounded.                                           *)
AcquisitionsEnd ==
    \A c \in Callers :
        (calls[c].phase \notin {"idle", "done", "raised"}) ~>
        (calls[c].phase \in {"idle", "done", "raised"})
=============================================================================
