------------------------------- MODULE Intake -------------------------------
(***************************************************************************)
(* The records submitted to the API (routers/records.py): the table that   *)
(* keeps them, the registry in memory that runs are started from           *)
(* (core/tools/datasets.py), the start of the process that rebuilds it     *)
(* (api/services.py, api/seed_loader.py), the operator's profile           *)
(* (routers/settings.py) and the runs that turn a record into a statement  *)
(* (module Dossier) with the context accepted when they were started.      *)
(*                                                                         *)
(* A request is the coroutine of one handler; it can be interleaved with   *)
(* others wherever it awaits.  The engine of api/db.py leaves the sqlite3  *)
(* driver's transaction control as it is, and that driver opens no         *)
(* transaction for a SAVEPOINT: the savepoint of an import's row is the    *)
(* outermost one and releasing it commits the row.                         *)
(***************************************************************************)
EXTENDS Dossier

CONSTANTS Clients,        \* requests handled at the same time
          Submissions,    \* what POST /records is given
          Files,          \* what POST /records/import is given: their rows
          Facts,          \* what the sources may answer for a plot
          Profiles,       \* operator profiles an administrator may save
          MaxRecords,     \* bound on the table
          MaxRuns,        \* bound on the runs
          MaxCrashes      \* bound on the process ending without notice

ASSUME IntakeAssumption ==
  /\ Profiles \subseteq Nat \ {0}
  /\ Submissions \subseteq Plots
  /\ \A file \in Files : file \in Seq(Plots)
  /\ Facts \subseteq Answers
  /\ MaxRecords \in Nat /\ MaxRuns \in Nat /\ MaxCrashes \in Nat
  /\ << >> \notin Files   \* an empty file creates and reports nothing

VARIABLES
  up,          \* the process is serving
  autoSeed,    \* its setting of that name, kept over restarts
  seeded,      \* the suppliers of the seed are in the database
  table,       \* rows of the table records, by id
  registry,    \* SeedDatasets._submitted, by id
  operator,    \* the saved operator profile, 0 if none was saved
  requests,    \* what each handler is doing
  runs,        \* rows of the table runs, with the context they were accepted with
  promised,    \* history: the records a client was told of
  stranded,    \* history: rows of imports that failed since the process started
  crashes

vars == <<up, autoSeed, seeded, table, registry, operator, requests, runs,
          promised, stranded, crashes>>

SeedId == 0
LegacyId == 1

Request(pc, rows, at, created) ==
  [pc |-> pc, rows |-> rows, at |-> at, created |-> created, errors |-> {}]
Idle == Request("idle", << >>, 1, << >>)

\* uuid4: an id no record has.
FreshId == 2 + Cardinality(DOMAIN table \ {LegacyId})

\* Rows the handlers at work may still write.
Pending ==
  LET rest(c) == IF requests[c].pc = "import"
                 THEN Len(requests[c].rows) + 1 - requests[c].at ELSE 0
  IN  FoldSet(LAMBDA c, n : rest(c) + n, 0, Clients)

HasRoomFor(n) == Cardinality(DOMAIN table \ {LegacyId}) + Pending + n <= MaxRecords

Init ==
  /\ up = FALSE
  /\ autoSeed \in BOOLEAN
  /\ seeded \in BOOLEAN
  /\ table \in {<< >>, [id \in {LegacyId} |-> LegacyRecord(id)]}
  /\ seeded => table # << >> /\ autoSeed   \* only a served database has rows
  /\ registry = << >>
  /\ operator = 0
  /\ requests = [c \in Clients |-> Idle]
  /\ runs = << >>
  /\ promised = {}
  /\ stranded = {}
  /\ crashes = 0

---------------------------------------------------------------------------
(* The start and the end of the process.                                   *)

\* seed_if_empty
Seeded == seeded \/ (autoSeed /\ table = << >>)

\* restore_submitted_records: every row is registered again.
Restored == table

\* recover_interrupted
Recovered ==
  [i \in DOMAIN runs |-> IF runs[i].state = "open"
                         THEN [runs[i] EXCEPT !.state = "interrupted"] ELSE runs[i]]

Boot ==
  /\ ~up
  /\ up' = TRUE
  /\ seeded' = Seeded
  /\ registry' = Restored
  /\ runs' = Recovered
  /\ UNCHANGED <<autoSeed, table, operator, requests, promised, stranded, crashes>>

Crash ==
  /\ up /\ crashes < MaxCrashes
  /\ crashes' = crashes + 1
  /\ up' = FALSE
  /\ registry' = << >>
  /\ requests' = [c \in Clients |-> Idle]
  /\ stranded' = {}
  /\ UNCHANGED <<autoSeed, seeded, table, operator, runs, promised>>

---------------------------------------------------------------------------
(* The handlers of routers/records.py.                                     *)

\* _create: the rows of the supplier, the parcel and the record, in one
\* transaction.
Inserted(s) ==
  [id \in DOMAIN table \cup {FreshId} |->
     IF id \in DOMAIN table THEN table[id] ELSE SubmittedRecord(s, FreshId)]

\* create_record, up to its commit.  A refused submission changes nothing,
\* nor does one whose commit fails.
CreateRecord(c, s) ==
  /\ up /\ requests[c].pc = "idle"
  /\ Accepted(s)
  /\ HasRoomFor(1)
  /\ table' = Inserted(s)
  /\ requests' = [requests EXCEPT ![c] = Request("register", <<s>>, 2, <<FreshId>>)]
  /\ UNCHANGED <<up, autoSeed, seeded, registry, operator, runs, promised, stranded,
                 crashes>>

\* import_records, up to the first row.
BeginImport(c, file) ==
  /\ up /\ requests[c].pc = "idle"
  /\ HasRoomFor(Len(file))
  /\ requests' = [requests EXCEPT ![c] = Request("import", file, 1, << >>)]
  /\ UNCHANGED <<up, autoSeed, seeded, table, registry, operator, runs, promised,
                 stranded, crashes>>

\* The request after the row it is at; after the last one it commits.
NextRow(r) ==
  [r EXCEPT !.at = @ + 1, !.pc = IF r.at = Len(r.rows) THEN "commit" ELSE "import"]

\* A row intake refuses is reported and the loop goes on.
RowRefusedLast(r) ==   \* a mutant: the loop is left
  [NextRow(r) EXCEPT !.errors = @ \cup {r.at}, !.pc = "commit"]
RowRefused(r) == [NextRow(r) EXCEPT !.errors = @ \cup {r.at}]

RowCreated(r) == [NextRow(r) EXCEPT !.created = Append(@, FreshId)]

ImportRow(c) ==
  LET r == requests[c]
      s == r.rows[r.at]
  IN  /\ up /\ r.pc = "import"
      /\ \/ /\ ~Accepted(s)
            /\ requests' = [requests EXCEPT ![c] = RowRefused(r)]
            /\ UNCHANGED table
         \/ /\ Accepted(s)
            /\ requests' = [requests EXCEPT ![c] = RowCreated(r)]
            /\ table' = Inserted(s)
      /\ UNCHANGED <<up, autoSeed, seeded, registry, operator, runs, promised, stranded,
                     crashes>>

\* A database error at a row, when a created row is read back (_record_out)
\* or in the last commit is none of the exceptions the loop handles: the
\* request ends there, with the rows it created committed and none
\* registered.
FailImport(c) ==
  /\ up /\ requests[c].pc \in {"import", "commit"}
  /\ stranded' = stranded \cup Range(requests[c].created)
  /\ requests' = [requests EXCEPT ![c] = Idle]
  /\ UNCHANGED <<up, autoSeed, seeded, table, registry, operator, runs, promised, crashes>>

\* What the request registers once its rows are committed.
Known(ids) ==
  [id \in DOMAIN registry \cup ids |->
     IF id \in ids THEN table[id] ELSE registry[id]]
RegisteredLast(r) ==   \* a mutant: only the last record
  Known(IF r.created = << >> THEN {} ELSE {Last(r.created)})
Registered(r) == Known(Range(r.created))

\* The commit of an import, of which nothing is left to write; after the
\* commit, without an await: registration and the answer.
Answer(c) ==
  /\ up /\ requests[c].pc \in {"commit", "register"}
  /\ registry' = Registered(requests[c])
  /\ promised' = promised \cup Range(requests[c].created)
  /\ requests' = [requests EXCEPT ![c] = Idle]
  /\ UNCHANGED <<up, autoSeed, seeded, table, operator, runs, stranded, crashes>>

---------------------------------------------------------------------------
(* The operator's profile and the runs.                                    *)

\* put_operator: one row, replaced.
PutOperator(profile) ==
  /\ up
  /\ operator' = profile
  /\ UNCHANGED <<up, autoSeed, seeded, table, registry, requests, runs, promised,
                 stranded, crashes>>

\* _resolve_record; the seed is loaded whether or not its rows are.
Resolvable == DOMAIN registry \cup {SeedId}
Resolve(id) == IF id = SeedId THEN SeedRecord(SeedId) ELSE registry[id]

\* The foreign key of runs.supplier_id.
HasSupplierRow(id) == IF id = SeedId THEN seeded ELSE id \in DOMAIN table

Startable(id) ==
  id \in Resolvable /\ Resolve(id).country # None /\ HasSupplierRow(id)

\* start_run and start_batch: the runs of one request, in its order and one
\* for each record it names, are accepted in one transaction with the
\* operator of that moment.
StartRuns(ids) ==
  /\ up /\ ids # << >> /\ IsInjective(ids)
  /\ Len(runs) + Len(ids) <= MaxRuns
  /\ \A i \in DOMAIN ids : Startable(ids[i])
  /\ runs' = runs \o [i \in 1..Len(ids) |->
       [record |-> Resolve(ids[i]), operator |-> operator,
        state |-> "open", input |-> None]]
  /\ UNCHANGED <<up, autoSeed, seeded, table, registry, operator, requests, promised,
                 stranded, crashes>>

\* _accepted_context: what the run's row says, not what holds by now.  (The
\* assessment date is kept in the same row and read by the same call.)
AcceptedContextOfNow(run) == operator   \* a mutant: the profile saved last
AcceptedContext(run) == run.operator

RunInput(run, facts) ==
  [record |-> run.record, operator |-> AcceptedContext(run), facts |-> facts]

\* The run's task: the sources answer, assess_record returns or raises.
ExecuteRun(i, facts) ==
  LET in == RunInput(runs[i], facts)
  IN  /\ up /\ runs[i].state = "open"
      /\ runs' = [runs EXCEPT ![i] =
           [@ EXCEPT !.state = IF Declarable(in) THEN "done" ELSE "undeclarable",
                     !.input = in]]
      /\ UNCHANGED <<up, autoSeed, seeded, table, registry, operator, requests, promised,
                     stranded, crashes>>

Next ==
  \/ Boot
  \/ Crash
  \/ \E c \in Clients :
       \/ \E s \in Submissions : CreateRecord(c, s)
       \/ \E file \in Files : BeginImport(c, file)
       \/ ImportRow(c)
       \/ FailImport(c)
       \/ Answer(c)
  \/ \E profile \in Profiles : PutOperator(profile)
  \/ \E n \in 1..MaxRuns : \E ids \in [1..n -> Resolvable] : StartRuns(ids)
  \/ \E i \in DOMAIN runs, facts \in Facts : ExecuteRun(i, facts)

Spec == Init /\ [][Next]_vars

---------------------------------------------------------------------------
(* Properties.                                                             *)

Executed == {i \in DOMAIN runs : runs[i].state = "done"}
Writing == {c \in Clients : requests[c].pc # "idle"}
Written(c) == Range(requests[c].created)

\* Rows, registered records, requests and runs are of their types.
TypeOK ==
  /\ up \in BOOLEAN /\ autoSeed \in BOOLEAN /\ seeded \in BOOLEAN
  /\ DOMAIN table \subseteq Nat \ {SeedId}
  /\ DOMAIN registry \subseteq DOMAIN table
  /\ operator \in Profiles \cup {0}
  /\ \A c \in Clients :
       /\ requests[c].pc \in {"idle", "import", "commit", "register"}
       /\ requests[c].at \in 1..(Len(requests[c].rows) + 1)
       /\ Range(requests[c].created) \subseteq DOMAIN table
       /\ requests[c].errors \subseteq DOMAIN requests[c].rows
  /\ Len(runs) <= MaxRuns
  /\ \A i \in DOMAIN runs :
       runs[i].state \in {"open", "done", "undeclarable", "interrupted"}
  /\ crashes \in 0..MaxCrashes

\* The registry never knows a record the table does not keep, and misses a
\* row only while the request that wrote it is at work or after its import
\* failed; a restart brings those back too.  (create_record and
\* import_records commit first and register afterwards;
\* restore_submitted_records registers every row.)
RegistryTracksTable ==
  up => /\ \A id \in DOMAIN registry : id \in DOMAIN table /\ registry[id] = table[id]
        /\ DOMAIN table \ DOMAIN registry
             \subseteq stranded \cup UNION {Written(c) : c \in Writing}

\* A record a client was told of can be started at any later time the
\* process is up, whatever requests ran beside and whatever crashed since.
PromisedIsStartable == up => \A id \in promised : Startable(id)

\* The records are kept, in the table, in the registry and for the client.
RecordsAreKept == TypeOK /\ RegistryTracksTable /\ PromisedIsStartable

\* The rows of an import intake accepts, up to row n, and where the record
\* of one of them is in the answer.
Kept(r, n) == {i \in 1..n : Accepted(r.rows[i])}
Place(r, i) == Cardinality(Kept(r, i))

\* What a request has written to the table t and reported is what its first
\* n rows call for.
ExactUpTo(r, n, t) ==
  /\ r.errors = (1..n) \ Kept(r, n)
  /\ Len(r.created) = Cardinality(Kept(r, n))
  /\ \A i \in Kept(r, n) :
       LET id == r.created[Place(r, i)] IN t[id] = SubmittedRecord(r.rows[i], id)

\* An import about to answer reports exactly the rows intake refuses and
\* has one record in the table for each of the others, in their order, also
\* when other requests wrote rows in between.
ImportIsExact ==
  \A c \in Clients :
    requests[c].pc = "commit" => ExactUpTo(requests[c], Len(requests[c].rows), table)

\* Whatever intake accepts, and whatever the sources then answer, a
\* statement can be built in which every field sent to the Information
\* System cites evidence: a run never fails on the record's own data.
\* (validate_geometry against the checks of build_geojson_feature_collection,
\* build_source_ledger against _build_citations.)
AcceptedIsDeclarable ==
  \A i \in DOMAIN runs :
    /\ runs[i].state # "undeclarable"
    /\ i \in Executed =>
         LET citations == Document(runs[i].input).citations
         IN  \A field \in Rendered(runs[i].input) : citations[field] # {}

\* A statement shows the geometry that was submitted or its centre, never
\* the circle the sources were asked about.  Judged by the plot as it was
\* measured or declared: what is shown as a polygon is above 4 ha, and what
\* is shown as a point is not above 4 ha by more than half of the last
\* decimal intake keeps.  (The two 4 ha limits are written in two modules,
\* and the builder sees the rounded area only.)
HalfOfTheLastDecimal == 5

PlotIsTheDeclaredOne ==
  \A i \in Executed :
    LET record == runs[i].input.record
        shown == GeometryPayload(record)
    IN  /\ ~shown.derived
        /\ shown.type # "Point" => record.measured > POINT_MAX_HA
        /\ shown.type = "Point" => record.measured <= POINT_MAX_HA + HalfOfTheLastDecimal

\* What intake.py and build_geojson_feature_collection say of the limit, and
\* the code does not do: every plot above 4 ha is shown as a polygon.  One
\* measured less than 0.00005 ha above it is rounded to 4 ha and is shown as
\* a point.
WidePlotsArePolygons ==
  \A i \in Executed :
    LET record == runs[i].input.record
    IN  record.measured > POINT_MAX_HA => GeometryPayload(record).type # "Point"

\* A statement with invented evidence says that it is synthetic, and no
\* other one does.
InventedIsMarked ==
  \A i \in Executed :
    LET in == runs[i].input
    IN  Synthetic(in) <=> \E e \in Ledger(in) : e.provenance = "synthetic"

\* What a run writes about an accepted plot can be written, is the plot's and
\* says what is invented.
StatementIsSound == AcceptedIsDeclarable /\ PlotIsTheDeclaredOne /\ InventedIsMarked

\* Two runs of a record with the same operator and answers cite the
\* same evidence ids, whether the answers came from a source or a cache.
EvidenceIsStable ==
  \A i, j \in Executed :
    LET a == runs[i].input
        b == runs[j].input
        values(in) == <<in.facts.loss.value, in.facts.hotspots.value, in.facts.layers.value>>
    IN  (/\ a.record = b.record /\ a.operator = b.operator
         /\ values(a) = values(b))
        => EvidenceIds(a) = EvidenceIds(b) /\ Document(a).citations = Document(b).citations

\* A run is assessed for the operator it was accepted with and for the
\* record as it was committed: a profile saved before it executes changes
\* nothing.
ContextIsTheAccepted ==
  \A i \in Executed :
    /\ runs[i].input.operator = runs[i].operator
    /\ runs[i].input.record.id = SeedId
         \/ runs[i].input.record = table[runs[i].input.record.id]
=============================================================================
