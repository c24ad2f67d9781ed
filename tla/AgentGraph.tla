----------------------------- MODULE AgentGraph -----------------------------
(***************************************************************************)
(* One run of the agent graph (RunOrchestrator.run and resume): the        *)
(* supervisor's specialists call the source tools in whatever order, with  *)
(* whatever ids and as concurrently as the models like; the assessor       *)
(* scores the shared sources; the verifier re-derives the candidate,       *)
(* checks that the investigation was done and then asks a model; the       *)
(* writer runs behind the verifier's edge; and the run gets its state.     *)
(*                                                                         *)
(* A model is an environment: its calls, its review and its failures are   *)
(* arbitrary.  Left out are the tools no later step reads (the consignment *)
(* and adverse-media lookups, the verifier's ledger queries), texts,       *)
(* usage, and the challenges that are never errors (missing sources, the   *)
(* seeds' design labels).                                                  *)
(***************************************************************************)
EXTENDS Rubric, FiniteSets

CONSTANTS
    Owner,      \* the datasets: the supplier of every known polygon
    Plot,       \* the polygon of the run's record
    Declared,   \* what the datasets may declare about the run's record
    Readings,   \* what an acquisition may return, for every known polygon
    Calls,      \* the tool calls the models may make
    Reviews,    \* the reports the verifier's model may return
    Slots,      \* tool calls that may be under way at once
    MaxFaults,  \* bound: acquisitions that raise
    Nothing     \* None

Polygons == DOMAIN Owner
Supplier == Owner[Plot]

BaselineTools == {"get_tree_cover_loss", "get_fire_hotspots", "get_legality_record"}
PolygonTools  == {"get_tree_cover_loss", "get_fire_hotspots"} \cup DeepDives
SupplierTools == {"get_legality_record", "check_concession_overlap"}

Kinds == {"missing_source", "metric_mismatch", "citation_failure", "design_mismatch",
          "coverage", "llm_review"}

(* A challenge of the verifier's model, with the evidence it cites: in the *)
(* candidate's ledger, unknown, both or none.                              *)
Challenge == [kind : Kinds, severity : {"info", "warning", "error"},
              cites : SUBSET {"ledger", "unknown"}]

VARIABLES
    phase,        \* the node that runs
    record,       \* what the record declares
    sources,      \* ToolContext._sources: the acquired sources of a polygon
    lock,         \* ToolContext._source_lock: the call that holds it
    calls,        \* the tool call in each slot, and where it is
    trace,        \* the tool steps recorded, with the sources a result shows
    candidate,    \* ToolContext.candidate
    verification, \* ToolContext.verification, with the model's report
    writer,       \* what dds_writer reported
    result,       \* the AgentRunResult
    faults        \* acquisitions that raised so far (bounds the model)

vars == <<phase, record, sources, lock, calls, trace, candidate, verification, writer,
          result, faults>>

-----------------------------------------------------------------------------
Assessed == [levels    : [Codes -> {"clear", "borderline", "flag"}],
             score     : 0..100,
             gaps      : BOOLEAN,
             verdict   : {"compliant", "ambiguous", "high_risk"},
             run_state : {"complete", "awaiting_review"}]

Reports == [accepted : BOOLEAN, errors : SUBSET Kinds, review : Reviews \cup {Nothing}]

Underway == [stage : {"called", "fetching"}, call : Calls]

ASSUME GraphAssumption ==
    /\ Plot \in Polygons
    /\ Declared \subseteq Record
    /\ Readings \in [Polygons -> SUBSET Sources]
    /\ \A call \in Calls : call.tool \in BaselineTools \cup DeepDives
    /\ \A review \in Reviews : review.challenges \subseteq Challenge
    /\ MaxFaults \in Nat
    /\ Nothing \notin Slots \cup Reviews \cup Sources
    /\ Nothing \notin Underway \cup Assessed \cup Reports \cup {"released", "withheld"}

(* Tool context, calls, trace, candidate and result keep their shapes, and *)
(* every score is within 0..100 (scoring.assess).                          *)
TypeOK ==
    /\ phase \in {"supervisor", "assessor", "verifier", "review", "dds_writer", "finish", "ended"}
    /\ record \in Declared
    /\ sources \in [Polygons -> Sources \cup {Nothing}]
    /\ lock \in Slots \cup {Nothing}
    /\ calls \in [Slots -> Underway \cup {Nothing}]
    /\ trace \subseteq [event : {"tool_start", "tool_end"}, call : Calls,
                        shows : Sources \cup {Nothing}]
    /\ candidate \in Assessed \cup {Nothing}
    /\ verification \in Reports \cup {Nothing}
    /\ writer \in {"released", "withheld", Nothing}
    /\ result \in [state : {"running", "failed", "complete", "awaiting_review"},
                   assessment : Assessed \cup {Nothing}, pending : Assessed \cup {Nothing},
                   reviewed : BOOLEAN]
    /\ faults \in Nat

Unfinished(state) == [state |-> state, assessment |-> Nothing, pending |-> Nothing,
                      reviewed |-> FALSE]

Init ==
    /\ phase = "supervisor"
    /\ record \in Declared
    /\ sources = [p \in Polygons |-> Nothing]
    /\ lock = Nothing
    /\ calls = [c \in Slots |-> Nothing]
    /\ trace = {}
    /\ candidate = Nothing
    /\ verification = Nothing
    /\ writer = Nothing
    /\ result = Unfinished("running")
    /\ faults = 0

-----------------------------------------------------------------------------
(* The supervisor: tool calls.                                             *)

At(c, stage) == calls[c] # Nothing /\ calls[c].stage = stage
AllIdle      == \A c \in Slots : calls[c] = Nothing

(* record_for_polygon and record_for_supplier know the ids.                *)
Known(call) ==
    /\ call.tool \in PolygonTools => call.polygon \in Polygons
    /\ call.tool = "get_legality_record" => \E p \in Polygons : Owner[p] = call.supplier

(* check_concession_overlap reads sources only for the polygon's supplier. *)
ReadsSources(call) ==
    /\ call.tool \in PolygonTools
    /\ call.tool = "check_concession_overlap" => Owner[call.polygon] = call.supplier

StepFor(call, event, shows) == [event |-> event, call |-> call, shows |-> shows]

(* The end of a call that returned: _record_tool.                          *)
Returns(c, shows) ==
    /\ trace' = trace \cup {StepFor(calls[c].call, "tool_end", shows)}
    /\ calls' = [calls EXCEPT ![c] = Nothing]

(* A specialist's model asks for a tool; the hook records a tool_start.    *)
CallTool(c, call) ==
    /\ phase = "supervisor"
    /\ calls[c] = Nothing
    /\ calls' = [calls EXCEPT ![c] = [stage |-> "called", call |-> call]]
    /\ trace' = trace \cup {StepFor(call, "tool_start", Nothing)}
    /\ UNCHANGED <<phase, record, sources, lock, candidate, verification, writer, result, faults>>

(* An unknown id raises: the model sees an error and no step is recorded.  *)
RefuseCall(c) ==
    /\ At(c, "called") /\ ~Known(calls[c].call)
    /\ calls[c].call.tool \in SupplierTools \/ lock = Nothing
    /\ calls' = [calls EXCEPT ![c] = Nothing]
    /\ UNCHANGED <<phase, record, sources, lock, trace, candidate, verification, writer, result, faults>>

(* A declared record, or the error that polygon and supplier do not match. *)
ReadDeclared(c) ==
    /\ At(c, "called") /\ Known(calls[c].call) /\ ~ReadsSources(calls[c].call)
    /\ Returns(c, Nothing)
    /\ UNCHANGED <<phase, record, sources, lock, candidate, verification, writer, result, faults>>

(* polygon_sources finds the polygon's sources.                            *)
ReadShared(c) ==
    /\ At(c, "called") /\ Known(calls[c].call) /\ ReadsSources(calls[c].call)
    /\ lock = Nothing
    /\ sources[calls[c].call.polygon] # Nothing
    /\ Returns(c, sources[calls[c].call.polygon])
    /\ UNCHANGED <<phase, record, sources, lock, candidate, verification, writer, result, faults>>

(* Mutant of Acquire: polygon_sources takes no lock.                       *)
AcquireUnlocked(c) ==
    /\ At(c, "called") /\ Known(calls[c].call) /\ ReadsSources(calls[c].call)
    /\ sources[calls[c].call.polygon] = Nothing
    /\ calls' = [calls EXCEPT ![c].stage = "fetching"]
    /\ UNCHANGED <<phase, record, sources, lock, trace, candidate, verification, writer, result, faults>>

(* It does not, and fetches them under the lock.                           *)
Acquire(c) ==
    /\ At(c, "called") /\ Known(calls[c].call) /\ ReadsSources(calls[c].call)
    /\ lock = Nothing
    /\ sources[calls[c].call.polygon] = Nothing
    /\ lock' = c
    /\ calls' = [calls EXCEPT ![c].stage = "fetching"]
    /\ UNCHANGED <<phase, record, sources, trace, candidate, verification, writer, result, faults>>

(* The sources answer: they are shared, the lock is freed, the call ends.  *)
Acquired(c) ==
    /\ At(c, "fetching")
    /\ \E got \in Readings[calls[c].call.polygon] :
          /\ sources' = [sources EXCEPT ![calls[c].call.polygon] = got]
          /\ Returns(c, got)
    /\ lock' = Nothing
    /\ UNCHANGED <<phase, record, candidate, verification, writer, result, faults>>

(* They raise: the lock is freed, nothing is shared, no step is recorded.  *)
AcquireFails(c) ==
    /\ At(c, "fetching") /\ faults < MaxFaults
    /\ calls' = [calls EXCEPT ![c] = Nothing]
    /\ lock' = Nothing
    /\ faults' = faults + 1
    /\ UNCHANGED <<phase, record, sources, trace, candidate, verification, writer, result>>

SupervisorEnds ==
    /\ phase = "supervisor" /\ AllIdle
    /\ phase' = "assessor"
    /\ UNCHANGED <<record, sources, lock, calls, trace, candidate, verification, writer, result, faults>>

(* A node raises: the run fails with nothing to show.                      *)
GraphFails ==
    /\ phase \in {"supervisor", "assessor", "verifier"} /\ AllIdle
    /\ phase' = "ended"
    /\ result' = Unfinished("failed")
    /\ UNCHANGED <<record, sources, lock, calls, trace, candidate, verification, writer, faults>>

-----------------------------------------------------------------------------
(* The assessor, on the shared sources or on its own acquisition.          *)

Assess ==
    /\ phase = "assessor"
    /\ \E got \in IF sources[Plot] = Nothing THEN Readings[Plot] ELSE {sources[Plot]} :
          /\ sources' = [sources EXCEPT ![Plot] = got]
          /\ candidate' = AssessRecord(record, got)
    /\ phase' = "verifier"
    /\ UNCHANGED <<record, lock, calls, trace, verification, writer, result, faults>>

-----------------------------------------------------------------------------
(* The verifier.                                                           *)

(* code_checks: the candidate equals its re-derivation from the sources.   *)
Rederived == candidate = AssessRecord(record, sources[Plot])

RightIds(call) ==
    /\ call.tool \in PolygonTools => call.polygon = Plot
    /\ call.tool \in SupplierTools => call.supplier = Supplier

(* Mutant of Recorded: a tool_start counts, by the ids of its input.       *)
RecordedStarts(tool) ==
    \E s \in trace : s.call.tool = tool /\ RightIds(s.call)

(* A call of the tool with the record's ids returned, with data or not.    *)
Recorded(tool) ==
    \E s \in trace : s.event # "tool_start" /\ s.call.tool = tool /\ RightIds(s.call)

Covered == \A tool \in BaselineTools \cup RequiredDeepDives(candidate) : Recorded(tool)

Report(errors, review) ==
    [accepted |-> errors = {}, errors |-> errors, review |-> review]

Gate == (IF Rederived THEN {} ELSE {"metric_mismatch"}) \cup (IF Covered THEN {} ELSE {"coverage"})

(* The deterministic checks: they reject, or the model is asked.           *)
Check ==
    /\ phase = "verifier"
    /\ IF Gate = {} THEN phase' = "review" /\ UNCHANGED verification
                    ELSE phase' = "finish" /\ verification' = Report(Gate, Nothing)
    /\ UNCHANGED <<record, sources, lock, calls, trace, candidate, writer, result, faults>>

(* get_source_claims: the verifier's model reads any known polygon.        *)
InspectClaims(p) ==
    /\ phase = "review"
    /\ sources[p] = Nothing
    /\ \E got \in Readings[p] : sources' = [sources EXCEPT ![p] = got]
    /\ UNCHANGED <<phase, record, lock, calls, trace, candidate, verification, writer, result, faults>>

DeterministicKinds == {"design_mismatch", "coverage"}

(* Mutant of Vetoes: an error that cites nothing passes the subset test.   *)
VetoesUncited(challenge) ==
    /\ challenge.severity = "error"
    /\ challenge.kind \notin DeterministicKinds
    /\ challenge.cites \subseteq {"ledger"}

(* _review_challenge leaves an error an error.                             *)
Vetoes(challenge) ==
    /\ challenge.severity = "error"
    /\ challenge.kind \notin DeterministicKinds
    /\ challenge.cites # {} /\ challenge.cites \subseteq {"ledger"}

Concludes(report) ==
    /\ phase = "review"
    /\ verification' = report
    /\ phase' = IF report.accepted THEN "dds_writer" ELSE "finish"
    /\ UNCHANGED <<record, sources, lock, calls, trace, candidate, writer, result, faults>>

Review(review) ==
    Concludes(Report({c.kind : c \in {d \in review.challenges : Vetoes(d)}}, review))

(* The model raises, or returns no report.                                 *)
ReviewFails == Concludes(Report({"llm_review"}, Nothing))

-----------------------------------------------------------------------------
(* The writer, the outcome, and the human decision.                        *)

Commit ==
    /\ phase = "dds_writer"
    /\ writer' = IF candidate.run_state = "awaiting_review" THEN "withheld" ELSE "released"
    /\ phase' = "finish"
    /\ UNCHANGED <<record, sources, lock, calls, trace, candidate, verification, result, faults>>

Closed(assessed) ==
    IF assessed.run_state = "awaiting_review"
    THEN [Unfinished("awaiting_review") EXCEPT !.pending = assessed]
    ELSE [Unfinished("complete") EXCEPT !.assessment = assessed]

(* Mutant of Finish: any candidate finishes the run.                       *)
FinishUnverified ==
    /\ phase = "finish"
    /\ result' = IF candidate # Nothing THEN Closed(candidate) ELSE Unfinished("failed")
    /\ phase' = "ended"
    /\ UNCHANGED <<record, sources, lock, calls, trace, candidate, verification, writer, faults>>

Finish ==
    /\ phase = "finish"
    /\ result' = IF candidate # Nothing /\ verification # Nothing /\ verification.accepted
                 THEN Closed(candidate) ELSE Unfinished("failed")
    /\ phase' = "ended"
    /\ UNCHANGED <<record, sources, lock, calls, trace, candidate, verification, writer, faults>>

(* resume, with either decision.                                           *)
Resume ==
    /\ result.state = "awaiting_review"
    /\ result' = [state |-> "complete", assessment |-> result.pending, pending |-> Nothing,
                  reviewed |-> TRUE]
    /\ UNCHANGED <<phase, record, sources, lock, calls, trace, candidate, verification, writer, faults>>

Next ==
    \/ \E c \in Slots : \E call \in Calls : CallTool(c, call)
    \/ \E c \in Slots : \/ RefuseCall(c) \/ ReadDeclared(c) \/ ReadShared(c)
                        \/ Acquire(c) \/ Acquired(c) \/ AcquireFails(c)
    \/ SupervisorEnds \/ GraphFails
    \/ Assess
    \/ Check
    \/ \E p \in Polygons : InspectClaims(p)
    \/ \E review \in Reviews : Review(review)
    \/ ReviewFails
    \/ Commit \/ Finish \/ Resume

Spec == Init /\ [][Next]_vars

-----------------------------------------------------------------------------
(* Everything the models were shown, and what was scored, is one snapshot: *)
(* however the calls interleave, a polygon is acquired once with success,  *)
(* and every recorded result and the candidate come from that acquisition. *)
OneSnapshot ==
    /\ \A s \in trace : s.shows # Nothing => s.shows = sources[s.call.polygon]
    /\ candidate # Nothing => candidate = AssessRecord(record, sources[Plot])

(* The writer runs only after an investigation of this plot that returned: *)
(* the screening, the permit record and, for a suspicious candidate, both  *)
(* deep dives, each showing the very sources that were scored.             *)
InvestigatedBeforeWrite ==
    writer # Nothing =>
        /\ \E s \in trace : /\ s.event = "tool_end"
                            /\ s.call.tool = "get_legality_record"
                            /\ s.call.supplier = Supplier
        /\ \A tool \in {"get_tree_cover_loss", "get_fire_hotspots"} \cup RequiredDeepDives(candidate) :
              \E s \in trace : /\ s.call.tool = tool /\ s.call.polygon = Plot
                               /\ s.shows # Nothing
                               /\ candidate = AssessRecord(record, s.shows)

(* The model can neither accept what the checks reject nor reject what     *)
(* they accept without an error that cites the ledger and only the ledger. *)
(* A rejection names its errors.                                           *)
GateStands ==
    verification # Nothing =>
        /\ verification.accepted <=> verification.errors = {}
        /\ verification.accepted => Rederived /\ Covered
        /\ Rederived /\ Covered /\ ~verification.accepted =>
              \/ verification.review = Nothing /\ verification.errors = {"llm_review"}
              \/ \E c \in verification.review.challenges :
                    c.severity = "error" /\ c.cites = {"ledger"}

(* What the writer reported on the graph's edge and the state the run got  *)
(* from the context agree, and a run that wrote nothing shows nothing.     *)
OutcomeAgrees ==
    phase = "ended" =>
        /\ result.state = "failed" <=> writer = Nothing
        /\ result.assessment # Nothing =>
              /\ result.state = "complete" /\ result.assessment = candidate
              /\ writer = "released" <=> ~result.reviewed
        /\ result.pending # Nothing =>
              result.state = "awaiting_review" /\ result.pending = candidate /\ writer = "withheld"
        /\ result.state # "failed" =>
              (result.assessment # Nothing) # (result.pending # Nothing)

(* A plot without any sign: every source answered, and none of the values  *)
(* reaches a threshold.                                                    *)
Spotless(r, s) ==
    /\ ~s.errors
    /\ s.loss.present /\ s.loss.ha < Config["loss_borderline_ha"]
                      /\ s.loss.ha < Config["loss_flag_ha"]
    /\ s.hotspots.present /\ s.hotspots.count < Config["hotspot_borderline_count"]
                          /\ s.hotspots.count < Config["hotspot_flag_count"]
                          /\ (s.hotspots.count > 0 => ~s.hotspots.recent)
    /\ \A name \in Layers : s.layers[name].status # "unavailable"
    /\ \A name \in {"protected_areas", "moratorium", "peatlands"} : ~Overlaps(s, name)
    /\ \A name \in Relevant(s) : /\ s.layers[name].holders \subseteq {"declared"}
                                 /\ Authorised(name) = r.commodity
    /\ ~r.expired /\ ~r.sanctioned /\ r.permit \in {"active", "none"}
    /\ r.indonesian => r.permitted
    /\ r.concession_area * 100 >= r.area * (100 - Config["area_mismatch_tolerance"])

(* A run completes without a person only for a spotless plot.              *)
ReleasedIsSpotless ==
    result.state = "complete" /\ ~result.reviewed => Spotless(record, sources[Plot])

(* A certificate lowers the score and puts a flag in doubt; it never turns *)
(* a verdict into compliant, nor is one needed for that.                   *)
CertificateReleasesNothing ==
    candidate # Nothing =>
        \A certified \in BOOLEAN :
            Verdict([record EXCEPT !.certified = certified], sources[Plot]) = "compliant"
                <=> candidate.verdict = "compliant"

(* investigation.py: a candidate that requires a deep dive has a screening *)
(* signal, so a model that follows the signals satisfies coverage.         *)
SignalsCoverDeepDives ==
    candidate # Nothing /\ RequiredDeepDives(candidate) # {} => ScreeningSignals(sources[Plot]) # {}
=============================================================================
