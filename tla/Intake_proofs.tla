---------------------------- MODULE Intake_proofs ----------------------------
(***************************************************************************)
(* Theorems about Intake, and about Dossier, which it extends, for every   *)
(* set of submissions, files and answers, any number of clients, records   *)
(* and runs: the records are kept, an import is exact, what a run writes   *)
(* about an accepted plot is sound, the same answers leave the same        *)
(* evidence, and a run's context is the accepted one.                      *)
(***************************************************************************)
EXTENDS Intake, FiniteSetTheorems, SequenceTheorems, TLAPS

-----------------------------------------------------------------------------
(* What intake accepts and what a statement needs.                         *)

(* What assess_record relies on in a record it is given, and how far its   *)
(* area can be from the one that was measured or declared.                 *)
Sound(r) ==
  /\ r.country # None
  /\ r.geometry.flaw \notin GeometryFlaws
  /\ r.geometry.type \in PlotTypes \ {"Point"}
  /\ r.area > POINT_MAX_HA => r.input # "Point" /\ r.measured > POINT_MAX_HA
  /\ ~(r.area > POINT_MAX_HA) => r.measured <= POINT_MAX_HA + HalfOfTheLastDecimal
  /\ r.synthetic <=> r.provenance = "synthetic"

(* A point that may be declared is still small when its area is rounded.   *)
LEMMA AcceptedIsSound ==
  ASSUME NEW s \in Plots, Accepted(s), NEW id
  PROVE  Sound(SubmittedRecord(s, id))
<1>1. s.geometry.flaw \notin GeometryFlaws /\ s.geometry.type \in PlotTypes /\ ~TooWide(s)
  BY DEF Accepted, Refused, GeometryRefused, Unusable
<1>2. IsPoint(s) => Rounded(PlotArea(s)) <= POINT_MAX_HA
  BY <1>1 DEF TooWide, Rounded, PlotArea, POINT_MAX_HA, Plots
<1>3. Rounded(PlotArea(s)) \in Int
  BY DEF Rounded, PlotArea, Plots
<1>4. s.country # None
  BY DEF Plots
<1>5. LET a == Rounded(PlotArea(s))
      IN  /\ a > POINT_MAX_HA => PlotArea(s) > POINT_MAX_HA
          /\ ~(a > POINT_MAX_HA) => PlotArea(s) <= POINT_MAX_HA + HalfOfTheLastDecimal
  <2>1. PlotArea(s) \in Nat
    BY DEF PlotArea, Plots
  <2> QED
    BY <2>1 DEF Rounded, POINT_MAX_HA, HalfOfTheLastDecimal
<1> QED
  BY <1>1, <1>2, <1>3, <1>4, <1>5 DEF Sound, SubmittedRecord, IsPoint, PlotTypes, None, POINT_MAX_HA

LEMMA SeedIsSound == ASSUME NEW id PROVE Sound(SeedRecord(id))
  BY DEF Sound, SeedRecord, None, GeometryFlaws, PlotTypes, POINT_MAX_HA, HalfOfTheLastDecimal

(* Every claim a field of the statement cites has an entry in the ledger,  *)
(* whatever the sources answered.                                          *)
LEMMA EveryFieldIsCited ==
  ASSUME NEW in, NEW field \in DOMAIN CitedClaim
  PROVE  Citations(in)[field] # {}
<1> DEFINE r == in.record
           Cited(e) == e \in Ledger(in) /\ e.claim = CitedClaim[field]
<1>1. \E e : Cited(e)
  <2>1. ASSUME NEW claim \in {"parcel.geometry", "parcel.country"}, CitedClaim[field] = claim
        PROVE  \E e : Cited(e)
    <3> DEFINE e == Entry(claim, <<r.id>>, "concession", r.provenance,
                        r.provenance = "synthetic", FALSE)
    <3>1. e \in ParcelEntries(r)
      BY <2>1 DEF ParcelEntries
    <3>2. e.claim = claim
      BY DEF Entry
    <3> HIDE DEF e
    <3> QED
      BY <2>1, <3>1, <3>2 DEF Ledger
  <2>2. ASSUME NEW claim \in SupplierClaims, CitedClaim[field] = claim
        PROVE  \E e : Cited(e)
    <3> DEFINE e == Entry(claim, <<r.id>>, "legality", r.provenance, r.synthetic, FALSE)
    <3>1. e \in DeclaredEntries(r, in.operator)
      BY <2>2 DEF DeclaredEntries
    <3>2. e.claim = claim
      BY DEF Entry
    <3> HIDE DEF e
    <3> QED
      BY <2>2, <3>1, <3>2 DEF Ledger
  <2>3. ASSUME NEW claim \in ConsignmentClaims, CitedClaim[field] = claim
        PROVE  \E e : Cited(e)
    <3> DEFINE e == Entry(claim, <<r.id>>, "consignment", r.provenance, r.synthetic, FALSE)
    <3>1. e \in DeclaredEntries(r, in.operator)
      BY <2>3 DEF DeclaredEntries
    <3>2. e.claim = claim
      BY DEF Entry
    <3> HIDE DEF e
    <3> QED
      BY <2>3, <3>1, <3>2 DEF Ledger
  <2>4. ASSUME NEW claim \in OperatorClaims, CitedClaim[field] = claim
        PROVE  \E e : Cited(e)
    <3> DEFINE e == Entry(claim, <<in.operator>>, "operator",
                        IF OperatorSynthetic(in.operator) THEN "synthetic" ELSE "operator_configured",
                        OperatorSynthetic(in.operator), FALSE)
    <3>1. e \in DeclaredEntries(r, in.operator)
      BY <2>4 DEF DeclaredEntries
    <3>2. e.claim = claim
      BY DEF Entry
    <3> HIDE DEF e
    <3> QED
      BY <2>4, <3>1, <3>2 DEF Ledger
  <2>5. ASSUME NEW claim \in {"rubric.score", "rubric.verdict"}, CitedClaim[field] = claim
        PROVE  \E e : Cited(e)
    <3> DEFINE e == Entry(claim, <<r.id, in.facts.loss.value, in.facts.hotspots.value,
                                 in.facts.layers.value>>, "rubric", "derived", FALSE, FALSE)
    <3>1. e \in RubricEntries(in)
      BY <2>5 DEF RubricEntries
    <3>2. e.claim = claim
      BY DEF Entry
    <3> HIDE DEF e
    <3> QED
      BY <2>5, <3>1, <3>2 DEF Ledger
  <2>6. CitedClaim[field] \in {"parcel.geometry", "parcel.country"} \cup SupplierClaims
          \cup ConsignmentClaims \cup OperatorClaims \cup {"rubric.score", "rubric.verdict"}
    BY DEF CitedClaim, SupplierClaims, ConsignmentClaims, OperatorClaims
  <2> QED
    BY <2>1, <2>2, <2>3, <2>4, <2>5, <2>6
<1> QED
  BY <1>1 DEF Citations

LEMMA SoundIsDeclarable == ASSUME NEW in, Sound(in.record) PROVE Declarable(in)
<1>1. Uncited(in) = {}
  BY EveryFieldIsCited DEF Uncited, RequiredClaims
<1>2. ~Unbuildable(in)
  BY DEF Sound, Unbuildable, GeometryFlaws, PlotTypes
<1> QED
  BY <1>1, <1>2 DEF Declarable

(* Invented evidence comes from a seed record or the seed's operator.      *)
LEMMA SyntheticIsInvented ==
  ASSUME NEW in, in.record.synthetic \in BOOLEAN, Sound(in.record)
  PROVE  Synthetic(in) <=> \E e \in Ledger(in) : e.provenance = "synthetic"
<1>1. ASSUME in.record.synthetic PROVE \E e \in Ledger(in) : e.provenance = "synthetic"
  <2> DEFINE e == Entry("parcel.geometry", <<in.record.id>>, "concession",
                        in.record.provenance, in.record.provenance = "synthetic", FALSE)
  <2>1. e \in ParcelEntries(in.record)
    BY DEF ParcelEntries
  <2>2. e.provenance = "synthetic"
    BY <1>1 DEF Entry, Sound
  <2> HIDE DEF e
  <2> QED
    BY <2>1, <2>2 DEF Ledger
<1>2. ASSUME OperatorSynthetic(in.operator)
      PROVE  \E e \in Ledger(in) : e.provenance = "synthetic"
  <2> DEFINE e == Entry("operator.name", <<in.operator>>, "operator",
                        IF OperatorSynthetic(in.operator) THEN "synthetic" ELSE "operator_configured",
                        OperatorSynthetic(in.operator), FALSE)
  <2>1. e \in DeclaredEntries(in.record, in.operator)
    BY DEF DeclaredEntries, OperatorClaims
  <2>2. e.provenance = "synthetic"
    BY <1>2 DEF Entry
  <2> HIDE DEF e
  <2> QED
    BY <2>1, <2>2 DEF Ledger
<1>3. ASSUME ~in.record.synthetic, ~OperatorSynthetic(in.operator), NEW e \in Ledger(in)
      PROVE  e.provenance # "synthetic"
  <2>1. in.record.provenance # "synthetic"
    BY <1>3 DEF Sound
  <2>2. CASE e \in ParcelEntries(in.record)
    BY <2>1, <2>2 DEF ParcelEntries, Entry
  <2>3. CASE e \in SourceEntries(in.facts)
    BY <2>3 DEF SourceEntries, AnswerEntries, Entry
  <2>4. CASE e \in DeclaredEntries(in.record, in.operator)
    BY <2>1, <1>3, <2>4 DEF DeclaredEntries, Entry
  <2>5. CASE e \in RubricEntries(in)
    BY <2>5 DEF RubricEntries, Entry
  <2> QED
    BY <1>3, <2>2, <2>3, <2>4, <2>5 DEF Ledger
<1> QED
  BY <1>1, <1>2, <1>3 DEF Synthetic

(* What a statement shows of a sound record.                               *)
LEMMA SoundIsShown ==
  ASSUME NEW r, Sound(r)
  PROVE  LET shown == GeometryPayload(r)
         IN  /\ ~shown.derived
             /\ shown.type # "Point" => r.measured > POINT_MAX_HA
             /\ shown.type = "Point" => r.measured <= POINT_MAX_HA + HalfOfTheLastDecimal
<1>1. CASE r.area > POINT_PLOT_MAX_HA
  <2>1. r.input # "Point" /\ r.geometry.type # "Point" /\ r.measured > POINT_MAX_HA
    BY <1>1 DEF Sound, POINT_MAX_HA, POINT_PLOT_MAX_HA
  <2>2. GeometryPayload(r).derived = (r.input = "Point")
    BY <1>1 DEF GeometryPayload
  <2>3. GeometryPayload(r).type = r.geometry.type
    BY <1>1 DEF GeometryPayload
  <2> QED
    BY <2>1, <2>2, <2>3
<1>2. CASE ~(r.area > POINT_PLOT_MAX_HA)
  <2>1. GeometryPayload(r).type = "Point" /\ ~GeometryPayload(r).derived
    BY <1>2 DEF GeometryPayload
  <2>2. r.measured <= POINT_MAX_HA + HalfOfTheLastDecimal
    BY <1>2 DEF Sound, POINT_MAX_HA, POINT_PLOT_MAX_HA
  <2> QED
    BY <2>1, <2>2
<1> QED
  BY <1>1, <1>2

-----------------------------------------------------------------------------
(* Evidence ids.                                                           *)

Values(in) == <<in.facts.loss.value, in.facts.hotspots.value, in.facts.layers.value>>

(* Two runs that differ in no more than what the cache answered.           *)
SameButCached(a, b) ==
  a.record = b.record /\ a.operator = b.operator /\ Values(a) = Values(b)

LEMMA TwinAnswer ==
  ASSUME NEW claims, NEW x, NEW y, x.value = y.value, NEW value, NEW source,
         NEW e \in AnswerEntries(claims, x, value, source)
  PROVE  \E t \in AnswerEntries(claims, y, value, source) :
            t.claim = e.claim /\ EvidenceId(t) = EvidenceId(e)
<1>1. PICK claim \in claims :
        e = Entry(claim, value, source, "real_source", FALSE, x.cached)
  BY DEF AnswerEntries
<1> DEFINE t == Entry(claim, value, source, "real_source", FALSE, y.cached)
<1>2. t \in AnswerEntries(claims, y, value, source)
  BY DEF AnswerEntries
<1>3. t.claim = e.claim /\ EvidenceId(t) = EvidenceId(e)
  BY <1>1 DEF Entry, EvidenceId
<1> HIDE DEF t
<1> QED
  BY <1>2, <1>3

LEMMA TwinEntry ==
  ASSUME NEW a, NEW b, SameButCached(a, b), NEW e \in Ledger(a)
  PROVE  \E t \in Ledger(b) : t.claim = e.claim /\ EvidenceId(t) = EvidenceId(e)
<1>1. /\ a.facts.loss.value = b.facts.loss.value
      /\ a.facts.hotspots.value = b.facts.hotspots.value
      /\ a.facts.layers.value = b.facts.layers.value
  BY DEF SameButCached, Values
<1>2. CASE e \in ParcelEntries(a.record) \cup DeclaredEntries(a.record, a.operator)
  BY <1>2 DEF SameButCached, Ledger
<1>3. CASE e \in RubricEntries(a)
  <2>1. RubricEntries(a) = RubricEntries(b)
    BY <1>1 DEF RubricEntries, SameButCached
  <2> QED
    BY <1>3, <2>1 DEF Ledger
<1>4. CASE e \in SourceEntries(a.facts)
  <2>1. \E t \in SourceEntries(b.facts) : t.claim = e.claim /\ EvidenceId(t) = EvidenceId(e)
    BY <1>1, <1>4, TwinAnswer DEF SourceEntries, LayerValue
  <2> QED
    BY <2>1 DEF Ledger
<1> QED
  BY <1>2, <1>3, <1>4 DEF Ledger

LEMMA TwinLedgers ==
  ASSUME NEW a, NEW b, SameButCached(a, b)
  PROVE  EvidenceIds(a) = EvidenceIds(b) /\ Citations(a) = Citations(b)
<1>1. SameButCached(b, a)
  BY DEF SameButCached
<1>2. EvidenceIds(a) = EvidenceIds(b)
  BY <1>1, TwinEntry DEF EvidenceIds
<1>3. \A field \in DOMAIN CitedClaim : Citations(a)[field] = Citations(b)[field]
  BY <1>1, TwinEntry DEF Citations
<1> QED
  BY <1>2, <1>3 DEF Citations
-----------------------------------------------------------------------------
(* The inductive invariant.                                                *)

Records ==
  {SeedRecord(SeedId), LegacyRecord(LegacyId)}
  \cup {SubmittedRecord(s, id) : s \in Plots, id \in Nat}

Requests ==
  [pc : {"idle", "import", "commit", "register"}, rows : Seq(Plots), at : Nat \ {0},
   created : Seq(Nat), errors : SUBSET Nat]

RunRows ==
  [record : Records, operator : Nat,
   state : {"open", "done", "undeclarable", "interrupted"},
   input : [record : Records, operator : Nat, facts : Facts] \cup {None}]

Types ==
  /\ up \in BOOLEAN /\ autoSeed \in BOOLEAN /\ seeded \in BOOLEAN
  /\ table \in [DOMAIN table -> Records]
  /\ registry \in [DOMAIN registry -> Records]
  /\ operator \in Profiles \cup {0}
  /\ requests \in [Clients -> Requests]
  /\ runs \in Seq(RunRows) /\ Len(runs) <= MaxRuns
  /\ crashes \in 0..MaxCrashes

(* A row of the table: the legacy one, or what an accepted submission      *)
(* became under its own id.                                                *)
KeptRow(id, row) ==
  \/ id = LegacyId /\ row = LegacyRecord(LegacyId)
  \/ id # LegacyId /\ \E s \in Plots : Accepted(s) /\ row = SubmittedRecord(s, id)

(* Ids are given in order, so the next one is new.                         *)
TableFits ==
  /\ \E n \in Nat : DOMAIN table \ {LegacyId} = 2..(n + 1)
  /\ \A id \in DOMAIN table : KeptRow(id, table[id])

(* The registry is empty until the process is up; then it holds rows of    *)
(* the table, every one but those a request is still to register or a      *)
(* failed import left behind.                                              *)
RegistryFits ==
  /\ ~up => registry = << >>
  /\ \A id \in DOMAIN registry : id \in DOMAIN table /\ registry[id] = table[id]
  /\ up => DOMAIN table \ DOMAIN registry
             \subseteq stranded \cup UNION {Range(requests[c].created) : c \in Clients}
  /\ promised \subseteq DOMAIN table \ {LegacyId}
  /\ up => promised \subseteq DOMAIN registry

(* A request's rows are committed in the table t, whatever others commit   *)
(* beside it.                                                              *)
RequestFits(r, t) ==
  /\ r.pc = "idle" => r = Idle
  /\ r.pc = "import" => r.at <= Len(r.rows)
  /\ r.pc \in {"commit", "register"} => r.at = Len(r.rows) + 1
  /\ Range(r.created) \subseteq DOMAIN t \ {LegacyId}
  /\ ExactUpTo(r, r.at - 1, t)

(* A run's record is the seed's or one of the table t that has a country,  *)
(* and what it was executed with is what it was accepted with.             *)
RunFits(run, t) ==
  /\ \/ run.record = SeedRecord(SeedId)
     \/ run.record.id \in DOMAIN t /\ run.record = t[run.record.id]
  /\ run.record.country # None
  /\ run.state # "undeclarable"
  /\ run.state = "done" => \E facts \in Facts : run.input = RunInput(run, facts)

IInv ==
  /\ Types /\ TableFits /\ RegistryFits
  /\ ~up => \A c \in Clients : requests[c] = Idle
  /\ \A c \in Clients : RequestFits(requests[c], table)
  /\ \A i \in DOMAIN runs : RunFits(runs[i], table)
-----------------------------------------------------------------------------
(* The rows of a request.                                                  *)

LEMMA KeptFinite ==
  ASSUME NEW r, NEW n \in Nat
  PROVE  IsFiniteSet(Kept(r, n)) /\ Cardinality(Kept(r, n)) \in Nat
<1>1. IsFiniteSet(1..n)
  BY FS_Interval
<1>2. Kept(r, n) \subseteq 1..n
  BY DEF Kept
<1> QED
  BY <1>1, <1>2, FS_Subset, FS_CardinalityType

(* The place of a kept row is a place in the answer.                       *)
LEMMA PlaceInAnswer ==
  ASSUME NEW r, NEW n \in Nat, NEW i \in Kept(r, n)
  PROVE  Place(r, i) \in 1..Cardinality(Kept(r, n))
<1>1. i \in Nat /\ i \in Kept(r, i) /\ Kept(r, i) \subseteq Kept(r, n)
  BY DEF Kept
<1>2. Cardinality(Kept(r, i)) <= Cardinality(Kept(r, n))
  BY <1>1, KeptFinite, FS_Subset
<1>3. Cardinality(Kept(r, i)) # 0
  BY <1>1, KeptFinite, FS_EmptySet
<1>4. Cardinality(Kept(r, i)) \in Nat /\ Cardinality(Kept(r, n)) \in Nat
  BY <1>1, KeptFinite
<1> QED
  BY <1>2, <1>3, <1>4 DEF Place

(* The next row is kept or it is not.                                      *)
LEMMA KeptNext ==
  ASSUME NEW r, NEW n \in Nat
  PROVE  /\ Accepted(r.rows[n + 1]) =>
                /\ Kept(r, n + 1) = Kept(r, n) \cup {n + 1}
                /\ Cardinality(Kept(r, n + 1)) = Cardinality(Kept(r, n)) + 1
         /\ ~Accepted(r.rows[n + 1]) => Kept(r, n + 1) = Kept(r, n)
<1>1. 1..(n + 1) = (1..n) \cup {n + 1}
  OBVIOUS
<1>2. Accepted(r.rows[n + 1]) => Kept(r, n + 1) = Kept(r, n) \cup {n + 1}
  BY <1>1 DEF Kept
<1>3. ~Accepted(r.rows[n + 1]) => Kept(r, n + 1) = Kept(r, n)
  BY <1>1 DEF Kept
<1>4. n + 1 \notin Kept(r, n)
  BY DEF Kept
<1>5. Cardinality(Kept(r, n) \cup {n + 1}) = Cardinality(Kept(r, n)) + 1
  BY ZenonT(40), <1>4, KeptFinite, FS_AddElement
<1> QED
  BY <1>2, <1>3, <1>5

LEMMA KeptOfRows ==
  ASSUME NEW r, NEW q, q.rows = r.rows, NEW n
  PROVE  Kept(q, n) = Kept(r, n) /\ Place(q, n) = Place(r, n)
  BY DEF Kept, Place

(* What a request has written stays as others write.                       *)
GrowsTo(t, u) == \A id \in DOMAIN t : id \in DOMAIN u /\ u[id] = t[id]

LEMMA RequestKept ==
  ASSUME NEW r \in Requests, NEW t, NEW u, RequestFits(r, t), GrowsTo(t, u)
  PROVE  RequestFits(r, u)
<1>1. r.at - 1 \in Nat /\ r.created \in Seq(Nat)
  BY DEF Requests
<1>2. ASSUME NEW i \in Kept(r, r.at - 1)
      PROVE  r.created[Place(r, i)] \in DOMAIN t
  <2>1. Place(r, i) \in 1..Len(r.created)
    BY <1>1, PlaceInAnswer DEF RequestFits, ExactUpTo
  <2> QED
    BY <1>1, <2>1 DEF RequestFits, Range
<1>3. ExactUpTo(r, r.at - 1, u)
  BY <1>2 DEF RequestFits, ExactUpTo, GrowsTo
<1>4. Range(r.created) \subseteq DOMAIN u \ {LegacyId}
  BY DEF RequestFits, GrowsTo
<1> QED
  BY <1>3, <1>4 DEF RequestFits

LEMMA NextRowFields ==
  ASSUME NEW r \in Requests
  PROVE  LET p == NextRow(r)
         IN  /\ p \in Requests
             /\ p.rows = r.rows /\ p.at = r.at + 1 /\ p.created = r.created
             /\ p.errors = r.errors
             /\ p.pc = IF r.at = Len(r.rows) THEN "commit" ELSE "import"
<1> DEFINE m == [r EXCEPT !.at = @ + 1]
           p == NextRow(r)
<1>1. /\ p.rows = r.rows /\ p.at = r.at + 1 /\ p.created = r.created
      /\ p.errors = r.errors
      /\ p.pc = IF r.at = Len(r.rows) THEN "commit" ELSE "import"
  BY DEF NextRow, Requests
<1>2. m \in Requests
  <2>1. r.at + 1 \in Nat \ {0}
    BY DEF Requests
  <2> QED
    BY <2>1 DEF Requests
<1>3. p = [m EXCEPT !.pc = IF r.at = Len(r.rows) THEN "commit" ELSE "import"]
  BY DEF NextRow
<1>4. p \in Requests
  <2> HIDE DEF m, p
  <2> QED BY <1>2, <1>3 DEF Requests
<1> QED
  BY <1>1, <1>4

(* A refused row is reported.                                              *)
LEMMA RefusedRowFits ==
  ASSUME NEW r \in Requests, NEW t, RequestFits(r, t), r.pc = "import",
         ~Accepted(r.rows[r.at])
  PROVE  RowRefused(r) \in Requests /\ RequestFits(RowRefused(r), t)
<1> DEFINE p == NextRow(r)
           q == RowRefused(r)
           n == r.at - 1
<1>1. /\ q.rows = r.rows /\ q.at = r.at + 1 /\ q.created = r.created
      /\ q.errors = r.errors \cup {r.at}
      /\ q.pc = IF r.at = Len(r.rows) THEN "commit" ELSE "import"
      /\ q \in Requests
  <2>1. q = [p EXCEPT !.errors = @ \cup {r.at}]
    BY DEF RowRefused
  <2> HIDE DEF p, q
  <2> QED
    BY <2>1, NextRowFields DEF Requests, p
<1>2. r.at \in Nat \ {0} /\ r.at <= Len(r.rows) /\ r.rows \in Seq(Plots)
  BY DEF RequestFits, Requests
<1>3. n \in Nat /\ n + 1 = r.at
  BY <1>2
<1>4. Kept(r, n + 1) = Kept(r, n)
  BY <1>3, KeptNext
<1> HIDE DEF q
<1>5. ExactUpTo(q, r.at, t)
  <2>1. Kept(q, r.at) = Kept(r, n)
    BY <1>1, <1>3, <1>4, KeptOfRows
  <2>2. q.errors = (1..r.at) \ Kept(r, n)
    <3>1. r.errors = (1..n) \ Kept(r, n) /\ r.at \notin Kept(r, n)
      BY <1>2 DEF RequestFits, ExactUpTo, Kept
    <3>2. 1..r.at = (1..n) \cup {r.at}
      BY <1>2
    <3> QED
      BY <1>1, <3>1, <3>2
  <2>3. \A i \in Kept(r, n) : Place(q, i) = Place(r, i)
    BY <1>1, KeptOfRows
  <2> QED
    BY <1>1, <2>1, <2>2, <2>3 DEF RequestFits, ExactUpTo
<1> QED
  BY <1>1, <1>2, <1>5 DEF RequestFits, q

(* The table a row is inserted into.                                       *)
LEMMA FreshIdIsNew ==
  ASSUME TableFits
  PROVE  /\ FreshId \in Nat /\ FreshId > LegacyId /\ FreshId \notin DOMAIN table
         /\ DOMAIN table \subseteq Nat \ {SeedId}
         /\ \E n \in Nat : DOMAIN table \ {LegacyId} = 2..(n + 1) /\ FreshId = n + 2
<1>1. PICK n \in Nat : DOMAIN table \ {LegacyId} = 2..(n + 1)
  BY DEF TableFits
<1>2. Cardinality(2..(n + 1)) = n
  BY FS_Interval
<1>3. FreshId = n + 2
  <2>1. Cardinality(DOMAIN table \ {LegacyId}) = n
    BY <1>1, <1>2
  <2> QED
    BY <2>1 DEF FreshId
<1>4. DOMAIN table \subseteq (2..(n + 1)) \cup {LegacyId}
  BY <1>1
<1> QED
  BY <1>1, <1>3, <1>4 DEF LegacyId, SeedId

LEMMA InsertedFits ==
  ASSUME Types, TableFits, NEW s \in Plots, Accepted(s)
  PROVE  LET t == Inserted(s)
         IN  /\ GrowsTo(table, t) /\ DOMAIN t = DOMAIN table \cup {FreshId}
             /\ t[FreshId] = SubmittedRecord(s, FreshId)
             /\ t \in [DOMAIN t -> Records]
             /\ \E n \in Nat : DOMAIN t \ {LegacyId} = 2..(n + 1)
             /\ \A id \in DOMAIN t : KeptRow(id, t[id])
<1> DEFINE t == Inserted(s)
<1>1. /\ FreshId \in Nat /\ FreshId # LegacyId /\ FreshId \notin DOMAIN table
  BY FreshIdIsNew DEF LegacyId
<1>2. /\ GrowsTo(table, t) /\ DOMAIN t = DOMAIN table \cup {FreshId}
      /\ t[FreshId] = SubmittedRecord(s, FreshId)
  BY <1>1 DEF Inserted, GrowsTo
<1>3. t \in [DOMAIN t -> Records]
  <2>1. \A id \in DOMAIN table : table[id] \in Records
    BY DEF Types
  <2> QED
    BY <1>1, <2>1 DEF Inserted, Records
<1>4. \E n \in Nat : DOMAIN t \ {LegacyId} = 2..(n + 1)
  <2>1. PICK n \in Nat : DOMAIN table \ {LegacyId} = 2..(n + 1) /\ FreshId = n + 2
    BY FreshIdIsNew
  <2>2. DOMAIN t \ {LegacyId} = 2..((n + 1) + 1)
    BY <1>1, <1>2, <2>1
  <2> QED
    BY <2>2
<1>5. \A id \in DOMAIN t : KeptRow(id, t[id])
  BY <1>1, <1>2 DEF KeptRow, TableFits, GrowsTo
<1> QED
  BY <1>2, <1>3, <1>4, <1>5

(* An accepted row is committed under a new id.                            *)
LEMMA AcceptedRowFits ==
  ASSUME Types, TableFits, NEW r \in Requests, RequestFits(r, table), r.pc = "import",
         Accepted(r.rows[r.at])
  PROVE  RowCreated(r) \in Requests /\ RequestFits(RowCreated(r), Inserted(r.rows[r.at]))
<1> DEFINE p == NextRow(r)
           q == RowCreated(r)
           n == r.at - 1
           s == r.rows[r.at]
           t == Inserted(s)
<1>1. /\ q.rows = r.rows /\ q.at = r.at + 1 /\ q.created = Append(r.created, FreshId)
      /\ q.errors = r.errors
      /\ q.pc = IF r.at = Len(r.rows) THEN "commit" ELSE "import"
      /\ q \in Requests
  <2>1. q = [p EXCEPT !.created = Append(@, FreshId)]
    BY DEF RowCreated
  <2>2. Append(r.created, FreshId) \in Seq(Nat)
    BY FreshIdIsNew, AppendProperties DEF Requests
  <2> HIDE DEF p, q
  <2> QED
    BY <2>1, <2>2, NextRowFields DEF Requests, p
<1>2. r.at \in Nat \ {0} /\ r.at <= Len(r.rows) /\ r.rows \in Seq(Plots)
  BY DEF RequestFits, Requests
<1>3. n \in Nat /\ n + 1 = r.at /\ s \in Plots
  BY <1>2
<1>4. /\ Kept(r, r.at) = Kept(r, n) \cup {r.at}
      /\ Cardinality(Kept(r, r.at)) = Cardinality(Kept(r, n)) + 1
  <2>1. Accepted(r.rows[n + 1])
    BY <1>3
  <2>2. /\ Kept(r, n + 1) = Kept(r, n) \cup {n + 1}
        /\ Cardinality(Kept(r, n + 1)) = Cardinality(Kept(r, n)) + 1
    <3> HIDE DEF n
    <3> QED BY <2>1, <1>3, KeptNext
  <2> QED
    BY <2>2, <1>3
<1>5. /\ GrowsTo(table, t) /\ DOMAIN t = DOMAIN table \cup {FreshId}
      /\ t[FreshId] = SubmittedRecord(s, FreshId) /\ FreshId \in Nat /\ FreshId # LegacyId
  BY <1>3, InsertedFits, FreshIdIsNew DEF LegacyId
<1>6. /\ r.created \in Seq(Nat) /\ Len(r.created) = Cardinality(Kept(r, n))
      /\ r.errors = (1..n) \ Kept(r, n)
  BY DEF RequestFits, ExactUpTo, Requests
<1>7. /\ Len(q.created) = Len(r.created) + 1
      /\ q.created[Len(r.created) + 1] = FreshId
      /\ \A k \in 1..Len(r.created) : q.created[k] = r.created[k]
  BY <1>1, <1>5, <1>6, AppendProperties
<1> HIDE DEF q, t
<1>8. ExactUpTo(q, r.at, t)
  <2>1. \A i : Kept(q, i) = Kept(r, i) /\ Place(q, i) = Place(r, i)
    BY <1>1, KeptOfRows
  <2>2. q.errors = (1..r.at) \ Kept(q, r.at)
    <3>1. 1..r.at = (1..n) \cup {r.at}
      BY <1>2
    <3>2. r.at \notin 1..n
      BY <1>2
    <3> QED
      BY <1>1, <1>4, <1>6, <2>1, <3>1, <3>2
  <2>3. ASSUME NEW i \in Kept(r, n)
        PROVE  LET id == q.created[Place(q, i)]
               IN  t[id] = SubmittedRecord(q.rows[i], id)
    <3>1. Place(r, i) \in 1..Len(r.created)
      BY <1>3, <1>6, PlaceInAnswer
    <3>2. q.created[Place(q, i)] = r.created[Place(r, i)]
      BY <1>7, <2>1, <3>1
    <3>3. r.created[Place(r, i)] \in DOMAIN table
      BY <1>6, <3>1 DEF RequestFits, Range
    <3>4. table[r.created[Place(r, i)]] = SubmittedRecord(r.rows[i], r.created[Place(r, i)])
      BY DEF RequestFits, ExactUpTo
    <3> QED
      BY <1>1, <1>5, <3>2, <3>3, <3>4 DEF GrowsTo
  <2>4. LET id == q.created[Place(q, r.at)]
        IN  t[id] = SubmittedRecord(q.rows[r.at], id)
    <3>1. Place(q, r.at) = Len(r.created) + 1
      BY <1>4, <1>6, <2>1 DEF Place
    <3> QED
      BY <1>1, <1>5, <1>7, <3>1
  <2> QED
    BY <1>4, <1>6, <1>7, <2>1, <2>2, <2>3, <2>4 DEF ExactUpTo
<1>9. Range(q.created) \subseteq DOMAIN t \ {LegacyId}
  <2>1. ASSUME NEW k \in 1..Len(q.created) PROVE q.created[k] \in DOMAIN t \ {LegacyId}
    <3>1. CASE k = Len(r.created) + 1
      BY <1>5, <1>7, <3>1
    <3>2. CASE k \in 1..Len(r.created)
      <4>1. r.created[k] \in DOMAIN table \ {LegacyId}
        BY <1>6, <3>2 DEF RequestFits, Range
      <4>2. q.created[k] = r.created[k]
        BY <1>7, <3>2
      <4> QED
        BY <1>5, <4>1, <4>2
    <3> QED
      BY <1>6, <1>7, <3>1, <3>2
  <2>2. q.created \in Seq(Nat)
    BY <1>1 DEF Requests
  <2> QED
    BY <2>1, <2>2 DEF Range
<1>10. q.at - 1 = r.at
  BY <1>1, <1>2
<1> QED
  BY <1>1, <1>2, <1>8, <1>9, <1>10 DEF RequestFits, q, t

(* The request of create_record, once its row is committed.                *)
LEMMA CreatedFits ==
  ASSUME Types, TableFits, NEW s \in Plots, Accepted(s)
  PROVE  LET q == Request("register", <<s>>, 2, <<FreshId>>)
         IN  q \in Requests /\ RequestFits(q, Inserted(s))
<1> DEFINE q == Request("register", <<s>>, 2, <<FreshId>>)
           t == Inserted(s)
<1>1. /\ GrowsTo(table, t) /\ DOMAIN t = DOMAIN table \cup {FreshId}
      /\ t[FreshId] = SubmittedRecord(s, FreshId) /\ FreshId \in Nat /\ FreshId # LegacyId
  BY InsertedFits, FreshIdIsNew DEF LegacyId
<1>2. /\ q.pc = "register" /\ q.rows = <<s>> /\ q.at = 2 /\ q.created = <<FreshId>>
      /\ q.errors = {}
  BY DEF Request
<1>3. q \in Requests
  <2>1. ASSUME NEW rows \in Seq(Plots), NEW created \in Seq(Nat)
        PROVE  Request("register", rows, 2, created) \in Requests
    BY DEF Requests, Request
  <2>2. <<s>> \in Seq(Plots) /\ <<FreshId>> \in Seq(Nat)
    BY <1>1
  <2> QED
    BY <2>1, <2>2
<1> HIDE DEF q, t
<1>4. Kept(q, 1) = {1}
  BY <1>2 DEF Kept
<1>5. Place(q, 1) = 1 /\ Cardinality(Kept(q, 1)) = 1
  BY <1>4, FS_Singleton DEF Place
<1>6. ExactUpTo(q, 1, t)
  BY <1>1, <1>2, <1>4, <1>5 DEF ExactUpTo
<1>7. Range(q.created) \subseteq DOMAIN t \ {LegacyId}
  BY <1>1, <1>2 DEF Range
<1>8. q.pc = "register" /\ q.at = 2 /\ Len(q.rows) = 1
  BY <1>2
<1>9. RequestFits(q, t)
  <2>1. q.at - 1 = 1
    BY <1>8
  <2> QED
    BY <1>6, <1>7, <1>8, <2>1 DEF RequestFits
<1> QED
  BY <1>3, <1>9 DEF q, t

-----------------------------------------------------------------------------
(* The steps.                                                              *)

LEMMA RunKept ==
  ASSUME NEW run, NEW t, NEW u, RunFits(run, t), GrowsTo(t, u)
  PROVE  RunFits(run, u)
  BY DEF RunFits, GrowsTo

(* A record that runs start from keeps its id, and is sound if it has a    *)
(* country.                                                                *)
LEMMA KeptRowIsSound ==
  ASSUME NEW id, NEW row, KeptRow(id, row)
  PROVE  /\ row.id = id
         /\ row.synthetic \in BOOLEAN
         /\ row.country # None => Sound(row)
<1>1. CASE id = LegacyId /\ row = LegacyRecord(LegacyId)
  BY <1>1 DEF LegacyRecord, SubmittedRecord
<1>2. ASSUME NEW s \in Plots, Accepted(s), row = SubmittedRecord(s, id)
      PROVE  row.id = id /\ row.synthetic \in BOOLEAN /\ Sound(row)
  BY <1>2, AcceptedIsSound DEF SubmittedRecord
<1> QED
  BY <1>1, <1>2 DEF KeptRow

LEMMA RunRecordIsSound ==
  ASSUME TableFits, NEW run, RunFits(run, table)
  PROVE  Sound(run.record) /\ run.record.synthetic \in BOOLEAN
<1>1. CASE run.record = SeedRecord(SeedId)
  <2>1. SeedRecord(SeedId).synthetic \in BOOLEAN
    BY DEF SeedRecord
  <2> QED
    BY <1>1, <2>1, SeedIsSound
<1>2. CASE run.record.id \in DOMAIN table /\ run.record = table[run.record.id]
  BY <1>2, KeptRowIsSound DEF TableFits, RunFits
<1> QED
  BY <1>1, <1>2 DEF RunFits

LEMMA NoRecord == << >> \in [DOMAIN << >> -> Records] /\ DOMAIN << >> = {}
  OBVIOUS

LEMMA IdleIsRequest == Idle \in Requests
  BY DEF Idle, Request, Requests

LEMMA IdleFits == ASSUME NEW t PROVE RequestFits(Idle, t)
<1>1. Kept(Idle, 0) = {} /\ Cardinality({}) = 0 /\ 1..0 = {}
  BY FS_EmptySet DEF Kept
<1>2. /\ Idle.pc = "idle" /\ Idle.at - 1 = 0 /\ Range(Idle.created) = {}
      /\ Idle.errors = {} /\ Len(Idle.created) = 0
  BY DEF Idle, Request, Range
<1>3. ExactUpTo(Idle, 0, t)
  BY <1>1, <1>2 DEF ExactUpTo
<1> QED
  BY <1>2, <1>3 DEF RequestFits

LEMMA InitIInv == Init => IInv
<1> SUFFICES ASSUME Init PROVE IInv
  OBVIOUS
<1>1. /\ DOMAIN table \subseteq {LegacyId}
      /\ \A id \in DOMAIN table : table[id] = LegacyRecord(LegacyId)
      /\ table \in [DOMAIN table -> Records]
  <2>1. CASE table = << >>
    BY <2>1, NoRecord
  <2>2. CASE table = [id \in {LegacyId} |-> LegacyRecord(id)]
    BY <2>2 DEF Records
  <2> QED
    BY <2>1, <2>2 DEF Init
<1>2. TableFits
  <2>1. DOMAIN table \ {LegacyId} = 2..(0 + 1)
    BY <1>1
  <2> QED
    BY <1>1, <2>1 DEF TableFits, KeptRow
<1>3. Types
  <2>1. runs \in Seq(RunRows) /\ Len(runs) <= MaxRuns
    BY IntakeAssumption DEF Init
  <2> QED
    <3>1. registry \in [DOMAIN registry -> Records]
      BY NoRecord DEF Init
    <3>2. requests \in [Clients -> Requests]
      BY IdleIsRequest DEF Init
    <3>3. up \in BOOLEAN /\ autoSeed \in BOOLEAN /\ seeded \in BOOLEAN
      BY DEF Init
    <3>4. operator = 0
      BY DEF Init
    <3>5. crashes \in 0..MaxCrashes
      BY IntakeAssumption DEF Init
    <3> QED
      BY <1>1, <2>1, <3>1, <3>2, <3>3, <3>4, <3>5 DEF Types
<1>4. RegistryFits
  BY DEF Init, RegistryFits
<1>5. \A c \in Clients : requests[c] = Idle /\ RequestFits(requests[c], table)
  BY IdleFits DEF Init
<1>6. DOMAIN runs = {}
  BY DEF Init
<1> QED
  BY <1>2, <1>3, <1>4, <1>5, <1>6 DEF IInv

LEMMA BootKeeps == IInv /\ Boot => IInv'
<1> SUFFICES ASSUME IInv, Boot PROVE IInv'
  OBVIOUS
<1> USE DEF IInv
<1>1. ASSUME NEW i \in DOMAIN runs
      PROVE  /\ runs'[i] \in RunRows /\ runs'[i].record = runs[i].record
             /\ runs'[i].operator = runs[i].operator /\ runs'[i].input = runs[i].input
             /\ runs'[i].state = "undeclarable" => runs[i].state = "undeclarable"
             /\ runs'[i].state = "done" => runs[i].state = "done"
  <2>1. runs[i] \in RunRows
    BY ElementOfSeq DEF Types
  <2>2. runs'[i] = IF runs[i].state = "open" THEN [runs[i] EXCEPT !.state = "interrupted"]
                   ELSE runs[i]
    BY DEF Boot, Recovered
  <2> QED
    BY <2>1, <2>2 DEF RunRows
<1>2. runs' \in Seq(RunRows) /\ Len(runs') = Len(runs) /\ DOMAIN runs' = DOMAIN runs
  <2>1. runs' \in [1..Len(runs) -> RunRows]
    BY <1>1, LenProperties DEF Boot, Recovered, Types
  <2>2. Len(runs) \in Nat
    BY LenProperties DEF Types
  <2> QED
    BY <2>1, <2>2, SeqDef, LenProperties DEF Types
<1>3. ASSUME NEW i \in DOMAIN runs PROVE RunFits(runs'[i], table)
  <2>1. \A facts : RunInput(runs'[i], facts) = RunInput(runs[i], facts)
    BY <1>1 DEF RunInput, AcceptedContext
  <2> QED
    BY <1>1, <2>1 DEF RunFits
<1>4. Types'
  <2>1. UNCHANGED <<autoSeed, table, operator, requests, crashes>> /\ up' = TRUE
        /\ registry' = table
    BY DEF Boot, Restored
  <2>2. seeded' \in BOOLEAN
    BY DEF Boot, Seeded, Types
  <2> QED
    BY <1>2, <2>1, <2>2 DEF Types
<1>5. TableFits'
  BY DEF TableFits, Boot
<1>6. RegistryFits'
  BY DEF RegistryFits, Boot, Restored
<1>7. \A c \in Clients : RequestFits(requests'[c], table')
  BY DEF Boot
<1> QED
  BY <1>2, <1>3, <1>4, <1>5, <1>6, <1>7 DEF Boot

LEMMA CrashKeeps == IInv /\ Crash => IInv'
<1> SUFFICES ASSUME IInv, Crash PROVE IInv'
  OBVIOUS
<1> USE DEF IInv
<1>1. Types'
  <2>1. registry' \in [DOMAIN registry' -> Records]
    BY NoRecord DEF Crash
  <2>2. requests' \in [Clients -> Requests]
    BY IdleIsRequest DEF Crash
  <2>3. crashes' \in 0..MaxCrashes
    BY IntakeAssumption DEF Crash, Types
  <2>4. UNCHANGED <<autoSeed, seeded, table, operator, runs>> /\ up' = FALSE
    BY DEF Crash
  <2> QED
    BY <2>1, <2>2, <2>3, <2>4 DEF Types
<1>2. TableFits'
  BY DEF TableFits, Crash
<1>3. RegistryFits'
  BY NoRecord DEF RegistryFits, Crash
<1>4. \A c \in Clients : requests'[c] = Idle /\ RequestFits(requests'[c], table')
  BY IdleFits DEF Crash
<1>5. \A i \in DOMAIN runs' : RunFits(runs'[i], table')
  BY DEF Crash
<1> QED
  BY <1>1, <1>2, <1>3, <1>4, <1>5

(* A table that has grown by one row, for one request.                     *)
LEMMA CreateRecordKeeps ==
  ASSUME IInv, NEW c \in Clients, NEW s \in Submissions, CreateRecord(c, s)
  PROVE  IInv'
<1> USE DEF IInv
<1> DEFINE q == Request("register", <<s>>, 2, <<FreshId>>)
<1>1. s \in Plots /\ Accepted(s)
  BY IntakeAssumption DEF CreateRecord
<1>2. /\ table' = Inserted(s) /\ requests' = [requests EXCEPT ![c] = q]
      /\ up /\ requests[c].pc = "idle"
      /\ UNCHANGED <<up, autoSeed, seeded, registry, operator, runs, promised, stranded,
                     crashes>>
  BY DEF CreateRecord
<1>3. /\ GrowsTo(table, table') /\ DOMAIN table' = DOMAIN table \cup {FreshId}
      /\ table' \in [DOMAIN table' -> Records] /\ TableFits'
      /\ FreshId \notin DOMAIN table
  BY <1>1, <1>2, InsertedFits, FreshIdIsNew DEF TableFits
<1>4. q \in Requests /\ RequestFits(q, table') /\ Range(q.created) = {FreshId}
  <2>1. Range(q.created) = {FreshId}
    BY DEF Request, Range
  <2> HIDE DEF q
  <2> QED
    BY <1>1, <1>2, <2>1, CreatedFits DEF q
<1> HIDE DEF q
<1>5. requests' \in [Clients -> Requests] /\ requests'[c] = q
      /\ \A d \in Clients \ {c} : requests'[d] = requests[d]
  BY <1>2, <1>4 DEF Types
<1>6. Types'
  BY <1>2, <1>3, <1>5 DEF Types
<1>7. RegistryFits'
  <2>1. Range(requests[c].created) = {}
    BY <1>2 DEF RequestFits, Idle, Request, Range
  <2>2. (UNION {Range(requests[d].created) : d \in Clients}) \cup {FreshId}
          \subseteq UNION {Range(requests'[d].created) : d \in Clients}
    BY <1>4, <1>5, <2>1
  <2>3. \A id \in DOMAIN registry : id \in DOMAIN table' /\ registry[id] = table'[id]
    BY <1>3 DEF RegistryFits, GrowsTo
  <2> QED
    BY <1>2, <1>3, <2>2, <2>3 DEF RegistryFits
<1>8. \A d \in Clients : RequestFits(requests'[d], table')
  BY <1>3, <1>4, <1>5, RequestKept DEF Types
<1>9. \A i \in DOMAIN runs' : RunFits(runs'[i], table')
  BY <1>2, <1>3, RunKept
<1> QED
  BY <1>2, <1>3, <1>6, <1>7, <1>8, <1>9

LEMMA BeginImportKeeps ==
  ASSUME IInv, NEW c \in Clients, NEW file \in Files, BeginImport(c, file)
  PROVE  IInv'
<1> USE DEF IInv
<1> DEFINE q == Request("import", file, 1, << >>)
<1>1. file \in Seq(Plots) /\ Len(file) >= 1
  BY IntakeAssumption, EmptySeq, LenProperties
<1>2. /\ requests' = [requests EXCEPT ![c] = q] /\ up /\ requests[c].pc = "idle"
      /\ UNCHANGED <<up, autoSeed, seeded, table, registry, operator, runs, promised,
                     stranded, crashes>>
  BY DEF BeginImport
<1>3. /\ q.pc = "import" /\ q.rows = file /\ q.at = 1 /\ q.created = << >> /\ q.errors = {}
      /\ q \in Requests
  BY <1>1 DEF Request, Requests
<1> HIDE DEF q
<1>4. RequestFits(q, table)
  <2>1. Kept(q, 0) = {} /\ Cardinality({}) = 0 /\ 1..0 = {} /\ q.at - 1 = 0
    BY <1>3, FS_EmptySet DEF Kept
  <2>2. Range(q.created) = {}
    BY <1>3 DEF Range
  <2>3. ExactUpTo(q, 0, table)
    BY <1>3, <2>1 DEF ExactUpTo
  <2> QED
    BY <1>1, <1>3, <2>1, <2>2, <2>3 DEF RequestFits
<1>5. requests' \in [Clients -> Requests] /\ requests'[c] = q
      /\ \A d \in Clients \ {c} : requests'[d] = requests[d]
  BY <1>2, <1>3 DEF Types
<1>6. Types' /\ TableFits'
  BY <1>2, <1>5 DEF Types, TableFits
<1>7. RegistryFits'
  <2>1. Range(requests[c].created) = {}
    BY <1>2 DEF RequestFits, Idle, Request, Range
  <2>2. UNION {Range(requests[d].created) : d \in Clients}
          \subseteq UNION {Range(requests'[d].created) : d \in Clients}
    BY <1>5, <2>1
  <2> QED
    BY <1>2, <2>2 DEF RegistryFits
<1>8. \A d \in Clients : RequestFits(requests'[d], table')
  BY <1>2, <1>4, <1>5
<1>9. \A i \in DOMAIN runs' : RunFits(runs'[i], table')
  BY <1>2
<1> QED
  BY <1>2, <1>6, <1>7, <1>8, <1>9

LEMMA ImportRowKeeps ==
  ASSUME IInv, NEW c \in Clients, ImportRow(c)
  PROVE  IInv'
<1> USE DEF IInv
<1> DEFINE r == requests[c]
           s == r.rows[r.at]
<1>1. /\ up /\ r.pc = "import" /\ r \in Requests /\ RequestFits(r, table)
      /\ UNCHANGED <<up, autoSeed, seeded, registry, operator, runs, promised, stranded,
                     crashes>>
  BY DEF ImportRow, Types
<1>2. ASSUME NEW q \in Requests, RequestFits(q, table'),
             Range(r.created) \subseteq Range(q.created),
             requests' = [requests EXCEPT ![c] = q], GrowsTo(table, table'), TableFits',
             table' \in [DOMAIN table' -> Records],
             DOMAIN table' \subseteq DOMAIN table \cup Range(q.created)
      PROVE  IInv'
  <2>1. requests' \in [Clients -> Requests] /\ requests'[c] = q
        /\ \A d \in Clients \ {c} : requests'[d] = requests[d]
    BY <1>2 DEF Types
  <2>2. Types'
    BY <1>1, <1>2, <2>1 DEF Types
  <2>3. RegistryFits'
    <3>1. (UNION {Range(requests[d].created) : d \in Clients}) \cup Range(q.created)
            \subseteq UNION {Range(requests'[d].created) : d \in Clients}
      BY <1>2, <2>1
    <3>2. \A id \in DOMAIN registry : id \in DOMAIN table' /\ registry[id] = table'[id]
      BY <1>2 DEF RegistryFits, GrowsTo
    <3>3. DOMAIN table \subseteq DOMAIN table'
      BY <1>2 DEF GrowsTo
    <3> QED
      BY <1>1, <1>2, <3>1, <3>2, <3>3 DEF RegistryFits
  <2>4. \A d \in Clients : RequestFits(requests'[d], table')
    BY <1>2, <2>1, RequestKept DEF Types
  <2>5. \A i \in DOMAIN runs' : RunFits(runs'[i], table')
    BY <1>1, <1>2, RunKept
  <2> QED
    BY <1>1, <1>2, <2>2, <2>3, <2>4, <2>5
<1>3. CASE ~Accepted(s)
  <2>1. requests' = [requests EXCEPT ![c] = RowRefused(r)] /\ table' = table
    BY <1>3 DEF ImportRow
  <2>2. RowRefused(r) \in Requests /\ RequestFits(RowRefused(r), table)
    BY <1>1, <1>3, RefusedRowFits
  <2>3. RowRefused(r).created = r.created
    BY <1>1, NextRowFields DEF RowRefused, Requests
  <2>4. GrowsTo(table, table) /\ TableFits'
    BY <2>1 DEF GrowsTo, TableFits
  <2> QED
    BY <1>2, <2>1, <2>2, <2>3, <2>4 DEF Types
<1>4. CASE Accepted(s)
  <2>1. requests' = [requests EXCEPT ![c] = RowCreated(r)] /\ table' = Inserted(s)
    BY <1>4 DEF ImportRow
  <2>2. s \in Plots
    BY <1>1, ElementOfSeq DEF Requests, RequestFits
  <2>3. RowCreated(r) \in Requests /\ RequestFits(RowCreated(r), table')
    BY <1>1, <1>4, <2>1, AcceptedRowFits
  <2>4. Range(r.created) \cup {FreshId} \subseteq Range(RowCreated(r).created)
    <3>1. RowCreated(r).created = Append(r.created, FreshId)
      BY <1>1, NextRowFields DEF RowCreated, Requests
    <3>2. r.created \in Seq(Nat) /\ FreshId \in Nat
      BY <1>1, FreshIdIsNew DEF Requests
    <3>3. /\ DOMAIN Append(r.created, FreshId) = 1..(Len(r.created) + 1)
          /\ Append(r.created, FreshId)[Len(r.created) + 1] = FreshId
          /\ \A k \in 1..Len(r.created) : Append(r.created, FreshId)[k] = r.created[k]
          /\ DOMAIN r.created = 1..Len(r.created) /\ Len(r.created) \in Nat
      BY <3>2, AppendProperties, LenProperties
    <3> QED
      BY <3>1, <3>3 DEF Range
  <2>5. /\ GrowsTo(table, table') /\ DOMAIN table' = DOMAIN table \cup {FreshId}
        /\ table' \in [DOMAIN table' -> Records] /\ TableFits'
    BY <1>4, <2>1, <2>2, InsertedFits DEF TableFits
  <2> QED
    BY <1>2, <2>1, <2>3, <2>4, <2>5
<1> QED
  BY <1>3, <1>4

(* A request ends: what it leaves is stranded or registered.               *)
LEMMA RequestEnds ==
  ASSUME IInv, NEW c \in Clients, up, requests' = [requests EXCEPT ![c] = Idle],
         UNCHANGED <<up, autoSeed, seeded, table, operator, runs, crashes>>
  PROVE  /\ requests' \in [Clients -> Requests] /\ TableFits'
         /\ \A d \in Clients : RequestFits(requests'[d], table')
         /\ \A i \in DOMAIN runs' : RunFits(runs'[i], table')
         /\ UNION {Range(requests[d].created) : d \in Clients}
              \subseteq Range(requests[c].created)
                        \cup UNION {Range(requests'[d].created) : d \in Clients}
<1> USE DEF IInv
<1>1. requests' \in [Clients -> Requests] /\ requests'[c] = Idle
      /\ \A d \in Clients \ {c} : requests'[d] = requests[d]
  BY IdleIsRequest DEF Types
<1>2. TableFits'
  BY DEF TableFits
<1> QED
  BY <1>1, <1>2, IdleFits

LEMMA FailImportKeeps ==
  ASSUME IInv, NEW c \in Clients, FailImport(c)
  PROVE  IInv'
<1> USE DEF IInv
<1>1. /\ up /\ requests' = [requests EXCEPT ![c] = Idle]
      /\ stranded' = stranded \cup Range(requests[c].created)
      /\ UNCHANGED <<up, autoSeed, seeded, table, registry, operator, runs, promised, crashes>>
  BY DEF FailImport
<1>2. /\ requests' \in [Clients -> Requests] /\ TableFits'
      /\ \A d \in Clients : RequestFits(requests'[d], table')
      /\ \A i \in DOMAIN runs' : RunFits(runs'[i], table')
      /\ UNION {Range(requests[d].created) : d \in Clients}
           \subseteq Range(requests[c].created)
                     \cup UNION {Range(requests'[d].created) : d \in Clients}
  BY <1>1, RequestEnds
<1>3. Types'
  BY <1>1, <1>2 DEF Types
<1>4. RegistryFits'
  BY <1>1, <1>2 DEF RegistryFits
<1> QED
  BY <1>1, <1>2, <1>3, <1>4

LEMMA AnswerKeeps ==
  ASSUME IInv, NEW c \in Clients, Answer(c)
  PROVE  IInv'
<1> USE DEF IInv
<1> DEFINE ids == Range(requests[c].created)
<1>1. /\ up /\ requests' = [requests EXCEPT ![c] = Idle]
      /\ registry' = Known(ids) /\ promised' = promised \cup ids
      /\ UNCHANGED <<up, autoSeed, seeded, table, operator, runs, stranded, crashes>>
  BY DEF Answer, Registered
<1>2. /\ requests' \in [Clients -> Requests] /\ TableFits'
      /\ \A d \in Clients : RequestFits(requests'[d], table')
      /\ \A i \in DOMAIN runs' : RunFits(runs'[i], table')
      /\ UNION {Range(requests[d].created) : d \in Clients}
           \subseteq ids \cup UNION {Range(requests'[d].created) : d \in Clients}
  BY <1>1, RequestEnds
<1>3. ids \subseteq DOMAIN table \ {LegacyId}
  BY DEF RequestFits
<1> HIDE DEF ids
<1>4. /\ DOMAIN registry' = DOMAIN registry \cup ids
      /\ \A id \in DOMAIN registry' : id \in DOMAIN table /\ registry'[id] = table[id]
  BY <1>1, <1>3 DEF Known, RegistryFits
<1>5. registry' \in [DOMAIN registry' -> Records]
  <2>1. registry' = [id \in DOMAIN registry' |-> registry'[id]]
    BY <1>1 DEF Known
  <2>2. \A id \in DOMAIN registry' : registry'[id] \in Records
    BY <1>4 DEF Types
  <2> QED
    BY <2>1, <2>2
<1>6. Types'
  BY <1>1, <1>2, <1>5 DEF Types
<1>7. RegistryFits'
  BY <1>1, <1>2, <1>3, <1>4 DEF RegistryFits
<1> QED
  BY <1>1, <1>2, <1>6, <1>7

LEMMA StartRunsKeeps ==
  ASSUME IInv, NEW n \in 1..MaxRuns, NEW ids \in [1..n -> Resolvable], StartRuns(ids)
  PROVE  IInv'
<1> USE DEF IInv
<1> DEFINE Row(i) == [record |-> Resolve(ids[i]), operator |-> operator,
                      state |-> "open", input |-> None]
           new == [i \in 1..n |-> Row(i)]
<1>1. Len(ids) = n /\ n \in Nat
  BY IntakeAssumption
<1>2. /\ up /\ runs' = runs \o new /\ Len(runs) + n <= MaxRuns
      /\ \A i \in 1..n : Startable(ids[i])
      /\ UNCHANGED <<up, autoSeed, seeded, table, registry, operator, requests, promised,
                     stranded, crashes>>
  BY <1>1 DEF StartRuns
<1>3. ASSUME NEW i \in 1..n
      PROVE  Row(i) \in RunRows /\ RunFits(Row(i), table)
  <2> DEFINE r == Resolve(ids[i])
  <2> HIDE DEF r
  <2>1. /\ r \in Records /\ r.country # None
        /\ \/ r = SeedRecord(SeedId)
           \/ r.id \in DOMAIN table /\ r = table[r.id]
    <3>1. r.country # None /\ ids[i] \in Resolvable
      BY <1>2 DEF Startable, r
    <3>2. CASE ids[i] = SeedId
      BY <3>1, <3>2 DEF Resolve, Records, r
    <3>3. CASE ids[i] # SeedId
      <4>1. r = registry[ids[i]] /\ ids[i] \in DOMAIN registry
        BY <3>1, <3>3 DEF Resolve, Resolvable, r
      <4>2. r = table[ids[i]] /\ ids[i] \in DOMAIN table
        BY <4>1 DEF RegistryFits
      <4>3. r.id = ids[i] /\ r \in Records
        BY <4>2, KeptRowIsSound DEF TableFits, Types
      <4> QED
        BY <3>1, <4>2, <4>3
    <3> QED
      BY <3>2, <3>3
  <2>2. operator \in Nat
    BY IntakeAssumption DEF Types
  <2>3. Row(i) = [record |-> r, operator |-> operator, state |-> "open", input |-> None]
    BY DEF r
  <2> HIDE DEF Row
  <2>4. Row(i) \in RunRows
    BY <2>1, <2>2, <2>3 DEF RunRows
  <2>5. Row(i).record = r /\ Row(i).state = "open"
    BY <2>3
  <2> QED
    BY <2>1, <2>4, <2>5 DEF RunFits
<1> HIDE DEF Row
<1>4. new \in Seq(RunRows) /\ Len(new) = n
  <2>1. new \in [1..n -> RunRows]
    BY <1>3
  <2> QED
    BY <1>1, <2>1, SeqDef, LenProperties
<1>5. /\ runs' \in Seq(RunRows) /\ Len(runs') = Len(runs) + n
      /\ \A i \in 1..Len(runs) : runs'[i] = runs[i]
      /\ \A i \in 1..Len(runs') : i > Len(runs) =>
            i - Len(runs) \in 1..n /\ runs'[i] = Row(i - Len(runs))
  <2>1. runs \in Seq(RunRows) /\ Len(runs) \in Nat
    BY LenProperties DEF Types
  <2>2. \A i \in 1..n : new[i] = Row(i)
    OBVIOUS
  <2> HIDE DEF new
  <2>3. /\ runs' \in Seq(RunRows) /\ Len(runs') = Len(runs) + n
        /\ \A i \in 1..(Len(runs) + n) :
              runs'[i] = IF i <= Len(runs) THEN runs[i] ELSE new[i - Len(runs)]
    BY <1>2, <1>4, <2>1, ConcatProperties
  <2> QED
    BY <1>1, <2>1, <2>2, <2>3
<1>6. Types' /\ TableFits'
  <2>1. Len(runs') <= MaxRuns
    BY <1>2, <1>5
  <2> QED
    BY <1>2, <1>5, <2>1 DEF Types, TableFits
<1>7. RegistryFits'
  BY <1>2 DEF RegistryFits
<1>8. ASSUME NEW i \in DOMAIN runs' PROVE RunFits(runs'[i], table')
  <2>1. i \in 1..Len(runs') /\ DOMAIN runs = 1..Len(runs) /\ Len(runs) \in Nat
    BY <1>5, LenProperties DEF Types
  <2>2. CASE i <= Len(runs)
    BY <1>2, <1>5, <2>1, <2>2
  <2>3. CASE i > Len(runs)
    BY <1>2, <1>3, <1>5, <2>1, <2>3
  <2> QED
    BY <2>1, <2>2, <2>3
<1> QED
  BY <1>2, <1>6, <1>7, <1>8

LEMMA ExecuteRunKeeps ==
  ASSUME IInv, NEW i \in DOMAIN runs, NEW facts \in Facts, ExecuteRun(i, facts)
  PROVE  IInv'
<1> USE DEF IInv
<1> DEFINE in == RunInput(runs[i], facts)
           row == [runs[i] EXCEPT !.state = IF Declarable(in) THEN "done" ELSE "undeclarable",
                                  !.input = in]
<1>1. /\ up /\ runs' = [runs EXCEPT ![i] = row]
      /\ UNCHANGED <<up, autoSeed, seeded, table, registry, operator, requests, promised,
                     stranded, crashes>>
  BY DEF ExecuteRun
<1>2. runs \in Seq(RunRows) /\ runs[i] \in RunRows /\ RunFits(runs[i], table)
  BY ElementOfSeq DEF Types
<1>3. Declarable(in)
  <2>1. in.record = runs[i].record
    BY DEF RunInput
  <2>2. Sound(in.record)
    BY <1>2, <2>1, RunRecordIsSound
  <2> QED
    BY <2>2, SoundIsDeclarable
<1>4. in \in [record : Records, operator : Nat, facts : Facts]
  BY <1>2 DEF RunInput, AcceptedContext, RunRows
<1>5. /\ row \in RunRows /\ row.record = runs[i].record /\ row.operator = runs[i].operator
      /\ row.state = "done" /\ row.input = in
  <2> HIDE DEF in
  <2> DEFINE m == [runs[i] EXCEPT !.state = "done"]
  <2>1. /\ m \in RunRows /\ m.record = runs[i].record /\ m.operator = runs[i].operator
        /\ m.state = "done"
    BY <1>2 DEF RunRows
  <2>2. row = [m EXCEPT !.input = in]
    BY <1>3
  <2> HIDE DEF m, row
  <2> QED
    BY <1>4, <2>1, <2>2 DEF RunRows
<1>6. RunInput(row, facts) = in
  BY <1>5 DEF RunInput, AcceptedContext
<1> HIDE DEF row, in
<1>7. RunFits(row, table)
  BY <1>2, <1>5, <1>6 DEF RunFits
<1>8. /\ runs' \in Seq(RunRows) /\ Len(runs') = Len(runs) /\ DOMAIN runs' = DOMAIN runs
      /\ \A j \in DOMAIN runs : runs'[j] = IF j = i THEN row ELSE runs[j]
  BY <1>1, <1>2, <1>5, ExceptSeq
<1>9. Types' /\ TableFits' /\ RegistryFits'
  BY <1>1, <1>8 DEF Types, TableFits, RegistryFits
<1>10. \A j \in DOMAIN runs' : RunFits(runs'[j], table')
  BY <1>1, <1>7, <1>8
<1> QED
  BY <1>1, <1>9, <1>10

LEMMA NextIInv == IInv /\ [Next]_vars => IInv'
<1> SUFFICES ASSUME IInv, [Next]_vars PROVE IInv'
  OBVIOUS
<1>1. ASSUME NEW c \in Clients, NEW s \in Submissions, CreateRecord(c, s) PROVE IInv'
  BY <1>1, CreateRecordKeeps
<1>2. ASSUME NEW c \in Clients, NEW file \in Files, BeginImport(c, file) PROVE IInv'
  BY <1>2, BeginImportKeeps
<1>3. ASSUME NEW c \in Clients, ImportRow(c) PROVE IInv'
  BY <1>3, ImportRowKeeps
<1>4. ASSUME NEW c \in Clients, FailImport(c) PROVE IInv'
  BY <1>4, FailImportKeeps
<1>5. ASSUME NEW c \in Clients, Answer(c) PROVE IInv'
  BY <1>5, AnswerKeeps
<1>6. ASSUME NEW profile \in Profiles, PutOperator(profile) PROVE IInv'
  BY <1>6 DEF PutOperator, IInv, Types, TableFits, RegistryFits
<1>7. ASSUME NEW n \in 1..MaxRuns, NEW ids \in [1..n -> Resolvable], StartRuns(ids) PROVE IInv'
  BY <1>7, StartRunsKeeps
<1>8. ASSUME NEW i \in DOMAIN runs, NEW facts \in Facts, ExecuteRun(i, facts) PROVE IInv'
  BY <1>8, ExecuteRunKeeps
<1>9. CASE UNCHANGED vars
  BY <1>9 DEF vars, IInv, Types, TableFits, RegistryFits
<1> QED
  BY <1>1, <1>2, <1>3, <1>4, <1>5, <1>6, <1>7, <1>8, <1>9, BootKeeps, CrashKeeps DEF Next

THEOREM IntakeInvariant == Spec => []IInv
  BY InitIInv, NextIInv, PTL DEF Spec

-----------------------------------------------------------------------------
(* The properties.                                                         *)

(* RecordsAreKept: the registry never knows a record the table does not    *)
(* keep and misses none a finished request wrote, and every record a       *)
(* client was told of can be started whenever the process is up, for any   *)
(* number of clients, records, imports and crashes.                        *)
THEOREM RecordsKept == Spec => []RecordsAreKept
<1>1. ASSUME IInv PROVE TypeOK
  <2> USE <1>1 DEF IInv
  <2>1. DOMAIN table \subseteq Nat \ {SeedId}
    BY FreshIdIsNew
  <2>2. DOMAIN registry \subseteq DOMAIN table
    BY DEF RegistryFits
  <2>3. ASSUME NEW c \in Clients
        PROVE  LET r == requests[c]
               IN  /\ r.pc \in {"idle", "import", "commit", "register"}
                   /\ r.at \in 1..(Len(r.rows) + 1)
                   /\ Range(r.created) \subseteq DOMAIN table
                   /\ r.errors \subseteq DOMAIN r.rows
    <3> DEFINE r == requests[c]
    <3>1. r \in Requests /\ RequestFits(r, table)
      BY DEF Types
    <3>2. r.pc \in {"idle", "import", "commit", "register"} /\ r.at \in Nat \ {0} /\ Len(r.rows) \in Nat
          /\ DOMAIN r.rows = 1..Len(r.rows)
      BY <3>1, LenProperties DEF Requests
    <3>3. Len(Idle.rows) = 0 /\ Idle.at = 1
      BY DEF Idle, Request
    <3>4. r.at \in 1..(Len(r.rows) + 1)
      <4> HIDE DEF r
      <4> QED BY <3>1, <3>2, <3>3 DEF RequestFits
    <3>5. r.errors \subseteq 1..(r.at - 1)
      BY <3>1 DEF RequestFits, ExactUpTo
    <3> HIDE DEF r
    <3> QED
      BY <3>1, <3>2, <3>4, <3>5 DEF RequestFits, r
  <2>4. ASSUME NEW i \in DOMAIN runs
        PROVE  runs[i].state \in {"open", "done", "undeclarable", "interrupted"}
    <3>1. runs[i] \in RunRows
      BY ElementOfSeq DEF Types
    <3> QED
      BY <3>1 DEF RunRows
  <2> QED
    BY <2>1, <2>2, <2>3, <2>4 DEF TypeOK, Types
<1>2. ASSUME IInv PROVE RegistryTracksTable
  <2> USE <1>2 DEF IInv
  <2>1. ASSUME NEW c \in Clients, c \notin Writing PROVE Range(requests[c].created) = {}
    BY <2>1 DEF Writing, RequestFits, Types, Requests, Idle, Request, Range
  <2>2. UNION {Range(requests[c].created) : c \in Clients}
          \subseteq UNION {Written(c) : c \in Writing}
    BY <2>1 DEF Writing, Written
  <2> QED
    BY <2>2 DEF RegistryFits, RegistryTracksTable
<1>3. ASSUME IInv PROVE PromisedIsStartable
  <2> USE <1>3 DEF IInv
  <2>1. ASSUME up, NEW id \in promised PROVE Startable(id)
    <3>1. id \in DOMAIN table \ {LegacyId} /\ id \in DOMAIN registry /\ id # SeedId
      BY <2>1, FreshIdIsNew DEF RegistryFits
    <3>2. Resolve(id) = table[id]
      BY <3>1 DEF Resolve, RegistryFits
    <3>3. table[id].country # None
      <4>1. PICK s \in Plots : Accepted(s) /\ table[id] = SubmittedRecord(s, id)
        BY <3>1 DEF TableFits, KeptRow
      <4> QED
        BY <4>1, AcceptedIsSound DEF Sound
    <3> QED
      BY <3>1, <3>2, <3>3 DEF Startable, Resolvable, HasSupplierRow
  <2> QED
    BY <2>1 DEF PromisedIsStartable
<1> QED
  BY <1>1, <1>2, <1>3, IntakeInvariant, PTL DEF RecordsAreKept

(* ImportIsExact: an import about to answer reports exactly the rows       *)
(* intake refuses and has committed one record for each of the others, in  *)
(* their order, whatever other requests wrote in between.                  *)
THEOREM ImportsAreExact == Spec => []ImportIsExact
<1>1. ASSUME IInv PROVE ImportIsExact
  <2>1. ASSUME NEW c \in Clients, requests[c].pc = "commit"
        PROVE  ExactUpTo(requests[c], Len(requests[c].rows), table)
    <3>1. requests[c] \in Requests /\ RequestFits(requests[c], table)
      BY <1>1 DEF IInv, Types
    <3>2. requests[c].at - 1 = Len(requests[c].rows)
      BY <2>1, <3>1, LenProperties DEF RequestFits, Requests
    <3> QED
      BY <3>1, <3>2 DEF RequestFits
  <2> QED
    BY <2>1 DEF ImportIsExact
<1> QED
  BY <1>1, IntakeInvariant, PTL

(* What a run was executed with.                                           *)
LEMMA ExecutedInput ==
  ASSUME IInv, NEW i \in Executed
  PROVE  \E facts \in Facts : runs[i].input = RunInput(runs[i], facts)
  BY DEF IInv, RunFits, Executed

LEMMA ExecutedRecord ==
  ASSUME IInv, NEW i \in Executed
  PROVE  LET in == runs[i].input
         IN  /\ in.record = runs[i].record /\ in.operator = runs[i].operator
             /\ Sound(in.record) /\ in.record.synthetic \in BOOLEAN
<1>1. PICK facts \in Facts : runs[i].input = RunInput(runs[i], facts)
  BY ExecutedInput
<1>2. runs[i].input.record = runs[i].record /\ runs[i].input.operator = runs[i].operator
  BY <1>1 DEF RunInput, AcceptedContext
<1>3. RunFits(runs[i], table) /\ TableFits
  BY DEF IInv, Executed
<1> QED
  BY <1>2, <1>3, RunRecordIsSound

(* StatementIsSound: whatever intake accepted and the sources answered, no *)
(* run fails on its record's data, every field of its statement cites      *)
(* evidence, the geometry shown is the submitted one or its centre, a      *)
(* polygon only if the plot as measured is above 4 ha and a point only if  *)
(* it is not above 4 ha by more than the rounding of intake takes, and the *)
(* statement says it is synthetic exactly when some evidence is.           *)
THEOREM StatementsAreSound == Spec => []StatementIsSound
<1>1. ASSUME IInv PROVE AcceptedIsDeclarable
  <2>1. \A i \in DOMAIN runs : runs[i].state # "undeclarable"
    BY <1>1 DEF IInv, RunFits
  <2>2. ASSUME NEW i \in Executed, NEW field \in Rendered(runs[i].input)
        PROVE  Document(runs[i].input).citations[field] # {}
    <3>1. field \in DOMAIN CitedClaim
      BY DEF Rendered
    <3>2. Document(runs[i].input).citations = Citations(runs[i].input)
      BY DEF Document
    <3> QED
      BY <3>1, <3>2, EveryFieldIsCited
  <2> QED
    BY <2>1, <2>2 DEF AcceptedIsDeclarable
<1>2. ASSUME IInv PROVE PlotIsTheDeclaredOne
  BY <1>2, ExecutedRecord, SoundIsShown DEF PlotIsTheDeclaredOne
<1>3. ASSUME IInv PROVE InventedIsMarked
  BY <1>3, ExecutedRecord, SyntheticIsInvented DEF InventedIsMarked
<1> QED
  BY <1>1, <1>2, <1>3, IntakeInvariant, PTL DEF StatementIsSound

(* EvidenceIsStable: two runs of a record with the same operator and the   *)
(* same answers cite the same evidence, whichever answers were cached.     *)
THEOREM EvidenceStaysStable == Spec => []EvidenceIsStable
<1>1. EvidenceIsStable
  <2>1. ASSUME NEW a, NEW b, SameButCached(a, b)
        PROVE  EvidenceIds(a) = EvidenceIds(b) /\ Document(a).citations = Document(b).citations
    BY <2>1, TwinLedgers DEF Document
  <2> QED
    BY <2>1 DEF EvidenceIsStable, SameButCached, Values
<1> QED
  BY <1>1, PTL

(* ContextIsTheAccepted: an executed run was assessed for the operator and *)
(* with the record it was accepted with, whatever profile is saved and     *)
(* whatever rows are written meanwhile.                                    *)
THEOREM ContextStaysAccepted == Spec => []ContextIsTheAccepted
<1>1. ASSUME IInv PROVE ContextIsTheAccepted
  <2>1. ASSUME NEW i \in Executed
        PROVE  /\ runs[i].input.operator = runs[i].operator
               /\ \/ runs[i].input.record.id = SeedId
                  \/ runs[i].input.record = table[runs[i].input.record.id]
    <3>1. /\ runs[i].input.record = runs[i].record
          /\ runs[i].input.operator = runs[i].operator
      BY <1>1, ExecutedRecord
    <3>2. RunFits(runs[i], table)
      BY <1>1 DEF IInv, Executed
    <3>3. SeedRecord(SeedId).id = SeedId
      BY DEF SeedRecord
    <3> QED
      BY <3>1, <3>2, <3>3 DEF RunFits
  <2> QED
    BY <2>1 DEF ContextIsTheAccepted
<1> QED
  BY <1>1, IntakeInvariant, PTL
=============================================================================
