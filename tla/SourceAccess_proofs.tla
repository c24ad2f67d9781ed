------------------------ MODULE SourceAccess_proofs -------------------------
(***************************************************************************)
(* Theorems about SourceAccess for every set of callers, every settings,   *)
(* every page size, chunk length and limit: what is stored or answered is  *)
(* whole, silent years are years without loss, completeness covers the     *)
(* whole period, and nobody asks a service out of turn.                    *)
(***************************************************************************)
EXTENDS SourceAccess, SequenceTheorems, FiniteSetTheorems, TLAPS

(* What a paging or chunking caller has so far is all that lies before its *)
(* cursor.                                                                 *)
PartFits(call) ==
    LET k == KindOf(call)
    IN  /\ k = "fires" => /\ call.cursor \in 1..Window
                          /\ call.got = [items |-> 1..(call.cursor - 1),
                                         count |-> call.cursor - 1]
        /\ k \in Paged => /\ call.cursor \in 0..config.rows
                          /\ call.got = [items |-> 1..call.cursor, count |-> call.cursor]
        /\ k \notin Paged \cup {"fires"} => call.got = Nothing

Permitted(call) ==
    /\ config.offline => call.refresh
    /\ config.keyed \/ call.plan = "media"

(* A result is whole, fresh, and of something that was worth asking for.   *)
ResultFits(call, k, result) ==
    /\ ~result.stale
    /\ Good(result) /\ k # "job" => result.payload = Whole(k)
    /\ Good(result) /\ k = "loss" => ~NoLossQuery /\ (Uncovered => call.gap)
    /\ result.status = "not_applicable" => NotForPlot(k)
    /\ call.warm /\ ~call.refresh /\ ~config.faulty /\ Queried(k) =>
          result.status \in {"none", "cached"}

Fetching == {"send", "poll", "download", "store"}

CallFits(call) ==
    /\ call \in Call /\ call.stage \in 1..Len(Plan(call.plan))
    /\ call.phase = "idle" => call = Idle
    /\ call.phase = "look" => call.got = Nothing
    /\ call.phase \in Fetching =>
          /\ Queried(KindOf(call)) /\ Permitted(call)
          /\ KindOf(call) = "loss" /\ Uncovered => call.gap
          /\ ~(call.warm /\ ~call.refresh)
    /\ call.phase = "send" => PartFits(call)
    /\ call.phase \in {"poll", "download"} => KindOf(call) = "job"
    /\ call.phase = "store" /\ KindOf(call) # "job" => call.got = Whole(KindOf(call))
    /\ call.sent => Permitted(call) /\ ~(call.warm /\ ~call.refresh)
    /\ \A k \in Kinds : ResultFits(call, k, call.results[k])
    /\ call.warm /\ ~call.refresh =>
          /\ config.ttl = 0
          /\ \A k \in Needed(call.plan) : Queried(k) => entries[k].held

(* What is stored is whole, and never expires when the settings say so.    *)
StoreFits ==
    \A k \in Kinds :
        /\ entries[k].held /\ k # "job" => entries[k].payload = Whole(k)
        /\ fixtures[k].held /\ k # "job" => fixtures[k].payload = Whole(k)
        /\ config.ttl = 0 => entries[k].until = 0

SInv == /\ TypeOK /\ StoreFits
        /\ \A c \in Callers : CallFits(calls[c])

-----------------------------------------------------------------------------
(* The plans.                                                              *)

LEMMA PlanFacts ==
    ASSUME NEW p \in Plans
    PROVE  /\ Plan(p) \in Seq(Kinds)
           /\ Len(Plan(p)) \in Nat \ {0}
           /\ \A i \in 1..Len(Plan(p)) :
                 /\ Plan(p)[i] \in Kinds /\ Plan(p)[i] \in Needed(p)
                 /\ Plan(p)[i] = "media" <=> p = "media"
           /\ Needed(p) \subseteq Kinds
           /\ p = "plot" => "loss" \in Needed(p)
<1>1. Layers \in Seq(LayerSet)
  BY SourceAssumption DEF LayerSet
<1>2. CASE p = "plot"
  <2> DEFINE s == <<"loss", "fires">>
  <2>1. s \in Seq(Kinds) /\ Len(s) = 2 /\ s[1] = "loss" /\ s[2] = "fires"
    BY DEF Kinds
  <2>2. Layers \in Seq(Kinds) /\ Len(Layers) \in Nat
    BY <1>1 DEF Kinds
  <2>3. \A i \in 1..Len(Layers) : Layers[i] \in LayerSet
    BY <1>1
  <2> HIDE DEF s
  <2>4. /\ s \o Layers \in Seq(Kinds)
        /\ Len(s \o Layers) = Len(s) + Len(Layers)
        /\ \A i \in 1..(Len(s) + Len(Layers)) :
              (s \o Layers)[i] = IF i <= Len(s) THEN s[i] ELSE Layers[i - Len(s)]
    BY <2>1, <2>2, ConcatProperties
  <2>5. Plan(p) = s \o Layers
    BY <1>2 DEF Plan, s
  <2>6. \A i \in 1..Len(Plan(p)) : Plan(p)[i] \in Kinds /\ Plan(p)[i] # "media"
    BY <2>1, <2>2, <2>3, <2>4, <2>5, SourceAssumption DEF Kinds
  <2>7. DOMAIN Plan(p) = 1..Len(Plan(p))
    BY <2>4, <2>5
  <2>8. 1 \in 1..Len(Plan(p)) /\ Plan(p)[1] = "loss"
    BY <2>1, <2>2, <2>4, <2>5
  <2>9. Len(Plan(p)) \in Nat \ {0} /\ Plan(p) \in Seq(Kinds)
    BY <2>1, <2>2, <2>4, <2>5
  <2>10. Needed(p) \subseteq Kinds /\ "loss" \in Needed(p)
    BY <2>6, <2>7, <2>8 DEF Needed
  <2>11. \A i \in 1..Len(Plan(p)) : Plan(p)[i] \in Needed(p)
    BY <2>7 DEF Needed
  <2> QED
    BY <1>2, <2>6, <2>9, <2>10, <2>11
<1>3. CASE p = "media"
  <2>1. Plan(p) = <<"media">>
    BY <1>3 DEF Plan
  <2> QED
    BY <1>3, <2>1 DEF Needed, Kinds
<1>4. CASE p = "job"
  <2>1. Plan(p) = <<"job">>
    BY <1>4 DEF Plan
  <2> QED
    BY <1>4, <2>1 DEF Needed, Kinds
<1> QED
  BY <1>2, <1>3, <1>4 DEF Plans

LEMMA KindFacts ==
    ASSUME NEW call \in Call, call.stage \in 1..Len(Plan(call.plan))
    PROVE  /\ KindOf(call) \in Kinds /\ KindOf(call) \in Needed(call.plan)
           /\ KindOf(call) = "media" <=> call.plan = "media"
  BY PlanFacts DEF KindOf, Call

LEMMA IdleFits == Idle \in Call /\ CallFits(Idle)
<1>1. NoResult \in Result /\ ~NoResult.stale /\ ~Good(NoResult)
      /\ NoResult.status = "none"
  BY DEF NoResult, Result, Nothing, Payload, Good
<1>2. [k \in Kinds |-> NoResult] \in [Kinds -> Result]
  BY <1>1
<1>3. Idle \in Call
  BY <1>2 DEF Idle, Call, Plans, Nothing, Payload
<1>4. 1 \in 1..Len(Plan("plot"))
  BY PlanFacts DEF Plans
<1>5. \A k \in Kinds : ResultFits(Idle, k, Idle.results[k])
  BY <1>1 DEF ResultFits, Idle
<1> QED
  BY <1>3, <1>4, <1>5 DEF CallFits, Idle, Fetching

LEMMA IdleFitsNext == CallFits(Idle)'
  BY IdleFits, PTL

LEMMA AdvancedFits ==
    ASSUME NEW call \in Call, CallFits(call), call.phase # "idle",
           NEW r \in Result, ResultFits(call, KindOf(call), r)
    PROVE  CallFits(Advanced(call, r))
<1> DEFINE k == KindOf(call)  n == Advanced(call, r)
<1>1. call.stage \in 1..Len(Plan(call.plan)) /\ k \in Kinds
      /\ Len(Plan(call.plan)) \in Nat
  BY KindFacts, PlanFacts DEF CallFits, Call
<1>2. /\ n.results = [call.results EXCEPT ![k] = r]
      /\ n.plan = call.plan /\ n.refresh = call.refresh /\ n.gap = call.gap
      /\ n.sent = call.sent /\ n.warm = call.warm /\ n.waiting = call.waiting
      /\ n.phase \in {"look", "done"}
      /\ n.stage = IF call.stage < Len(Plan(call.plan)) THEN call.stage + 1 ELSE call.stage
      /\ n.cursor = 0 /\ n.tries = 0 /\ n.got = Nothing /\ n.deadline = 0
  BY DEF Advanced, Call
<1>3. n.stage \in 1..Len(Plan(n.plan))
  BY <1>1, <1>2
<1>4. n.results \in [Kinds -> Result]
  BY <1>1, <1>2 DEF Call
<1>5. n \in Call
  <2> DEFINE at == IF call.stage < Len(Plan(call.plan)) THEN "look" ELSE "done"
             to == IF call.stage < Len(Plan(call.plan)) THEN call.stage + 1 ELSE call.stage
  <2>1. Nothing \in Payload
    BY DEF Nothing, Payload
  <2>2. at \in {"look", "done"} /\ to \in Nat
    BY <1>1
  <2>3. n = [call EXCEPT !.results = [@ EXCEPT ![k] = r], !.phase = at, !.stage = to,
                         !.cursor = 0, !.tries = 0, !.got = Nothing, !.deadline = 0]
    BY DEF Advanced
  <2> HIDE DEF at, to, n, k
  <2> QED
    BY <1>1, <2>1, <2>2, <2>3 DEF Call
<1>6. \A j \in Kinds : ResultFits(n, j, n.results[j])
  <2> SUFFICES ASSUME NEW j \in Kinds PROVE ResultFits(n, j, n.results[j])
    OBVIOUS
  <2>1. ResultFits(call, j, n.results[j])
    BY <1>1, <1>2 DEF CallFits, Call
  <2> QED
    BY <2>1, <1>2 DEF ResultFits
<1> HIDE DEF n, k
<1>7. CallFits(n)
  BY <1>2, <1>3, <1>5, <1>6 DEF CallFits, Fetching, Permitted
<1> QED
  BY <1>7 DEF n

LEMMA RaisedFits ==
    ASSUME config \in Config, NEW call \in Call, CallFits(call)
    PROVE  CallFits(Raised(call))
<1> DEFINE n == Raised(call)
<1>1. n \in Call
  BY IdleFits DEF Raised, Call
<1>2. /\ n.plan = call.plan /\ n.refresh = call.refresh /\ n.sent = call.sent
      /\ n.warm = call.warm /\ n.phase = "raised" /\ n.results = Idle.results
      /\ n.stage = 1
  BY DEF Raised, Idle
<1>3. 1 \in 1..Len(Plan(n.plan))
  BY <1>2, PlanFacts DEF Call
<1>4. \A j \in Kinds : n.results[j] = NoResult
  BY <1>2 DEF Idle
<1>5. \A j \in Kinds : ResultFits(n, j, n.results[j])
  BY <1>4 DEF ResultFits, NoResult, Good
<1> HIDE DEF n
<1>6. CallFits(n)
  BY <1>1, <1>2, <1>3, <1>5 DEF CallFits, Fetching, Permitted
<1> QED
  BY <1>6 DEF n

(* A caller that is not promised a warm cache may fail.                    *)
LEMMA FailedFits ==
    ASSUME config \in Config, NEW call \in Call, CallFits(call), call.phase # "idle",
           ~(call.warm /\ ~call.refresh) \/ config.faulty, NEW cause
    PROVE  CallFits(Failed(call, cause))
<1>1. Marked("error") \in Result
  BY DEF Marked, Result, Nothing, Payload
<1>2. ResultFits(call, KindOf(call), Marked("error"))
  BY DEF ResultFits, Marked, Good
<1> QED
  BY <1>1, <1>2, AdvancedFits, RaisedFits DEF Failed

LEMMA WholeIsPayload ==
    ASSUME config \in Config, NEW k \in Kinds \ {"loss"}
    PROVE  Whole(k) \in Payload
  BY SourceAssumption DEF Whole, Payload, Config

(* The item sets of the loss rows are finite, so their number is one.      *)
LEMMA LossIsPayload ==
    ASSUME config \in Config
    PROVE  Whole("loss") \in Payload
<1>1. FirstYear \in Nat /\ CoveredEnd \in Int
  BY SourceAssumption DEF CoveredEnd, RequiredEnd, Least, Config
<1>2. LossRows \subseteq FirstYear..CoveredEnd
  BY DEF LossRows
<1>3. IsFiniteSet(LossRows)
  <2>1. IsFiniteSet(FirstYear..CoveredEnd)
    BY <1>1, FS_Interval
  <2> QED
    BY <2>1, <1>2, FS_Subset
<1>4. Cardinality(LossRows) \in Nat /\ LossRows \subseteq Nat
  BY <1>1, <1>2, <1>3, FS_CardinalityType
<1>5. Whole("loss") = [items |-> LossRows, count |-> Cardinality(LossRows)]
  BY SourceAssumption DEF Whole
<1>6. [items |-> LossRows, count |-> Cardinality(LossRows)] \in Payload
  <2> DEFINE n == Cardinality(LossRows)
  <2> HIDE DEF n
  <2>1. n \in Nat
    BY <1>4 DEF n
  <2>2. [items |-> LossRows, count |-> n] \in Payload
    BY <2>1, <1>4 DEF Payload
  <2> QED
    BY <2>2 DEF n
<1> QED
  BY <1>5, <1>6

(* One more answer: the caller has all that lies before the next cursor,   *)
(* or everything when this was the last one.                               *)
LEMMA ReplyFits ==
    ASSUME config \in Config, NEW call \in Call, PartFits(call),
           NEW k \in Kinds \ {"job"}, k = KindOf(call)
    PROVE  LET payload == Add(call.got, Reply(k, call.cursor))
           IN  /\ payload \in Payload
               /\ IsLast(k, call.cursor) /\ ~TooMany(k, payload) => payload = Whole(k)
               /\ ~IsLast(k, call.cursor) =>
                     LET next == NextCursor(k, call.cursor)
                     IN  /\ k = "fires" => /\ next \in 1..Window
                                           /\ payload = [items |-> 1..(next - 1),
                                                         count |-> next - 1]
                         /\ k \in Paged => /\ next \in 0..config.rows
                                           /\ payload = [items |-> 1..next, count |-> next]
                         /\ k \in Paged \cup {"fires"}
<1> DEFINE payload == Add(call.got, Reply(k, call.cursor))
          next    == NextCursor(k, call.cursor)
          u       == call.cursor
<1> USE SourceAssumption DEF Config
<1>1. CASE k = "fires"
  <2>1. u \in 1..Window /\ call.got = [items |-> 1..(u - 1), count |-> u - 1]
    BY <1>1 DEF PartFits
  <2>2. ChunkEnd(u) \in u..Window /\ k \notin Paged
    BY <1>1, <2>1 DEF ChunkEnd, Least
  <2>3. Reply(k, u) = [items |-> u..ChunkEnd(u), count |-> ChunkEnd(u) - u + 1]
    BY <1>1 DEF Reply
  <2>4. payload = [items |-> 1..ChunkEnd(u), count |-> ChunkEnd(u)]
    <3>1. (1..(u - 1)) \cup (u..ChunkEnd(u)) = 1..ChunkEnd(u)
      BY <2>1, <2>2
    <3>2. call.got.count + Reply(k, u).count = ChunkEnd(u)
      BY <2>1, <2>2, <2>3
    <3>3. call.got.items \cup Reply(k, u).items = 1..ChunkEnd(u)
      BY <2>1, <2>3, <3>1
    <3> QED
      BY <3>2, <3>3 DEF Add
  <2>5. payload \in Payload
    BY <2>2, <2>1, <2>4 DEF Payload
  <2>6. IsLast(k, u) <=> ChunkEnd(u) >= Window
    BY <1>1 DEF IsLast
  <2>7. next = ChunkEnd(u) + 1
    BY <1>1 DEF NextCursor
  <2>8. Whole(k) = [items |-> 1..Window, count |-> Window]
    BY <1>1 DEF Whole
  <2> HIDE DEF payload, next
  <2>9. IsLast(k, u) => payload = Whole(k)
    BY <2>1, <2>2, <2>4, <2>6, <2>8
  <2>10. ~IsLast(k, u) => next \in 1..Window
                         /\ payload = [items |-> 1..(next - 1), count |-> next - 1]
    BY <2>1, <2>2, <2>4, <2>6, <2>7
  <2> QED
    BY <1>1, <2>2, <2>5, <2>9, <2>10 DEF payload, next
<1>2. CASE k \in Paged
  <2>1. u \in 0..config.rows /\ call.got = [items |-> 1..u, count |-> u]
        /\ k # "fires" /\ k # "loss"
    BY <1>2 DEF PartFits
  <2>2. PageEnd(u) \in u..config.rows
        /\ (PageEnd(u) = u + PageSize \/ PageEnd(u) = config.rows)
        /\ PageEnd(u) <= u + PageSize
    BY <2>1 DEF PageEnd, Least
  <2>3. Reply(k, u) = [items |-> (u + 1)..PageEnd(u), count |-> PageEnd(u) - u]
    BY <1>2, <2>1 DEF Reply
  <2>4. payload = [items |-> 1..PageEnd(u), count |-> PageEnd(u)]
    <3>1. (1..u) \cup ((u + 1)..PageEnd(u)) = 1..PageEnd(u)
      BY <2>1, <2>2
    <3>2. call.got.count + Reply(k, u).count = PageEnd(u)
      BY <2>1, <2>2, <2>3
    <3>3. call.got.items \cup Reply(k, u).items = 1..PageEnd(u)
      BY <2>1, <2>3, <3>1
    <3> QED
      BY <3>2, <3>3 DEF Add
  <2>5. payload \in Payload
    BY <2>2, <2>1, <2>4 DEF Payload
  <2>6. IsLast(k, u) <=> (PageEnd(u) - u < PageSize \/ u + PageSize > RowLimit)
    BY <1>2, <2>1, <2>3 DEF IsLast, LastOffset
  <2>7. next = u + PageSize
    BY <2>1 DEF NextCursor
  <2>8. Whole(k) = [items |-> 1..config.rows, count |-> config.rows]
    BY <1>2, <2>1 DEF Whole
  <2>9. TooMany(k, payload) <=> PageEnd(u) > RowLimit
    BY <1>2, <2>4 DEF TooMany
  <2> HIDE DEF payload, next
  <2>10. IsLast(k, u) /\ ~TooMany(k, payload) => payload = Whole(k)
    BY <2>1, <2>2, <2>4, <2>6, <2>8, <2>9
  <2>11. ~IsLast(k, u) => next \in 0..config.rows
                         /\ payload = [items |-> 1..next, count |-> next]
    BY <2>1, <2>2, <2>4, <2>6, <2>7
  <2> QED
    BY <1>2, <2>1, <2>5, <2>10, <2>11 DEF payload, next
<1>3. CASE k \notin Paged \cup {"fires"}
  <2>1. Reply(k, u) = Whole(k) /\ Whole(k) \in Payload /\ IsLast(k, u)
    BY <1>3, WholeIsPayload, LossIsPayload DEF Reply, IsLast
  <2>2. call.got = Nothing
    BY <1>3 DEF PartFits
  <2>3. payload = Whole(k)
    BY <2>1, <2>2 DEF Nothing, Add, Payload
  <2> HIDE DEF payload, next
  <2> QED
    BY <1>3, <2>1, <2>3 DEF payload, next
<1> QED
  BY <1>1, <1>2, <1>3

-----------------------------------------------------------------------------
(* Steps under the same settings.                                          *)

LEMMA SameSettings ==
    ASSUME config' = config
    PROVE  /\ \A k \in Kinds : Whole(k)' = Whole(k)
           /\ \A k \in Kinds : Queried(k)' = Queried(k) /\ NotForPlot(k)' = NotForPlot(k)
           /\ NoLossQuery' = NoLossQuery /\ Uncovered' = Uncovered
           /\ \A call \in Call : Permitted(call)' = Permitted(call)
           /\ \A call \in Call : PartFits(call)' = PartFits(call)
<1> USE DEF RequiredEnd, CoveredEnd, NoLossQuery, NotForPlot
<1>1. LossRows' = LossRows
  BY DEF LossRows
<1>2. \A k \in Kinds : Whole(k)' = Whole(k)
  BY <1>1 DEF Whole
<1>3. \A k \in Kinds : Queried(k)' = Queried(k)
  BY DEF Queried, CountryMissing
<1> QED
  BY <1>2, <1>3 DEF Uncovered, Permitted, PartFits

LEMMA SameCalls ==
    ASSUME config' = config,
           \A k \in Kinds : config.ttl = 0 /\ entries[k].held => entries'[k].held
    PROVE  \A call \in Call : CallFits(call) => CallFits(call)'
<1> SUFFICES ASSUME NEW call \in Call, CallFits(call) PROVE CallFits(call)'
  OBVIOUS
<1>1. call.stage \in 1..Len(Plan(call.plan)) /\ KindOf(call) \in Kinds
  BY KindFacts DEF CallFits
<1>2. Needed(call.plan) \subseteq Kinds
  BY PlanFacts DEF Call
<1>3. \A k \in Kinds : ResultFits(call, k, call.results[k])'
  BY SameSettings DEF CallFits, ResultFits
<1> QED
  BY <1>1, <1>2, <1>3, SameSettings DEF CallFits

(* One caller moves, and the cache forgets nothing that never expires.     *)
LEMMA CallerMoves ==
    ASSUME SInv, NEW c \in Callers, NEW call \in Call, CallFits(call), Becomes(c, call),
           config' = config,
           \A k \in Kinds : config.ttl = 0 /\ entries[k].held => entries'[k].held
    PROVE  /\ calls' \in [Callers -> Call]
           /\ \A d \in Callers : calls'[d].stage \in 1..Len(Plan(calls'[d].plan))
           /\ \A d \in Callers : CallFits(calls[d])'
<1>1. calls' = [calls EXCEPT ![c] = call] /\ calls \in [Callers -> Call]
  BY DEF Becomes, SInv, TypeOK
<1>2. \A d \in Callers : CallFits(calls'[d])
  BY <1>1 DEF SInv
<1>3. calls' \in [Callers -> Call]
  BY <1>1
<1>4. \A d \in Callers : calls'[d].stage \in 1..Len(Plan(calls'[d].plan))
  BY <1>2 DEF CallFits
<1>5. ASSUME NEW d \in Callers PROVE CallFits(calls[d])'
  BY <1>2, <1>3, SameCalls
<1> QED
  BY <1>3, <1>4, <1>5

LEMMA OnlyCallerMoves ==
    ASSUME SInv, NEW c \in Callers, NEW call \in Call, CallFits(call), Becomes(c, call),
           UNCHANGED <<config, clock, entries, fixtures, restarts>>
    PROVE  SInv'
<1>1. StoreFits'
  BY SameSettings DEF SInv, StoreFits
<1> QED
  BY <1>1, CallerMoves DEF SInv, TypeOK

LEMMA InitSInv == Init => SInv
<1> SUFFICES ASSUME Init PROVE SInv
  OBVIOUS
<1>1. config \in Config
  BY SourceAssumption DEF Init
<1>2. NoEntry \in Entry /\ ~NoEntry.held /\ NoEntry.until = 0
      /\ NoFixture \in Fixture /\ ~NoFixture.held
  BY DEF NoEntry, Entry, NoFixture, Fixture, Nothing, Payload
<1>3. StoreFits
  BY <1>2 DEF Init, StoreFits
<1>4. 1 \in 1..Len(Plan("plot"))
  BY PlanFacts DEF Plans
<1>5. Idle.stage = 1 /\ Idle.plan = "plot"
  BY DEF Idle
<1>6. TypeOK
  BY <1>1, <1>2, <1>4, <1>5, IdleFits DEF Init, TypeOK
<1> QED
  BY <1>1, <1>3, <1>6, IdleFits DEF Init, SInv

-----------------------------------------------------------------------------
(* The steps of one caller.                                                *)

LEMMA StartFits == ASSUME SInv, NEW c \in Callers, Start(c) PROVE SInv'
<1>1. config \in Config /\ calls[c] \in Call /\ CallFits(calls[c])
  BY DEF SInv, TypeOK
<1>2. calls[c] = Idle
  BY <1>1 DEF Start, CallFits
<1>3. PICK p \in config.plans[c], refresh \in BOOLEAN :
         Becomes(c, [calls[c] EXCEPT !.plan = p, !.phase = "look", !.refresh = refresh,
             !.warm = config.ttl = 0 /\ \A k \in Needed(p) : Queried(k) => entries[k].held])
  BY DEF Start
<1> DEFINE warm == config.ttl = 0 /\ \A k \in Needed(p) : Queried(k) => entries[k].held
           n    == [calls[c] EXCEPT !.plan = p, !.phase = "look", !.refresh = refresh,
                                    !.warm = warm]
<1>4. p \in Plans
  BY <1>1 DEF Config, Plans
<1>5. warm \in BOOLEAN
  OBVIOUS
<1> HIDE DEF warm
<1>6. n \in Call
  BY <1>1, <1>4, <1>5 DEF Call
<1>7. /\ n.plan = p /\ n.phase = "look" /\ n.warm = warm /\ n.stage = 1
      /\ n.sent = FALSE /\ n.results = [k \in Kinds |-> NoResult] /\ n.got = Nothing
  BY <1>1, <1>2 DEF Call, Idle
<1>8. 1 \in 1..Len(Plan(p))
  BY <1>4, PlanFacts
<1>9. \A k \in Kinds : ResultFits(n, k, n.results[k])
  BY <1>7 DEF ResultFits, NoResult, Good
<1>10. CallFits(n)
  <2> HIDE DEF n
  <2> QED
    BY <1>6, <1>7, <1>8, <1>9 DEF CallFits, Fetching, warm
<1> QED
  BY <1>3, <1>6, <1>10, OnlyCallerMoves DEF Start, warm

LEMMA NotesGapFits ==
    ASSUME NEW call \in Call, CallFits(call), call.phase = "look", NEW k \in Kinds
    PROVE  LET n == NotesGap(call, k)
           IN  /\ n \in Call /\ CallFits(n) /\ n.phase = "look"
               /\ n.refresh = call.refresh /\ n.warm = call.warm /\ n.plan = call.plan
               /\ KindOf(n) = KindOf(call)
               /\ k = "loss" /\ Uncovered => n.gap
<1> DEFINE gap == call.gap \/ (k = "loss" /\ Uncovered)
           n   == [call EXCEPT !.gap = gap]
<1>1. gap \in BOOLEAN /\ (call.gap => gap) /\ (k = "loss" /\ Uncovered => gap)
  BY DEF Call
<1> HIDE DEF gap
<1>2. n \in Call
  BY <1>1 DEF Call
<1>3. /\ n.plan = call.plan /\ n.phase = call.phase /\ n.stage = call.stage
      /\ n.refresh = call.refresh /\ n.sent = call.sent /\ n.warm = call.warm
      /\ n.results = call.results /\ n.gap = gap /\ n.got = call.got
  BY DEF Call
<1> HIDE DEF n
<1>4. \A j \in Kinds : ResultFits(n, j, n.results[j])
  BY <1>1, <1>3 DEF CallFits, ResultFits
<1>5. KindOf(n) = KindOf(call)
  BY <1>3 DEF KindOf
<1>6. CallFits(n)
  BY <1>2, <1>3, <1>4 DEF CallFits, Fetching, Permitted
<1>7. NotesGap(call, k) = n
  BY DEF NotesGap, n, gap
<1> QED
  BY <1>1, <1>2, <1>3, <1>5, <1>6, <1>7

LEMMA SkipLossFits == ASSUME SInv, NEW c \in Callers, SkipLoss(c) PROVE SInv'
<1>1. /\ calls[c] \in Call /\ CallFits(calls[c]) /\ calls[c].phase = "look"
      /\ KindOf(calls[c]) = "loss" /\ NoLossQuery
  BY DEF SInv, TypeOK, SkipLoss, Looks
<1>2. Marked("error") \in Result
  BY DEF Marked, Result, Nothing, Payload
<1>3. ~Queried("loss")
  BY <1>1 DEF Queried
<1>4. ResultFits(calls[c], "loss", Marked("error"))
  BY <1>3 DEF ResultFits, Marked, Good
<1>5. CallFits(Advanced(calls[c], Marked("error")))
  BY <1>1, <1>2, <1>4, AdvancedFits
<1>6. Advanced(calls[c], Marked("error")) \in Call
  BY <1>5 DEF CallFits
<1> QED
  BY <1>5, <1>6, OnlyCallerMoves DEF SkipLoss

LEMMA SkipLayerFits ==
    ASSUME SInv, NEW c \in Callers, NEW k \in Kinds, SkipLayer(c, k) PROVE SInv'
<1>1. /\ calls[c] \in Call /\ CallFits(calls[c]) /\ calls[c].phase = "look"
      /\ KindOf(calls[c]) = k
  BY DEF SInv, TypeOK, SkipLayer, Looks
<1>2. ASSUME NEW status \in {"error", "not_applicable"},
             status = "not_applicable" => NotForPlot(k), ~Queried(k)
      PROVE  CallFits(Advanced(calls[c], Marked(status)))
             /\ Advanced(calls[c], Marked(status)) \in Call
  <2>1. Marked(status) \in Result
    BY DEF Marked, Result, Nothing, Payload
  <2>2. ResultFits(calls[c], k, Marked(status))
    BY <1>2 DEF ResultFits, Marked, Good
  <2>3. CallFits(Advanced(calls[c], Marked(status)))
    BY <1>1, <2>1, <2>2, AdvancedFits
  <2> QED
    BY <2>3 DEF CallFits
<1>3. CASE NotForPlot(k) /\ Becomes(c, Advanced(calls[c], Marked("not_applicable")))
  <2>1. ~Queried(k)
    BY <1>3 DEF Queried
  <2> QED
    BY <1>2, <1>3, <2>1, OnlyCallerMoves DEF SkipLayer
<1>4. CASE CountryMissing(k) /\ Becomes(c, Advanced(calls[c], Marked("error")))
  <2>1. ~Queried(k)
    BY <1>4 DEF Queried
  <2> QED
    BY <1>2, <1>4, <2>1, OnlyCallerMoves DEF SkipLayer
<1> QED
  BY <1>3, <1>4 DEF SkipLayer

LEMMA HitFits == ASSUME SInv, NEW c \in Callers, NEW k \in Kinds, Hit(c, k) PROVE SInv'
<1>1. /\ calls[c] \in Call /\ CallFits(calls[c]) /\ calls[c].phase = "look"
      /\ KindOf(calls[c]) = k /\ Queried(k) /\ Live(k)
      /\ entries[k] \in Entry
  BY DEF SInv, TypeOK, Hit, Looks
<1> DEFINE n == NotesGap(calls[c], k)
           r == [status |-> "cached", payload |-> entries[k].payload, stale |-> ~Live(k)]
<1>2. /\ n \in Call /\ CallFits(n) /\ n.phase = "look" /\ KindOf(n) = k
      /\ k = "loss" /\ Uncovered => n.gap
  BY <1>1, NotesGapFits
<1>3. r \in Result
  BY <1>1 DEF Entry, Result
<1>4. k # "job" => r.payload = Whole(k)
  BY <1>1 DEF SInv, StoreFits, Live
<1>5. r.status = "cached" /\ ~r.stale
  BY <1>1
<1> HIDE DEF n, r
<1>6. ResultFits(n, k, r)
  BY <1>1, <1>2, <1>4, <1>5 DEF ResultFits, Good, Queried
<1>7. CallFits(Advanced(n, r))
  BY <1>2, <1>3, <1>6, AdvancedFits
<1>8. Advanced(n, r) \in Call
  BY <1>7 DEF CallFits
<1>9. Becomes(c, Advanced(n, r))
  BY DEF Hit, n, r
<1> QED
  BY <1>7, <1>8, <1>9, OnlyCallerMoves DEF Hit

LEMMA MissFits == ASSUME SInv, NEW c \in Callers, NEW k \in Kinds, Miss(c, k) PROVE SInv'
<1>1. /\ calls[c] \in Call /\ CallFits(calls[c]) /\ calls[c].phase = "look"
      /\ KindOf(calls[c]) = k /\ Queried(k) /\ (calls[c].refresh \/ ~Live(k))
      /\ entries \in [Kinds -> Entry] /\ config \in Config
      /\ calls[c].plan \in Plans
  BY DEF SInv, TypeOK, Miss, Looks, Call
<1> DEFINE n == NotesGap(calls[c], k)
<1>2. /\ n \in Call /\ CallFits(n) /\ n.phase = "look" /\ KindOf(n) = k
      /\ n.refresh = calls[c].refresh /\ n.warm = calls[c].warm
      /\ k = "loss" /\ Uncovered => n.gap
  BY <1>1, NotesGapFits
<1> HIDE DEF n
<1>3. k \in Needed(n.plan) /\ (k = "media" <=> n.plan = "media")
  BY <1>2, KindFacts DEF CallFits
<1>4. ~(n.warm /\ ~n.refresh)
  BY <1>1, <1>2, <1>3 DEF CallFits, SInv, StoreFits, Live
<1>5. ASSUME Permitted(n)
      PROVE  Asking(n, k) \in Call /\ CallFits(Asking(n, k))
  <2> DEFINE m == Asking(n, k)
  <2>1. FirstCursor(k) \in Nat
    BY DEF FirstCursor
  <2>2. m \in Call
    BY <1>2, <2>1 DEF Asking, Call
  <2>3. /\ m.plan = n.plan /\ m.phase = "send" /\ m.stage = n.stage
        /\ m.refresh = n.refresh /\ m.sent = n.sent /\ m.warm = n.warm
        /\ m.results = n.results /\ m.gap = n.gap /\ m.cursor = FirstCursor(k)
        /\ m.got = n.got
    BY <1>2 DEF Asking, Call
  <2>4. KindOf(m) = k
    BY <1>2, <2>3 DEF KindOf
  <2> HIDE DEF m
  <2>5. m.got = Nothing
    BY <1>2, <2>3 DEF CallFits
  <2>6. PartFits(m)
    <3>1. CASE k = "fires"
      <4>1. m.cursor = 1 /\ k \notin Paged /\ 1 \in 1..Window /\ 1..0 = {}
        BY <2>3, <3>1, SourceAssumption DEF FirstCursor
      <4> QED
        BY <2>4, <2>5, <3>1, <4>1 DEF PartFits, Nothing
    <3>2. CASE k # "fires"
      <4>1. m.cursor = 0 /\ 0 \in 0..config.rows /\ 1..0 = {}
        BY <1>1, <2>3, <3>2 DEF FirstCursor, Config
      <4> QED
        BY <2>4, <2>5, <3>2, <4>1 DEF PartFits, Nothing
    <3> QED
      BY <3>1, <3>2
  <2>7. \A j \in Kinds : ResultFits(m, j, m.results[j])
    BY <1>2, <2>3 DEF CallFits, ResultFits
  <2>8. Permitted(m)
    BY <1>5, <2>3 DEF Permitted
  <2>9. CallFits(m)
    BY <1>1, <1>2, <1>4, <2>2, <2>3, <2>4, <2>6, <2>7, <2>8 DEF CallFits, Fetching
  <2> QED
    BY <2>2, <2>9 DEF m
<1>6. ASSUME NEW cause PROVE Failed(n, cause) \in Call /\ CallFits(Failed(n, cause))
  <2>1. CallFits(Failed(n, cause))
    BY <1>1, <1>2, <1>4, FailedFits
  <2> QED
    BY <2>1 DEF CallFits
<1>7. AfterMiss(n, k) \in Call /\ CallFits(AfterMiss(n, k))
  <2>1. CASE ~n.refresh /\ config.offline
    BY <1>6, <2>1 DEF AfterMiss
  <2>2. CASE ~config.keyed /\ k # "media" /\ (n.refresh \/ ~config.offline)
    BY <1>6, <2>2 DEF AfterMiss
  <2>3. CASE /\ ~(~n.refresh /\ config.offline)
             /\ ~(~config.keyed /\ k # "media" /\ (n.refresh \/ ~config.offline))
    <3>1. Permitted(n)
      BY <1>3, <2>3 DEF Permitted
    <3>2. AfterMiss(n, k) = Asking(n, k)
      BY <2>3 DEF AfterMiss
    <3> QED
      BY <1>5, <3>1, <3>2
  <2> QED
    BY <2>1, <2>2, <2>3
<1>8. /\ entries' \in [Kinds -> Entry]
      /\ \A j \in Kinds : entries'[j] = entries[j] \/ entries'[j] = NoEntry
      /\ \A j \in Kinds : config.ttl = 0 /\ entries[j].held => entries'[j].held
  <2>1. NoEntry \in Entry
    BY DEF NoEntry, Entry, Nothing, Payload
  <2>2. config.ttl = 0 /\ entries[k].held => Live(k)
    BY DEF SInv, StoreFits, Live
  <2> QED
    BY <1>1, <2>1, <2>2 DEF Miss, Purged
<1>9. StoreFits'
  BY <1>8, SameSettings DEF SInv, StoreFits, Miss, NoEntry
<1>10. Becomes(c, AfterMiss(n, k)) /\ UNCHANGED <<config, clock, fixtures, restarts>>
  BY DEF Miss, n
<1> QED
  BY <1>7, <1>8, <1>9, <1>10, CallerMoves DEF SInv, TypeOK

LEMMA LookupFailsFits ==
    ASSUME SInv, NEW c \in Callers, NEW k \in Kinds, LookupFails(c, k) PROVE SInv'
<1>1. /\ calls[c] \in Call /\ CallFits(calls[c]) /\ calls[c].phase = "look"
      /\ KindOf(calls[c]) = k /\ config \in Config /\ config.faulty
  BY DEF SInv, TypeOK, LookupFails, Looks
<1> DEFINE n == NotesGap(calls[c], k)
<1>2. n \in Call /\ CallFits(n) /\ n.phase = "look"
  BY <1>1, NotesGapFits
<1>3. CallFits(Failed(n, "cache"))
  BY <1>1, <1>2, FailedFits
<1>4. Failed(n, "cache") \in Call
  BY <1>3 DEF CallFits
<1> QED
  BY <1>3, <1>4, OnlyCallerMoves DEF LookupFails

(* What a request changes beside its outcome.                              *)
LEMMA AskedFits ==
    ASSUME NEW call \in Call, CallFits(call), call.phase \in Fetching,
           NEW sent \in BOOLEAN, NEW tries \in Nat, NEW waiting \in BOOLEAN
    PROVE  LET n == [call EXCEPT !.sent = sent, !.tries = tries, !.waiting = waiting]
           IN  /\ n \in Call /\ CallFits(n)
               /\ n.phase = call.phase /\ KindOf(n) = KindOf(call)
               /\ ~(n.warm /\ ~n.refresh)
<1> DEFINE n == [call EXCEPT !.sent = sent, !.tries = tries, !.waiting = waiting]
<1>1. n \in Call
  BY DEF Call
<1>2. /\ n.plan = call.plan /\ n.phase = call.phase /\ n.stage = call.stage
      /\ n.refresh = call.refresh /\ n.warm = call.warm /\ n.gap = call.gap
      /\ n.results = call.results /\ n.cursor = call.cursor /\ n.got = call.got
  BY DEF Call
<1> HIDE DEF n
<1>3. KindOf(n) = KindOf(call)
  BY <1>2 DEF KindOf
<1>4. \A j \in Kinds : ResultFits(n, j, n.results[j])
  BY <1>2 DEF CallFits, ResultFits
<1>5. Permitted(n) <=> Permitted(call)
  BY <1>2 DEF Permitted
<1>6. PartFits(n) <=> PartFits(call)
  BY <1>2, <1>3 DEF PartFits
<1>7. ~(n.warm /\ ~n.refresh)
  BY <1>2 DEF CallFits
<1>8. CallFits(n)
  BY <1>1, <1>2, <1>3, <1>4, <1>5, <1>6, <1>7 DEF CallFits, Fetching
<1> QED
  BY <1>1, <1>2, <1>3, <1>7, <1>8 DEF n

LEMMA RequestFails ==
    ASSUME SInv, NEW c \in Callers, calls[c].phase \in Fetching, NEW sent \in BOOLEAN,
           NEW cause
    PROVE  LET n == Failed([calls[c] EXCEPT !.sent = sent], cause)
           IN  n \in Call /\ CallFits(n)
<1>1. calls[c] \in Call /\ CallFits(calls[c]) /\ config \in Config
  BY DEF SInv, TypeOK
<1> DEFINE n == [calls[c] EXCEPT !.sent = sent, !.tries = calls[c].tries,
                                 !.waiting = calls[c].waiting]
<1>2. n = [calls[c] EXCEPT !.sent = sent]
  BY <1>1 DEF Call
<1>3. calls[c].tries \in Nat /\ calls[c].waiting \in BOOLEAN
  BY <1>1 DEF Call
<1>4. n \in Call /\ CallFits(n) /\ n.phase = calls[c].phase /\ ~(n.warm /\ ~n.refresh)
  <2> DEFINE call == calls[c]  tries == call.tries  waiting == call.waiting
  <2>1. /\ call \in Call /\ CallFits(call) /\ call.phase \in Fetching
        /\ tries \in Nat /\ waiting \in BOOLEAN /\ sent \in BOOLEAN
    BY <1>1, <1>3
  <2>2. n = [call EXCEPT !.sent = sent, !.tries = tries, !.waiting = waiting]
    OBVIOUS
  <2> HIDE DEF call, tries, waiting, n
  <2>3. n \in Call /\ CallFits(n)
    BY <2>1, <2>2, AskedFits
  <2>5. n.phase = call.phase
    BY <2>1, <2>2 DEF Call
  <2>4. ~(n.warm /\ ~n.refresh)
    BY <2>1, <2>2, AskedFits
  <2> QED
    BY <2>3, <2>4, <2>5 DEF call
<1> HIDE DEF n
<1>5. CallFits(Failed(n, cause))
  BY <1>1, <1>4, FailedFits DEF Fetching
<1>6. Failed(n, cause) \in Call
  BY <1>5 DEF CallFits
<1> QED
  BY <1>2, <1>5, <1>6

LEMMA NotAnsweredFits == ASSUME SInv, NEW c \in Callers, NotAnswered(c) PROVE SInv'
<1>1. calls[c] \in Call /\ CallFits(calls[c]) /\ calls[c].phase \in Fetching
      /\ calls[c].tries \in Nat
  BY DEF SInv, TypeOK, NotAnswered, InRequest, Fetching, Call
<1>2. CASE calls[c].tries + 1 < MaxAttempts
  <2> DEFINE n == [calls[c] EXCEPT !.sent = TRUE, !.tries = calls[c].tries + 1,
                                   !.waiting = TRUE]
  <2>1. n \in Call /\ CallFits(n)
    <3> DEFINE call == calls[c]  tries == call.tries + 1
    <3>1. call \in Call /\ CallFits(call) /\ call.phase \in Fetching /\ tries \in Nat
      BY <1>1
    <3>2. n = [call EXCEPT !.sent = TRUE, !.tries = tries, !.waiting = TRUE]
      OBVIOUS
    <3> HIDE DEF call, tries, n
    <3> QED
      BY <3>1, <3>2, AskedFits
  <2>2. Becomes(c, n)
    BY <1>1, <1>2 DEF NotAnswered, Becomes, Call
  <2> QED
    BY <2>1, <2>2, OnlyCallerMoves DEF NotAnswered
<1>3. CASE ~(calls[c].tries + 1 < MaxAttempts)
  <2> DEFINE n == Failed([calls[c] EXCEPT !.sent = TRUE], "source")
  <2>1. n \in Call /\ CallFits(n)
    BY <1>1, RequestFails
  <2>2. Becomes(c, n)
    BY <1>3 DEF NotAnswered
  <2> QED
    BY <2>1, <2>2, OnlyCallerMoves DEF NotAnswered
<1> QED
  BY <1>2, <1>3

LEMMA RefusedFits == ASSUME SInv, NEW c \in Callers, Refused(c) PROVE SInv'
<1>1. calls[c].phase \in Fetching
  BY DEF Refused, InRequest, Fetching
<1> DEFINE n == Failed([calls[c] EXCEPT !.sent = TRUE], "source")
<1>2. n \in Call /\ CallFits(n)
  BY <1>1, RequestFails
<1> QED
  BY <1>2, OnlyCallerMoves DEF Refused

LEMMA WaitedFits == ASSUME SInv, NEW c \in Callers, Waited(c) PROVE SInv'
<1>1. calls[c] \in Call /\ CallFits(calls[c]) /\ config \in Config
  BY DEF SInv, TypeOK
<1> DEFINE call == calls[c]
           n == [call EXCEPT !.waiting = FALSE]
<1>2. n \in Call
  BY <1>1 DEF Call
<1>3. /\ n.plan = call.plan /\ n.phase = call.phase /\ n.stage = call.stage
      /\ n.refresh = call.refresh /\ n.warm = call.warm /\ n.gap = call.gap
      /\ n.results = call.results /\ n.cursor = call.cursor /\ n.got = call.got
      /\ n.sent = call.sent
  BY <1>1 DEF Call
<1>4. call.phase = "idle" => n = call
  BY <1>1 DEF CallFits, Idle, Waited
<1>5. Becomes(c, n)
  BY DEF Waited
<1> HIDE DEF n, call
<1>6. KindOf(n) = KindOf(call)
  BY <1>3 DEF KindOf
<1>7. \A j \in Kinds : ResultFits(n, j, n.results[j])
  BY <1>1, <1>3 DEF CallFits, ResultFits, call
<1>8. (Permitted(n) <=> Permitted(call)) /\ (PartFits(n) <=> PartFits(call))
  BY <1>3, <1>6 DEF Permitted, PartFits
<1>9. CallFits(call)
  BY <1>1 DEF call
<1>10. CallFits(n)
  BY <1>2, <1>3, <1>4, <1>6, <1>7, <1>8, <1>9 DEF CallFits, Fetching
<1> QED
  BY <1>2, <1>5, <1>10, OnlyCallerMoves DEF Waited

(* What an answer changes: the caller may now have more, or be further on. *)
LEMMA ReceivedFits ==
    ASSUME NEW call \in Call, CallFits(call), call.phase \in Fetching,
           NEW n \in Call,
           /\ n.plan = call.plan /\ n.stage = call.stage /\ n.refresh = call.refresh
           /\ n.warm = call.warm /\ n.gap = call.gap /\ n.results = call.results
           /\ n.sent \in {call.sent, TRUE} /\ n.phase \in Fetching,
           n.phase = "send" => PartFits(n),
           n.phase \in {"poll", "download"} => KindOf(n) = "job",
           n.phase = "store" /\ KindOf(n) # "job" => n.got = Whole(KindOf(n))
    PROVE  CallFits(n)
<1>1. KindOf(n) = KindOf(call)
  BY DEF KindOf
<1>2. \A j \in Kinds : ResultFits(n, j, n.results[j])
  BY DEF CallFits, ResultFits
<1>3. Permitted(n) <=> Permitted(call)
  BY DEF Permitted
<1> QED
  BY <1>1, <1>2, <1>3 DEF CallFits, Fetching

LEMMA AnsweredFits == ASSUME SInv, NEW c \in Callers, Answered(c) PROVE SInv'
<1> DEFINE call == calls[c]
           k == KindOf(call)
           payload == Add(call.got, Reply(k, call.cursor))
<1>1. /\ call \in Call /\ CallFits(call) /\ call.phase = "send" /\ k # "job"
      /\ config \in Config /\ k \in Kinds /\ PartFits(call)
  BY KindFacts DEF SInv, TypeOK, Answered, InRequest, CallFits
<1>2. /\ payload \in Payload
      /\ IsLast(k, call.cursor) /\ ~TooMany(k, payload) => payload = Whole(k)
      /\ ~IsLast(k, call.cursor) =>
            LET next == NextCursor(k, call.cursor)
            IN  /\ k = "fires" => /\ next \in 1..Window
                                  /\ payload = [items |-> 1..(next - 1), count |-> next - 1]
                /\ k \in Paged => /\ next \in 0..config.rows
                                  /\ payload = [items |-> 1..next, count |-> next]
                /\ k \in Paged \cup {"fires"}
  BY <1>1, ReplyFits
<1>3. UNCHANGED <<config, clock, entries, fixtures, restarts>>
  BY DEF Answered
<1>4. Becomes(c,
        CASE TooMany(k, payload) -> Failed([call EXCEPT !.sent = TRUE, !.tries = 0], "source")
          [] ~TooMany(k, payload) /\ IsLast(k, call.cursor) ->
               [call EXCEPT !.sent = TRUE, !.tries = 0, !.got = payload, !.phase = "store"]
          [] OTHER -> [call EXCEPT !.sent = TRUE, !.tries = 0, !.got = payload,
                                   !.cursor = NextCursor(k, call.cursor)])
  BY <1>1 DEF Answered, Becomes, Call
<1>5. CASE TooMany(k, payload)
  <2> DEFINE n == [call EXCEPT !.sent = TRUE, !.tries = 0, !.waiting = call.waiting]
  <2>1. n = [call EXCEPT !.sent = TRUE, !.tries = 0]
    BY <1>1 DEF Call
  <2>2. call.phase \in Fetching /\ call.waiting \in BOOLEAN
    BY <1>1 DEF Fetching, Call
  <2>3. n \in Call /\ CallFits(n) /\ n.phase = call.phase
    <3> HIDE DEF call
    <3> QED
      BY <1>1, <2>2, AskedFits
  <2>4. ~(n.warm /\ ~n.refresh)
    <3> HIDE DEF call
    <3> QED
      BY <1>1, <2>2, AskedFits
  <2>5. Becomes(c, Failed(n, "source"))
    BY <1>4, <1>5, <2>1
  <2> HIDE DEF n, k, payload, call
  <2>6. CallFits(Failed(n, "source"))
    BY <1>1, <2>3, <2>4, FailedFits
  <2>7. Failed(n, "source") \in Call
    BY <2>6 DEF CallFits
  <2> QED
    BY <1>3, <2>5, <2>6, <2>7, OnlyCallerMoves
<1>6. CASE ~TooMany(k, payload) /\ IsLast(k, call.cursor)
  <2> DEFINE n == [call EXCEPT !.sent = TRUE, !.tries = 0, !.got = payload,
                               !.phase = "store"]
  <2>1. Becomes(c, n)
    BY <1>4, <1>6
  <2>2. payload = Whole(k)
    BY <1>2, <1>6
  <2> HIDE DEF payload, call
  <2>3. n \in Call
    BY <1>1, <1>2 DEF Call
  <2>4. /\ n.plan = call.plan /\ n.stage = call.stage /\ n.refresh = call.refresh
        /\ n.warm = call.warm /\ n.gap = call.gap /\ n.results = call.results
        /\ n.sent = TRUE /\ n.phase = "store" /\ n.got = payload
    BY <1>1 DEF Call
  <2> HIDE DEF n
  <2>5. n.got = Whole(KindOf(n))
    BY <2>2, <2>4 DEF KindOf
  <2>6. CallFits(n)
    BY <1>1, <2>3, <2>4, <2>5, ReceivedFits DEF Fetching
  <2> QED
    BY <1>3, <2>1, <2>3, <2>6, OnlyCallerMoves
<1>7. CASE ~TooMany(k, payload) /\ ~IsLast(k, call.cursor)
  <2> DEFINE next == NextCursor(k, call.cursor)
             n == [call EXCEPT !.sent = TRUE, !.tries = 0, !.got = payload,
                               !.cursor = next]
  <2>1. Becomes(c, n)
    BY <1>4, <1>7
  <2>2. /\ k = "fires" => /\ next \in 1..Window
                          /\ payload = [items |-> 1..(next - 1), count |-> next - 1]
        /\ k \in Paged => /\ next \in 0..config.rows
                          /\ payload = [items |-> 1..next, count |-> next]
        /\ k \in Paged \cup {"fires"}
    BY <1>2, <1>7
  <2> HIDE DEF payload, call, next
  <2>3. next \in Nat
    BY <1>1, <2>2, SourceAssumption DEF Config
  <2>4. n \in Call
    BY <1>1, <1>2, <2>3 DEF Call
  <2>5. /\ n.plan = call.plan /\ n.stage = call.stage /\ n.refresh = call.refresh
        /\ n.warm = call.warm /\ n.gap = call.gap /\ n.results = call.results
        /\ n.sent = TRUE /\ n.phase = "send" /\ n.got = payload /\ n.cursor = next
    BY <1>1 DEF Call
  <2> HIDE DEF n
  <2>6. PartFits(n)
    <3>1. KindOf(n) = k
      BY <2>5 DEF KindOf
    <3> HIDE DEF k
    <3> QED
      BY <2>2, <2>5, <3>1 DEF PartFits
  <2>7. CallFits(n)
    BY <1>1, <2>4, <2>5, <2>6, ReceivedFits DEF Fetching
  <2> QED
    BY <1>3, <2>1, <2>4, <2>7, OnlyCallerMoves
<1> QED
  BY <1>5, <1>6, <1>7

LEMMA JobFits ==
    ASSUME SInv, NEW c \in Callers,
           JobCreated(c) \/ JobPending(c) \/ JobEnded(c) \/ Downloaded(c)
    PROVE  SInv'
<1> DEFINE call == calls[c]
<1>1. /\ call \in Call /\ CallFits(call) /\ call.phase \in Fetching
      /\ config \in Config /\ KindOf(call) = "job" /\ clock \in Nat
  BY DEF SInv, TypeOK, JobCreated, JobPending, JobEnded, Downloaded, InRequest, CallFits,
         Fetching
<1>2. UNCHANGED <<config, clock, entries, fixtures, restarts>>
  BY DEF JobCreated, JobPending, JobEnded, Downloaded
<1>3. ASSUME NEW sent \in {call.sent, TRUE}, NEW waiting \in BOOLEAN, NEW got \in Payload,
             NEW phase \in Fetching \ {"send"}, NEW deadline \in Nat,
             Becomes(c, [call EXCEPT !.sent = sent, !.tries = 0, !.phase = phase,
                                     !.deadline = deadline, !.waiting = waiting, !.got = got])
      PROVE  SInv'
  <2> DEFINE n == [call EXCEPT !.sent = sent, !.tries = 0, !.phase = phase,
                               !.deadline = deadline, !.waiting = waiting, !.got = got]
  <2> HIDE DEF call
  <2>1. n \in Call
    BY <1>1, <1>3 DEF Call, Fetching
  <2>2. /\ n.plan = call.plan /\ n.stage = call.stage /\ n.refresh = call.refresh
        /\ n.warm = call.warm /\ n.gap = call.gap /\ n.results = call.results
        /\ n.sent = sent /\ n.phase = phase
    BY <1>1 DEF Call
  <2> HIDE DEF n
  <2>3. KindOf(n) = "job"
    BY <1>1, <2>2 DEF KindOf
  <2>4. CallFits(n)
    BY <1>1, <2>1, <2>2, <2>3, ReceivedFits DEF Fetching
  <2>5. Becomes(c, n)
    BY <1>3 DEF n
  <2> QED
    BY <1>2, <2>1, <2>4, <2>5, OnlyCallerMoves
<1>4. call.waiting \in BOOLEAN /\ call.got \in Payload /\ call.deadline \in Nat
  BY <1>1 DEF Call
<1>5. CASE JobCreated(c)
  <2> DEFINE deadline == Least(clock + MaxWait, MaxClock)
  <2>1. deadline \in Nat
    BY <1>1, SourceAssumption DEF Least
  <2>2. Becomes(c, [call EXCEPT !.sent = TRUE, !.tries = 0, !.phase = "poll",
                                !.deadline = deadline, !.waiting = call.waiting,
                                !.got = call.got])
    BY <1>1, <1>5 DEF JobCreated, Becomes, Call
  <2> HIDE DEF deadline
  <2> QED
    BY <1>3, <1>4, <2>1, <2>2 DEF Fetching
<1>6. CASE JobPending(c)
  <2>1. CASE clock >= call.deadline
    <3> DEFINE n == Failed([calls[c] EXCEPT !.sent = call.sent], "source")
    <3>1. call.sent \in BOOLEAN
      BY <1>1 DEF Call
    <3>2. n \in Call /\ CallFits(n)
      BY <1>1, <3>1, RequestFails
    <3>3. [calls[c] EXCEPT !.sent = call.sent] = calls[c]
      BY <1>1 DEF Call
    <3>4. Becomes(c, n)
      BY <1>6, <2>1, <3>3 DEF JobPending
    <3> QED
      BY <1>2, <3>2, <3>4, OnlyCallerMoves
  <2>2. CASE ~(clock >= call.deadline)
    <3>1. Becomes(c, [call EXCEPT !.sent = call.sent, !.tries = 0, !.phase = call.phase,
                                  !.deadline = call.deadline, !.waiting = TRUE,
                                  !.got = call.got])
      BY <1>1, <1>6, <2>2 DEF JobPending, Becomes, Call
    <3>2. call.phase \in Fetching \ {"send"}
      BY <1>6 DEF JobPending, InRequest, Fetching
    <3> QED
      BY <1>3, <1>4, <3>1, <3>2
  <2> QED
    BY <2>1, <2>2
<1>7. CASE JobEnded(c)
  <2>1. PICK phase \in {"download", "store"} :
           Becomes(c, [calls[c] EXCEPT !.tries = 0, !.phase = phase])
    BY <1>7 DEF JobEnded
  <2>2. Becomes(c, [call EXCEPT !.sent = call.sent, !.tries = 0, !.phase = phase,
                                !.deadline = call.deadline, !.waiting = call.waiting,
                                !.got = call.got])
    BY <1>1, <2>1 DEF Becomes, Call
  <2>3. phase \in Fetching \ {"send"}
    BY DEF Fetching
  <2> QED
    BY <1>3, <1>4, <2>2, <2>3
<1>8. CASE Downloaded(c)
  <2>1. PICK payload \in {Whole("job"), Nothing} :
           Becomes(c, [calls[c] EXCEPT !.tries = 0, !.got = payload, !.phase = "store"])
    BY <1>8 DEF Downloaded
  <2>2. Becomes(c, [call EXCEPT !.sent = call.sent, !.tries = 0, !.phase = "store",
                                !.deadline = call.deadline, !.waiting = call.waiting,
                                !.got = payload])
    BY <1>1, <2>1 DEF Becomes, Call
  <2>3. payload \in Payload
    BY <1>1, WholeIsPayload DEF Kinds, Nothing, Payload
  <2> QED
    BY <1>3, <1>4, <2>2, <2>3 DEF Fetching
<1> QED
  BY <1>5, <1>6, <1>7, <1>8

LEMMA StoreStepFits == ASSUME SInv, NEW c \in Callers, Store(c) PROVE SInv'
<1> DEFINE call == calls[c]  k == KindOf(call)  r == Fetched(call.got)
<1>1. /\ call \in Call /\ CallFits(call) /\ call.phase = "store" /\ config \in Config
      /\ k \in Kinds /\ entries \in [Kinds -> Entry] /\ clock \in Nat
      /\ call.got \in Payload
  BY KindFacts DEF SInv, TypeOK, Store, CallFits, Call
<1>2. /\ Queried(k) /\ ~(call.warm /\ ~call.refresh) /\ (k # "job" => call.got = Whole(k))
      /\ k = "loss" /\ Uncovered => call.gap
  BY <1>1 DEF CallFits, Fetching
<1>3. r \in Result /\ ~r.stale /\ r.status = "fetched" /\ r.payload = call.got
  BY <1>1 DEF Fetched, Result
<1> HIDE DEF r
<1>4. ResultFits(call, k, r)
  BY <1>1, <1>2, <1>3 DEF ResultFits, Good, Queried
<1>5. CallFits(Advanced(call, r))
  BY <1>1, <1>3, <1>4, AdvancedFits
<1>6. Advanced(call, r) \in Call
  BY <1>5 DEF CallFits
<1>7. Expiry \in Nat /\ (config.ttl = 0 => Expiry = 0)
  BY <1>1 DEF Expiry, Config
<1>8. /\ Put(call.got) \in Entry /\ Put(call.got).held
      /\ Put(call.got).payload = call.got /\ Put(call.got).until = Expiry
  BY <1>1, <1>7 DEF Put, Entry
<1>9. /\ entries' \in [Kinds -> Entry]
      /\ entries' = [entries EXCEPT ![k] = Put(call.got)]
  BY <1>1, <1>8 DEF Store
<1>10. \A j \in Kinds : config.ttl = 0 /\ entries[j].held => entries'[j].held
  BY <1>1, <1>8, <1>9
<1>11. UNCHANGED <<config, clock, fixtures, restarts>> /\ Becomes(c, Advanced(call, r))
  BY DEF Store, r
<1>12. StoreFits'
  BY <1>1, <1>2, <1>7, <1>8, <1>9, <1>11, SameSettings DEF SInv, StoreFits
<1> HIDE DEF call, k
<1> QED
  BY <1>5, <1>6, <1>9, <1>10, <1>11, <1>12, CallerMoves DEF SInv, TypeOK

LEMMA StoreFailsFits == ASSUME SInv, NEW c \in Callers, StoreFails(c) PROVE SInv'
<1>1. /\ calls[c] \in Call /\ CallFits(calls[c]) /\ calls[c].phase = "store"
      /\ config.faulty /\ config \in Config
  BY DEF SInv, TypeOK, StoreFails
<1>2. CallFits(Failed(calls[c], "cache"))
  BY <1>1, FailedFits
<1>3. Failed(calls[c], "cache") \in Call
  BY <1>2 DEF CallFits
<1> QED
  BY <1>2, <1>3, OnlyCallerMoves DEF StoreFails

LEMMA CancelledFits == ASSUME SInv, NEW c \in Callers, Cancelled(c) PROVE SInv'
<1>1. calls[c] \in Call /\ CallFits(calls[c]) /\ config \in Config
  BY DEF SInv, TypeOK
<1>2. CallFits(Raised(calls[c]))
  BY <1>1, RaisedFits
<1>3. Raised(calls[c]) \in Call
  BY <1>2 DEF CallFits
<1> QED
  BY <1>2, <1>3, OnlyCallerMoves DEF Cancelled

-----------------------------------------------------------------------------
(* The other steps.                                                        *)

(* The callers stay where they are, and the cache forgets nothing that     *)
(* never expires.                                                          *)
LEMMA CallersStay ==
    ASSUME SInv, UNCHANGED <<config, calls, restarts>>,
           clock' \in Nat, entries' \in [Kinds -> Entry], fixtures' \in [Kinds -> Fixture],
           StoreFits',
           \A k \in Kinds : config.ttl = 0 /\ entries[k].held => entries'[k].held
    PROVE  SInv'
<1>1. calls \in [Callers -> Call]
  BY DEF SInv, TypeOK
<1>2. \A c \in Callers : CallFits(calls[c])'
  BY <1>1, SameCalls DEF SInv
<1> QED
  BY <1>2 DEF SInv, TypeOK

LEMMA TickFits == SInv /\ Tick => SInv'
<1> SUFFICES ASSUME SInv, Tick PROVE SInv'
  OBVIOUS
<1>1. /\ clock' \in Nat /\ entries \in [Kinds -> Entry] /\ fixtures \in [Kinds -> Fixture]
      /\ StoreFits /\ UNCHANGED <<config, entries, fixtures, calls, restarts>>
  BY DEF SInv, TypeOK, Tick
<1>2. StoreFits'
  BY <1>1, SameSettings DEF StoreFits
<1> QED
  BY <1>1, <1>2, CallersStay

LEMMA ExportFits == SInv /\ Export => SInv'
<1> SUFFICES ASSUME SInv, Export PROVE SInv'
  OBVIOUS
<1>1. /\ entries \in [Kinds -> Entry] /\ fixtures \in [Kinds -> Fixture] /\ clock \in Nat
      /\ StoreFits /\ UNCHANGED <<config, clock, calls, restarts>>
  BY DEF SInv, TypeOK, Export
<1>2. NoEntry \in Entry /\ ~NoEntry.held /\ NoEntry.until = 0
  BY DEF NoEntry, Entry, Nothing, Payload
<1>3. \A k \in Kinds : entries'[k] = IF Live(k) THEN entries[k] ELSE NoEntry
  BY DEF Export
<1>4. \A k \in Kinds : fixtures'[k] =
         IF Live(k) THEN [held |-> TRUE, payload |-> entries[k].payload] ELSE fixtures[k]
  BY DEF Export
<1>5. \A k \in Kinds : [held |-> TRUE, payload |-> entries[k].payload] \in Fixture
  BY <1>1 DEF Entry, Fixture
<1>6. entries' \in [Kinds -> Entry]
  BY <1>1, <1>2 DEF Export
<1>7. fixtures' \in [Kinds -> Fixture]
  BY <1>1, <1>5 DEF Export
<1>8. StoreFits'
  <2>1. \A j \in Kinds : entries'[j].held /\ j # "job" => entries'[j].payload = Whole(j)'
    BY <1>1, <1>2, <1>3, SameSettings DEF StoreFits
  <2>2. \A j \in Kinds : fixtures'[j].held /\ j # "job" => fixtures'[j].payload = Whole(j)'
    <3> SUFFICES ASSUME NEW j \in Kinds, fixtures'[j].held, j # "job"
                 PROVE  fixtures'[j].payload = Whole(j)
      BY <1>1, SameSettings
    <3>1. CASE Live(j)
      <4> DEFINE f == [held |-> TRUE, payload |-> entries[j].payload]
      <4>1. f.payload = entries[j].payload /\ fixtures'[j] = IF Live(j) THEN f ELSE fixtures[j]
        BY <1>4
      <4> HIDE DEF f
      <4>2. fixtures'[j].payload = entries[j].payload
        BY <3>1, <4>1
      <4> QED
        BY <1>1, <3>1, <4>2 DEF StoreFits, Live
    <3>2. CASE ~Live(j)
      BY <1>1, <1>4, <3>2 DEF StoreFits
    <3> QED
      BY <3>1, <3>2
  <2>3. \A j \in Kinds : config'.ttl = 0 => entries'[j].until = 0
    BY <1>1, <1>2, <1>3 DEF StoreFits
  <2> QED
    BY <2>1, <2>2, <2>3 DEF StoreFits
<1>9. \A k \in Kinds : config.ttl = 0 /\ entries[k].held => entries'[k].held
  BY <1>1, <1>3 DEF StoreFits, Live
<1> QED
  BY <1>1, <1>6, <1>7, <1>8, <1>9, CallersStay

LEMMA PrimeFits == ASSUME SInv, NEW k \in Kinds, Prime(k) PROVE SInv'
<1>1. /\ entries \in [Kinds -> Entry] /\ fixtures \in [Kinds -> Fixture] /\ clock \in Nat
      /\ StoreFits /\ UNCHANGED <<config, clock, fixtures, calls, restarts>>
      /\ config \in Config
  BY DEF SInv, TypeOK, Prime
<1> DEFINE e == Put(fixtures[k].payload)
<1>2. Expiry \in Nat /\ (config.ttl = 0 => Expiry = 0)
  BY <1>1 DEF Expiry, Config
<1>3. e \in Entry /\ e.held /\ e.payload = fixtures[k].payload /\ e.until = Expiry
  BY <1>1, <1>2 DEF Put, Entry, Fixture
<1>4. entries' = [entries EXCEPT ![k] = e] /\ fixtures[k].held
  BY DEF Prime
<1> HIDE DEF e
<1>5. entries' \in [Kinds -> Entry]
  BY <1>1, <1>3, <1>4
<1>6. StoreFits'
  <2>1. \A j \in Kinds : entries'[j] = IF j = k THEN e ELSE entries[j]
    BY <1>1, <1>4
  <2>2. e.held /\ (k # "job" => e.payload = Whole(k)) /\ (config.ttl = 0 => e.until = 0)
    BY <1>1, <1>2, <1>3, <1>4 DEF StoreFits
  <2>3. \A j \in Kinds : entries'[j].held /\ j # "job" => entries'[j].payload = Whole(j)'
    BY <1>1, <2>1, <2>2, SameSettings DEF StoreFits
  <2>4. \A j \in Kinds : fixtures'[j].held /\ j # "job" => fixtures'[j].payload = Whole(j)'
    BY <1>1, SameSettings DEF StoreFits
  <2>5. \A j \in Kinds : config'.ttl = 0 => entries'[j].until = 0
    BY <1>1, <2>1, <2>2 DEF StoreFits
  <2> QED
    BY <2>3, <2>4, <2>5 DEF StoreFits
<1>7. \A j \in Kinds : config.ttl = 0 /\ entries[j].held => entries'[j].held
  BY <1>1, <1>3, <1>4
<1> QED
  BY <1>1, <1>5, <1>6, <1>7, CallersStay

LEMMA RestartFits == SInv /\ Restart => SInv'
<1> SUFFICES ASSUME SInv, Restart PROVE SInv'
  OBVIOUS
<1>1. /\ entries \in [Kinds -> Entry] /\ fixtures \in [Kinds -> Fixture] /\ clock \in Nat
      /\ StoreFits /\ UNCHANGED <<clock, fixtures>> /\ config \in Config /\ restarts \in Nat
  BY DEF SInv, TypeOK, Restart
<1>2. /\ config' \in Config
      /\ config'.ttl = config.ttl /\ config'.rows = config.rows
      /\ config'.asOf = config.asOf /\ config'.truth = config.truth
  BY <1>1 DEF Restart, Config
<1>3. \A k \in Kinds : Whole(k)' = Whole(k)
  <2>1. LossRows' = LossRows
    BY <1>2 DEF LossRows, CoveredEnd, RequiredEnd
  <2> QED
    BY <1>2, <2>1 DEF Whole
<1>4. Expiry \in Nat /\ (config.ttl = 0 => Expiry = 0)
  BY <1>1 DEF Expiry, Config
<1>5. NoEntry \in Entry /\ ~NoEntry.held /\ NoEntry.until = 0
  BY DEF NoEntry, Entry, Nothing, Payload
<1> DEFINE kept == IF config.backend = "sqlite" THEN entries ELSE [k \in Kinds |-> NoEntry]
<1>6. kept \in [Kinds -> Entry]
      /\ \A k \in Kinds : kept[k] = entries[k] \/ kept[k] = NoEntry
  BY <1>1, <1>5
<1> HIDE DEF kept
<1>7. \A k \in Kinds : /\ Put(fixtures[k].payload) \in Entry
                       /\ Put(fixtures[k].payload).payload = fixtures[k].payload
                       /\ Put(fixtures[k].payload).until = Expiry
  BY <1>1, <1>4 DEF Put, Entry, Fixture
<1>8. entries' = Primed(kept) \/ entries' = kept
  BY DEF Restart, kept
<1>9. \A k \in Kinds : \/ entries'[k] = kept[k]
                       \/ fixtures[k].held /\ entries'[k] = Put(fixtures[k].payload)
  BY <1>8 DEF Primed
<1>10. entries' \in [Kinds -> Entry]
  BY <1>6, <1>7, <1>8 DEF Primed
<1>11. StoreFits'
  BY <1>1, <1>2, <1>3, <1>4, <1>5, <1>6, <1>7, <1>9 DEF StoreFits
<1>12. calls' = [c \in Callers |-> Idle] /\ restarts' \in Nat
  BY <1>1 DEF Restart
<1>13. Idle \in Call /\ CallFits(Idle)'
  BY IdleFits, IdleFitsNext
<1>14. 1 \in 1..Len(Plan("plot")) /\ Idle.stage = 1 /\ Idle.plan = "plot"
  BY PlanFacts DEF Plans, Idle
<1> QED
  BY <1>1, <1>2, <1>10, <1>11, <1>12, <1>13, <1>14 DEF SInv, TypeOK

-----------------------------------------------------------------------------
(* The theorems.                                                           *)

LEMMA NextSInv == SInv /\ [Next]_vars => SInv'
<1> SUFFICES ASSUME SInv, [Next]_vars PROVE SInv'
  OBVIOUS
<1>1. CASE UNCHANGED vars
  <2>1. StoreFits'
    BY <1>1, SameSettings DEF SInv, StoreFits, vars
  <2> QED
    BY <1>1, <2>1, CallersStay DEF SInv, TypeOK, vars
<1>2. CASE Next
  <2>1. ASSUME NEW c \in Callers, Step(c) PROVE SInv'
    BY <2>1, SkipLossFits, SkipLayerFits, HitFits, MissFits, LookupFailsFits,
       NotAnsweredFits, RefusedFits, WaitedFits, AnsweredFits, JobFits, StoreStepFits,
       StoreFailsFits DEF Step, Lookup
  <2> QED
    BY <1>2, <2>1, StartFits, CancelledFits, TickFits, ExportFits, PrimeFits, RestartFits
       DEF Next
<1> QED
  BY <1>1, <1>2

LEMMA SpecSInv == Spec => []SInv
  BY InitSInv, NextSInv, PTL DEF Spec

(* The state stays in its types, every caller at a step of its plan.       *)
THEOREM SourceTypes == Spec => []TypeOK
<1>1. SInv => TypeOK
  BY DEF SInv
<1> QED
  BY <1>1, SpecSInv, PTL

(* Whatever is retried, paged, cut short, cancelled, exported, primed or   *)
(* restarted: what the cache, the fixtures and the callers hold is whole.  *)
THEOREM StoredIsWhole == Spec => []WholeOrNothing
<1>1. SInv => WholeOrNothing
  BY DEF SInv, StoreFits, CallFits, ResultFits, WholeOrNothing
<1> QED
  BY <1>1, SpecSInv, PTL

(* A year that a loss result is silent about is a year without loss.       *)
THEOREM SilentYearsHaveNoLoss == Spec => []NoFalseZero
<1>1. SInv => NoFalseZero
  <2> SUFFICES ASSUME SInv, NEW c \in Callers, Good(calls[c].results["loss"]),
                      NEW y \in FirstYear..CoveredEnd,
                      y \notin calls[c].results["loss"].payload.items
               PROVE  y \notin config.truth
    BY DEF NoFalseZero
  <2>1. calls[c].results["loss"].payload = Whole("loss")
    BY DEF SInv, CallFits, ResultFits, Kinds
  <2>2. Whole("loss").items = LossRows
    BY SourceAssumption DEF Whole
  <2>3. y <= CoverageEnd
    BY SourceAssumption DEF SInv, TypeOK, Config, CoveredEnd, RequiredEnd, Least
  <2> QED
    BY <2>1, <2>2, <2>3 DEF LossRows
<1> QED
  BY <1>1, SpecSInv, PTL

(* A complete set of sources covers every year, day and layer it should.   *)
THEOREM CompleteIsCovered == Spec => []CompleteMeansCovered
<1>1. SInv => CompleteMeansCovered
  <2> SUFFICES ASSUME SInv, NEW c \in Callers, Complete(calls[c])
               PROVE  /\ FirstYear <= RequiredEnd /\ RequiredEnd <= CoverageEnd
                      /\ config.verified
                      /\ \A k \in Needed("plot") :
                            \/ Good(calls[c].results[k])
                            \/ k \in IndonesiaOnly /\ config.country = "other"
    BY DEF CompleteMeansCovered
  <2>1. /\ \A k \in Kinds : ResultFits(calls[c], k, calls[c].results[k])
        /\ calls[c].results \in [Kinds -> Result] /\ ~calls[c].gap /\ config \in Config
        /\ \A k \in Needed("plot") : calls[c].results[k].status \notin {"none", "error"}
    BY DEF SInv, TypeOK, CallFits, Call, Complete
  <2>2. Needed("plot") \subseteq Kinds /\ "loss" \in Needed("plot") /\ "loss" \notin IndonesiaOnly
    BY PlanFacts, SourceAssumption DEF Plans
  <2>3. \A k \in Needed("plot") : \/ Good(calls[c].results[k])
                                 \/ NotForPlot(k)
    BY <2>1, <2>2 DEF ResultFits, Good, Result
  <2>4. Good(calls[c].results["loss"])
    BY <2>2, <2>3 DEF NotForPlot
  <2>5. ~NoLossQuery /\ ~Uncovered
    BY <2>1, <2>2, <2>4 DEF ResultFits
  <2>6. FirstYear <= RequiredEnd /\ RequiredEnd <= CoverageEnd /\ config.verified
    BY <2>1, <2>5, SourceAssumption DEF NoLossQuery, Uncovered, RequiredEnd, Config
  <2> QED
    BY <2>3, <2>6 DEF NotForPlot
<1> QED
  BY <1>1, SpecSInv, PTL

(* No service is asked without credentials, nor offline without a refresh. *)
THEOREM NobodyAsksOutOfTurn == Spec => []SilentUnlessAsked
<1>1. SInv => SilentUnlessAsked
  BY DEF SInv, CallFits, Permitted, SilentUnlessAsked
<1> QED
  BY <1>1, SpecSInv, PTL

(* No lookup answers with an entry past its time to live.                  *)
THEOREM NothingStaleIsServed == Spec => []ServedWithinTtl
<1>1. SInv => ServedWithinTtl
  BY DEF SInv, CallFits, ResultFits, ServedWithinTtl
<1> QED
  BY <1>1, SpecSInv, PTL

(* A warm cache without expiry answers a rerun by itself.                  *)
THEOREM WarmRerunsAskNothing == Spec => []WarmRerunIsSilent
<1>1. SInv => WarmRerunIsSilent
  BY DEF SInv, CallFits, ResultFits, WarmRerunIsSilent
<1> QED
  BY <1>1, SpecSInv, PTL
=============================================================================
