-------------------------- MODULE RunStream_proofs --------------------------
(* What a client of the live stream is shown, for any number of clients,   *)
(* steps, connections, cancels, faults and restarts: the inductive         *)
(* invariant of RunStream and its safety properties.                       *)
EXTENDS RunStream, SequenceTheorems, TLAPS

(* An event after which a client may stop.                                 *)
Final(e) == e.kind = "done" \/ (e.kind = "state" /\ e.state \in Terminal)

(* s is the state st of the row, or the held state that a decision ended.  *)
Told(s, st) == s = st \/ (s = "awaiting_review" /\ st = "complete")

(* What a queue may hold when n steps are committed and the state is st.   *)
Sound(q, n, st) ==
    \A i \in DOMAIN q :
        /\ q[i].kind = "step" => q[i].step \in 1..n
        /\ Final(q[i]) => st \in Terminal

(* The steps in q are a+1..b, in that order.                               *)
Holds(q, a, b) ==
    /\ \A i \in DOMAIN q : q[i].kind = "step" => q[i].step \in (a + 1)..b
    /\ \A n \in (a + 1)..b : \E i \in DOMAIN q : q[i].kind = "step" /\ q[i].step = n
    /\ \A i, j \in DOMAIN q :
          i < j /\ q[i].kind = "step" /\ q[j].kind = "step" => q[i].step < q[j].step

(* Nothing that is due comes after a final event, which tells the truth.   *)
Ordered(q, b, due, st) ==
    \A i \in DOMAIN q : Final(q[i]) =>
        /\ Told(q[i].state, st) /\ due <= b
        /\ \A j \in DOMAIN q : i < j /\ q[j].kind = "step" => q[j].step > due

Feed(q, a, b, due, st) == Holds(q, a, b) /\ Ordered(q, b, due, st)

----------------------------------------------------------------------------
(* Sequences of events: heads, tails and concatenations.                   *)

LEMMA ConcatSound ==
    ASSUME NEW p \in Seq(Events), NEW q \in Seq(Events), NEW n \in Nat, NEW st,
           Sound(p, n, st), Sound(q, n, st)
    PROVE  p \o q \in Seq(Events) /\ Sound(p \o q, n, st)
<1>1. /\ p \o q \in Seq(Events) /\ Len(p \o q) = Len(p) + Len(q)
      /\ Len(p) \in Nat /\ Len(q) \in Nat
      /\ DOMAIN p = 1..Len(p) /\ DOMAIN q = 1..Len(q) /\ DOMAIN (p \o q) = 1..Len(p \o q)
  BY ConcatProperties, LenProperties
<1>2. ASSUME NEW i \in DOMAIN (p \o q)
      PROVE  \/ i \in DOMAIN p /\ (p \o q)[i] = p[i]
             \/ i - Len(p) \in DOMAIN q /\ (p \o q)[i] = q[i - Len(p)]
  BY <1>1, ConcatProperties
<1>3. QED
  BY <1>1, <1>2 DEF Sound

LEMMA GrownSound ==
    ASSUME NEW q \in Seq(Events), NEW n \in Nat, NEW m \in Nat, n <= m, NEW st, NEW su,
           st \in Terminal => su \in Terminal, Sound(q, n, st)
    PROVE  Sound(q, m, su)
BY DEF Sound

LEMMA TailSound ==
    ASSUME NEW q \in Seq(Events), q # <<>>, NEW n \in Nat, NEW st, Sound(q, n, st)
    PROVE  /\ Tail(q) \in Seq(Events) /\ Sound(Tail(q), n, st)
           /\ Head(q) \in Events /\ Head(q) = q[1] /\ 1 \in DOMAIN q
<1>1. /\ Tail(q) \in Seq(Events) /\ Len(Tail(q)) = Len(q) - 1 /\ Head(q) \in Events
      /\ DOMAIN Tail(q) = 1..Len(Tail(q)) /\ DOMAIN q = 1..Len(q) /\ Len(q) \in Nat \ {0}
      /\ \A i \in 1..Len(Tail(q)) : Tail(q)[i] = q[i + 1]
  BY HeadTailProperties, LenProperties, EmptySeq
<1>2. Head(q) = q[1]
  OBVIOUS
<1>3. QED
  BY <1>1, <1>2 DEF Sound

(* One delivery after another.                                             *)
LEMMA ConcatFeed ==
    ASSUME NEW p \in Seq(Events), NEW q \in Seq(Events),
           NEW a \in Nat, NEW b \in Nat, NEW c \in Nat, a <= b, b <= c,
           NEW due \in Nat, NEW st, Feed(p, a, b, due, st), Feed(q, b, c, due, st)
    PROVE  Feed(p \o q, a, c, due, st)
<1> DEFINE r == p \o q
<1>1. /\ Len(p) \in Nat /\ Len(q) \in Nat
      /\ DOMAIN p = 1..Len(p) /\ DOMAIN q = 1..Len(q) /\ DOMAIN r = 1..(Len(p) + Len(q))
  BY ConcatProperties, LenProperties
<1>2. \A i \in DOMAIN p : i \in DOMAIN r /\ r[i] = p[i]
  BY <1>1, ConcatProperties
<1>3. \A i \in DOMAIN q : i + Len(p) \in DOMAIN r /\ r[i + Len(p)] = q[i]
  <2> SUFFICES ASSUME NEW i \in DOMAIN q
               PROVE  i + Len(p) \in DOMAIN r /\ r[i + Len(p)] = q[i]
    OBVIOUS
  <2>1. i + Len(p) \in 1..(Len(p) + Len(q)) /\ ~(i + Len(p) <= Len(p)) /\ (i + Len(p)) - Len(p) = i
    BY <1>1
  <2>2. QED
    BY <1>1, <2>1, ConcatProperties
<1>4. \A i \in DOMAIN r : \/ i \in DOMAIN p
                          \/ ~(i <= Len(p)) /\ i - Len(p) \in DOMAIN q /\ r[i] = q[i - Len(p)]
  BY <1>1, ConcatProperties
<1> HIDE DEF r
<1>5. Holds(r, a, c)
  <2>1. \A i \in DOMAIN r : r[i].kind = "step" => r[i].step \in (a + 1)..c
    BY <1>2, <1>4 DEF Feed, Holds
  <2>2. ASSUME NEW n \in (a + 1)..c
        PROVE  \E i \in DOMAIN r : r[i].kind = "step" /\ r[i].step = n
    <3>1. CASE n <= b
      BY <1>2, <3>1 DEF Feed, Holds
    <3>2. CASE n > b
      <4>1. n \in (b + 1)..c
        BY <3>2
      <4>2. PICK i \in DOMAIN q : q[i].kind = "step" /\ q[i].step = n
        BY <4>1 DEF Feed, Holds
      <4>3. QED
        BY <1>3, <4>2
    <3>3. QED
      BY <3>1, <3>2
  <2>3. ASSUME NEW i \in DOMAIN r, NEW j \in DOMAIN r, i < j,
               r[i].kind = "step", r[j].kind = "step"
        PROVE  r[i].step < r[j].step
    <3>1. CASE i \in DOMAIN p /\ j \in DOMAIN p
      BY <1>2, <2>3, <3>1 DEF Feed, Holds
    <3>2. CASE i \in DOMAIN p /\ j \notin DOMAIN p
      BY <1>2, <1>4, <2>3, <3>2 DEF Feed, Holds
    <3>3. CASE i \notin DOMAIN p
      <4>1. j \notin DOMAIN p
        BY <1>1, <2>3, <3>3
      <4>2. i - Len(p) < j - Len(p)
        BY <1>1, <2>3
      <4>3. QED
        BY <1>4, <2>3, <3>3, <4>1, <4>2 DEF Feed, Holds
    <3>4. QED
      BY <3>1, <3>2, <3>3
  <2>4. QED
    BY <2>1, <2>2, <2>3 DEF Holds
<1>6. Ordered(r, c, due, st)
  <2> SUFFICES ASSUME NEW i \in DOMAIN r, Final(r[i])
               PROVE  /\ Told(r[i].state, st) /\ due <= c
                      /\ \A j \in DOMAIN r : i < j /\ r[j].kind = "step" => r[j].step > due
    BY DEF Ordered
  <2>1. CASE i \in DOMAIN p
    <3>1. Told(r[i].state, st) /\ due <= b
      BY <1>2, <2>1 DEF Feed, Ordered
    <3>2. ASSUME NEW j \in DOMAIN r, i < j, r[j].kind = "step"
          PROVE  r[j].step > due
      <4>1. CASE j \in DOMAIN p
        BY <1>2, <2>1, <3>2, <4>1 DEF Feed, Ordered
      <4>2. CASE j \notin DOMAIN p
        <5>1. r[j].step \in (b + 1)..c
          BY <1>4, <3>2, <4>2 DEF Feed, Holds
        <5>2. QED
          BY <3>1, <5>1
      <4>3. QED
        BY <4>1, <4>2
    <3>3. QED
      BY <3>1, <3>2
  <2>2. CASE i \notin DOMAIN p
    <3>1. i - Len(p) \in DOMAIN q /\ r[i] = q[i - Len(p)] /\ ~(i <= Len(p))
      BY <1>4, <2>2
    <3>2. Told(r[i].state, st) /\ due <= c
      BY <3>1 DEF Feed, Ordered
    <3>3. ASSUME NEW j \in DOMAIN r, i < j, r[j].kind = "step"
          PROVE  r[j].step > due
      <4>1. j \notin DOMAIN p /\ i - Len(p) < j - Len(p)
        BY <1>1, <2>2, <3>3
      <4>2. j - Len(p) \in DOMAIN q /\ r[j] = q[j - Len(p)]
        BY <1>4, <4>1
      <4>3. QED
        BY <3>1, <3>3, <4>1, <4>2 DEF Feed, Ordered
    <3>4. QED
      BY <3>2, <3>3
  <2>3. QED
    BY <2>1, <2>2
<1>7. QED
  BY <1>5, <1>6 DEF Feed, r

(* The head of a delivery is the next step, or no step.                    *)
LEMMA TailFeed ==
    ASSUME NEW q \in Seq(Events), q # <<>>, NEW a \in Nat, NEW b \in Nat,
           NEW due \in Nat, NEW st, Feed(q, a, b, due, st)
    PROVE  /\ Head(q).kind = "step" =>
                 Head(q).step = a + 1 /\ a + 1 <= b /\ Feed(Tail(q), a + 1, b, due, st)
           /\ Head(q).kind # "step" => Feed(Tail(q), a, b, due, st)
           /\ Final(Head(q)) => (due <= a \/ b < a) /\ due <= b /\ Told(Head(q).state, st)
<1>1. /\ Len(q) \in Nat \ {0} /\ DOMAIN q = 1..Len(q) /\ DOMAIN Tail(q) = 1..(Len(q) - 1)
      /\ \A i \in DOMAIN Tail(q) : Tail(q)[i] = q[i + 1] /\ i + 1 \in DOMAIN q
      /\ Head(q) = q[1] /\ 1 \in DOMAIN q
  <2>1. Len(Tail(q)) = Len(q) - 1 /\ Tail(q) \in Seq(Events)
        /\ \A i \in 1..Len(Tail(q)) : Tail(q)[i] = q[i + 1]
    BY HeadTailProperties
  <2>2. Len(q) \in Nat \ {0} /\ DOMAIN q = 1..Len(q) /\ DOMAIN Tail(q) = 1..Len(Tail(q))
    BY <2>1, LenProperties, EmptySeq
  <2>3. Head(q) = q[1]
    OBVIOUS
  <2>4. QED
    BY <2>1, <2>2, <2>3
<1>2. \A i \in DOMAIN q : i # 1 => i - 1 \in DOMAIN Tail(q) /\ Tail(q)[i - 1] = q[i] /\ 1 < i
  <2> SUFFICES ASSUME NEW i \in DOMAIN q, i # 1
               PROVE  i - 1 \in DOMAIN Tail(q) /\ Tail(q)[i - 1] = q[i] /\ 1 < i
    OBVIOUS
  <2>1. i - 1 \in DOMAIN Tail(q) /\ (i - 1) + 1 = i /\ 1 < i
    BY <1>1
  <2>2. QED
    BY <1>1, <2>1
<1>3. Ordered(Tail(q), b, due, st)
  <2> SUFFICES ASSUME NEW i \in DOMAIN Tail(q), Final(Tail(q)[i])
               PROVE  /\ Told(Tail(q)[i].state, st) /\ due <= b
                      /\ \A j \in DOMAIN Tail(q) :
                            i < j /\ Tail(q)[j].kind = "step" => Tail(q)[j].step > due
    BY DEF Ordered
  <2>1. Tail(q)[i] = q[i + 1] /\ i + 1 \in DOMAIN q
    BY <1>1
  <2>2. ASSUME NEW j \in DOMAIN Tail(q), i < j
        PROVE  Tail(q)[j] = q[j + 1] /\ j + 1 \in DOMAIN q /\ i + 1 < j + 1
    BY <1>1, <2>2
  <2>3. QED
    BY <2>1, <2>2 DEF Feed, Ordered
<1>4. \A i, j \in DOMAIN Tail(q) :
        i < j /\ Tail(q)[i].kind = "step" /\ Tail(q)[j].kind = "step" =>
            Tail(q)[i].step < Tail(q)[j].step
  <2> SUFFICES ASSUME NEW i \in DOMAIN Tail(q), NEW j \in DOMAIN Tail(q), i < j,
                      Tail(q)[i].kind = "step", Tail(q)[j].kind = "step"
               PROVE  Tail(q)[i].step < Tail(q)[j].step
    OBVIOUS
  <2>1. /\ Tail(q)[i] = q[i + 1] /\ i + 1 \in DOMAIN q
        /\ Tail(q)[j] = q[j + 1] /\ j + 1 \in DOMAIN q /\ i + 1 < j + 1
    BY <1>1
  <2>2. QED
    BY <2>1 DEF Feed, Holds
<1>5. CASE Head(q).kind = "step"
  <2>1. Head(q).step \in (a + 1)..b
    BY <1>1, <1>5 DEF Feed, Holds
  <2>2. Head(q).step = a + 1
    <3> SUFFICES ASSUME Head(q).step # a + 1 PROVE FALSE
      OBVIOUS
    <3>1. a + 1 \in (a + 1)..b
      BY <2>1
    <3>2. PICK i \in DOMAIN q : q[i].kind = "step" /\ q[i].step = a + 1
      BY <3>1 DEF Feed, Holds
    <3>3. 1 < i
      BY <1>1, <1>2, <3>2
    <3>4. Head(q).step < a + 1
      BY <1>1, <1>5, <3>2, <3>3 DEF Feed, Holds
    <3>5. QED
      BY <2>1, <3>4
  <2>3. Holds(Tail(q), a + 1, b)
    <3>1. ASSUME NEW i \in DOMAIN Tail(q), Tail(q)[i].kind = "step"
          PROVE  Tail(q)[i].step \in (a + 1 + 1)..b
      <4>1. Tail(q)[i] = q[i + 1] /\ i + 1 \in DOMAIN q /\ 1 < i + 1
        BY <1>1
      <4>2. q[i + 1].step \in (a + 1)..b /\ q[1].step < q[i + 1].step
        BY <1>1, <1>5, <3>1, <4>1 DEF Feed, Holds
      <4>3. QED
        BY <1>1, <2>2, <4>1, <4>2
    <3>2. ASSUME NEW n \in (a + 1 + 1)..b
          PROVE  \E i \in DOMAIN Tail(q) : Tail(q)[i].kind = "step" /\ Tail(q)[i].step = n
      <4>1. n \in (a + 1)..b /\ n # a + 1
        OBVIOUS
      <4>2. PICK i \in DOMAIN q : q[i].kind = "step" /\ q[i].step = n
        BY <4>1 DEF Feed, Holds
      <4>3. i # 1
        BY <1>1, <2>2, <4>1, <4>2
      <4>4. QED
        BY <1>2, <4>2, <4>3
    <3>3. QED
      BY <1>4, <3>1, <3>2 DEF Holds
  <2>4. ~Final(Head(q))
    BY <1>5 DEF Final
  <2>5. QED
    BY <1>3, <1>5, <2>1, <2>2, <2>3, <2>4 DEF Feed
<1>6. CASE Head(q).kind # "step"
  <2>1. Holds(Tail(q), a, b)
    <3>1. \A i \in DOMAIN Tail(q) : Tail(q)[i].kind = "step" => Tail(q)[i].step \in (a + 1)..b
      BY <1>1 DEF Feed, Holds
    <3>2. \A n \in (a + 1)..b :
            \E i \in DOMAIN Tail(q) : Tail(q)[i].kind = "step" /\ Tail(q)[i].step = n
      <4> SUFFICES ASSUME NEW n \in (a + 1)..b
                   PROVE  \E i \in DOMAIN Tail(q) :
                             Tail(q)[i].kind = "step" /\ Tail(q)[i].step = n
        OBVIOUS
      <4>1. PICK i \in DOMAIN q : q[i].kind = "step" /\ q[i].step = n
        BY DEF Feed, Holds
      <4>2. i # 1
        BY <1>1, <1>6, <4>1
      <4>3. QED
        BY <1>2, <4>1, <4>2
    <3>3. QED
      BY <1>4, <3>1, <3>2 DEF Holds
  <2>2. ASSUME Final(Head(q))
        PROVE  (due <= a \/ b < a) /\ due <= b /\ Told(Head(q).state, st)
    <3>1. /\ due <= b /\ Told(Head(q).state, st)
          /\ \A j \in DOMAIN q : 1 < j /\ q[j].kind = "step" => q[j].step > due
      BY <1>1, <2>2 DEF Feed, Ordered
    <3>2. ASSUME ~(due <= a), ~(b < a) PROVE FALSE
      <4>1. due \in (a + 1)..b
        BY <3>1, <3>2
      <4>2. PICK i \in DOMAIN q : q[i].kind = "step" /\ q[i].step = due
        BY <4>1 DEF Feed, Holds
      <4>3. 1 < i
        BY <1>1, <1>2, <1>6, <4>2
      <4>4. QED
        BY <3>1, <4>2, <4>3
    <3>3. QED
      BY <3>1, <3>2
  <2>3. QED
    BY <1>3, <1>6, <2>1, <2>2 DEF Feed
<1>7. QED
  BY <1>5, <1>6

(* A delivery that is over has reached its end.                            *)
LEMMA EmptyFeed ==
    \A st : \A a, b, due \in Nat : Feed(<<>>, a, b, due, st) <=> b <= a
BY DEF Feed, Holds, Ordered, Final

----------------------------------------------------------------------------
(* The inductive invariant.                                                *)

(* The steps that live subscribers have been sent, or never will be.       *)
Front ==
    IF rvw.phase = "stored" THEN rvw.from
    ELSE IF task.phase \in {"graph", "drain"} \/ (task.phase = "stored" /\ posted < emitted)
    THEN posted
    ELSE stored

(* The steps that the task itself has persisted.                           *)
Due == IF emitted <= stored THEN emitted ELSE stored

Working == {"created", "started", "graph", "drain", "stop", "store", "fail"}

RowTypes ==
    /\ state \in RunState
    /\ stored \in Nat /\ emitted \in Nat /\ posted \in Nat
    /\ acted \in Action
    /\ task \in [phase : TaskPhase, res : Result \cup {"none"}, act : Action]
    /\ rvw \in [phase : {"idle", "loaded", "stored", "release"}, op : {"decide", "confirm"},
                from : Nat, to : Nat, act : Action]
    /\ done \in [cancels : Nat, restarts : Nat, confirms : Nat, faults : Nat]

(* Where the task and the request stand, whatever was disturbed.           *)
RowFits ==
    /\ task.phase \in Working => state \in Open /\ rvw.phase = "idle"
    /\ task.phase \in {"created", "started"} => posted = 0 /\ stored = 0 /\ emitted = 0
    /\ task.phase \in {"graph", "drain", "stop"} =>
          posted <= stored /\ stored <= emitted /\ stored <= posted + 1
    /\ task.phase = "store" => posted = stored /\ stored <= emitted
    /\ task.phase = "fail" => posted = stored /\ stored = emitted
    /\ task.phase = "stored" => posted <= emitted /\ emitted <= stored
    /\ task.phase \in {"store", "stored", "tail"} => task.res \in Result
    /\ task.phase \in {"stored", "tail", "failed", "guarded"} => state \in Terminal
    /\ rvw.phase # "idle" => state \in Terminal /\ emitted <= stored
    /\ rvw.phase = "loaded" => rvw.from = stored /\ stored <= rvw.to
    /\ rvw.phase = "stored" => rvw.from <= rvw.to /\ rvw.to = stored
    /\ state \in {"awaiting_review", "complete"} => emitted <= stored

(* The same while nothing was cancelled and nothing has failed.            *)
CleanFits ==
    /\ task.phase \notin {"stop", "guard", "guarded"}
    /\ task.phase = "store" => emitted = stored \/ (task.res = "complete" /\ task.act = "ok")
    /\ task.phase \in {"stored", "tail"} => Told(task.res, state)
    /\ task.phase = "stored" /\ posted < emitted =>
          rvw.phase = "idle" /\ acted = "ok" /\ state = "complete" /\ stored = emitted
    /\ task.phase = "failed" => state = "failed"
    /\ rvw.phase = "loaded" => state \in {"awaiting_review", "complete"}
    /\ rvw.phase \in {"stored", "release"} => state = "complete"
    /\ rvw.phase \in {"loaded", "stored"} => emitted <= rvw.from

(* What a client has and what is on its way, whatever was disturbed.       *)
SubSound(c) ==
    /\ Sound(sub[c].queue, stored, state) /\ Sound(sub[c].backlog, stored, state)
    /\ sub[c].read \in Terminal => state \in Terminal
    /\ sub[c].phase # "off" => view[c].status = "live"
    /\ sub[c].phase = "replay" => sub[c].backlog # <<>>
    /\ view[c].status = "closed" => state \in Terminal
    /\ \A i \in DOMAIN view[c].steps : view[c].steps[i] \in 1..stored

(* With m steps in hand, what the snapshot still gives and what is queued  *)
(* make up the rest of the trace.                                          *)
Resumes(s, m, reader) ==
    /\ s.phase = "replay" =>
          /\ \E f \in 0..Front : f <= s.seen /\ Feed(s.queue, f, Front, Due, state)
          /\ m <= s.seen
          /\ \E j \in 0..m : (reader => m = j) /\ Feed(s.backlog, j, s.seen, Due, state)
    /\ s.phase = "follow" =>
          \E f \in 0..Front :
              /\ Feed(s.queue, f, Front, Due, state)
              /\ m = IF f > s.seen THEN f ELSE s.seen

(* A client has a prefix of the trace, and its stream has the rest.        *)
ViewFits(c) ==
    LET m      == Len(view[c].steps)
        reader == view[c].kind = "reader"
    IN
    /\ \A i \in DOMAIN view[c].steps : view[c].steps[i] = i
    /\ view[c].status = "closed" => Due <= m /\ Told(view[c].state, state)
    /\ sub[c].phase = "joined" =>
          /\ sub[c].read \in Terminal => Told(sub[c].read, state)
          /\ reader => m = 0
          /\ \E f \in 0..Front : Feed(sub[c].queue, f, Front, Due, state)
    /\ Resumes(sub[c], m, reader)

StreamInv ==
    /\ TypeOK /\ RowFits
    /\ Undisturbed => CleanFits
    /\ \A c \in Clients : SubSound(c) /\ (Undisturbed => ViewFits(c))

----------------------------------------------------------------------------
(* Steps of the server: clients keep what they have, queues may grow.      *)

LEMMA FrontNat ==
    ASSUME RowTypes, RowFits
    PROVE  Front \in Nat /\ Front <= stored /\ Due \in Nat /\ Due <= stored /\ Due <= emitted
BY DEF RowTypes, RowFits, Front, Due

(* What was told before a final event is still true when the state moves.  *)
LEMMA MovedFeed ==
    ASSUME NEW q \in Seq(Events), NEW n, NEW a \in Nat, NEW b \in Nat,
           NEW due \in Nat, NEW dve \in Nat, NEW st, NEW su,
           Sound(q, n, st), Feed(q, a, b, due, st),
           st \in Terminal => dve = due /\ \A s : Told(s, st) => Told(s, su)
    PROVE  Feed(q, a, b, dve, su)
BY DEF Feed, Ordered, Sound

LEMMA Announces ==
    ASSUME StreamInv, NEW e \in Seq(Events), Publish(e), view' = view,
           RowTypes', RowFits', stored <= stored',
           state \in Terminal => state' \in Terminal,
           Sound(e, stored', state'),
           Undisturbed' =>
              /\ Undisturbed /\ CleanFits'
              /\ Front <= Front' /\ Feed(e, Front, Front', Due', state')
              /\ state \in Terminal =>
                    Due' = Due /\ \A s : Told(s, state) => Told(s, state')
    PROVE  StreamInv'
<1>1. /\ RowTypes /\ RowFits /\ sub \in [Clients -> SubRow] /\ view \in [Clients -> ViewRow]
      /\ stored \in Nat /\ stored' \in Nat
  BY DEF StreamInv, TypeOK, RowTypes
<1>2. /\ Front \in Nat /\ Due \in Nat /\ Front' \in Nat /\ Due' \in Nat
  <2>1. Front \in Nat /\ Due \in Nat
    BY <1>1, FrontNat
  <2>2. Front' \in Nat /\ Due' \in Nat
    BY DEF RowTypes, RowFits, Front, Due
  <2>3. QED
    BY <2>1, <2>2
<1>3. ASSUME NEW c \in Clients
      PROVE  /\ sub'[c] \in SubRow /\ SubSound(c)' /\ (Undisturbed' => ViewFits(c)')
  <2> DEFINE old == sub[c]
             new == sub'[c]
  <2>1. /\ old \in SubRow /\ view'[c] = view[c] /\ view[c] \in ViewRow
        /\ new = IF old.phase = "off" THEN old ELSE [old EXCEPT !.queue = @ \o e]
    BY <1>1 DEF Publish
  <2>2. /\ old.queue \in Seq(Events) /\ old.backlog \in Seq(Events)
        /\ SubSound(c) /\ (Undisturbed => ViewFits(c))
    BY <2>1 DEF SubRow, StreamInv
  <2>3. /\ Sound(old.queue, stored', state') /\ Sound(old.backlog, stored', state')
        /\ old.queue \o e \in Seq(Events) /\ Sound(old.queue \o e, stored', state')
    BY <1>1, <2>2, GrownSound, ConcatSound DEF SubSound
  <2>4. /\ new \in SubRow /\ new.phase = old.phase /\ new.backlog = old.backlog
        /\ new.read = old.read /\ new.seen = old.seen
        /\ new.queue = (IF old.phase = "off" THEN old.queue ELSE old.queue \o e)
    BY <2>1, <2>3 DEF SubRow
  <2>5. SubSound(c)'
    BY <1>1, <2>1, <2>2, <2>3, <2>4 DEF SubSound
  <2>6. ASSUME Undisturbed', NEW f \in 0..Front,
               Feed(old.queue, f, Front, Due, state), old.phase # "off"
        PROVE  f \in 0..Front' /\ Feed(new.queue, f, Front', Due', state')
    <3>1. Feed(old.queue, f, Front, Due', state')
      BY <1>2, <2>2, <2>6, MovedFeed DEF SubSound
    <3>2. QED
      BY <1>2, <2>2, <2>4, <2>6, <3>1, ConcatFeed
  <2>7. ASSUME Undisturbed', NEW j \in Nat, NEW n \in Nat, Feed(old.backlog, j, n, Due, state)
        PROVE  Feed(old.backlog, j, n, Due', state')
    BY <1>2, <2>2, <2>7, MovedFeed DEF SubSound
  <2>8. ASSUME Undisturbed'
        PROVE  ViewFits(c)'
    <3> DEFINE m == Len(view[c].steps)
               reader == view[c].kind = "reader"
    <3>1. ViewFits(c) /\ SubSound(c) /\ m \in Nat /\ old.seen \in Nat
      BY <2>1, <2>2, <2>8, LenProperties DEF SubRow, ViewRow
    <3>2. \A i \in DOMAIN view[c].steps : view[c].steps[i] = i
      BY <3>1 DEF ViewFits
    <3>3. view[c].status = "closed" => Due' <= m /\ Told(view[c].state, state')
      BY <2>8, <3>1 DEF ViewFits, SubSound
    <3>4. old.phase = "joined" =>
            /\ old.read \in Terminal => Told(old.read, state')
            /\ reader => m = 0
            /\ \E f \in 0..Front' : Feed(new.queue, f, Front', Due', state')
      BY <2>6, <2>8, <3>1 DEF ViewFits, SubSound
    <3>5. old.phase = "replay" =>
            /\ \E f \in 0..Front' : f <= old.seen /\ Feed(new.queue, f, Front', Due', state')
            /\ m <= old.seen
            /\ \E j \in 0..m : (reader => m = j) /\ Feed(old.backlog, j, old.seen, Due', state')
      <4> SUFFICES ASSUME old.phase = "replay"
                   PROVE  /\ \E f \in 0..Front' :
                                f <= old.seen /\ Feed(new.queue, f, Front', Due', state')
                          /\ m <= old.seen
                          /\ \E j \in 0..m :
                                (reader => m = j) /\ Feed(old.backlog, j, old.seen, Due', state')
        OBVIOUS
      <4>1. PICK f \in 0..Front : f <= old.seen /\ Feed(old.queue, f, Front, Due, state)
        BY <3>1 DEF ViewFits, Resumes
      <4>2. PICK j \in 0..m : (reader => m = j) /\ Feed(old.backlog, j, old.seen, Due, state)
        BY <3>1 DEF ViewFits, Resumes
      <4>3. m <= old.seen
        BY <3>1 DEF ViewFits, Resumes
      <4>4. QED
        BY <2>6, <2>7, <2>8, <3>1, <4>1, <4>2, <4>3
    <3>6. old.phase = "follow" =>
            \E f \in 0..Front' : /\ Feed(new.queue, f, Front', Due', state')
                                 /\ m = IF f > old.seen THEN f ELSE old.seen
      BY <2>6, <2>8, <3>1 DEF ViewFits, Resumes
    <3>7. QED
      BY <2>1, <2>4, <3>2, <3>3, <3>4, <3>5, <3>6 DEF ViewFits, Resumes
  <2>9. QED
    BY <2>4, <2>5, <2>8
<1>4. sub' \in [Clients -> SubRow]
  <2>1. sub' = [c \in Clients |-> sub'[c]]
    BY DEF Publish
  <2>2. QED
    BY <1>3, <2>1
<1>5. TypeOK'
  BY <1>1, <1>4 DEF TypeOK, RowTypes
<1>6. QED
  BY <1>3, <1>5 DEF StreamInv

(* Nothing is published.                                                   *)
LEMMA StepsQuietly ==
    ASSUME StreamInv, sub' = sub, view' = view,
           RowTypes', RowFits', stored <= stored',
           state \in Terminal => state' \in Terminal,
           Undisturbed' =>
              /\ Undisturbed /\ CleanFits' /\ Front' = Front
              /\ state \in Terminal =>
                    Due' = Due /\ \A s : Told(s, state) => Told(s, state')
    PROVE  StreamInv'
<1>1. <<>> \in Seq(Events) /\ Sound(<<>>, stored', state')
  BY DEF Sound
<1>2. Publish(<<>>)
  <2>1. sub \in [Clients -> SubRow]
    BY DEF StreamInv, TypeOK
  <2>2. ASSUME NEW c \in Clients
        PROVE  [sub[c] EXCEPT !.queue = @ \o <<>>] = sub[c]
    <3>1. sub[c] \in SubRow /\ sub[c].queue \o <<>> = sub[c].queue
      BY <2>1, ConcatEmptySeq DEF SubRow
    <3>2. QED
      BY <3>1 DEF SubRow
  <2>3. QED
    BY <2>1, <2>2 DEF Publish
<1>3. Front' \in Nat /\ Due' \in Nat /\ Front \in Nat
  <2>1. Front' \in Nat /\ Due' \in Nat
    BY DEF RowTypes, RowFits, Front, Due
  <2>2. RowTypes /\ RowFits
    BY DEF StreamInv, TypeOK, RowTypes
  <2>3. QED
    BY <2>1, <2>2, FrontNat
<1>4. Undisturbed' => Front <= Front' /\ Feed(<<>>, Front, Front', Due', state')
  BY <1>3, EmptyFeed
<1>5. QED
  BY <1>1, <1>2, <1>4, Announces

(* What is published: steps, and events that are not steps.                *)
LEMMA StepsFeed ==
    ASSUME NEW a \in Nat, NEW b \in Nat, a <= b, NEW n \in Nat, b <= n, NEW due \in Nat, NEW st
    PROVE  /\ StepEvents(a, b) \in Seq(Events) /\ Sound(StepEvents(a, b), n, st)
           /\ Feed(StepEvents(a, b), a, b, due, st)
<1> DEFINE q == StepEvents(a, b)
<1>1. \A i \in 1..(b - a) : StepEvent(a + i) \in Events
  BY DEF StepEvent, Event, Events
<1>2. q \in Seq(Events)
  BY <1>1, IsASeq DEF StepEvents
<1>3. /\ DOMAIN q = 1..(b - a)
      /\ \A i \in DOMAIN q : q[i].kind = "step" /\ q[i].step = a + i
  BY DEF StepEvents, StepEvent, Event
<1> HIDE DEF q
<1>4. \A i \in DOMAIN q : ~Final(q[i])
  BY <1>3 DEF Final
<1>5. \A m \in (a + 1)..b : m - a \in DOMAIN q /\ q[m - a].step = m
  BY <1>3
<1>6. QED
  BY <1>2, <1>3, <1>4, <1>5 DEF Sound, Feed, Holds, Ordered, q

LEMMA WordFeed ==
    ASSUME NEW e \in Events, e.kind # "step", NEW a \in Nat, NEW n \in Nat, NEW due \in Nat,
           NEW st, Final(e) => st \in Terminal /\ Told(e.state, st) /\ due <= a
    PROVE  <<e>> \in Seq(Events) /\ Sound(<<e>>, n, st) /\ Feed(<<e>>, a, a, due, st)
<1> DEFINE q == <<e>>
<1>1. q \in Seq(Events) /\ DOMAIN q = {1} /\ q[1] = e
  OBVIOUS
<1> HIDE DEF q
<1>2. QED
  BY <1>1 DEF Sound, Feed, Holds, Ordered, q

(* Steps, and the state that they lead to.                                 *)
LEMMA StepsAndState ==
    ASSUME NEW a \in Nat, NEW b \in Nat, a <= b, NEW n \in Nat, b <= n, NEW due \in Nat,
           NEW s \in RunState, NEW st \in Terminal
    PROVE  LET e == Append(StepEvents(a, b), StateEvent(s))
           IN  /\ e \in Seq(Events) /\ Sound(e, n, st)
               /\ Told(s, st) /\ due <= b => Feed(e, a, b, due, st)
<1> DEFINE p == StepEvents(a, b)
           x == StateEvent(s)
<1>1. x \in Events /\ x.kind = "state" /\ x.state = s
  BY DEF StateEvent, Event, Events
<1>2. p \in Seq(Events) /\ Sound(p, n, st) /\ Feed(p, a, b, due, st)
  BY StepsFeed
<1>3. Append(p, x) = p \o <<x>>
  BY <1>1, <1>2, AppendIsConcat
<1>4. <<x>> \in Seq(Events)
  BY <1>1
<1> HIDE DEF p, x
<1>5. Sound(<<x>>, n, st)
  BY <1>1 DEF Sound
<1>6. Append(p, x) \in Seq(Events) /\ Sound(Append(p, x), n, st)
  BY <1>2, <1>3, <1>4, <1>5, ConcatSound
<1>7. ASSUME Told(s, st), due <= b
      PROVE  Feed(Append(p, x), a, b, due, st)
  <2>1. Feed(<<x>>, b, b, due, st)
    BY <1>1, <1>7, WordFeed
  <2>2. Feed(p \o <<x>>, a, b, due, st)
    <3> DEFINE w == <<x>>
    <3>1. w \in Seq(Events) /\ Feed(w, b, b, due, st) /\ b <= b
      BY <1>4, <2>1
    <3> HIDE DEF w
    <3>2. Feed(p \o w, a, b, due, st)
      BY <1>2, <3>1, ConcatFeed
    <3>3. QED
      BY <3>2 DEF w
  <2>3. QED
    BY <1>3, <2>2
<1>8. QED
  BY <1>6, <1>7 DEF p, x

(* The state of a run that is over, and the end.                           *)
LEMMA StateAndEnd ==
    ASSUME NEW a \in Nat, NEW n \in Nat, NEW due \in Nat,
           NEW s \in RunState, NEW st \in Terminal
    PROVE  LET e == <<StateEvent(s), DoneEvent(s)>>
           IN  /\ e \in Seq(Events) /\ Sound(e, n, st)
               /\ Told(s, st) /\ due <= a => Feed(e, a, a, due, st)
<1> DEFINE x == StateEvent(s)
           y == DoneEvent(s)
<1>1. /\ x \in Events /\ x.kind = "state" /\ x.state = s
      /\ y \in Events /\ y.kind = "done" /\ y.state = s
  BY DEF StateEvent, DoneEvent, Event, Events
<1> HIDE DEF x, y
<1>2. /\ <<x>> \in Seq(Events) /\ <<y>> \in Seq(Events)
      /\ <<x, y>> = <<x>> \o <<y>> /\ <<x, y>> \in Seq(Events)
  <2>1. <<x>> \in Seq(Events) /\ <<y>> \in Seq(Events) /\ <<x, y>> \in Seq(Events)
    BY <1>1
  <2>2. <<x, y>> = Append(<<x>>, y)
    BY <1>1
  <2>3. QED
    BY <1>1, <2>1, <2>2, AppendIsConcat
<1>3. Sound(<<x>>, n, st) /\ Sound(<<y>>, n, st)
  BY <1>1 DEF Sound
<1>4. <<x, y>> \in Seq(Events) /\ Sound(<<x, y>>, n, st)
  <2>1. Sound(<<x>> \o <<y>>, n, st)
    BY <1>2, <1>3, ConcatSound
  <2>2. QED
    BY <1>2, <2>1
<1>5. ASSUME Told(s, st), due <= a
      PROVE  Feed(<<x, y>>, a, a, due, st)
  <2>1. Feed(<<x>>, a, a, due, st) /\ Feed(<<y>>, a, a, due, st)
    BY <1>1, <1>5, WordFeed
  <2>2. Feed(<<x>> \o <<y>>, a, a, due, st)
    <3> DEFINE v == <<x>>
               w == <<y>>
    <3>1. /\ v \in Seq(Events) /\ w \in Seq(Events) /\ a <= a
          /\ Feed(v, a, a, due, st) /\ Feed(w, a, a, due, st)
      BY <1>2, <2>1
    <3> HIDE DEF v, w
    <3>2. Feed(v \o w, a, a, due, st)
      BY <3>1, ConcatFeed
    <3>3. QED
      BY <3>2 DEF v, w
  <2>3. QED
    BY <1>2, <2>2
<1>6. QED
  BY <1>4, <1>5 DEF x, y

----------------------------------------------------------------------------
(* Each step of the task, the writer and the requests.                     *)

LEMMA RowFacts ==
    ASSUME StreamInv
    PROVE  /\ RowTypes /\ RowFits /\ (Undisturbed => CleanFits)
           /\ state \in RunState /\ stored \in Nat /\ emitted \in Nat /\ posted \in Nat
           /\ task \in [phase : TaskPhase, res : Result \cup {"none"}, act : Action]
           /\ Front \in Nat /\ Front <= stored
           /\ Due \in Nat /\ Due <= stored /\ Due <= emitted
<1>1. RowTypes /\ RowFits /\ (Undisturbed => CleanFits)
  BY DEF StreamInv, TypeOK, RowTypes
<1>2. QED
  BY <1>1, FrontNat DEF RowTypes

LEMMA MarkRunningKeeps ==
    ASSUME StreamInv, MarkRunning
    PROVE  StreamInv'
<1>1. RowTypes /\ RowFits /\ (Undisturbed => CleanFits)
  BY RowFacts
<1>2. RowTypes' /\ stored <= stored'
  BY <1>1 DEF RowTypes, MarkRunning, TaskGoes, RunState, Open, TaskPhase
<1>3. RowFits' /\ state \notin Terminal
  BY <1>1 DEF RowTypes, RowFits, MarkRunning, TaskGoes, Working, Open, Terminal
<1>4. Undisturbed' => Undisturbed /\ CleanFits' /\ Front' = Front
  BY <1>1 DEF RowTypes, MarkRunning, TaskGoes, Undisturbed, CleanFits, RowFits, Front, Working
<1>5. QED
  BY <1>2, <1>3, <1>4, StepsQuietly DEF MarkRunning

LEMMA PublishRunningKeeps ==
    ASSUME StreamInv, PublishRunning
    PROVE  StreamInv'
<1> DEFINE e == StateEvent("running")
<1>1. RowTypes /\ RowFits /\ (Undisturbed => CleanFits)
  BY RowFacts
<1>2. RowTypes'
  BY <1>1 DEF RowTypes, PublishRunning, TaskGoes, TaskPhase
<1>3. RowFits' /\ state \notin Terminal
  BY <1>1 DEF RowTypes, RowFits, PublishRunning, TaskGoes, Working, Open, Terminal
<1>4. Undisturbed' => Undisturbed /\ CleanFits' /\ Front' = Front
  BY <1>1 DEF RowTypes, PublishRunning, TaskGoes, Undisturbed, CleanFits, RowFits, Front,
              Working
<1>5. Due' = Due /\ stored' = stored /\ state' = state /\ view' = view /\ Publish(<<e>>)
  BY DEF Due, PublishRunning
<1>6. e \in Events /\ e.kind # "step" /\ ~Final(e)
  BY DEF Events, StateEvent, Event, Final, RunState, Open, Terminal
<1> HIDE DEF e
<1>7. /\ <<e>> \in Seq(Events) /\ Sound(<<e>>, stored, state)
      /\ Feed(<<e>>, Front, Front, Due, state)
  BY <1>6, RowFacts, WordFeed
<1>8. /\ <<e>> \in Seq(Events) /\ Sound(<<e>>, stored', state') /\ stored <= stored'
      /\ Undisturbed' => Front <= Front' /\ Feed(<<e>>, Front, Front', Due', state')
  BY <1>4, <1>5, <1>7, RowFacts
<1>9. QED
  BY <1>2, <1>3, <1>4, <1>5, <1>8, Announces

LEMMA EmitKeeps ==
    ASSUME StreamInv, Emit
    PROVE  StreamInv'
<1>1. RowTypes /\ RowFits /\ (Undisturbed => CleanFits)
  BY RowFacts
<1>2. RowTypes' /\ stored <= stored'
  BY <1>1 DEF RowTypes, Emit
<1>3. RowFits' /\ state \notin Terminal
  BY <1>1 DEF RowTypes, RowFits, Emit, Working, Open, Terminal
<1>4. Undisturbed' => Undisturbed /\ CleanFits' /\ Front' = Front
  BY <1>1 DEF RowTypes, Emit, Undisturbed, CleanFits, RowFits, Front, Working
<1>5. QED
  BY <1>2, <1>3, <1>4, StepsQuietly DEF Emit

LEMMA WriterCommitsKeeps ==
    ASSUME StreamInv, WriterCommits
    PROVE  StreamInv'
<1>1. RowTypes /\ RowFits /\ (Undisturbed => CleanFits)
  BY RowFacts
<1>2. RowTypes' /\ stored <= stored'
  BY <1>1 DEF RowTypes, WriterCommits
<1>3. RowFits' /\ state \notin Terminal
  BY <1>1 DEF RowTypes, RowFits, WriterCommits, WriterLives, Working, Open, Terminal
<1>4. Undisturbed' => Undisturbed /\ CleanFits' /\ Front' = Front
  BY <1>1 DEF RowTypes, WriterCommits, WriterLives, Undisturbed, CleanFits, RowFits, Front,
              Working
<1>5. QED
  BY <1>2, <1>3, <1>4, StepsQuietly DEF WriterCommits

LEMMA WriterPublishesKeeps ==
    ASSUME StreamInv, WriterPublishes
    PROVE  StreamInv'
<1>1. RowTypes /\ RowFits /\ (Undisturbed => CleanFits)
  BY RowFacts
<1>2. RowTypes' /\ stored \in Nat /\ posted \in Nat
  BY <1>1 DEF RowTypes, WriterPublishes
<1>3. RowFits' /\ stored = posted + 1 /\ state \notin Terminal
  BY <1>1 DEF RowTypes, RowFits, WriterPublishes, WriterLives, Working, Open, Terminal
<1>4. Undisturbed' =>
         Undisturbed /\ CleanFits' /\ Front = posted /\ Front' = stored
  BY <1>1 DEF RowTypes, WriterPublishes, WriterLives, Undisturbed, CleanFits, RowFits, Front,
              Working
<1>5. <<StepEvent(stored)>> = StepEvents(posted, stored)
  BY <1>2, <1>3 DEF StepEvents, StepEvent, Event
<1>6. /\ Due' = Due /\ stored' = stored /\ state' = state /\ view' = view
      /\ Publish(StepEvents(posted, stored))
  BY <1>5 DEF Due, WriterPublishes
<1>7. /\ StepEvents(posted, stored) \in Seq(Events)
      /\ Sound(StepEvents(posted, stored), stored, state)
      /\ Feed(StepEvents(posted, stored), posted, stored, Due, state)
  BY <1>2, <1>3, RowFacts, StepsFeed
<1>8. QED
  BY <1>2, <1>3, <1>4, <1>6, <1>7, Announces

LEMMA GraphEndsKeeps ==
    ASSUME StreamInv, NEW res \in Result \cup {"none"}, GraphEnds(res)
    PROVE  StreamInv'
<1>1. RowTypes /\ RowFits /\ (Undisturbed => CleanFits)
  BY RowFacts
<1>2. RowTypes' /\ stored <= stored'
  <2>1. [task EXCEPT !.phase = "drain", !.res = res]
           \in [phase : TaskPhase, res : Result \cup {"none"}, act : Action]
    BY <1>1 DEF RowTypes, TaskPhase
  <2>2. QED
    BY <1>1, <2>1 DEF RowTypes, GraphEnds
<1>3. RowFits' /\ state \notin Terminal
  BY <1>1 DEF RowTypes, RowFits, GraphEnds, Working, Open, Terminal
<1>4. Undisturbed' => Undisturbed /\ CleanFits' /\ Front' = Front
  BY <1>1 DEF RowTypes, GraphEnds, Undisturbed, CleanFits, RowFits, Front, Working
<1>5. QED
  BY <1>2, <1>3, <1>4, StepsQuietly DEF GraphEnds

LEMMA WriterDrainedKeeps ==
    ASSUME StreamInv, WriterDrained
    PROVE  StreamInv'
<1>0. RowTypes /\ RowFits /\ (Undisturbed => CleanFits)
  BY RowFacts
<1>1. /\ posted = stored /\ stored = emitted
      /\ UNCHANGED <<state, stored, acted, posted, rvw, sub, view>>
  BY DEF WriterDrained
<1>2. ASSUME task.phase = "stop", TaskGoes("guard"), UNCHANGED <<emitted, done>>
      PROVE  StreamInv'
  <2>1. RowTypes' /\ stored <= stored'
    BY <1>0, <1>1, <1>2 DEF RowTypes, TaskGoes, TaskPhase
  <2>2. RowFits' /\ state \notin Terminal
    BY <1>0, <1>1, <1>2 DEF RowTypes, TaskGoes, RowFits, Working, Open, Terminal
  <2>3. ~Undisturbed'
    BY <1>0, <1>2 DEF Undisturbed, CleanFits
  <2>4. QED
    BY <1>1, <2>1, <2>2, <2>3, StepsQuietly
<1>3. ASSUME task.phase = "drain", TaskGoes("fail"), UNCHANGED <<emitted, done>>
      PROVE  StreamInv'
  <2>1. RowTypes' /\ stored <= stored'
    BY <1>0, <1>1, <1>3 DEF RowTypes, TaskGoes, TaskPhase
  <2>2. RowFits' /\ state \notin Terminal
    BY <1>0, <1>1, <1>3 DEF RowTypes, TaskGoes, RowFits, Working, Open, Terminal
  <2>3. Undisturbed' => Undisturbed /\ CleanFits' /\ Front' = Front
    BY <1>0, <1>1, <1>3 DEF RowTypes, TaskGoes, Undisturbed, CleanFits, RowFits, Front, Working
  <2>4. QED
    BY <1>1, <2>1, <2>2, <2>3, StepsQuietly
<1>4. ASSUME NEW act \in Action, task.phase = "drain", task.res # "none",
             act # "none" => task.res = "complete",
             task' = [task EXCEPT !.phase = "store", !.act = act],
             emitted' = emitted + Steps(act), Faults(Failures(act))
      PROVE  StreamInv'
  <2>1. /\ Failures(act) \in Nat /\ (Failures(act) = 0 => act # "failed")
        /\ Steps(act) \in {0, 1} /\ (act = "none" => Steps(act) = 0)
        /\ done' = [done EXCEPT !.faults = @ + Failures(act)]
    BY <1>4 DEF Faults, Failures, Steps
  <2>2. RowTypes' /\ stored <= stored'
    <3>1. [task EXCEPT !.phase = "store", !.act = act]
             \in [phase : TaskPhase, res : Result \cup {"none"}, act : Action]
      BY <1>0 DEF RowTypes, TaskPhase
    <3>2. done' \in [cancels : Nat, restarts : Nat, confirms : Nat, faults : Nat]
      BY <1>0, <2>1 DEF RowTypes
    <3>3. QED
      BY <1>0, <1>1, <1>4, <2>1, <3>1, <3>2 DEF RowTypes
  <2>3. RowFits' /\ state \notin Terminal
    BY <1>0, <1>1, <1>4, <2>1 DEF RowTypes, RowFits, Working, Open, Terminal
  <2>4. Undisturbed' => Undisturbed /\ act # "failed"
    BY <1>0, <2>1 DEF RowTypes, Undisturbed
  <2>5. Undisturbed' => CleanFits' /\ Front' = Front
    <3>1. /\ rvw.phase = "idle" /\ rvw' = rvw /\ task'.phase = "store" /\ task'.act = act
          /\ task'.res = task.res
      BY <1>0, <1>1, <1>4 DEF RowTypes, RowFits, Working
    <3>2. Front = posted /\ Front' = stored
      BY <1>1, <1>4, <3>1 DEF Front
    <3>3. ASSUME Undisturbed'
          PROVE  CleanFits'
      <4>1. act = "none" \/ (act = "ok" /\ task.res = "complete")
        BY <1>4, <2>4, <3>3 DEF Action
      <4>2. emitted' = stored' \/ (task'.res = "complete" /\ task'.act = "ok")
        BY <1>0, <1>1, <1>4, <2>1, <3>1, <4>1 DEF RowTypes
      <4>3. QED
        BY <1>1, <3>1, <4>2 DEF CleanFits
    <3>4. QED
      BY <1>1, <3>2, <3>3
  <2>6. QED
    BY <1>1, <2>2, <2>3, <2>4, <2>5, StepsQuietly
<1>5. QED
  BY <1>2, <1>3, <1>4 DEF WriterDrained

LEMMA StoreCommitsKeeps ==
    ASSUME StreamInv, StoreCommits
    PROVE  StreamInv'
<1>1. RowTypes /\ RowFits /\ (Undisturbed => CleanFits)
  BY RowFacts
<1>2. RowTypes' /\ stored <= stored'
  BY <1>1 DEF RowTypes, RowFits, StoreCommits, TaskGoes, TaskPhase, RunState, Result, Terminal
<1>3. RowFits' /\ state \notin Terminal
  BY <1>1 DEF RowTypes, RowFits, StoreCommits, TaskGoes, Working, Open, Terminal, Result
<1>4. Undisturbed' => Undisturbed /\ CleanFits' /\ Front' = Front
  <2>1. /\ rvw.phase = "idle" /\ rvw' = rvw /\ task'.phase = "stored" /\ task'.res = task.res
        /\ task.phase = "store" /\ state' = task.res /\ stored' = emitted /\ acted' = task.act
        /\ posted' = posted /\ emitted' = emitted /\ done' = done
        /\ posted = stored /\ stored <= emitted /\ stored \in Nat /\ emitted \in Nat
    BY <1>1 DEF RowTypes, RowFits, StoreCommits, TaskGoes, Working
  <2>2. Front' = Front
    BY <2>1 DEF Front
  <2>3. Undisturbed' => Undisturbed
    BY <2>1 DEF Undisturbed
  <2>4. ASSUME Undisturbed
        PROVE  CleanFits'
    <3>1. emitted = stored \/ (task.res = "complete" /\ task.act = "ok")
      BY <1>1, <2>1, <2>4 DEF CleanFits
    <3>2. Told(task'.res, state')
      BY <2>1 DEF Told
    <3>3. QED
      BY <2>1, <3>1, <3>2 DEF CleanFits
  <2>5. QED
    BY <2>2, <2>3, <2>4
<1>5. QED
  BY <1>2, <1>3, <1>4, StepsQuietly DEF StoreCommits

LEMMA StorePublishesKeeps ==
    ASSUME StreamInv, StorePublishes
    PROVE  StreamInv'
<1> DEFINE e == Append(StepEvents(posted, emitted), StateEvent(task.res))
<1>1. RowTypes /\ RowFits /\ (Undisturbed => CleanFits)
  BY RowFacts
<1>2. RowTypes' /\ stored \in Nat /\ posted \in Nat /\ emitted \in Nat
  BY <1>1 DEF RowTypes, StorePublishes, TaskGoes, TaskPhase
<1>3. /\ RowFits' /\ posted <= emitted /\ emitted <= stored
      /\ task.res \in RunState /\ state \in Terminal
  BY <1>1 DEF RowTypes, RowFits, StorePublishes, TaskGoes, Working, Result, RunState, Terminal
<1>4. /\ Due' = Due /\ stored' = stored /\ state' = state /\ view' = view /\ Publish(e)
  BY DEF Due, StorePublishes
<1>5. Undisturbed' =>
         /\ Undisturbed /\ CleanFits' /\ Told(task.res, state)
         /\ posted < emitted => Front = posted /\ Front' = emitted
         /\ posted = emitted => Front' = Front /\ emitted <= Front
  BY <1>1, <1>3 DEF RowTypes, RowFits, StorePublishes, TaskGoes, Undisturbed, CleanFits, Front,
                    Working
<1>6. /\ e \in Seq(Events) /\ Sound(e, stored, state)
      /\ Told(task.res, state) => Feed(e, posted, emitted, Due, state)
  BY <1>2, <1>3, RowFacts, StepsAndState
<1>7. ASSUME Undisturbed'
      PROVE  Front <= Front' /\ Feed(e, Front, Front', Due, state)
  <2>1. CASE posted < emitted
    BY <1>2, <1>5, <1>6, <1>7, <2>1
  <2>2. CASE posted = emitted
    <3>1. StepEvents(posted, emitted) = StepEvents(Front, Front)
      BY <1>2, <2>2, RowFacts DEF StepEvents
    <3>2. Due <= Front /\ Front' = Front /\ Told(task.res, state)
      BY <1>2, <1>5, <1>7, <2>2, RowFacts
    <3>3. QED
      BY <1>3, <3>1, <3>2, RowFacts, StepsAndState
  <2>3. QED
    BY <1>2, <1>3, <2>1, <2>2
<1> HIDE DEF e
<1>8. QED
  BY <1>2, <1>3, <1>4, <1>5, <1>6, <1>7, Announces

LEMMA FinishKeeps ==
    ASSUME StreamInv, Finish
    PROVE  StreamInv'
<1> DEFINE e == DoneEvent(task.res)
<1>1. RowTypes /\ RowFits /\ (Undisturbed => CleanFits)
  BY RowFacts
<1>2. RowTypes'
  BY <1>1 DEF RowTypes, Finish, TaskGoes, TaskPhase
<1>3. RowFits' /\ task.res \in RunState /\ state \in Terminal
  BY <1>1 DEF RowTypes, RowFits, Finish, TaskGoes, Working, Result, RunState, Terminal
<1>4. Due' = Due /\ stored' = stored /\ state' = state /\ view' = view /\ Publish(<<e>>)
  BY DEF Due, Finish
<1>5. Undisturbed' =>
         Undisturbed /\ CleanFits' /\ Front' = Front /\ Told(task.res, state) /\ Due <= Front
  <2>1. /\ rvw' = rvw /\ task.phase = "tail" /\ task'.phase = "ended" /\ posted' = posted
        /\ stored' = stored /\ emitted' = emitted /\ done' = done /\ acted' = acted
    BY <1>1 DEF RowTypes, Finish, TaskGoes
  <2>2. Undisturbed' => Undisturbed /\ CleanFits' /\ Told(task.res, state)
    BY <1>1, <1>4, <2>1 DEF Undisturbed, CleanFits
  <2>3. Front' = Front
    BY <2>1 DEF Front
  <2>4. Undisturbed => Due <= Front
    BY <1>1, <2>1, RowFacts DEF CleanFits, Front, Due, RowTypes
  <2>5. QED
    BY <2>2, <2>3, <2>4
<1>6. e \in Events /\ e.kind = "done" /\ e.state = task.res
  BY <1>3 DEF Events, DoneEvent, Event
<1> HIDE DEF e
<1>7. /\ <<e>> \in Seq(Events) /\ Sound(<<e>>, stored, state)
      /\ Undisturbed' => Feed(<<e>>, Front, Front, Due, state)
  <2>1. <<e>> \in Seq(Events) /\ Sound(<<e>>, stored, state)
    BY <1>3, <1>6 DEF Sound
  <2>2. QED
    BY <1>3, <1>5, <1>6, <2>1, RowFacts, WordFeed
<1>8. /\ <<e>> \in Seq(Events) /\ Sound(<<e>>, stored', state') /\ stored <= stored'
      /\ Undisturbed' => Front <= Front' /\ Feed(<<e>>, Front, Front', Due', state')
  BY <1>4, <1>5, <1>7, RowFacts
<1>9. QED
  BY <1>2, <1>3, <1>4, <1>5, <1>8, Announces

LEMMA FailCommitsKeeps ==
    ASSUME StreamInv, FailCommits
    PROVE  StreamInv'
<1>1. RowTypes /\ RowFits /\ (Undisturbed => CleanFits)
  BY RowFacts
<1>2. RowTypes' /\ stored <= stored' /\ state' \in Terminal
  BY <1>1 DEF RowTypes, FailCommits, TaskGoes, TaskPhase, RunState, Terminal
<1>3. RowFits'
  BY <1>1 DEF RowTypes, RowFits, FailCommits, TaskGoes, Working, Open, Terminal
<1>4. Undisturbed' => Undisturbed /\ task.phase = "fail" /\ task'.phase = "failed"
  BY <1>1 DEF RowTypes, FailCommits, TaskGoes, Undisturbed, CleanFits
<1>5. Undisturbed' => state \notin Terminal /\ CleanFits' /\ Front' = Front
  BY <1>1, <1>4 DEF RowTypes, RowFits, FailCommits, CleanFits, Front, Working, Open, Terminal
<1>6. QED
  BY <1>2, <1>3, <1>4, <1>5, StepsQuietly DEF FailCommits

LEMMA FailPublishesKeeps ==
    ASSUME StreamInv, FailPublishes
    PROVE  StreamInv'
<1> DEFINE e == <<StateEvent("failed"), DoneEvent("failed")>>
<1>1. RowTypes /\ RowFits /\ (Undisturbed => CleanFits)
  BY RowFacts
<1>2. RowTypes'
  BY <1>1 DEF RowTypes, FailPublishes, TaskGoes, TaskPhase
<1>3. RowFits' /\ "failed" \in RunState /\ state \in Terminal
  BY <1>1 DEF RowTypes, RowFits, FailPublishes, TaskGoes, Working, RunState, Terminal
<1>4. Due' = Due /\ stored' = stored /\ state' = state /\ view' = view /\ Publish(e)
  BY DEF Due, FailPublishes
<1>5. Undisturbed' =>
         Undisturbed /\ CleanFits' /\ Front' = Front /\ Told("failed", state) /\ Due <= Front
  <2>1. /\ rvw' = rvw /\ task.phase \in {"failed", "guarded"} /\ task'.phase = "ended"
        /\ posted' = posted /\ done' = done /\ acted' = acted /\ emitted' = emitted
    BY <1>1 DEF RowTypes, FailPublishes, TaskGoes
  <2>2. Undisturbed' => Undisturbed /\ CleanFits' /\ Told("failed", state)
    BY <1>1, <1>4, <2>1 DEF Undisturbed, CleanFits, Told
  <2>3. Front' = Front
    BY <1>4, <2>1 DEF Front
  <2>4. Undisturbed => Due <= Front
    BY <1>1, <2>1, RowFacts DEF CleanFits, Front, Due, RowTypes
  <2>5. QED
    BY <2>2, <2>3, <2>4
<1>6. /\ e \in Seq(Events) /\ Sound(e, stored, state)
      /\ Told("failed", state) /\ Due <= Front => Feed(e, Front, Front, Due, state)
  BY <1>3, RowFacts, StateAndEnd
<1> HIDE DEF e
<1>7. /\ Sound(e, stored', state') /\ stored <= stored'
      /\ Undisturbed' => Front <= Front' /\ Feed(e, Front, Front', Due', state')
  BY <1>4, <1>5, <1>6, RowFacts
<1>8. QED
  BY <1>2, <1>3, <1>4, <1>5, <1>6, <1>7, Announces

(* What disturbs the run: nothing is claimed of the order any more.        *)
LEMMA TaskFaultKeeps ==
    ASSUME StreamInv, TaskFault
    PROVE  StreamInv'
<1>1. RowTypes /\ RowFits
  BY RowFacts
<1>2. done' = [done EXCEPT !.faults = @ + 1]
  BY DEF TaskFault, Faults
<1>3. RowTypes' /\ stored <= stored'
  BY <1>1, <1>2 DEF RowTypes, TaskFault, TaskGoes, TaskPhase
<1>4. RowFits' /\ state' = state
  BY <1>1 DEF RowTypes, RowFits, TaskFault, TaskGoes, Working
<1>5. ~Undisturbed'
  BY <1>1, <1>2 DEF RowTypes, Undisturbed
<1>6. QED
  BY <1>3, <1>4, <1>5, StepsQuietly DEF TaskFault

LEMMA RequestFaultKeeps ==
    ASSUME StreamInv, RequestFault
    PROVE  StreamInv'
<1>1. RowTypes /\ RowFits
  BY RowFacts
<1>2. done' = [done EXCEPT !.faults = @ + 1]
  BY DEF RequestFault, Faults
<1>3. RowTypes' /\ stored <= stored'
  BY <1>1, <1>2 DEF RowTypes, RequestFault, NoRvw, Action
<1>4. RowFits' /\ state' = state
  BY <1>1 DEF RowTypes, RowFits, RequestFault, NoRvw, Working
<1>5. ~Undisturbed'
  BY <1>1, <1>2 DEF RowTypes, Undisturbed
<1>6. QED
  BY <1>3, <1>4, <1>5, StepsQuietly DEF RequestFault

LEMMA CancelRunKeeps ==
    ASSUME StreamInv, CancelRun
    PROVE  StreamInv'
<1>1. RowTypes /\ RowFits
  BY RowFacts
<1>2. /\ done' = [done EXCEPT !.cancels = @ + 1]
      /\ task'.phase = IF task.phase \in {"created", "guard", "guarded"} THEN "ended"
                       ELSE IF task.phase = "graph" THEN "stop" ELSE "guard"
  BY <1>1 DEF RowTypes, CancelRun, TaskGoes
<1>3. RowTypes' /\ stored <= stored'
  BY <1>1, <1>2 DEF RowTypes, CancelRun, TaskGoes, TaskPhase
<1>4. RowFits' /\ state' = state
  BY <1>1, <1>2 DEF RowTypes, RowFits, CancelRun, Working
<1>5. ~Undisturbed'
  BY <1>1, <1>2 DEF RowTypes, Undisturbed
<1>6. QED
  BY <1>3, <1>4, <1>5, StepsQuietly DEF CancelRun

LEMMA DecideLoadsKeeps ==
    ASSUME StreamInv, NEW act \in Action, DecideLoads(act)
    PROVE  StreamInv'
<1>1. RowTypes /\ RowFits /\ (Undisturbed => CleanFits)
  BY RowFacts
<1>2. /\ rvw.phase = "idle" /\ state = "awaiting_review" /\ Steps(act) \in {0, 1}
      /\ rvw' = [phase |-> "loaded", op |-> "decide", from |-> stored,
                 to |-> stored + 1 + Steps(act), act |-> act]
      /\ done' = [done EXCEPT !.faults = @ + Failures(act)] /\ Failures(act) \in Nat
      /\ UNCHANGED <<state, stored, acted, task, emitted, posted, sub, view>>
  BY DEF DecideLoads, Faults, Steps, Failures
<1>3. RowTypes' /\ stored <= stored'
  BY <1>1, <1>2 DEF RowTypes
<1>4. RowFits' /\ state' = state
  BY <1>1, <1>2 DEF RowTypes, RowFits, Working, Open, Terminal
<1>5. Undisturbed' => Undisturbed
  BY <1>1, <1>2 DEF RowTypes, Undisturbed
<1>6. ASSUME Undisturbed
      PROVE  CleanFits' /\ Front' = Front
  BY <1>1, <1>2, <1>6 DEF CleanFits, RowFits, RowTypes, Front, Working, Open
<1>7. Due' = Due
  BY <1>2 DEF Due
<1>8. QED
  BY <1>2, <1>3, <1>4, <1>5, <1>6, <1>7, StepsQuietly

LEMMA ConfirmLoadsKeeps ==
    ASSUME StreamInv, NEW act \in Action, ConfirmLoads(act)
    PROVE  StreamInv'
<1>1. RowTypes /\ RowFits /\ (Undisturbed => CleanFits)
  BY RowFacts
<1>2. /\ rvw.phase = "idle" /\ state = "complete" /\ acted # "ok"
      /\ rvw' = [phase |-> "loaded", op |-> "confirm", from |-> stored,
                 to |-> stored + 1, act |-> act]
      /\ done' = [done EXCEPT !.confirms = @ + 1, !.faults = @ + Failures(act)]
      /\ Failures(act) \in Nat
      /\ UNCHANGED <<state, stored, acted, task, emitted, posted, sub, view>>
  BY DEF ConfirmLoads, Failures
<1>3. RowTypes' /\ stored <= stored'
  <2>1. done' \in [cancels : Nat, restarts : Nat, confirms : Nat, faults : Nat]
    <3> DEFINE x == done.confirms + 1
               y == done.faults + Failures(act)
    <3>1. x \in Nat /\ y \in Nat
          /\ done \in [cancels : Nat, restarts : Nat, confirms : Nat, faults : Nat]
      BY <1>1, <1>2 DEF RowTypes
    <3>2. done' = [done EXCEPT !.confirms = x, !.faults = y]
      BY <1>2
    <3> HIDE DEF x, y
    <3>3. QED
      BY <3>1, <3>2
  <2>2. rvw' \in [phase : {"idle", "loaded", "stored", "release"}, op : {"decide", "confirm"},
                  from : Nat, to : Nat, act : Action]
    BY <1>1, <1>2 DEF RowTypes
  <2>3. QED
    BY <1>1, <1>2, <2>1, <2>2 DEF RowTypes
<1>4. RowFits' /\ state' = state
  BY <1>1, <1>2 DEF RowTypes, RowFits, Working, Open, Terminal
<1>5. Undisturbed' => Undisturbed
  BY <1>1, <1>2 DEF RowTypes, Undisturbed
<1>6. ASSUME Undisturbed
      PROVE  CleanFits' /\ Front' = Front
  BY <1>1, <1>2, <1>6 DEF CleanFits, RowFits, RowTypes, Front, Working, Open
<1>7. Due' = Due
  BY <1>2 DEF Due
<1>8. QED
  BY <1>2, <1>3, <1>4, <1>5, <1>6, <1>7, StepsQuietly

LEMMA RequestCommitsKeeps ==
    ASSUME StreamInv, RequestCommits
    PROVE  StreamInv'
<1>1. RowTypes /\ RowFits /\ (Undisturbed => CleanFits)
  BY RowFacts
<1>2. /\ rvw.phase = "loaded" /\ rvw.from = stored /\ stored <= rvw.to /\ rvw.to \in Nat
      /\ state' = "complete" /\ stored' = rvw.to /\ state \in Terminal
      /\ task.phase \notin Working
      /\ rvw' = [rvw EXCEPT !.phase = "stored"]
      /\ UNCHANGED <<task, emitted, posted, done, sub, view>>
      /\ rvw'.phase = "stored" /\ rvw'.from = stored /\ rvw'.to = rvw.to
  BY <1>1 DEF RequestCommits, RowTypes, RowFits
<1>3. RowTypes' /\ stored <= stored'
  BY <1>1, <1>2 DEF RowTypes, RequestCommits, RunState, Terminal
<1>4. RowFits'
  <2>1. /\ task'.phase \notin Working /\ rvw'.phase = "stored"
        /\ rvw'.from <= rvw'.to /\ rvw'.to = stored' /\ state' \in Terminal
    BY <1>1, <1>2 DEF RowTypes, Terminal
  <2>2. task'.phase = "stored" => posted' <= emitted' /\ emitted' <= stored'
    BY <1>1, <1>2 DEF RowTypes, RowFits
  <2>3. task'.phase \in {"store", "stored", "tail"} => task'.res \in Result
    BY <1>1, <1>2 DEF RowFits
  <2>4. emitted' <= stored'
    BY <1>1, <1>2 DEF RowTypes, RowFits, Terminal
  <2>5. QED
    BY <2>1, <2>2, <2>3, <2>4 DEF RowFits, Working
<1>5. ASSUME Undisturbed
      PROVE  /\ state \in {"awaiting_review", "complete"} /\ emitted <= stored
             /\ ~(task.phase = "stored" /\ posted < emitted)
             /\ CleanFits'
  <2>1. /\ state \in {"awaiting_review", "complete"} /\ emitted <= stored
        /\ ~(task.phase = "stored" /\ posted < emitted)
    BY <1>1, <1>2, <1>5 DEF CleanFits, RowFits
  <2>2. CleanFits'
    <3>1. /\ task'.phase \notin {"stop", "guard", "guarded", "store", "failed"}
          /\ ~(task'.phase = "stored" /\ posted' < emitted')
      BY <1>1, <1>2, <1>5, <2>1 DEF CleanFits, Working
    <3>2. task'.phase \in {"stored", "tail"} => Told(task'.res, state')
      BY <1>1, <1>2, <1>5, <2>1 DEF CleanFits, Told
    <3>3. rvw'.phase = "stored" /\ state' = "complete" /\ emitted' <= rvw'.from
      BY <1>2, <2>1
    <3>4. QED
      BY <3>1, <3>2, <3>3 DEF CleanFits
  <2>3. QED
    BY <2>1, <2>2
<1>6. Undisturbed' => Undisturbed
  BY <1>2 DEF Undisturbed
<1>7. ASSUME Undisturbed
      PROVE  /\ Front' = Front /\ Due' = Due
             /\ \A s : Told(s, state) => Told(s, state')
  <2>1. Front' = stored /\ Front = stored
    BY <1>2, <1>5, <1>7 DEF Front, Working
  <2>2. Due' = Due
    BY <1>1, <1>2, <1>5, <1>7 DEF Due, RowTypes
  <2>3. \A s : Told(s, state) => Told(s, state')
    BY <1>2, <1>5, <1>7 DEF Told
  <2>4. QED
    BY <2>1, <2>2, <2>3
<1>8. state' \in Terminal
  BY <1>2 DEF Terminal
<1>9. QED
  BY <1>2, <1>3, <1>4, <1>5, <1>6, <1>7, <1>8, StepsQuietly

LEMMA RequestPublishesKeeps ==
    ASSUME StreamInv, RequestPublishes
    PROVE  StreamInv'
<1> DEFINE e == Append(StepEvents(rvw.from, rvw.to), StateEvent("complete"))
<1>1. RowTypes /\ RowFits /\ (Undisturbed => CleanFits)
  BY RowFacts
<1>2. /\ rvw.phase = "stored" /\ rvw.from \in Nat /\ rvw.to \in Nat
      /\ rvw.from <= rvw.to /\ rvw.to = stored /\ state \in Terminal
      /\ task.phase \notin Working
      /\ UNCHANGED <<state, stored, acted, task, emitted, posted, done, view>>
      /\ rvw'.phase \in {"release", "idle"}
      /\ rvw' \in [phase : {"idle", "loaded", "stored", "release"}, op : {"decide", "confirm"},
                   from : Nat, to : Nat, act : Action]
  BY <1>1 DEF RequestPublishes, RowTypes, RowFits, NoRvw, Action
<1>3. RowTypes'
  BY <1>1, <1>2 DEF RowTypes
<1>4. RowFits'
  BY <1>1, <1>2 DEF RowTypes, RowFits, Working
<1>5. Due' = Due /\ stored' = stored /\ state' = state /\ view' = view /\ Publish(e)
  BY <1>2 DEF Due, RequestPublishes
<1>6. Undisturbed' => Undisturbed
  BY <1>2 DEF Undisturbed
<1>7. ASSUME Undisturbed
      PROVE  /\ state = "complete" /\ CleanFits'
             /\ Front = rvw.from /\ Front' = rvw.to /\ Due <= rvw.to
  <2>1. /\ state = "complete" /\ ~(task.phase = "stored" /\ posted < emitted)
    BY <1>1, <1>2, <1>7 DEF CleanFits
  <2>2. CleanFits'
    BY <1>1, <1>2, <1>7, <2>1 DEF CleanFits
  <2>3. Front = rvw.from /\ Front' = rvw.to
    BY <1>2, <2>1 DEF Front, Working
  <2>4. QED
    BY <1>2, <2>1, <2>2, <2>3, RowFacts
<1>8. /\ e \in Seq(Events) /\ Sound(e, stored, state)
      /\ Told("complete", state) /\ Due <= rvw.to => Feed(e, rvw.from, rvw.to, Due, state)
  <2> DEFINE a == rvw.from
             b == rvw.to
             s == "complete"
  <2>1. /\ s \in RunState /\ a \in Nat /\ b \in Nat /\ a <= b /\ b <= stored
        /\ stored \in Nat /\ Due \in Nat /\ state \in Terminal
    BY <1>2, RowFacts DEF RunState, Terminal
  <2>2. e = Append(StepEvents(a, b), StateEvent(s))
    OBVIOUS
  <2> HIDE DEF a, b, s, e
  <2>3. /\ e \in Seq(Events) /\ Sound(e, stored, state)
        /\ Told(s, state) /\ Due <= b => Feed(e, a, b, Due, state)
    BY <2>1, <2>2, StepsAndState
  <2>4. QED
    BY <2>3 DEF a, b, s
<1> HIDE DEF e
<1>9. /\ Sound(e, stored', state') /\ stored <= stored'
      /\ Undisturbed' => Front <= Front' /\ Feed(e, Front, Front', Due', state')
  BY <1>2, <1>5, <1>6, <1>7, <1>8, RowFacts DEF Told
<1>10. QED
  BY <1>3, <1>4, <1>5, <1>6, <1>7, <1>8, <1>9, Announces

LEMMA ReleasePublishesKeeps ==
    ASSUME StreamInv, ReleasePublishes
    PROVE  StreamInv'
<1> DEFINE e == <<StateEvent("complete"), DoneEvent("complete")>>
<1>1. RowTypes /\ RowFits /\ (Undisturbed => CleanFits)
  BY RowFacts
<1>2. /\ rvw.phase = "release" /\ rvw' = NoRvw /\ state \in Terminal
      /\ task.phase \notin Working
      /\ UNCHANGED <<state, stored, acted, task, emitted, posted, done, view>>
  BY <1>1 DEF ReleasePublishes, RowFits
<1>3. RowTypes'
  BY <1>1, <1>2 DEF RowTypes, NoRvw, Action
<1>4. RowFits'
  BY <1>1, <1>2 DEF RowTypes, RowFits, Working, NoRvw
<1>5. Due' = Due /\ stored' = stored /\ state' = state /\ view' = view /\ Publish(e)
  BY <1>2 DEF Due, ReleasePublishes
<1>6. Undisturbed' => Undisturbed
  BY <1>2 DEF Undisturbed
<1>7. ASSUME Undisturbed
      PROVE  state = "complete" /\ CleanFits' /\ Front' = Front /\ Due <= Front
  <2>1. /\ state = "complete" /\ ~(task.phase = "stored" /\ posted < emitted)
    BY <1>1, <1>2, <1>7 DEF CleanFits
  <2>2. CleanFits'
    BY <1>1, <1>2, <1>7, <2>1 DEF CleanFits, NoRvw
  <2>3. Front = stored /\ Front' = stored
    BY <1>2, <2>1 DEF Front, Working, NoRvw
  <2>4. QED
    BY <2>1, <2>2, <2>3, RowFacts
<1>8. /\ e \in Seq(Events) /\ Sound(e, stored, state)
      /\ Told("complete", state) /\ Due <= Front => Feed(e, Front, Front, Due, state)
  <2>1. "complete" \in RunState
    BY DEF RunState, Terminal
  <2>2. QED
    BY <1>2, <2>1, RowFacts, StateAndEnd
<1> HIDE DEF e
<1>9. /\ Sound(e, stored', state') /\ stored <= stored'
      /\ Undisturbed' => Front <= Front' /\ Feed(e, Front, Front', Due', state')
  BY <1>5, <1>6, <1>7, <1>8, RowFacts DEF Told
<1>10. QED
  BY <1>3, <1>4, <1>5, <1>6, <1>7, <1>8, <1>9, Announces

----------------------------------------------------------------------------
(* Steps of the clients and of their streams.                              *)

(* The row of one client moves, and nothing else.                          *)
LEMMA ClientMoves ==
    ASSUME StreamInv, NEW c \in Clients,
           UNCHANGED <<state, stored, acted, task, emitted, posted, rvw, done>>,
           sub' \in [Clients -> SubRow], view' \in [Clients -> ViewRow],
           \A d \in Clients : d # c => sub'[d] = sub[d] /\ view'[d] = view[d],
           SubSound(c)', Undisturbed => ViewFits(c)'
    PROVE  StreamInv'
<1>1. /\ TypeOK' /\ RowFits' /\ (Undisturbed' <=> Undisturbed)
      /\ (CleanFits' <=> CleanFits) /\ Front' = Front /\ Due' = Due
  BY DEF StreamInv, TypeOK, RowFits, CleanFits, Undisturbed, Front, Due
<1>2. ASSUME NEW d \in Clients, d # c
      PROVE  SubSound(d)' /\ (Undisturbed => ViewFits(d)')
  <2>1. /\ SubSound(d) /\ (Undisturbed => ViewFits(d))
        /\ sub'[d] = sub[d] /\ view'[d] = view[d]
    BY <1>2 DEF StreamInv
  <2>2. SubSound(d)'
    BY <2>1 DEF SubSound
  <2>3. Undisturbed => ViewFits(d)'
    BY <1>1, <2>1 DEF ViewFits, Resumes
  <2>4. QED
    BY <2>2, <2>3
<1>3. QED
  BY <1>1, <1>2 DEF StreamInv

LEMMA ClientFacts ==
    ASSUME StreamInv, NEW c \in Clients
    PROVE  /\ sub \in [Clients -> SubRow] /\ view \in [Clients -> ViewRow]
           /\ sub[c] \in SubRow /\ view[c] \in ViewRow
           /\ view[c].steps \in Seq(Nat) /\ Len(view[c].steps) \in Nat
           /\ DOMAIN view[c].steps = 1..Len(view[c].steps)
           /\ SubSound(c) /\ (Undisturbed => ViewFits(c))
<1>1. /\ sub \in [Clients -> SubRow] /\ view \in [Clients -> ViewRow]
      /\ SubSound(c) /\ (Undisturbed => ViewFits(c))
  BY DEF StreamInv, TypeOK
<1>2. view[c].steps \in Seq(Nat)
  BY <1>1 DEF ViewRow
<1>3. QED
  BY <1>1, <1>2, LenProperties

(* Without a stream, only what the client has already is claimed.          *)
LEMMA StreamIsOff ==
    ASSUME NEW c \in Clients, sub'[c] = NoSub
    PROVE  /\ SubSound(c)' <=>
                /\ view'[c].status = "closed" => state' \in Terminal
                /\ \A i \in DOMAIN view'[c].steps : view'[c].steps[i] \in 1..stored'
           /\ ViewFits(c)' <=>
                /\ \A i \in DOMAIN view'[c].steps : view'[c].steps[i] = i
                /\ view'[c].status = "closed" =>
                      Due' <= Len(view'[c].steps) /\ Told(view'[c].state, state')
<1>1. /\ sub'[c].phase = "off" /\ sub'[c].queue = <<>> /\ sub'[c].backlog = <<>>
      /\ sub'[c].read = "none" /\ "none" \notin Terminal
  BY DEF NoSub, Terminal
<1>2. Sound(<<>>, stored', state')
  BY DEF Sound
<1>3. QED
  BY <1>1, <1>2 DEF SubSound, ViewFits, Resumes

LEMMA NoSubRow ==
    NoSub \in SubRow
BY DEF NoSub, SubRow, SubPhase

LEMMA RestartKeeps ==
    ASSUME StreamInv, Restart
    PROVE  StreamInv'
<1>1. /\ RowTypes /\ RowFits /\ (Undisturbed => CleanFits)
      /\ sub \in [Clients -> SubRow] /\ view \in [Clients -> ViewRow]
  BY RowFacts DEF StreamInv, TypeOK
<1>2. /\ task' = [task EXCEPT !.phase = "ended"] /\ rvw' = NoRvw
      /\ state' = (IF state \in Open THEN "failed" ELSE state)
      /\ done' = [done EXCEPT !.restarts = @ + 1]
      /\ UNCHANGED <<stored, acted, emitted, posted>>
      /\ sub' = [c \in Clients |-> NoSub]
  BY DEF Restart, TaskGoes
<1>3. RowTypes'
  BY <1>1, <1>2 DEF RowTypes, NoRvw, Action, TaskPhase, RunState, Open, Terminal
<1>4. RowFits' /\ (Undisturbed' => Undisturbed)
  BY <1>1, <1>2 DEF RowTypes, RowFits, NoRvw, Working, Open, Terminal, Undisturbed
<1>5. CleanFits' /\ Due' = Due /\ stored' = stored /\ (state \in Terminal => state' = state)
  BY <1>1, <1>2 DEF RowTypes, CleanFits, NoRvw, Due, Open, Terminal
<1>6. view' \in [Clients -> ViewRow] /\ sub' \in [Clients -> SubRow]
  BY <1>1, <1>2, NoSubRow, ZenonT(60) DEF Restart, ViewRow
<1>7. ASSUME NEW c \in Clients
      PROVE  SubSound(c)' /\ (Undisturbed' => ViewFits(c)')
  <2>1. /\ sub'[c] = NoSub /\ view'[c].steps = view[c].steps /\ view'[c].state = view[c].state
        /\ view'[c].status = "closed" => view[c].status = "closed"
    BY <1>1, <1>2 DEF Restart, ViewRow
  <2>2. SubSound(c) /\ (Undisturbed => ViewFits(c))
    BY DEF StreamInv
  <2>3. SubSound(c)'
    BY <1>5, <2>1, <2>2, StreamIsOff DEF SubSound
  <2>4. ASSUME Undisturbed'
        PROVE  ViewFits(c)'
    BY <1>4, <1>5, <2>1, <2>2, <2>4, StreamIsOff DEF SubSound, ViewFits
  <2>5. QED
    BY <2>3, <2>4
<1>8. TypeOK'
  BY <1>3, <1>6 DEF TypeOK, RowTypes
<1>9. QED
  BY <1>4, <1>5, <1>7, <1>8 DEF StreamInv

LEMMA DisconnectKeeps ==
    ASSUME StreamInv, NEW c \in Clients, Disconnect(c)
    PROVE  StreamInv'
<1>1. /\ sub \in [Clients -> SubRow] /\ view \in [Clients -> ViewRow]
      /\ SubSound(c) /\ (Undisturbed => ViewFits(c))
  BY ClientFacts
<1>2. /\ UNCHANGED <<state, stored, acted, task, emitted, posted, rvw, done>>
      /\ sub' = [sub EXCEPT ![c] = NoSub] /\ view' = [view EXCEPT ![c].status = "idle"]
  BY DEF Disconnect
<1>3. /\ sub' \in [Clients -> SubRow] /\ view' \in [Clients -> ViewRow]
      /\ \A d \in Clients : d # c => sub'[d] = sub[d] /\ view'[d] = view[d]
      /\ sub'[c] = NoSub /\ view'[c].steps = view[c].steps /\ view'[c].status = "idle"
  BY <1>1, <1>2, NoSubRow DEF ViewRow
<1>4. SubSound(c)' /\ (Undisturbed => ViewFits(c)')
  BY <1>1, <1>2, <1>3, StreamIsOff DEF SubSound, ViewFits
<1>5. QED
  BY <1>2, <1>3, <1>4, ClientMoves

LEMMA ConnectKeeps ==
    ASSUME StreamInv, NEW c \in Clients, Connect(c)
    PROVE  StreamInv'
<1> DEFINE v == view'[c]
<1>1. /\ sub \in [Clients -> SubRow] /\ view \in [Clients -> ViewRow]
      /\ SubSound(c) /\ (Undisturbed => ViewFits(c)) /\ view[c] \in ViewRow
  BY ClientFacts
<1>2. /\ UNCHANGED <<state, stored, acted, task, emitted, posted, rvw, done>>
      /\ sub' = [sub EXCEPT ![c] = [NoSub EXCEPT !.phase = "joined"]]
      /\ \A d \in Clients : d # c => view'[d] = view[d]
  BY <1>1 DEF Connect
<1>3. /\ v = [view[c] EXCEPT !.steps = IF Cockpit(c) THEN @ ELSE <<>>,
                             !.state = IF Cockpit(c) THEN @ ELSE "none",
                             !.status = "live", !.connects = @ + 1]
      /\ view' \in [Clients -> ViewRow]
  <2>1. v = [view[c] EXCEPT !.steps = IF Cockpit(c) THEN @ ELSE <<>>,
                            !.state = IF Cockpit(c) THEN @ ELSE "none",
                            !.status = "live", !.connects = @ + 1]
    BY <1>1 DEF Connect
  <2>2. v \in ViewRow
    <3> DEFINE ss == IF Cockpit(c) THEN view[c].steps ELSE <<>>
               st == IF Cockpit(c) THEN view[c].state ELSE "none"
               n  == view[c].connects + 1
    <3>1. ss \in Seq(Nat) /\ st \in RunState \cup {"none"} /\ n \in Nat
      BY <1>1 DEF ViewRow
    <3>2. v = [view[c] EXCEPT !.steps = ss, !.state = st, !.status = "live", !.connects = n]
      BY <2>1
    <3> HIDE DEF v, ss, st, n
    <3>3. QED
      BY <1>1, <3>1, <3>2 DEF ViewRow
  <2>3. view' = [view EXCEPT ![c] = v]
    BY <1>1 DEF Connect
  <2> HIDE DEF v
  <2>4. view' \in [Clients -> ViewRow]
    BY <1>1, <2>2, <2>3
  <2>5. QED
    BY <2>1, <2>4
<1>4. /\ v.kind = view[c].kind /\ v.status = "live"
      /\ v.steps = view[c].steps \/ v.steps = <<>>
      /\ v.kind = "reader" => v.steps = <<>>
  BY <1>1, <1>3 DEF ViewRow, Cockpit
<1>5. /\ sub' \in [Clients -> SubRow] /\ \A d \in Clients : d # c => sub'[d] = sub[d]
      /\ sub'[c].phase = "joined" /\ sub'[c].queue = <<>> /\ sub'[c].backlog = <<>>
      /\ sub'[c].read = "none" /\ "none" \notin Terminal
  <2> DEFINE r == [NoSub EXCEPT !.phase = "joined"]
  <2>1. /\ r \in SubRow /\ r.phase = "joined" /\ r.queue = <<>> /\ r.backlog = <<>>
        /\ r.read = "none" /\ "none" \notin Terminal
    <3>1. r \in SubRow
      BY NoSubRow DEF SubRow, SubPhase
    <3>2. QED
      BY <3>1 DEF NoSub, Terminal
  <2>2. sub' = [sub EXCEPT ![c] = r]
    BY <1>2
  <2> HIDE DEF r
  <2>3. QED
    BY <1>1, <2>1, <2>2
<1>6. Sound(<<>>, stored, state) /\ Front \in 0..Front /\ Feed(<<>>, Front, Front, Due, state)
  BY RowFacts, EmptyFeed DEF Sound
<1>7. Front' = Front /\ Due' = Due
  BY <1>2 DEF Front, Due
<1>8. SubSound(c)'
  BY <1>1, <1>2, <1>4, <1>5, <1>6 DEF SubSound
<1>9. ASSUME Undisturbed
      PROVE  ViewFits(c)'
  <2>1. \A i \in DOMAIN v.steps : v.steps[i] = i
    BY <1>1, <1>4, <1>9 DEF ViewFits
  <2>2. v.kind = "reader" => Len(v.steps) = 0
    BY <1>4
  <2>3. \E f \in 0..Front' : Feed(sub'[c].queue, f, Front', Due', state')
    BY <1>2, <1>5, <1>6, <1>7
  <2>4. QED
    BY <1>4, <1>5, <2>1, <2>2, <2>3 DEF ViewFits, Resumes
<1>10. QED
  BY <1>2, <1>3, <1>5, <1>8, <1>9, ClientMoves

LEMMA SnapshotRunKeeps ==
    ASSUME StreamInv, NEW c \in Clients, SnapshotRun(c)
    PROVE  StreamInv'
<1>1. /\ sub \in [Clients -> SubRow] /\ view \in [Clients -> ViewRow]
      /\ SubSound(c) /\ (Undisturbed => ViewFits(c)) /\ sub[c] \in SubRow
      /\ state \in RunState
  BY ClientFacts, RowFacts
<1>2. /\ UNCHANGED <<state, stored, acted, task, emitted, posted, rvw, done, view>>
      /\ sub' = [sub EXCEPT ![c].read = state] /\ sub[c].phase = "joined"
  BY DEF SnapshotRun
<1>3. /\ sub' \in [Clients -> SubRow] /\ view' \in [Clients -> ViewRow]
      /\ \A d \in Clients : d # c => sub'[d] = sub[d] /\ view'[d] = view[d]
      /\ sub'[c].phase = "joined" /\ sub'[c].queue = sub[c].queue
      /\ sub'[c].backlog = sub[c].backlog /\ sub'[c].read = state
  BY <1>1, <1>2 DEF SubRow
<1>4. Front' = Front /\ Due' = Due
  BY <1>2 DEF Front, Due
<1>5. SubSound(c)'
  BY <1>1, <1>2, <1>3 DEF SubSound
<1>6. ASSUME Undisturbed
      PROVE  ViewFits(c)'
  <2>1. ViewFits(c) /\ Told(state, state)
    BY <1>1, <1>6 DEF Told
  <2>2. QED
    BY <1>2, <1>3, <1>4, <2>1 DEF ViewFits, Resumes
<1>7. QED
  BY <1>2, <1>3, <1>5, <1>6, ClientMoves

(* The backlog of a snapshot that found state s and n steps.               *)
LEMMA SnapshotFeed ==
    ASSUME NEW s \in RunState, NEW n \in Nat, NEW due \in Nat, NEW st \in RunState,
           s \in Terminal => st \in Terminal
    PROVE  /\ Backlog(s, n) \in Seq(Events) /\ Backlog(s, n) # <<>>
           /\ Sound(Backlog(s, n), n, st)
           /\ (s \in Terminal => Told(s, st)) /\ due <= n => Feed(Backlog(s, n), 0, n, due, st)
<1> DEFINE x == Event("snapshot", 0, s)
           y == DoneEvent(s)
           p == StepEvents(0, n)
           z == IF s \in Terminal THEN <<y>> ELSE <<>>
           w == <<x>>
<1>1. /\ x \in Events /\ x.kind = "snapshot" /\ ~Final(x)
      /\ y \in Events /\ y.kind = "done" /\ y.state = s
  BY DEF DoneEvent, Event, Events, Final
<1>2. Backlog(s, n) = w \o p \o z
  BY DEF Backlog
<1>3. p \in Seq(Events) /\ Sound(p, n, st) /\ Feed(p, 0, n, due, st)
  BY StepsFeed
<1> HIDE DEF x, y, p
<1>4. w \in Seq(Events) /\ Sound(w, n, st) /\ Feed(w, 0, 0, due, st) /\ Len(w) = 1
  BY <1>1, WordFeed
<1>5. z \in Seq(Events) /\ Sound(z, n, st)
  BY <1>1 DEF Sound
<1>6. ASSUME s \in Terminal => Told(s, st), due <= n
      PROVE  Feed(z, n, n, due, st)
  <2>1. CASE s \in Terminal
    BY <1>1, <1>6, <2>1, WordFeed
  <2>2. CASE s \notin Terminal
    BY <2>2, EmptyFeed
  <2>3. QED
    BY <2>1, <2>2
<1> HIDE DEF z, w
<1>7. /\ w \o p \in Seq(Events) /\ Sound(w \o p, n, st)
      /\ w \o p \o z \in Seq(Events) /\ Sound(w \o p \o z, n, st)
  BY <1>3, <1>4, <1>5, ConcatSound
<1>8. Feed(w \o p, 0, n, due, st)
  BY <1>3, <1>4, ConcatFeed
<1>9. ASSUME s \in Terminal => Told(s, st), due <= n
      PROVE  Feed(w \o p \o z, 0, n, due, st)
  <2> DEFINE r == w \o p
  <2>1. r \in Seq(Events) /\ Feed(r, 0, n, due, st) /\ Feed(z, n, n, due, st) /\ 0 <= n
    BY <1>6, <1>7, <1>8, <1>9
  <2> HIDE DEF r
  <2>2. Feed(r \o z, 0, n, due, st)
    BY <1>5, <2>1, ConcatFeed
  <2>3. QED
    BY <2>2 DEF r
<1>10. w \o p \o z # <<>>
  <2> DEFINE r == w \o p
  <2>1. Len(r) = 1 + Len(p) /\ Len(p) \in Nat /\ Len(z) \in Nat /\ r \in Seq(Events)
    BY <1>3, <1>4, <1>5, <1>7, ConcatProperties, LenProperties, ZenonT(60)
  <2> HIDE DEF r
  <2>2. Len(r \o z) = Len(r) + Len(z)
    BY <1>5, <2>1, ConcatProperties
  <2>3. r \o z # <<>>
    BY <2>1, <2>2
  <2>4. QED
    BY <2>3 DEF r
<1>11. QED
  BY <1>2, <1>7, <1>9, <1>10

(* A trace in order that is no longer than the run's.                      *)
LEMMA InOrderIsShort ==
    ASSUME NEW q \in Seq(Nat), NEW n \in Nat,
           \A i \in DOMAIN q : q[i] = i /\ q[i] \in 1..n
    PROVE  Len(q) <= n
<1>1. Len(q) \in Nat /\ DOMAIN q = 1..Len(q)
  BY LenProperties
<1>2. CASE Len(q) = 0
  BY <1>2
<1>3. CASE Len(q) # 0
  <2>1. Len(q) \in DOMAIN q
    BY <1>1, <1>3
  <2>2. QED
    BY <2>1
<1>4. QED
  BY <1>2, <1>3

LEMMA SnapshotStepsKeeps ==
    ASSUME StreamInv, NEW c \in Clients, SnapshotSteps(c)
    PROVE  StreamInv'
<1> DEFINE b == Backlog(sub[c].read, stored)
<1>1. /\ sub \in [Clients -> SubRow] /\ view \in [Clients -> ViewRow]
      /\ SubSound(c) /\ (Undisturbed => ViewFits(c)) /\ sub[c] \in SubRow
      /\ view[c].steps \in Seq(Nat)
      /\ state \in RunState /\ stored \in Nat /\ Due \in Nat /\ Due <= stored
      /\ Front \in Nat /\ Front <= stored
  BY ClientFacts, RowFacts
<1>2. /\ UNCHANGED <<state, stored, acted, task, emitted, posted, rvw, done, view>>
      /\ sub' = [sub EXCEPT ![c].phase = "replay", ![c].seen = stored, ![c].backlog = b]
      /\ sub[c].phase = "joined" /\ sub[c].read # "none"
  BY DEF SnapshotSteps
<1>3. sub[c].read \in RunState /\ (sub[c].read \in Terminal => state \in Terminal)
  BY <1>1, <1>2 DEF SubRow, SubSound
<1>4. /\ b \in Seq(Events) /\ b # <<>> /\ Sound(b, stored, state)
      /\ (sub[c].read \in Terminal => Told(sub[c].read, state)) =>
            Feed(b, 0, stored, Due, state)
  <2> DEFINE s == sub[c].read
  <2>1. s \in RunState /\ (s \in Terminal => state \in Terminal)
    BY <1>3
  <2>2. b = Backlog(s, stored)
    OBVIOUS
  <2> HIDE DEF s, b
  <2>3. /\ b \in Seq(Events) /\ b # <<>> /\ Sound(b, stored, state)
        /\ (s \in Terminal => Told(s, state)) => Feed(b, 0, stored, Due, state)
    BY <1>1, <2>1, <2>2, SnapshotFeed
  <2>4. QED
    BY <2>3 DEF s
<1> HIDE DEF b
<1>5. /\ sub' \in [Clients -> SubRow] /\ view' \in [Clients -> ViewRow]
      /\ \A d \in Clients : d # c => sub'[d] = sub[d] /\ view'[d] = view[d]
      /\ sub'[c].phase = "replay" /\ sub'[c].queue = sub[c].queue
      /\ sub'[c].backlog = b /\ sub'[c].read = sub[c].read /\ sub'[c].seen = stored
  <2> DEFINE r == [sub[c] EXCEPT !.phase = "replay", !.seen = stored, !.backlog = b]
  <2>1. /\ r \in SubRow /\ r.phase = "replay" /\ r.queue = sub[c].queue
        /\ r.backlog = b /\ r.read = sub[c].read /\ r.seen = stored
    BY <1>1, <1>4 DEF SubRow, SubPhase
  <2>2. sub' = [sub EXCEPT ![c] = r]
    BY <1>1, <1>2
  <2> HIDE DEF r
  <2>3. QED
    BY <1>1, <1>2, <2>1, <2>2, ZenonT(60)
<1>6. Front' = Front /\ Due' = Due
  BY <1>2 DEF Front, Due
<1>7. SubSound(c)'
  BY <1>1, <1>2, <1>4, <1>5 DEF SubSound
<1>8. ASSUME Undisturbed
      PROVE  ViewFits(c)'
  <2> DEFINE m == Len(view[c].steps)
             reader == view[c].kind = "reader"
  <2>1. ViewFits(c) /\ SubSound(c)
    BY <1>1, <1>8
  <2>2. m <= stored /\ m \in Nat
    BY <1>1, <2>1, InOrderIsShort, LenProperties DEF ViewFits, SubSound
  <2>3. Feed(b, 0, stored, Due, state) /\ (reader => m = 0)
    BY <1>2, <1>4, <2>1 DEF ViewFits
  <2>4. PICK f \in 0..Front : Feed(sub[c].queue, f, Front, Due, state)
    BY <1>2, <2>1 DEF ViewFits
  <2>5. f <= stored
    BY <1>1
  <2>6. \E j \in 0..m : (reader => m = j) /\ Feed(b, j, stored, Due, state)
    BY <2>2, <2>3
  <2>7. Resumes(sub[c], m, reader)'
    BY <1>2, <1>5, <1>6, <2>2, <2>4, <2>5, <2>6 DEF Resumes
  <2>8. QED
    BY <1>2, <1>5, <1>6, <2>1, <2>7 DEF ViewFits
<1>9. QED
  BY <1>2, <1>5, <1>7, <1>8, ClientMoves

LEMMA SkipSeenKeeps ==
    ASSUME StreamInv, NEW c \in Clients, SkipSeen(c)
    PROVE  StreamInv'
<1> DEFINE q == sub[c].queue
<1>1. /\ sub \in [Clients -> SubRow] /\ view \in [Clients -> ViewRow]
      /\ SubSound(c) /\ (Undisturbed => ViewFits(c)) /\ sub[c] \in SubRow
      /\ q \in Seq(Events) /\ sub[c].seen \in Nat
      /\ state \in RunState /\ stored \in Nat /\ Due \in Nat /\ Front \in Nat
  BY ClientFacts, RowFacts DEF SubRow
<1>2. /\ UNCHANGED <<state, stored, acted, task, emitted, posted, rvw, done, view>>
      /\ sub' = [sub EXCEPT ![c].queue = Tail(@)]
      /\ sub[c].phase = "follow" /\ q # <<>>
      /\ Head(q).kind = "step" /\ Head(q).step <= sub[c].seen
  BY DEF SkipSeen
<1>3. Tail(q) \in Seq(Events) /\ Sound(Tail(q), stored, state)
  BY <1>1, <1>2, TailSound DEF SubSound
<1>4. /\ sub' \in [Clients -> SubRow] /\ view' \in [Clients -> ViewRow]
      /\ \A d \in Clients : d # c => sub'[d] = sub[d] /\ view'[d] = view[d]
      /\ sub'[c].phase = "follow" /\ sub'[c].queue = Tail(q)
      /\ sub'[c].backlog = sub[c].backlog /\ sub'[c].read = sub[c].read
      /\ sub'[c].seen = sub[c].seen
  BY <1>1, <1>2, <1>3 DEF SubRow
<1>5. Front' = Front /\ Due' = Due
  BY <1>2 DEF Front, Due
<1>6. SubSound(c)'
  BY <1>1, <1>2, <1>3, <1>4 DEF SubSound
<1>7. ASSUME Undisturbed
      PROVE  ViewFits(c)'
  <2> DEFINE m == Len(view[c].steps)
             reader == view[c].kind = "reader"
             n == sub[c].seen
  <2>1. ViewFits(c)
    BY <1>1, <1>7
  <2>2. PICK f \in 0..Front : /\ Feed(q, f, Front, Due, state)
                              /\ m = IF f > n THEN f ELSE n
    BY <1>2, <2>1 DEF ViewFits, Resumes
  <2>3. Head(q).step = f + 1 /\ f + 1 <= Front /\ Feed(Tail(q), f + 1, Front, Due, state)
    BY <1>1, <1>2, <2>2, TailFeed
  <2>4. f + 1 \in 0..Front /\ m = IF f + 1 > n THEN f + 1 ELSE n
    BY <1>1, <1>2, <2>2, <2>3
  <2>5. Resumes(sub[c], m, reader)'
    BY <1>2, <1>4, <1>5, <2>3, <2>4 DEF Resumes
  <2>6. QED
    BY <1>2, <1>4, <1>5, <2>1, <2>5 DEF ViewFits
<1>8. QED
  BY <1>2, <1>4, <1>6, <1>7, ClientMoves

(* What a client makes of an event.                                        *)
LEMMA AppliedShows ==
    ASSUME NEW c \in Clients, view[c] \in ViewRow, NEW e \in Events
    PROVE  /\ Applied(c, e) \in ViewRow /\ Applied(c, e).kind = view[c].kind
           /\ Applied(c, e).status = view[c].status
           /\ e.kind # "step" => Applied(c, e).steps = view[c].steps /\ Applied(c, e).state = e.state
           /\ e.kind = "step" =>
                 Applied(c, e).steps \in {view[c].steps, Append(view[c].steps, e.step)}
           /\ e.kind = "step" /\ view[c].kind = "reader" =>
                 Applied(c, e).steps = Append(view[c].steps, e.step)
           /\ e.kind = "step" /\ (\A i \in DOMAIN view[c].steps : view[c].steps[i] # e.step) =>
                 Applied(c, e).steps = Append(view[c].steps, e.step)
           /\ e.kind = "step" /\ view[c].kind = "cockpit"
                 /\ (\E i \in DOMAIN view[c].steps : view[c].steps[i] = e.step) =>
                 Applied(c, e).steps = view[c].steps
<1> DEFINE v == view[c]
           more == Append(v.steps, e.step)
<1>1. /\ v \in ViewRow /\ v.steps \in Seq(Nat) /\ e.step \in Nat /\ more \in Seq(Nat)
      /\ e.state \in RunState \cup {"none"}
  BY DEF ViewRow, Events
<1>2. Applied(c, e) = IF e.kind = "step"
                      THEN IF v.kind = "cockpit" /\ \E i \in DOMAIN v.steps : v.steps[i] = e.step
                           THEN v ELSE [v EXCEPT !.steps = more]
                      ELSE [v EXCEPT !.state = e.state]
  BY DEF Applied, Cockpit
<1> HIDE DEF more
<1>3. /\ [v EXCEPT !.steps = more] \in ViewRow /\ [v EXCEPT !.steps = more].kind = v.kind
      /\ [v EXCEPT !.steps = more].steps = more
      /\ [v EXCEPT !.steps = more].status = v.status
      /\ [v EXCEPT !.state = e.state] \in ViewRow /\ [v EXCEPT !.state = e.state].kind = v.kind
      /\ [v EXCEPT !.state = e.state].steps = v.steps
      /\ [v EXCEPT !.state = e.state].state = e.state
      /\ [v EXCEPT !.state = e.state].status = v.status
  BY <1>1 DEF ViewRow
<1>4. QED
  BY <1>1, <1>2, <1>3 DEF more, ViewRow

(* The next step makes a trace in order one longer.                        *)
LEMMA GrownInOrder ==
    ASSUME NEW q \in Seq(Nat), NEW k \in Nat
    PROVE  /\ Append(q, k) \in Seq(Nat) /\ Len(Append(q, k)) = Len(q) + 1 /\ Len(q) \in Nat
           /\ DOMAIN Append(q, k) = 1..(Len(q) + 1)
           /\ \A i \in DOMAIN Append(q, k) :
                 Append(q, k)[i] = IF i = Len(q) + 1 THEN k ELSE q[i]
           /\ \A i \in DOMAIN Append(q, k) : i # Len(q) + 1 => i \in DOMAIN q
<1>1. /\ Append(q, k) \in Seq(Nat) /\ Len(Append(q, k)) = Len(q) + 1 /\ Len(q) \in Nat
      /\ DOMAIN Append(q, k) = 1..(Len(q) + 1) /\ DOMAIN q = 1..Len(q)
  BY AppendProperties, LenProperties
<1>2. \A i \in 1..(Len(q) + 1) : Append(q, k)[i] = IF i = Len(q) + 1 THEN k ELSE q[i]
  BY <1>1, AppendProperties
<1>3. QED
  BY <1>1, <1>2

(* An event that the stream owes the client arrives.                       *)
LEMMA ReceiveKeeps ==
    ASSUME StreamInv, NEW c \in Clients, NEW e \in Events, NEW rest \in SubRow,
           UNCHANGED <<state, stored, acted, task, emitted, posted, rvw, done>>,
           Receive(c, e, rest), view[c].status = "live",
           rest.phase \in {"replay", "follow"}, rest.read = sub[c].read,
           rest.phase = "replay" => rest.backlog # <<>>,
           Sound(rest.queue, stored, state), Sound(rest.backlog, stored, state),
           e.kind = "step" => e.step \in 1..stored,
           Final(e) => state \in Terminal,
           NEW m \in Nat, m = Len(view[c].steps),
           NEW k \in Nat, k = (IF e.kind = "step" /\ e.step = m + 1 THEN m + 1 ELSE m),
           Undisturbed =>
              /\ e.kind = "step" =>
                    e.step <= m + 1 /\ (view[c].kind = "reader" => e.step = m + 1)
              /\ Final(e) => Due <= m /\ Told(e.state, state)
              /\ Resumes(rest, k, view[c].kind = "reader")
    PROVE  StreamInv'
<1> DEFINE v == view[c]
           a == Applied(c, e)
           w == IF Ends(c, e) THEN [a EXCEPT !.status = "closed"] ELSE a
           r == IF Ends(c, e) THEN NoSub ELSE rest
<1>1. /\ sub \in [Clients -> SubRow] /\ view \in [Clients -> ViewRow] /\ v \in ViewRow
      /\ SubSound(c) /\ (Undisturbed => ViewFits(c)) /\ sub[c] \in SubRow
      /\ v.steps \in Seq(Nat) /\ DOMAIN v.steps = 1..m
      /\ stored \in Nat
  BY ClientFacts, RowFacts
<1>2. e.step \in Nat /\ a \in ViewRow /\ a.kind = v.kind /\ a.status = "live"
  BY <1>1, AppliedShows DEF Events
<1>3. Ends(c, e) => Final(e) /\ e.kind # "step"
  BY DEF Ends, Final
<1>4. sub' = [sub EXCEPT ![c] = r] /\ view' = [view EXCEPT ![c] = w]
  BY DEF Receive
<1>5. /\ w \in ViewRow /\ w.kind = v.kind /\ w.steps = a.steps /\ w.state = a.state
      /\ w.status = (IF Ends(c, e) THEN "closed" ELSE "live")
      /\ r \in SubRow
  <2> HIDE DEF a
  <2>1. QED
    BY <1>2, NoSubRow DEF ViewRow
<1>6. \A i \in DOMAIN a.steps : a.steps[i] \in 1..stored
  <2>1. \A i \in DOMAIN v.steps : v.steps[i] \in 1..stored
    BY <1>1 DEF SubSound
  <2>2. CASE a.steps = v.steps
    BY <2>1, <2>2
  <2>3. CASE e.kind = "step" /\ a.steps = Append(v.steps, e.step)
    BY <1>1, <1>2, <2>1, <2>3, GrownInOrder
  <2>4. QED
    BY <1>1, <2>2, <2>3, AppliedShows
<1>7. ASSUME Undisturbed
      PROVE  Len(a.steps) = k /\ \A i \in DOMAIN a.steps : a.steps[i] = i
  <2>1. \A i \in DOMAIN v.steps : v.steps[i] = i
    BY <1>1, <1>7 DEF ViewFits
  <2>2. CASE e.kind # "step"
    BY <1>1, <2>1, <2>2, AppliedShows
  <2>3. CASE e.kind = "step" /\ e.step = m + 1
    <3>1. \A i \in DOMAIN v.steps : v.steps[i] # e.step
      BY <1>1, <2>1, <2>3
    <3>2. a.steps = Append(v.steps, e.step)
      BY <1>1, <2>3, <3>1, AppliedShows
    <3>3. QED
      BY <1>1, <1>2, <2>1, <2>3, <3>2, GrownInOrder
  <2>4. CASE e.kind = "step" /\ e.step # m + 1
    <3>1. e.step \in DOMAIN v.steps /\ v.steps[e.step] = e.step /\ v.kind # "reader"
      BY <1>1, <1>2, <1>7, <2>1, <2>4
    <3>2. v.kind = "cockpit"
      BY <1>1, <3>1 DEF ViewRow
    <3>3. a.steps = v.steps
      BY <1>1, <2>4, <3>1, <3>2, AppliedShows
    <3>4. QED
      BY <2>1, <2>4, <3>3
  <2>5. QED
    BY <2>2, <2>3, <2>4
<1>8. Front' = Front /\ Due' = Due
  BY DEF Front, Due
<1>9. e.kind # "step" => a.state = e.state
  BY <1>1, AppliedShows
<1> HIDE DEF a, w, r
<1>10. /\ sub' \in [Clients -> SubRow] /\ view' \in [Clients -> ViewRow]
       /\ \A d \in Clients : d # c => sub'[d] = sub[d] /\ view'[d] = view[d]
       /\ sub'[c] = r /\ view'[c] = w
  BY <1>1, <1>4, <1>5
<1>11. SubSound(c)' /\ (Undisturbed => ViewFits(c)')
  <2>1. CASE Ends(c, e)
    <3>1. sub'[c] = NoSub
      BY <1>10, <2>1 DEF r
    <3>2. SubSound(c)'
      BY <1>3, <1>5, <1>6, <1>10, <2>1, <3>1, StreamIsOff
    <3>3. ASSUME Undisturbed
          PROVE  ViewFits(c)'
      <4>1. Len(w.steps) = m /\ Due' <= m /\ Told(w.state, state')
        BY <1>3, <1>5, <1>7, <1>8, <1>9, <2>1, <3>3
      <4>2. QED
        BY <1>5, <1>7, <1>10, <3>1, <3>3, <4>1, StreamIsOff
    <3>4. QED
      BY <3>2, <3>3
  <2>2. CASE ~Ends(c, e)
    <3>1. sub'[c] = rest /\ w.status = "live"
      BY <1>5, <1>10, <2>2 DEF r
    <3>2. SubSound(c)'
      BY <1>1, <1>5, <1>6, <1>10, <3>1 DEF SubSound
    <3>3. ASSUME Undisturbed
          PROVE  ViewFits(c)'
      <4>1. Resumes(rest, k, v.kind = "reader")
        BY <3>3
      <4>2. QED
        BY <1>5, <1>7, <1>8, <1>10, <3>1, <3>3, <4>1 DEF ViewFits, Resumes
    <3>4. QED
      BY <3>2, <3>3
  <2>3. QED
    BY <2>1, <2>2
<1>12. QED
  BY <1>10, <1>11, ClientMoves

LEMMA ReplayKeeps ==
    ASSUME StreamInv, NEW c \in Clients, Replay(c)
    PROVE  StreamInv'
<1> DEFINE q == sub[c].backlog
           e == Head(q)
           b == Tail(q)
           n == sub[c].seen
           m == Len(view[c].steps)
           p == IF b = <<>> THEN "follow" ELSE "replay"
           reader == view[c].kind = "reader"
           rest == [sub[c] EXCEPT !.backlog = b, !.phase = p]
           k == IF e.kind = "step" /\ e.step = m + 1 THEN m + 1 ELSE m
<1>1. /\ sub[c] \in SubRow /\ view[c] \in ViewRow /\ m \in Nat
      /\ SubSound(c) /\ (Undisturbed => ViewFits(c))
      /\ q \in Seq(Events) /\ n \in Nat
      /\ stored \in Nat /\ Due \in Nat /\ Front \in Nat
  BY ClientFacts, RowFacts DEF SubRow
<1>2. /\ UNCHANGED <<state, stored, acted, task, emitted, posted, rvw, done>>
      /\ sub[c].phase = "replay" /\ Receive(c, e, rest)
  BY DEF Replay
<1>3. view[c].status = "live" /\ q # <<>> /\ Sound(q, stored, state)
  BY <1>1, <1>2 DEF SubSound
<1>4. /\ b \in Seq(Events) /\ Sound(b, stored, state)
      /\ e \in Events /\ e = q[1] /\ 1 \in DOMAIN q
  BY <1>1, <1>3, TailSound
<1>5. (e.kind = "step" => e.step \in 1..stored) /\ (Final(e) => state \in Terminal)
  BY <1>3, <1>4 DEF Sound
<1>6. k \in Nat
  BY <1>1
<1>7. ASSUME Undisturbed
      PROVE  \E j \in 0..m :
                /\ m <= n /\ (reader => m = j)
                /\ e.kind = "step" => e.step = j + 1 /\ j + 1 <= n /\ Feed(b, j + 1, n, Due, state)
                /\ e.kind # "step" => Feed(b, j, n, Due, state)
                /\ Final(e) => (Due <= j \/ n < j) /\ Told(e.state, state)
  <2>1. PICK j \in 0..m : m <= n /\ (reader => m = j) /\ Feed(q, j, n, Due, state)
    BY <1>1, <1>2, <1>7 DEF ViewFits, Resumes
  <2> HIDE DEF b, e
  <2>2. /\ e.kind = "step" => e.step = j + 1 /\ j + 1 <= n /\ Feed(b, j + 1, n, Due, state)
        /\ e.kind # "step" => Feed(b, j, n, Due, state)
        /\ Final(e) => (Due <= j \/ n < j) /\ Told(e.state, state)
    BY <1>1, <1>3, <2>1, TailFeed DEF b, e
  <2>3. QED
    BY <2>1, <2>2
<1>8. ASSUME Undisturbed
      PROVE  \E f \in 0..Front : f <= n /\ Feed(sub[c].queue, f, Front, Due, state)
  BY <1>1, <1>2, <1>8 DEF ViewFits, Resumes
<1> HIDE DEF b, e
<1>9. /\ rest \in SubRow /\ rest.phase = p /\ rest.backlog = b
      /\ rest.queue = sub[c].queue /\ rest.seen = n /\ rest.read = sub[c].read
  BY <1>1, <1>4 DEF SubRow, SubPhase
<1> HIDE DEF rest
<1>10. ASSUME Undisturbed
       PROVE  /\ e.kind = "step" => e.step <= m + 1 /\ (reader => e.step = m + 1)
              /\ Final(e) => Due <= m /\ Told(e.state, state)
              /\ Resumes(rest, k, reader)
  <2>1. PICK j \in 0..m :
           /\ m <= n /\ (reader => m = j)
           /\ e.kind = "step" => e.step = j + 1 /\ j + 1 <= n /\ Feed(b, j + 1, n, Due, state)
           /\ e.kind # "step" => Feed(b, j, n, Due, state)
           /\ Final(e) => (Due <= j \/ n < j) /\ Told(e.state, state)
    BY <1>7, <1>10
  <2>2. PICK f \in 0..Front : f <= n /\ Feed(sub[c].queue, f, Front, Due, state)
    BY <1>8, <1>10
  <2>3. /\ e.kind = "step" => e.step <= m + 1 /\ (reader => e.step = m + 1)
        /\ Final(e) => Due <= m /\ Told(e.state, state)
    BY <1>1, <2>1
  <2>4. PICK i \in 0..k : k <= n /\ (reader => k = i) /\ Feed(b, i, n, Due, state)
    <3>1. CASE e.kind = "step"
      <4>1. j + 1 \in 0..k /\ k <= n /\ (reader => k = j + 1) /\ Feed(b, j + 1, n, Due, state)
        BY <1>1, <2>1, <3>1
      <4>2. QED
        BY <4>1
    <3>2. CASE e.kind # "step"
      BY <1>1, <2>1, <3>2
    <3>3. QED
      BY <3>1, <3>2
  <2>5. b = <<>> => k = n
    BY <1>1, <1>6, <2>4, EmptyFeed
  <2> HIDE DEF k
  <2>6. QED
    BY <1>1, <1>6, <1>9, <2>2, <2>3, <2>4, <2>5 DEF Resumes
<1>11. /\ rest.phase \in {"replay", "follow"} /\ (rest.phase = "replay" => rest.backlog # <<>>)
       /\ Sound(rest.queue, stored, state) /\ Sound(rest.backlog, stored, state)
       /\ e \in Events /\ Receive(c, e, rest)
  BY <1>1, <1>2, <1>4, <1>9 DEF SubSound, rest, e, b
<1>12. QED
  BY <1>1, <1>2, <1>3, <1>5, <1>6, <1>9, <1>10, <1>11, ReceiveKeeps

LEMMA FollowKeeps ==
    ASSUME StreamInv, NEW c \in Clients, Follow(c)
    PROVE  StreamInv'
<1> DEFINE q == sub[c].queue
           e == Head(q)
           b == Tail(q)
           n == sub[c].seen
           m == Len(view[c].steps)
           reader == view[c].kind = "reader"
           rest == [sub[c] EXCEPT !.queue = Tail(@)]
           k == IF e.kind = "step" /\ e.step = m + 1 THEN m + 1 ELSE m
<1>1. /\ sub[c] \in SubRow /\ view[c] \in ViewRow /\ m \in Nat
      /\ SubSound(c) /\ (Undisturbed => ViewFits(c))
      /\ q \in Seq(Events) /\ n \in Nat
      /\ stored \in Nat /\ Due \in Nat /\ Front \in Nat
  BY ClientFacts, RowFacts DEF SubRow
<1>2. /\ UNCHANGED <<state, stored, acted, task, emitted, posted, rvw, done>>
      /\ sub[c].phase = "follow" /\ q # <<>> /\ Receive(c, e, rest)
      /\ e.kind # "step" \/ e.step > n
  BY DEF Follow
<1>3. view[c].status = "live" /\ Sound(q, stored, state)
  BY <1>1, <1>2 DEF SubSound
<1>4. /\ b \in Seq(Events) /\ Sound(b, stored, state)
      /\ e \in Events /\ e = q[1] /\ 1 \in DOMAIN q
  BY <1>1, <1>2, <1>3, TailSound
<1>5. (e.kind = "step" => e.step \in 1..stored) /\ (Final(e) => state \in Terminal)
  BY <1>3, <1>4 DEF Sound
<1>6. k \in Nat
  BY <1>1
<1>7. ASSUME Undisturbed
      PROVE  \E f \in 0..Front :
                /\ m = (IF f > n THEN f ELSE n)
                /\ e.kind = "step" =>
                      e.step = f + 1 /\ f + 1 <= Front /\ Feed(b, f + 1, Front, Due, state)
                /\ e.kind # "step" => Feed(b, f, Front, Due, state)
                /\ Final(e) => Due <= f /\ Told(e.state, state)
  <2>1. PICK f \in 0..Front : /\ Feed(q, f, Front, Due, state)
                              /\ m = IF f > n THEN f ELSE n
    BY <1>1, <1>2, <1>7 DEF ViewFits, Resumes
  <2> HIDE DEF b, e
  <2>2. /\ e.kind = "step" =>
              e.step = f + 1 /\ f + 1 <= Front /\ Feed(b, f + 1, Front, Due, state)
        /\ e.kind # "step" => Feed(b, f, Front, Due, state)
        /\ Final(e) => (Due <= f \/ Front < f) /\ Told(e.state, state)
    BY <1>1, <1>2, <2>1, TailFeed DEF b, e
  <2>3. QED
    BY <1>1, <2>1, <2>2
<1> HIDE DEF e
<1>8. /\ rest \in SubRow /\ rest.phase = "follow" /\ rest.queue = b
      /\ rest.backlog = sub[c].backlog /\ rest.seen = n /\ rest.read = sub[c].read
  BY <1>1, <1>2, <1>4 DEF SubRow
<1> HIDE DEF b, rest
<1>9. ASSUME Undisturbed
      PROVE  /\ e.kind = "step" => e.step <= m + 1 /\ (reader => e.step = m + 1)
             /\ Final(e) => Due <= m /\ Told(e.state, state)
             /\ Resumes(rest, k, reader)
  <2>1. PICK f \in 0..Front :
           /\ m = (IF f > n THEN f ELSE n)
           /\ e.kind = "step" =>
                 e.step = f + 1 /\ f + 1 <= Front /\ Feed(b, f + 1, Front, Due, state)
           /\ e.kind # "step" => Feed(b, f, Front, Due, state)
           /\ Final(e) => Due <= f /\ Told(e.state, state)
    BY <1>7, <1>9
  <2>2. /\ e.kind = "step" => e.step <= m + 1 /\ (reader => e.step = m + 1)
        /\ Final(e) => Due <= m /\ Told(e.state, state)
    BY <1>1, <1>2, <2>1
  <2>3. PICK g \in 0..Front : Feed(b, g, Front, Due, state) /\ k = IF g > n THEN g ELSE n
    <3>1. CASE e.kind = "step"
      <4>1. f + 1 \in 0..Front /\ m = f /\ k = f + 1 /\ f + 1 > n
        BY <1>1, <1>2, <2>1, <3>1
      <4>2. QED
        BY <2>1, <3>1, <4>1
    <3>2. CASE e.kind # "step"
      BY <1>1, <2>1, <3>2
    <3>3. QED
      BY <3>1, <3>2
  <2> HIDE DEF k
  <2>4. QED
    BY <1>8, <2>2, <2>3 DEF Resumes
<1>10. /\ rest.phase \in {"replay", "follow"} /\ (rest.phase = "replay" => rest.backlog # <<>>)
       /\ Sound(rest.queue, stored, state) /\ Sound(rest.backlog, stored, state)
       /\ e \in Events /\ Receive(c, e, rest)
  BY <1>1, <1>2, <1>4, <1>8 DEF SubSound
<1>11. QED
  BY <1>1, <1>2, <1>3, <1>5, <1>6, <1>8, <1>9, <1>10, ReceiveKeeps

----------------------------------------------------------------------------
LEMMA InitFits ==
    ASSUME StreamAssumption, Init
    PROVE  StreamInv
<1>1. PICK kind \in [Clients -> {"reader", "cockpit"}] :
         view = [c \in Clients |-> [kind |-> kind[c], steps |-> <<>>, state |-> "none",
                                    status |-> "idle", connects |-> 0]]
  BY DEF Init
<1>2. /\ sub = [c \in Clients |-> NoSub] /\ sub \in [Clients -> SubRow]
      /\ view \in [Clients -> ViewRow]
  BY <1>1, NoSubRow DEF Init, ViewRow
<1>3. RowTypes
  BY DEF Init, RowTypes, RunState, Open, Action, TaskPhase, NoRvw
<1>4. RowFits /\ CleanFits
  BY DEF Init, RowFits, CleanFits, NoRvw, Working, Open
<1>5. ASSUME NEW c \in Clients
      PROVE  SubSound(c) /\ ViewFits(c)
  <2>1. /\ sub[c] = NoSub /\ view[c].steps = <<>> /\ view[c].status = "idle"
    BY <1>1, <1>2
  <2>2. /\ sub[c].phase = "off" /\ sub[c].queue = <<>> /\ sub[c].backlog = <<>>
        /\ sub[c].read = "none" /\ "none" \notin Terminal
    BY <2>1 DEF NoSub, Terminal
  <2>3. Sound(<<>>, stored, state)
    BY DEF Sound
  <2>4. QED
    BY <2>1, <2>2, <2>3 DEF SubSound, ViewFits, Resumes
<1>6. QED
  BY <1>2, <1>3, <1>4, <1>5 DEF StreamInv, TypeOK, RowTypes

LEMMA StutterKeeps ==
    ASSUME StreamInv, UNCHANGED vars
    PROVE  StreamInv'
<1>1. /\ UNCHANGED <<state, stored, acted, task, emitted, posted, rvw, done>>
      /\ sub' = sub /\ view' = view
  BY DEF vars
<1>2. RowTypes' /\ RowFits' /\ Front' = Front /\ Due' = Due
  BY <1>1, RowFacts DEF RowTypes, RowFits, Front, Due
<1>3. Undisturbed' => Undisturbed /\ CleanFits'
  BY <1>1, RowFacts DEF Undisturbed, CleanFits
<1>4. stored <= stored' /\ state' = state
  BY <1>1, RowFacts
<1>5. QED
  BY <1>1, <1>2, <1>3, <1>4, StepsQuietly

LEMMA NextKeeps ==
    ASSUME StreamInv, [Next]_vars
    PROVE  StreamInv'
<1>1. CASE TaskStep
  BY <1>1, MarkRunningKeeps, PublishRunningKeeps, EmitKeeps, GraphEndsKeeps,
     WriterDrainedKeeps, StoreCommitsKeeps, StorePublishesKeeps, FinishKeeps,
     FailCommitsKeeps, FailPublishesKeeps DEF TaskStep
<1>2. CASE WriterStep
  BY <1>2, WriterCommitsKeeps, WriterPublishesKeeps DEF WriterStep
<1>3. CASE RequestStep
  BY <1>3, DecideLoadsKeeps, ConfirmLoadsKeeps, RequestCommitsKeeps, RequestPublishesKeeps,
     ReleasePublishesKeeps DEF RequestStep
<1>4. CASE TaskFault \/ RequestFault \/ CancelRun \/ Restart
  BY <1>4, TaskFaultKeeps, RequestFaultKeeps, CancelRunKeeps, RestartKeeps
<1>5. CASE \E c \in Clients : Connect(c) \/ StreamStep(c) \/ Disconnect(c)
  BY <1>5, ConnectKeeps, DisconnectKeeps, SnapshotRunKeeps, SnapshotStepsKeeps, ReplayKeeps,
     SkipSeenKeeps, FollowKeeps DEF StreamStep
<1>6. CASE UNCHANGED vars
  BY <1>6, StutterKeeps
<1>7. QED
  BY <1>1, <1>2, <1>3, <1>4, <1>5, <1>6 DEF Next

THEOREM Invariance ==
    Spec => []StreamInv
<1>1. Init => StreamInv
  BY InitFits, StreamAssumption
<1>2. StreamInv /\ [Next]_vars => StreamInv'
  BY NextKeeps
<1>3. QED
  BY <1>1, <1>2, PTL DEF Spec

----------------------------------------------------------------------------
(* The rows, the queues and the clients keep their shapes.                 *)
THEOREM StreamTypes ==
    Spec => []TypeOK
<1>1. StreamInv => TypeOK
  BY DEF StreamInv
<1>2. QED
  BY <1>1, Invariance, PTL

(* Whatever is cancelled, fails, restarts or reconnects, no client is ever *)
(* shown a step that the trace does not have: every publication comes      *)
(* after its commit, and no commit takes a step away.                      *)
THEOREM OnlyCommittedIsShown ==
    Spec => []OnlyCommitted
<1>1. StreamInv => OnlyCommitted
  BY DEF StreamInv, SubSound, OnlyCommitted
<1>2. QED
  BY <1>1, Invariance, PTL

(* In a run that nothing disturbs every client, whenever it joined and     *)
(* however often the cockpit reconnected, has the trace in order, without  *)
(* a gap or a repetition.                                                  *)
THEOREM TraceIsInOrder ==
    Spec => []TraceInOrder
<1>1. StreamInv => TraceInOrder
  BY DEF StreamInv, ViewFits, TraceInOrder
<1>2. QED
  BY <1>1, Invariance, PTL

(* A stream that ended told its client the truth: the run is over, and, if *)
(* nothing disturbed it, the client has every step the task persisted and  *)
(* the state of the row.                                                   *)
THEOREM EndedClientsSawAll ==
    Spec => []EndedSawAll
<1>1. ASSUME StreamInv
      PROVE  EndedSawAll
  <2> SUFFICES ASSUME NEW c \in Clients, view[c].status = "closed"
               PROVE  /\ state \in Terminal
                      /\ Undisturbed =>
                           /\ (1..emitted) \cap (1..stored) \subseteq
                                {view[c].steps[i] : i \in DOMAIN view[c].steps}
                           /\ \/ view[c].state = state
                              \/ view[c].state = "awaiting_review" /\ state = "complete"
    BY DEF EndedSawAll
  <2>1. /\ SubSound(c) /\ (Undisturbed => ViewFits(c)) /\ Len(view[c].steps) \in Nat
        /\ DOMAIN view[c].steps = 1..Len(view[c].steps)
        /\ stored \in Nat /\ emitted \in Nat
    BY <1>1, ClientFacts, RowFacts
  <2>2. state \in Terminal
    BY <2>1 DEF SubSound
  <2>3. ASSUME Undisturbed
        PROVE  /\ (1..emitted) \cap (1..stored) \subseteq
                     {view[c].steps[i] : i \in DOMAIN view[c].steps}
               /\ Told(view[c].state, state)
    <3>1. /\ \A i \in DOMAIN view[c].steps : view[c].steps[i] = i
          /\ Due <= Len(view[c].steps) /\ Told(view[c].state, state)
      BY <2>1, <2>3 DEF ViewFits
    <3>2. \A i \in (1..emitted) \cap (1..stored) : i \in DOMAIN view[c].steps
      BY <2>1, <3>1 DEF Due
    <3>3. QED
      BY <3>1, <3>2
  <2>4. QED
    BY <2>2, <2>3 DEF Told
<1>2. QED
  BY <1>1, Invariance, PTL

----------------------------------------------------------------------------
(* Who is still waiting when the run's task has ended.                     *)

Says(q) == \E i \in DOMAIN q : q[i].kind = "done"

(* The end is on its way to client c: in its queue, in its backlog, or in  *)
(* the row that its snapshot is still to read, or has read.                *)
EndIsDue(c) ==
    \/ sub[c].phase = "joined" /\ sub[c].read \in {"none"} \cup Terminal
    \/ sub[c].phase = "replay" /\ Says(sub[c].backlog)
    \/ Says(sub[c].queue)

(* No client of an undisturbed run waits for an end that is past.          *)
NobodyWaitsInVain ==
    Undisturbed /\ task.phase = "ended" =>
        /\ state \in Terminal
        /\ \A c \in Clients : view[c].status = "live" => EndIsDue(c)

(* A client that listens is registered.                                    *)
Registered == \A c \in Clients : view[c].status = "live" => sub[c].phase # "off"

EndInv ==
    /\ Registered
    /\ Undisturbed /\ task.phase = "ended" =>
          state \in Terminal /\ \A c \in Clients : sub[c].phase # "off" => EndIsDue(c)

LEMMA ConcatSays ==
    ASSUME NEW p \in Seq(Events), NEW q \in Seq(Events), Says(p) \/ Says(q)
    PROVE  Says(p \o q)
<1>1. /\ Len(p) \in Nat /\ Len(q) \in Nat
      /\ DOMAIN p = 1..Len(p) /\ DOMAIN q = 1..Len(q)
      /\ DOMAIN (p \o q) = 1..(Len(p) + Len(q))
  BY ConcatProperties, LenProperties
<1>2. CASE Says(p)
  <2>1. PICK i \in DOMAIN p : p[i].kind = "done"
    BY <1>2 DEF Says
  <2>2. i \in DOMAIN (p \o q) /\ (p \o q)[i] = p[i]
    BY <1>1, ConcatProperties
  <2> QED
    BY <2>1, <2>2 DEF Says
<1>3. CASE Says(q)
  <2>1. PICK i \in DOMAIN q : q[i].kind = "done"
    BY <1>3 DEF Says
  <2>2. Len(p) + i \in 1..(Len(p) + Len(q)) /\ ~(Len(p) + i <= Len(p)) /\ (Len(p) + i) - Len(p) = i
    BY <1>1
  <2>3. (p \o q)[Len(p) + i] = q[i]
    BY <1>1, <2>2, ConcatProperties
  <2> QED
    BY <1>1, <2>1, <2>2, <2>3 DEF Says
<1> QED
  BY <1>2, <1>3

LEMMA TailSays ==
    ASSUME NEW q \in Seq(Events), q # <<>>, Says(q), Head(q).kind # "done"
    PROVE  Says(Tail(q)) /\ Tail(q) # <<>>
<1>1. /\ Tail(q) \in Seq(Events) /\ Len(Tail(q)) = Len(q) - 1 /\ Len(q) \in Nat \ {0}
      /\ DOMAIN Tail(q) = 1..Len(Tail(q)) /\ DOMAIN q = 1..Len(q)
      /\ \A i \in 1..Len(Tail(q)) : Tail(q)[i] = q[i + 1]
  BY HeadTailProperties, LenProperties, EmptySeq
<1>2. Head(q) = q[1]
  OBVIOUS
<1>3. PICK i \in 1..Len(q) : q[i].kind = "done"
  BY <1>1 DEF Says
<1>4. i # 1
  BY <1>2, <1>3
<1>5. i - 1 \in 1..Len(Tail(q)) /\ Tail(q)[i - 1] = q[i]
  BY <1>1, <1>4
<1>6. Tail(q) # <<>>
  <2>1. Len(Tail(q)) # 0
    BY <1>1, <1>5
  <2> QED
    BY <1>1, <2>1, EmptySeq
<1> QED
  BY <1>1, <1>3, <1>5, <1>6 DEF Says

LEMMA StepsAreEvents ==
    ASSUME NEW a \in Nat, NEW b \in Nat, a <= b
    PROVE  StepEvents(a, b) \in Seq(Events)
<1>1. \A i \in 1..(b - a) : StepEvent(a + i) \in Events
  BY DEF StepEvent, Event, Events
<1> QED
  BY <1>1, IsASeq DEF StepEvents

(* What is published reaches every registered queue.                       *)
LEMMA PublishKeepsEnd ==
    ASSUME sub \in [Clients -> SubRow], NEW es \in Seq(Events), Publish(es),
           NEW c \in Clients
    PROVE  /\ sub'[c].phase = sub[c].phase
           /\ EndIsDue(c) => EndIsDue(c)'
           /\ sub[c].phase # "off" /\ Says(es) => EndIsDue(c)'
<1>1. CASE sub[c].phase = "off"
  <2>1. sub'[c] = sub[c]
    BY <1>1 DEF Publish
  <2> QED
    BY <1>1, <2>1 DEF EndIsDue
<1>2. CASE sub[c].phase # "off"
  <2>1. sub'[c] = [sub[c] EXCEPT !.queue = @ \o es] /\ sub[c] \in SubRow
    BY <1>2 DEF Publish
  <2>2. /\ sub'[c].phase = sub[c].phase /\ sub'[c].read = sub[c].read
        /\ sub'[c].backlog = sub[c].backlog /\ sub'[c].queue = sub[c].queue \o es
        /\ sub[c].queue \in Seq(Events)
    BY <2>1 DEF SubRow
  <2>3. Says(sub[c].queue) \/ Says(es) => Says(sub'[c].queue)
    BY <2>2, ConcatSays
  <2> QED
    BY <2>2, <2>3 DEF EndIsDue
<1> QED
  BY <1>1, <1>2

(* The steps of the task, the writer and the requests.                     *)
LEMMA ServerKeepsEnd ==
    ASSUME StreamInv, EndInv, TaskStep \/ WriterStep \/ RequestStep
    PROVE  EndInv'
<1>0. /\ sub \in [Clients -> SubRow] /\ state \in RunState /\ RowFits /\ RowTypes
      /\ task \in [phase : TaskPhase, res : Result \cup {"none"}, act : Action]
      /\ emitted \in Nat /\ posted \in Nat
  BY RowFacts DEF StreamInv, TypeOK
<1>1. view' = view
  BY DEF TaskStep, WriterStep, RequestStep, MarkRunning, PublishRunning, Emit, GraphEnds,
         WriterDrained, StoreCommits, StorePublishes, Finish, FailCommits, FailPublishes,
         WriterCommits, WriterPublishes, DecideLoads, ConfirmLoads, RequestCommits,
         RequestPublishes, ReleasePublishes
<1>2. ASSUME NEW es \in Seq(Events), Publish(es), state' = state, done' = done,
             task' = task \/ task'.phase # "ended" \/ (Says(es) /\ state \in Terminal)
      PROVE  EndInv'
  <2>1. \A c \in Clients :
           /\ sub'[c].phase = sub[c].phase
           /\ EndIsDue(c) => EndIsDue(c)'
           /\ sub[c].phase # "off" /\ Says(es) => EndIsDue(c)'
    BY <1>0, <1>2, PublishKeepsEnd
  <2> QED
    BY <1>1, <1>2, <2>1 DEF EndInv, Registered, Undisturbed
<1>3. ASSUME sub' = sub, task'.phase # "ended" \/ (task' = task /\ task.phase # "ended")
      PROVE  EndInv'
  BY <1>1, <1>3 DEF EndInv, Registered
<1>4. ASSUME sub' = sub, task' = task, state' = state \/ state' \in Terminal,
             Undisturbed' => Undisturbed
      PROVE  EndInv'
  BY <1>1, <1>4 DEF EndInv, Registered, EndIsDue
<1>5. CASE MarkRunning \/ Emit \/ WriterDrained \/ StoreCommits \/ FailCommits
           \/ \E res \in Result \cup {"none"} : GraphEnds(res)
  <2>1. sub' = sub /\ task'.phase # "ended"
    BY <1>0, <1>5 DEF MarkRunning, Emit, WriterDrained, StoreCommits, FailCommits, GraphEnds,
                      TaskGoes
  <2> QED
    BY <1>3, <2>1
<1>6. CASE PublishRunning
  <2>1. /\ <<StateEvent("running")>> \in Seq(Events)
        /\ Publish(<<StateEvent("running")>>) /\ state' = state /\ done' = done
        /\ task'.phase # "ended"
    BY <1>0, <1>6 DEF PublishRunning, TaskGoes, StateEvent, Event, Events, RunState, Open
  <2> QED
    BY <1>2, <2>1
<1>7. CASE StorePublishes
  <2> DEFINE e == StateEvent(task.res)
             es == Append(StepEvents(posted, emitted), e)
  <2>1. task.phase = "stored" /\ task.res \in Result /\ posted <= emitted
    BY <1>0, <1>7 DEF StorePublishes, RowFits
  <2>2. e \in Events
    BY <2>1 DEF StateEvent, Event, Events, RunState, Result, Terminal
  <2>3. StepEvents(posted, emitted) \in Seq(Events)
    BY <1>0, <2>1, StepsAreEvents
  <2> HIDE DEF e
  <2>4. es \in Seq(Events)
    BY <2>2, <2>3, AppendProperties
  <2>5. Publish(es) /\ state' = state /\ done' = done /\ task'.phase # "ended"
    BY <1>0, <1>7 DEF StorePublishes, TaskGoes, e
  <2> HIDE DEF es
  <2> QED
    BY <1>2, <2>4, <2>5
<1>8. CASE Finish
  <2>1. /\ task.res \in Result /\ state \in Terminal
        /\ Publish(<<DoneEvent(task.res)>>) /\ state' = state /\ done' = done
    BY <1>0, <1>8 DEF Finish, RowFits
  <2>2. <<DoneEvent(task.res)>> \in Seq(Events) /\ Says(<<DoneEvent(task.res)>>)
    BY <2>1 DEF DoneEvent, Event, Events, RunState, Result, Terminal, Says
  <2> QED
    BY <1>2, <2>1, <2>2
<1>9. CASE FailPublishes
  <2> DEFINE es == <<StateEvent("failed"), DoneEvent("failed")>>
  <2>1. state \in Terminal /\ Publish(es) /\ state' = state /\ done' = done
    BY <1>0, <1>9 DEF FailPublishes, RowFits
  <2>2. es \in Seq(Events)
    BY DEF StateEvent, DoneEvent, Event, Events, RunState, Terminal
  <2>3. Says(es)
    <3>1. 2 \in DOMAIN es /\ es[2].kind = "done"
      BY DEF DoneEvent, Event
    <3> QED
      BY <3>1 DEF Says
  <2> HIDE DEF es
  <2> QED
    BY <1>2, <2>1, <2>2, <2>3
<1>10. CASE WriterCommits
  BY <1>4, <1>10 DEF WriterCommits, Undisturbed
<1>11. CASE WriterPublishes
  <2>1. /\ <<StepEvent(stored)>> \in Seq(Events)
        /\ Publish(<<StepEvent(stored)>>) /\ state' = state /\ done' = done /\ task' = task
    BY <1>0, <1>11 DEF WriterPublishes, StepEvent, Event, Events, RowTypes
  <2> QED
    BY <1>2, <2>1
<1>12. CASE \E act \in Action : DecideLoads(act) \/ ConfirmLoads(act)
  <2>1. sub' = sub /\ task' = task /\ state' = state
    BY <1>12 DEF DecideLoads, ConfirmLoads
  <2>2. PICK k \in {0, 1} :
           \/ done' = [done EXCEPT !.faults = @ + k]
           \/ done' = [done EXCEPT !.confirms = @ + 1, !.faults = @ + k]
    BY <1>12 DEF DecideLoads, ConfirmLoads, Faults, Failures
  <2>3. done'.cancels = done.cancels /\ done'.faults = done.faults + k
    BY <1>0, <2>2 DEF RowTypes
  <2>4. Undisturbed' => Undisturbed
    BY <1>0, <2>3 DEF Undisturbed, RowTypes
  <2> QED
    BY <1>4, <2>1, <2>4
<1>13. CASE RequestCommits
  BY <1>4, <1>13 DEF RequestCommits, Undisturbed, Terminal
<1>14. CASE RequestPublishes
  <2> DEFINE e == StateEvent("complete")
             es == Append(StepEvents(rvw.from, rvw.to), e)
  <2>1. rvw.from \in Nat /\ rvw.to \in Nat /\ rvw.from <= rvw.to
    BY <1>0, <1>14 DEF RequestPublishes, RowFits, RowTypes
  <2>2. e \in Events
    BY DEF StateEvent, Event, Events, RunState, Terminal
  <2>3. StepEvents(rvw.from, rvw.to) \in Seq(Events)
    BY <2>1, StepsAreEvents
  <2> HIDE DEF e
  <2>4. es \in Seq(Events)
    BY <2>2, <2>3, AppendProperties
  <2>5. Publish(es) /\ state' = state /\ done' = done /\ task' = task
    BY <1>14 DEF RequestPublishes, e
  <2> HIDE DEF es
  <2> QED
    BY <1>2, <2>4, <2>5
<1>15. CASE ReleasePublishes
  <2> DEFINE es == <<StateEvent("complete"), DoneEvent("complete")>>
  <2>1. Publish(es) /\ state' = state /\ done' = done /\ task' = task
    BY <1>15 DEF ReleasePublishes
  <2>2. es \in Seq(Events)
    BY DEF StateEvent, DoneEvent, Event, Events, RunState, Terminal
  <2> HIDE DEF es
  <2> QED
    BY <1>2, <2>1, <2>2
<1> QED
  BY <1>5, <1>6, <1>7, <1>8, <1>9, <1>10, <1>11, <1>12, <1>13, <1>14, <1>15
     DEF TaskStep, WriterStep, RequestStep

(* A cancellation and an exception disturb the run; a restart leaves no    *)
(* stream.                                                                 *)
LEMMA DisturbanceKeepsEnd ==
    ASSUME StreamInv, EndInv, TaskFault \/ RequestFault \/ CancelRun \/ Restart
    PROVE  EndInv'
<1>0. /\ done \in [cancels : Nat, restarts : Nat, confirms : Nat, faults : Nat]
      /\ state \in RunState
      /\ view \in [Clients -> ViewRow]
  BY DEF StreamInv, TypeOK
<1>1. CASE TaskFault \/ RequestFault \/ CancelRun
  <2>1. ~Undisturbed'
    BY <1>0, <1>1 DEF TaskFault, RequestFault, CancelRun, Faults, Undisturbed
  <2>2. sub' = sub /\ view' = view
    BY <1>1 DEF TaskFault, RequestFault, CancelRun
  <2> QED
    BY <2>1, <2>2 DEF EndInv, Registered
<1>2. CASE Restart
  <2>1. /\ \A c \in Clients : sub'[c].phase = "off"
        /\ state' \in Terminal
    BY <1>0, <1>2 DEF Restart, NoSub, Terminal, RunState, Open
  <2>2. \A c \in Clients : view'[c].status # "live"
    BY <1>0, <1>2 DEF Restart, ViewRow
  <2> QED
    BY <2>1, <2>2 DEF EndInv, Registered
<1> QED
  BY <1>1, <1>2

(* Steps of one client.                                                    *)
LEMMA OneClientKeepsEnd ==
    ASSUME EndInv, NEW c \in Clients, UNCHANGED <<state, task, done>>,
           \A d \in Clients : d # c => sub'[d] = sub[d] /\ view'[d] = view[d],
           view'[c].status = "live" => sub'[c].phase # "off",
           Undisturbed /\ task.phase = "ended" /\ sub'[c].phase # "off" => EndIsDue(c)'
    PROVE  EndInv'
<1>1. Undisturbed' <=> Undisturbed
  BY DEF Undisturbed
<1>2. \A d \in Clients : d # c => (EndIsDue(d)' <=> EndIsDue(d))
  BY DEF EndIsDue
<1> QED
  BY <1>1, <1>2 DEF EndInv, Registered

LEMMA DisconnectKeepsEnd ==
    ASSUME StreamInv, EndInv, NEW c \in Clients, Disconnect(c)
    PROVE  EndInv'
<1>1. /\ UNCHANGED <<state, task, done>>
      /\ \A d \in Clients : d # c => sub'[d] = sub[d] /\ view'[d] = view[d]
      /\ sub'[c] = NoSub /\ view'[c].status = "idle"
  BY ClientFacts DEF Disconnect, ViewRow
<1> QED
  BY <1>1, OneClientKeepsEnd DEF NoSub

LEMMA ConnectKeepsEnd ==
    ASSUME StreamInv, EndInv, NEW c \in Clients, Connect(c)
    PROVE  EndInv'
<1>1. /\ UNCHANGED <<state, task, done>>
      /\ \A d \in Clients : d # c => sub'[d] = sub[d] /\ view'[d] = view[d]
      /\ sub'[c].phase = "joined" /\ sub'[c].read = "none"
  BY ClientFacts DEF Connect, NoSub
<1> QED
  BY <1>1, OneClientKeepsEnd DEF EndIsDue

LEMMA SnapshotRunKeepsEnd ==
    ASSUME StreamInv, EndInv, NEW c \in Clients, SnapshotRun(c)
    PROVE  EndInv'
<1>1. /\ UNCHANGED <<state, task, done, view>>
      /\ \A d \in Clients : d # c => sub'[d] = sub[d]
      /\ sub'[c].phase = "joined" /\ sub'[c].read = state
  BY ClientFacts DEF SnapshotRun, SubRow
<1>2. Undisturbed /\ task.phase = "ended" => state \in Terminal
  BY DEF EndInv
<1> QED
  BY <1>1, <1>2, OneClientKeepsEnd DEF EndIsDue

(* The backlog of a row that has settled says so.                          *)
LEMMA BacklogSays ==
    ASSUME NEW s \in Terminal, NEW n \in Nat
    PROVE  Says(Backlog(s, n))
<1> DEFINE w == <<Event("snapshot", 0, s)>>
           p == StepEvents(0, n)
           r == w \o p
           z == <<DoneEvent(s)>>
<1>1. w \in Seq(Events) /\ z \in Seq(Events) /\ Says(z)
  BY DEF DoneEvent, Event, Events, RunState, Says
<1>2. p \in Seq(Events)
  BY StepsAreEvents
<1>3. Backlog(s, n) = r \o z
  BY DEF Backlog
<1> HIDE DEF w, p, z
<1>4. r \in Seq(Events)
  BY <1>1, <1>2, ConcatProperties
<1> HIDE DEF r
<1> QED
  BY <1>1, <1>3, <1>4, ConcatSays

LEMMA SnapshotStepsKeepsEnd ==
    ASSUME StreamInv, EndInv, NEW c \in Clients, SnapshotSteps(c)
    PROVE  EndInv'
<1> DEFINE b == Backlog(sub[c].read, stored)
           r == [sub[c] EXCEPT !.phase = "replay", !.seen = stored, !.backlog = b]
<1>1. /\ sub \in [Clients -> SubRow] /\ sub[c] \in SubRow /\ stored \in Nat
      /\ sub[c].phase = "joined" /\ sub[c].read # "none"
      /\ UNCHANGED <<state, task, done, view>>
  BY ClientFacts, RowFacts DEF SnapshotSteps
<1>2. sub' = [sub EXCEPT ![c] = r]
  BY <1>1 DEF SnapshotSteps
<1>3. sub[c].read \in Terminal => Says(b)
  BY <1>1, BacklogSays
<1> HIDE DEF b
<1>4. r.phase = "replay" /\ r.queue = sub[c].queue /\ r.backlog = b
  BY <1>1 DEF SubRow
<1> HIDE DEF r
<1>5. sub'[c] = r /\ \A d \in Clients : d # c => sub'[d] = sub[d]
  BY <1>1, <1>2
<1>6. Undisturbed /\ task.phase = "ended" => EndIsDue(c)
  BY <1>1 DEF EndInv
<1>7. Undisturbed /\ task.phase = "ended" => EndIsDue(c)'
  BY <1>1, <1>3, <1>4, <1>5, <1>6 DEF EndIsDue
<1> QED
  BY <1>1, <1>4, <1>5, <1>7, OneClientKeepsEnd

(* A client that is given anything but the end still has it coming.        *)
LEMMA ReceiveKeepsEnd ==
    ASSUME StreamInv, EndInv, NEW c \in Clients, NEW e \in Events, NEW rest,
           UNCHANGED <<state, task, done>>, Receive(c, e, rest), rest.phase # "off",
           Undisturbed /\ task.phase = "ended" /\ e.kind # "done" =>
              (rest.phase = "replay" /\ Says(rest.backlog)) \/ Says(rest.queue)
    PROVE  EndInv'
<1>0. sub \in [Clients -> SubRow] /\ view \in [Clients -> ViewRow] /\ Applied(c, e) \in ViewRow
  BY ClientFacts, AppliedShows
<1>1. CASE Ends(c, e)
  <2>1. /\ sub' = [sub EXCEPT ![c] = NoSub]
        /\ view' = [view EXCEPT ![c] = [Applied(c, e) EXCEPT !.status = "closed"]]
    BY <1>1 DEF Receive
  <2>2. /\ \A d \in Clients : d # c => sub'[d] = sub[d] /\ view'[d] = view[d]
        /\ sub'[c].phase = "off" /\ view'[c].status = "closed"
    BY <1>0, <2>1 DEF NoSub, ViewRow
  <2> QED
    BY <2>2, OneClientKeepsEnd
<1>2. CASE ~Ends(c, e)
  <2>1. sub' = [sub EXCEPT ![c] = rest] /\ view' = [view EXCEPT ![c] = Applied(c, e)]
    BY <1>2 DEF Receive
  <2>2. /\ \A d \in Clients : d # c => sub'[d] = sub[d] /\ view'[d] = view[d]
        /\ sub'[c] = rest
    BY <1>0, <2>1
  <2>3. e.kind # "done"
    BY <1>2 DEF Ends
  <2> QED
    BY <2>2, <2>3, OneClientKeepsEnd DEF EndIsDue
<1> QED
  BY <1>1, <1>2

LEMMA ReplayKeepsEnd ==
    ASSUME StreamInv, EndInv, NEW c \in Clients, Replay(c)
    PROVE  EndInv'
<1> DEFINE q == sub[c].backlog
           b == Tail(q)
           p == IF b = <<>> THEN "follow" ELSE "replay"
           rest == [sub[c] EXCEPT !.backlog = b, !.phase = p]
<1>1. /\ sub[c] \in SubRow /\ q \in Seq(Events) /\ q # <<>> /\ sub[c].phase = "replay"
      /\ UNCHANGED <<state, task, done>> /\ Receive(c, Head(q), rest)
  BY ClientFacts DEF Replay, SubSound, SubRow
<1>2. Head(q) \in Events
  BY <1>1, HeadTailProperties
<1>3. /\ rest.phase = p /\ rest.backlog = b /\ rest.queue = sub[c].queue
  <2> HIDE DEF b, p
  <2> QED
    BY <1>1 DEF SubRow
<1>4. ASSUME Undisturbed, task.phase = "ended", Head(q).kind # "done"
      PROVE  (p = "replay" /\ Says(b)) \/ Says(sub[c].queue)
  <2>1. Says(q) \/ Says(sub[c].queue)
    BY <1>1, <1>4 DEF EndInv, EndIsDue
  <2>2. Says(q) => Says(b) /\ b # <<>>
    BY <1>1, <1>4, TailSays
  <2> QED
    BY <2>1, <2>2
<1> HIDE DEF rest
<1> QED
  BY <1>1, <1>2, <1>3, <1>4, ReceiveKeepsEnd

LEMMA SkipSeenKeepsEnd ==
    ASSUME StreamInv, EndInv, NEW c \in Clients, SkipSeen(c)
    PROVE  EndInv'
<1> DEFINE q == sub[c].queue
<1>1. /\ sub[c] \in SubRow /\ q \in Seq(Events) /\ q # <<>> /\ sub[c].phase = "follow"
      /\ UNCHANGED <<state, task, done, view>> /\ Head(q).kind # "done"
      /\ \A d \in Clients : d # c => sub'[d] = sub[d]
      /\ sub'[c].phase = "follow" /\ sub'[c].queue = Tail(q)
  BY ClientFacts DEF SkipSeen, SubRow
<1>2. ASSUME Undisturbed, task.phase = "ended"
      PROVE  Says(Tail(q))
  <2>1. Says(q)
    BY <1>1, <1>2 DEF EndInv, EndIsDue
  <2> QED
    BY <1>1, <2>1, TailSays
<1> QED
  BY <1>1, <1>2, OneClientKeepsEnd DEF EndIsDue

LEMMA FollowKeepsEnd ==
    ASSUME StreamInv, EndInv, NEW c \in Clients, Follow(c)
    PROVE  EndInv'
<1> DEFINE q == sub[c].queue
           rest == [sub[c] EXCEPT !.queue = Tail(@)]
<1>1. /\ sub[c] \in SubRow /\ q \in Seq(Events) /\ q # <<>> /\ sub[c].phase = "follow"
      /\ UNCHANGED <<state, task, done>> /\ Receive(c, Head(q), rest)
  BY ClientFacts DEF Follow, SubRow
<1>2. Head(q) \in Events
  BY <1>1, HeadTailProperties
<1>3. rest.phase = "follow" /\ rest.queue = Tail(q)
  BY <1>1 DEF SubRow
<1>4. ASSUME Undisturbed, task.phase = "ended", Head(q).kind # "done"
      PROVE  Says(Tail(q))
  <2>1. Says(q)
    BY <1>1, <1>4 DEF EndInv, EndIsDue
  <2> QED
    BY <1>1, <1>4, <2>1, TailSays
<1> HIDE DEF rest
<1> QED
  BY <1>1, <1>2, <1>3, <1>4, ReceiveKeepsEnd

LEMMA NextKeepsEnd ==
    ASSUME StreamInv, EndInv, [Next]_vars
    PROVE  EndInv'
<1>1. CASE TaskStep \/ WriterStep \/ RequestStep
  BY <1>1, ServerKeepsEnd
<1>2. CASE TaskFault \/ RequestFault \/ CancelRun \/ Restart
  BY <1>2, DisturbanceKeepsEnd
<1>3. CASE \E c \in Clients : Connect(c) \/ StreamStep(c) \/ Disconnect(c)
  BY <1>3, ConnectKeepsEnd, DisconnectKeepsEnd, SnapshotRunKeepsEnd, SnapshotStepsKeepsEnd,
     ReplayKeepsEnd, SkipSeenKeepsEnd, FollowKeepsEnd DEF StreamStep
<1>4. CASE UNCHANGED vars
  BY <1>4 DEF vars, EndInv, Registered, EndIsDue, Undisturbed
<1> QED
  BY <1>1, <1>2, <1>3, <1>4 DEF Next

(* When the task of an undisturbed run has ended, its row is settled and   *)
(* every client still listening has the end of its stream coming to it, in *)
(* its queue, its backlog or the row it is about to read: no client waits  *)
(* for a publication that is past (subscribe before snapshot).  StreamsEnd *)
(* rests on it.                                                            *)
THEOREM NobodyIsStranded ==
    Spec => []NobodyWaitsInVain
<1>1. Init => EndInv
  <2> SUFFICES ASSUME Init PROVE EndInv
    OBVIOUS
  <2>1. task.phase = "created" /\ \A c \in Clients : view[c].status = "idle"
    BY DEF Init
  <2> QED
    BY <2>1 DEF EndInv, Registered
<1>2. StreamInv /\ EndInv /\ [Next]_vars => EndInv'
  BY NextKeepsEnd
<1>3. EndInv => NobodyWaitsInVain
  BY DEF EndInv, Registered, NobodyWaitsInVain
<1> QED
  BY <1>1, <1>2, <1>3, Invariance, PTL DEF Spec
=============================================================================
