-------------------------- MODULE SapGateway_proofs --------------------------
(***************************************************************************)
(* Theorems about SapGateway for every number of concurrent calls, every   *)
(* set of vendors and every number of attempts.                            *)
(***************************************************************************)
EXTENDS SapGateway, TLAPS

(* The requests that the round before the retry may have used up.          *)
Spent(call) == IF call.retried THEN MaxAttempts ELSE 0

(* The requests of the present round, for the phases that count them.      *)
SendsFit(call) ==
    /\ call.phase \in {"idle", "auth", "lock", "post"} => call.sends <= Spent(call)
    /\ call.phase = "send" => call.sends <= Spent(call) + call.tries
    /\ call.sends <= Spent(call) + MaxAttempts

PostsFit(call) ==
    /\ call.phase \in {"idle", "auth", "lock"} => call.posts <= Spent(call)
    /\ call.phase = "post" => call.posts <= Spent(call) + call.tries
    /\ call.posts <= Spent(call) + MaxAttempts

(* What was refused was issued and is neither cached nor sent again.       *)
TokensFit(call) ==
    config.mode = "live" =>
        /\ call.phase = "send" => call.token \in 1..issued
        /\ call.refused \subseteq 1..issued
        /\ call.phase \notin {"done", "failed"} =>
              /\ ~call.retried => call.refused = {}
              /\ token \notin call.refused
              /\ call.phase = "send" => call.token \notin call.refused
              /\ config.authorised /\ call.retried => call.refused # {}
        /\ config.authorised /\ call.why = "auth" =>
              \E t, u \in call.refused : t # u

AnswerFits(call) ==
    call.phase = "done" /\ call.op # "read" =>
        /\ call.applied
        /\ call.answer.block = call.blocked
        /\ call.op = "status" \/ call.blocked =>
              (call.answer.status = "blocked") = call.blocked

CallFits(call) ==
    /\ call \in Call /\ call.tries < MaxAttempts
    /\ call.phase \in {"idle", "auth", "lock"} => call.tries = 0
    /\ call.phase \notin {"done", "failed"} => call.why = "none"
    /\ call.phase \in {"lock", "post"} => config.mode = "live" /\ config.configured
    /\ call.phase = "send" => config.mode # "stub" /\ config.configured
    /\ ~config.configured => call.sends = 0 /\ call.posts = 0
    /\ SendsFit(call) /\ PostsFit(call) /\ TokensFit(call) /\ AnswerFits(call)

LockFits ==
    \A c \in Callers : (At(c, "post") <=> holder = c) /\ (At(c, "post") => ~Usable)

StubFits == \A v \in Vendors : stub[v].block => stub[v].status = "blocked"

GInv == TypeOK /\ LockFits /\ StubFits /\ \A c \in Callers : CallFits(calls[c])

-----------------------------------------------------------------------------
(* The cached token only changes to none or to one that nobody was refused. *)
TokenMoves ==
    /\ issued' \in Nat /\ issued' >= issued
    /\ token' \in {token, 0} \/ token' = issued + 1

LEMMA CallStays ==
    ASSUME GInv, config' = config, TokenMoves
    PROVE  \A call \in Call : CallFits(call) => CallFits(call)'
<1> SUFFICES ASSUME NEW call \in Call, CallFits(call) PROVE CallFits(call)'
  OBVIOUS
<1>1. issued \in Nat /\ MaxAttempts \in Nat
  BY SapAssumption DEF GInv, TypeOK
<1>2. TokensFit(call)'
  BY <1>1 DEF CallFits, TokensFit, TokenMoves
<1> QED
  BY <1>2 DEF CallFits, SendsFit, PostsFit, AnswerFits, Spent

(* One call moves; the lock and the tenant are looked at by the action.    *)
LEMMA CallMoves ==
    ASSUME GInv, NEW c \in Callers, NEW call, CallFits(call)', Becomes(c, call),
           config' = config, TokenMoves
    PROVE  /\ calls' \in [Callers -> Call]
           /\ calls'[c] = call
           /\ \A d \in Callers \ {c} : calls'[d] = calls[d]
           /\ \A d \in Callers : CallFits(calls[d])'
           /\ \A d \in Callers : calls'[d].tries < MaxAttempts
<1>1. calls' = [calls EXCEPT ![c] = call] /\ calls \in [Callers -> Call]
  BY DEF Becomes, GInv, TypeOK
<1>2. call \in Call
  BY DEF CallFits
<1>3. calls' \in [Callers -> Call]
  BY <1>1, <1>2
<1>4. calls'[c] = call /\ \A d \in Callers \ {c} : calls'[d] = calls[d]
  BY <1>1
<1>5. \A d \in Callers : CallFits(calls[d])'
  BY <1>1, <1>4, CallStays DEF GInv
<1> QED
  BY <1>3, <1>4, <1>5 DEF CallFits

(* A call leaves the token endpoint, or was not there.                     *)
LEMMA LockMoves ==
    ASSUME GInv, NEW c \in Callers, NEW call \in Call, Becomes(c, call), Release(c),
           call.phase # "post", Usable' => Usable \/ At(c, "post")
    PROVE  LockFits' /\ holder' \in Callers \cup {Nobody}
<1>1. /\ calls'[c] = call /\ \A d \in Callers \ {c} : calls'[d] = calls[d]
      /\ LockFits /\ holder \in Callers \cup {Nobody} /\ Nobody \notin Callers
  BY SapAssumption DEF GInv, TypeOK, Becomes
<1> QED
  BY <1>1 DEF LockFits, At, Release

(* A call stays at or away from the token endpoint.                        *)
LEMMA LockStays ==
    ASSUME GInv, NEW c \in Callers, NEW call \in Call, Becomes(c, call), holder' = holder,
           call.phase = "post" <=> calls[c].phase = "post", Usable' => Usable
    PROVE  LockFits' /\ holder' \in Callers \cup {Nobody}
<1>1. /\ calls'[c] = call /\ \A d \in Callers \ {c} : calls'[d] = calls[d]
      /\ LockFits /\ holder \in Callers \cup {Nobody}
  BY DEF GInv, TypeOK, Becomes
<1> QED
  BY <1>1 DEF LockFits, At

LEMMA RequestedFacts ==
    ASSUME NEW call \in Call, call.phase \in {"post", "send"}
    PROVE  LET n == Requested(call)
           IN  /\ n \in Call /\ n.op = call.op /\ n.vendor = call.vendor
               /\ n.blocked = call.blocked /\ n.phase = call.phase /\ n.why = call.why
               /\ n.token = call.token /\ n.tries = call.tries /\ n.retried = call.retried
               /\ n.refused = call.refused /\ n.applied = call.applied
               /\ n.answer = call.answer
               /\ call.phase = "post" => n.posts = call.posts + 1 /\ n.sends = call.sends
               /\ call.phase = "send" => n.sends = call.sends + 1 /\ n.posts = call.posts
<1>1. CASE call.phase = "post"
  <2> DEFINE posts == call.posts + 1
             n     == [call EXCEPT !.posts = posts]
  <2>1. posts \in Nat
    BY DEF Call
  <2>2. Requested(call) = n
    BY <1>1 DEF Requested
  <2>3. call.posts + 1 = posts
    OBVIOUS
  <2> HIDE DEF posts
  <2>4. /\ n \in Call /\ n.op = call.op /\ n.vendor = call.vendor
        /\ n.blocked = call.blocked /\ n.phase = call.phase /\ n.why = call.why
        /\ n.token = call.token /\ n.tries = call.tries /\ n.retried = call.retried
        /\ n.refused = call.refused /\ n.applied = call.applied
        /\ n.answer = call.answer /\ n.posts = posts /\ n.sends = call.sends
    BY <2>1 DEF Call
  <2> QED
    BY <1>1, <2>2, <2>3, <2>4
<1>2. CASE call.phase = "send"
  <2> DEFINE sends == call.sends + 1
             n     == [call EXCEPT !.sends = sends]
  <2>1. sends \in Nat
    BY DEF Call
  <2>2. Requested(call) = n
    BY <1>2 DEF Requested
  <2>3. call.sends + 1 = sends
    OBVIOUS
  <2> HIDE DEF sends
  <2>4. /\ n \in Call /\ n.op = call.op /\ n.vendor = call.vendor
        /\ n.blocked = call.blocked /\ n.phase = call.phase /\ n.why = call.why
        /\ n.token = call.token /\ n.tries = call.tries /\ n.retried = call.retried
        /\ n.refused = call.refused /\ n.applied = call.applied
        /\ n.answer = call.answer /\ n.sends = sends /\ n.posts = call.posts
    BY <2>1 DEF Call
  <2> QED
    BY <1>2, <2>2, <2>3, <2>4
<1> QED
  BY <1>1, <1>2

(* One more request stays within the round.                                *)
LEMMA CountsFit ==
    ASSUME GInv, NEW call \in Call, CallFits(call), call.phase \in {"post", "send"}
    PROVE  LET n == Requested(call)
           IN  /\ config.configured
               /\ n.sends <= Spent(call) + MaxAttempts /\ n.posts <= Spent(call) + MaxAttempts
               /\ call.phase = "post" => /\ n.sends <= Spent(call)
                                         /\ n.posts <= Spent(call) + call.tries + 1
               /\ call.phase = "send" => n.sends <= Spent(call) + call.tries + 1
<1>1. MaxAttempts \in Nat /\ Spent(call) \in Nat
  BY SapAssumption DEF Spent
<1>2. call.sends \in Nat /\ call.posts \in Nat /\ call.tries \in Nat
  BY DEF Call
<1>3. /\ call.tries < MaxAttempts /\ config.configured
      /\ call.phase = "post" => call.sends <= Spent(call) /\ call.posts <= Spent(call) + call.tries
      /\ call.phase = "send" => call.sends <= Spent(call) + call.tries
      /\ call.sends <= Spent(call) + MaxAttempts /\ call.posts <= Spent(call) + MaxAttempts
  BY DEF CallFits, SendsFit, PostsFit
<1> QED
  BY <1>1, <1>2, <1>3, RequestedFacts

(* A call that gives up.                                                   *)
LEMMA EndedFits ==
    ASSUME GInv, NEW call \in Call, CallFits(call), NEW n \in Call,
           n.phase = "failed", n.why = "other", n.tries = 0,
           n.retried = call.retried, n.refused = call.refused,
           n.sends <= Spent(call) + MaxAttempts, n.posts <= Spent(call) + MaxAttempts,
           ~config.configured => n.sends = 0 /\ n.posts = 0
    PROVE  CallFits(n)
<1>1. MaxAttempts \in Nat \ {0}
  BY SapAssumption
<1>2. SendsFit(n) /\ PostsFit(n)
  BY DEF SendsFit, PostsFit, Spent
<1>3. TokensFit(n)
  BY DEF CallFits, TokensFit
<1> QED
  BY <1>1, <1>2, <1>3 DEF CallFits, AnswerFits

-----------------------------------------------------------------------------
(* The steps.                                                              *)

LEMMA InitGInv == Init => GInv
<1> SUFFICES ASSUME Init PROVE GInv
  OBVIOUS
<1>1. config \in Config /\ MaxAttempts \in Nat \ {0} /\ Nobody \notin Callers
  BY SapAssumption DEF Init
<1>2. PICK v \in Vendors : calls = [c \in Callers |->
          [op |-> "read", vendor |-> v, blocked |-> FALSE, phase |-> "idle",
           why |-> "none", token |-> 0, tries |-> 0, retried |-> FALSE, refused |-> {},
           sends |-> 0, posts |-> 0, applied |-> FALSE, answer |-> Orderable]]
  BY DEF Init
<1> DEFINE n == [op |-> "read", vendor |-> v, blocked |-> FALSE, phase |-> "idle",
           why |-> "none", token |-> 0, tries |-> 0, retried |-> FALSE, refused |-> {},
           sends |-> 0, posts |-> 0, applied |-> FALSE, answer |-> Orderable]
<1>3. n \in Call
  BY DEF Call, Orderable, VendorStatus, Statuses
<1>4. /\ n.op = "read" /\ n.phase = "idle" /\ n.why = "none" /\ n.tries = 0
      /\ n.retried = FALSE /\ n.refused = {} /\ n.sends = 0 /\ n.posts = 0
  OBVIOUS
<1>5. \A c \in Callers : calls[c] = n
  BY <1>2
<1>6. calls = [c \in Callers |-> n]
  BY <1>2
<1> HIDE DEF n
<1>7. CallFits(n)
  BY <1>1, <1>3, <1>4 DEF CallFits, SendsFit, PostsFit, TokensFit, AnswerFits, Spent, Init
<1>8. calls \in [Callers -> Call] /\ \A c \in Callers : calls[c].tries < MaxAttempts
  BY <1>1, <1>3, <1>4, <1>5, <1>6
<1>9. TypeOK
  <2>1. [purchasing |-> FALSE, posting |-> FALSE, payment |-> FALSE] \in Entity
        /\ Orderable \in VendorStatus
    BY DEF Entity, Orderable, VendorStatus, Statuses
  <2>2. erp \in [Vendors -> Entity] /\ stub \in [Vendors -> VendorStatus]
    BY <2>1 DEF Init
  <2>3. token \in 0..issued /\ issued \in Nat
    BY DEF Init
  <2>4. fresh \in BOOLEAN /\ holder \in Callers \cup {Nobody} /\ revoked \in SUBSET Nat
    BY DEF Init
  <2> QED
    BY <1>1, <1>8, <2>2, <2>3, <2>4 DEF TypeOK
<1>10. LockFits
  BY <1>1, <1>4, <1>5 DEF Init, LockFits, At
<1>11. StubFits
  BY DEF Init, StubFits, Orderable
<1> QED
  BY <1>5, <1>7, <1>9, <1>10, <1>11 DEF GInv

(* The steps that no call takes.                                           *)
LEMMA OutsideFits ==
    ASSUME GInv, UNCHANGED <<config, token, holder, issued, calls>>,
           erp' \in [Vendors -> Entity], stub' \in [Vendors -> VendorStatus], StubFits',
           fresh' \in BOOLEAN, fresh' => fresh, revoked' \in SUBSET Nat
    PROVE  GInv'
<1>1. TokenMoves
  BY DEF TokenMoves, GInv, TypeOK
<1>2. \A c \in Callers : CallFits(calls[c])'
  BY <1>1, CallStays DEF GInv, TypeOK
<1>3. LockFits'
  BY DEF GInv, LockFits, At, Usable
<1> QED
  BY <1>2, <1>3 DEF GInv, TypeOK

LEMMA MockRouteFits == ASSUME GInv, NEW v \in Vendors, MockRoute(v) PROVE GInv'
<1>1. /\ erp \in [Vendors -> Entity] /\ stub \in [Vendors -> VendorStatus]
      /\ fresh \in BOOLEAN /\ revoked \in SUBSET Nat /\ StubFits
  BY DEF GInv, TypeOK
<1>2. ASSUME NEW to \in VendorStatus, to.block => to.status = "blocked",
             stub' = [stub EXCEPT ![v] = to]
      PROVE  stub' \in [Vendors -> VendorStatus] /\ StubFits'
  BY <1>1, <1>2 DEF StubFits
<1>3. stub' \in [Vendors -> VendorStatus] /\ StubFits'
  <2>1. CASE \E status \in Statuses : stub' = [stub EXCEPT ![v] = StubStatus(status)]
    BY <1>2, <2>1 DEF StubStatus, VendorStatus
  <2>2. CASE \E blocked \in BOOLEAN : stub' = [stub EXCEPT ![v] = StubBlock(blocked)]
    BY <1>2, <2>2 DEF StubBlock, VendorStatus, Statuses
  <2>3. CASE \E patch \in PatchBodies : stub' = [stub EXCEPT ![v] = StubPatched(@, patch)]
    <3>1. PICK patch \in PatchBodies : stub' = [stub EXCEPT ![v] = StubPatched(stub[v], patch)]
      BY <2>3
    <3> DEFINE block == IF patch.purchasing = "absent" THEN stub[v].block
                          ELSE patch.purchasing = "true"
    <3>2. block \in BOOLEAN
      BY <1>1 DEF VendorStatus
    <3>3. StubPatched(stub[v], patch) =
             [status |-> IF block \/ patch.raised THEN "blocked" ELSE "approved",
              block  |-> block]
      BY DEF StubPatched
    <3> HIDE DEF block
    <3>4. /\ StubPatched(stub[v], patch) \in VendorStatus
          /\ StubPatched(stub[v], patch).block => StubPatched(stub[v], patch).status = "blocked"
      BY <3>2, <3>3 DEF VendorStatus, Statuses
    <3> QED
      BY <1>2, <3>1, <3>4
  <2> QED
    BY <2>1, <2>2, <2>3 DEF MockRoute
<1> QED
  BY <1>1, <1>3, OutsideFits DEF MockRoute

LEMMA OthersFit ==
    ASSUME GInv, Expire \/ Revoke \/ \E v \in Vendors : OutsideChange(v)
    PROVE  GInv'
<1>1. /\ erp \in [Vendors -> Entity] /\ stub \in [Vendors -> VendorStatus]
      /\ fresh \in BOOLEAN /\ revoked \in SUBSET Nat /\ issued \in Nat /\ StubFits
  BY DEF GInv, TypeOK
<1>2. CASE Expire
  <2>1. StubFits' /\ UNCHANGED <<config, erp, stub, token, holder, issued, revoked, calls>>
        /\ fresh' = FALSE
    BY <1>1, <1>2 DEF Expire, StubFits
  <2> QED
    BY <1>1, <2>1, OutsideFits
<1>3. CASE Revoke
  <2>1. StubFits' /\ UNCHANGED <<config, erp, stub, token, fresh, holder, issued, calls>>
        /\ revoked' \in SUBSET Nat
    BY <1>1, <1>3 DEF Revoke, StubFits
  <2> QED
    BY <1>1, <2>1, OutsideFits
<1>4. CASE \E v \in Vendors : OutsideChange(v)
  <2>1. /\ StubFits' /\ erp' \in [Vendors -> Entity]
        /\ UNCHANGED <<config, stub, token, fresh, holder, issued, revoked, calls>>
    BY <1>1, <1>4 DEF OutsideChange, StubFits
  <2> QED
    BY <1>1, <2>1, OutsideFits
<1> QED
  BY <1>2, <1>3, <1>4

(* A call moves, and neither the lock nor the token does.                  *)
LEMMA QuietMove ==
    ASSUME GInv, NEW c \in Callers, NEW call \in Call, CallFits(call), Becomes(c, call),
           UNCHANGED <<config, token, fresh, issued>>,
           erp' \in [Vendors -> Entity], stub' \in [Vendors -> VendorStatus], StubFits',
           revoked' \in SUBSET Nat,
           \/ Release(c) /\ call.phase # "post"
           \/ holder' = holder /\ (call.phase = "post" <=> calls[c].phase = "post")
    PROVE  GInv'
<1>1. TokenMoves
  BY DEF TokenMoves, GInv, TypeOK
<1>2. CallFits(call)'
  BY <1>1, CallStays
<1>3. Usable' => Usable
  BY DEF Usable
<1>4. LockFits' /\ holder' \in Callers \cup {Nobody}
  BY <1>3, LockMoves, LockStays
<1>5. /\ calls' \in [Callers -> Call] /\ \A d \in Callers : CallFits(calls[d])'
      /\ \A d \in Callers : calls'[d].tries < MaxAttempts
  BY <1>1, <1>2, CallMoves
<1> QED
  BY <1>4, <1>5 DEF GInv, TypeOK

LEMMA BeginFits == ASSUME GInv, NEW c \in Callers, NEW v \in Vendors, Begin(c, v) PROVE GInv'
<1> DEFINE call == calls[c]
<1>1. call \in Call /\ CallFits(call) /\ call.phase = "idle" /\ config \in Config
  BY DEF GInv, TypeOK, Begin, At
<1>2. PICK ask \in config.asks :
        Becomes(c, [call EXCEPT !.op = ask.op, !.blocked = ask.blocked, !.vendor = v,
                                !.phase = "auth"])
  BY DEF Begin
<1> DEFINE op == ask.op  blocked == ask.blocked
           n  == [call EXCEPT !.op = op, !.blocked = blocked, !.vendor = v, !.phase = "auth"]
<1>3. op \in {"read", "status", "block"} /\ blocked \in BOOLEAN
  BY <1>1 DEF Config, Ask
<1>4. Becomes(c, n)
  BY <1>2
<1> HIDE DEF call, op, blocked
<1>5. /\ n \in Call /\ n.phase = "auth" /\ n.why = call.why /\ n.tries = call.tries
      /\ n.retried = call.retried /\ n.refused = call.refused
      /\ n.sends = call.sends /\ n.posts = call.posts
  BY <1>1, <1>3 DEF Call
<1> HIDE DEF n
<1>6. CallFits(n)
  BY <1>1, <1>5 DEF CallFits, SendsFit, PostsFit, TokensFit, AnswerFits, Spent
<1>7. StubFits'
  BY DEF Begin, GInv, StubFits
<1> QED
  BY <1>1, <1>4, <1>5, <1>6, <1>7, QuietMove DEF Begin, GInv, TypeOK, call

LEMMA StubAnswersFits == ASSUME GInv, NEW c \in Callers, StubAnswers(c) PROVE GInv'
<1> DEFINE call == calls[c]  v == call.vendor
           status == IF call.blocked THEN "blocked" ELSE "approved"
           a == stub'[v]
           n == [call EXCEPT !.phase = "done", !.answer = a, !.applied = TRUE]
<1>1. /\ call \in Call /\ CallFits(call) /\ call.phase = "auth" /\ config.mode = "stub"
      /\ v \in Vendors /\ call.blocked \in BOOLEAN /\ call.op \in {"read", "status", "block"}
      /\ stub \in [Vendors -> VendorStatus] /\ StubFits
  BY DEF GInv, TypeOK, StubAnswers, At, Call
<1>2. stub' = CASE call.op = "read"   -> stub
                [] call.op = "status" -> [stub EXCEPT ![v] = StubStatus(status)]
                [] call.op = "block"  -> [stub EXCEPT ![v] = StubBlock(call.blocked)]
  BY DEF StubAnswers
<1>3. Becomes(c, n)
  BY DEF StubAnswers
<1>4. StubStatus(status) \in VendorStatus /\ StubBlock(call.blocked) \in VendorStatus
  BY <1>1 DEF StubStatus, StubBlock, VendorStatus, Statuses
<1>5. stub' \in [Vendors -> VendorStatus]
  BY <1>1, <1>2, <1>4
<1>6. call.op = "status" => a = [status |-> status, block |-> status = "blocked"]
  BY <1>1, <1>2 DEF StubStatus
<1>7. call.op = "block" => a = [status |-> status, block |-> call.blocked]
  BY <1>1, <1>2 DEF StubBlock
<1>8. (status = "blocked") = call.blocked
  BY <1>1
<1>9. call.op # "read" => a.block = call.blocked /\ (a.status = "blocked") = call.blocked
  BY <1>1, <1>6, <1>7, <1>8
<1>10. a \in VendorStatus
  BY <1>1, <1>5
<1>11. StubFits'
  BY <1>1, <1>2, <1>9 DEF StubFits
<1> HIDE DEF a, v, call
<1>12. /\ n \in Call /\ n.phase = "done" /\ n.answer = a /\ n.applied = TRUE
       /\ n.op = call.op /\ n.blocked = call.blocked
       /\ n.why = call.why /\ n.tries = call.tries
       /\ n.retried = call.retried /\ n.refused = call.refused
       /\ n.sends = call.sends /\ n.posts = call.posts
  BY <1>1, <1>10 DEF Call
<1> HIDE DEF n
<1>13. MaxAttempts \in Nat /\ call.sends \in Nat /\ call.posts \in Nat
  BY <1>1, SapAssumption DEF Call
<1>14. CallFits(n)
  BY <1>1, <1>9, <1>12, <1>13 DEF CallFits, SendsFit, PostsFit, TokensFit, AnswerFits, Spent
<1> QED
  BY <1>1, <1>3, <1>5, <1>11, <1>12, <1>14, QuietMove DEF StubAnswers, GInv, TypeOK, call

LEMMA SameErp ==
    ASSUME GInv, UNCHANGED <<erp, stub>>
    PROVE  erp' \in [Vendors -> Entity] /\ stub' \in [Vendors -> VendorStatus] /\ StubFits'
  BY DEF GInv, TypeOK, StubFits

(* A call that gives up without another request.                           *)
LEMMA GivesUp ==
    ASSUME GInv, NEW c \in Callers
    PROVE  LET n == Failed(calls[c], "other")
           IN  n \in Call /\ CallFits(n) /\ n.phase = "failed"
<1> DEFINE call == calls[c]  n == Failed(call, "other")
<1>1. call \in Call /\ CallFits(call)
  BY DEF GInv, TypeOK
<1> HIDE DEF call
<1>2. /\ n \in Call /\ n.phase = "failed" /\ n.why = "other" /\ n.tries = 0
      /\ n.retried = call.retried /\ n.refused = call.refused
      /\ n.sends = call.sends /\ n.posts = call.posts
  BY <1>1 DEF Failed, Call
<1> HIDE DEF n
<1>3. CallFits(n)
  BY <1>1, <1>2, EndedFits DEF CallFits, SendsFit, PostsFit
<1> QED
  BY <1>2, <1>3 DEF n, call

LEMMA UnconfiguredFits == ASSUME GInv, NEW c \in Callers, Unconfigured(c) PROVE GInv'
<1>1. /\ calls[c].phase = "auth" /\ UNCHANGED <<config, token, fresh, issued, holder, revoked>>
      /\ Becomes(c, Failed(calls[c], "other")) /\ revoked \in SUBSET Nat
      /\ UNCHANGED <<erp, stub>>
  BY DEF Unconfigured, At, GInv, TypeOK
<1> DEFINE n == Failed(calls[c], "other")
<1>2. n \in Call /\ CallFits(n) /\ n.phase = "failed"
  BY GivesUp
<1> HIDE DEF n
<1> QED
  BY <1>1, <1>2, SameErp, QuietMove DEF n

LEMMA CancelledFits == ASSUME GInv, NEW c \in Callers, Cancelled(c) PROVE GInv'
<1>1. /\ UNCHANGED <<config, token, fresh, issued, revoked>> /\ Release(c)
      /\ Becomes(c, Failed(calls[c], "other")) /\ revoked \in SUBSET Nat
      /\ UNCHANGED <<erp, stub>>
  BY DEF Cancelled, GInv, TypeOK
<1> DEFINE n == Failed(calls[c], "other")
<1>2. n \in Call /\ CallFits(n) /\ n.phase = "failed"
  BY GivesUp
<1> HIDE DEF n
<1> QED
  BY <1>1, <1>2, SameErp, QuietMove DEF n

LEMMA HeadersFits == ASSUME GInv, NEW c \in Callers, Headers(c) PROVE GInv'
<1> DEFINE call == calls[c]
           to   == IF config.mode = "sandbox" \/ Usable THEN "send" ELSE "lock"
           tok  == IF config.mode = "live" /\ Usable THEN token ELSE 0
           n    == [call EXCEPT !.phase = to, !.token = tok]
<1>1. /\ call \in Call /\ CallFits(call) /\ call.phase = "auth" /\ config.configured
      /\ config \in Config /\ config.mode \in {"sandbox", "live"}
      /\ token \in 0..issued /\ issued \in Nat
  BY DEF GInv, TypeOK, Headers, At, Config
<1>2. Becomes(c, n) /\ UNCHANGED <<config, erp, stub, token, fresh, holder, issued, revoked>>
      /\ revoked \in SUBSET Nat
  BY DEF Headers, GInv, TypeOK
<1>3. /\ to \in {"send", "lock"} /\ tok \in Nat
      /\ to = "lock" => config.mode = "live"
      /\ to = "send" /\ config.mode = "live" => tok = token /\ tok \in 1..issued
  BY <1>1 DEF Usable
<1> HIDE DEF call, to, tok
<1>4. /\ n \in Call /\ n.phase = to /\ n.token = tok /\ n.why = call.why
      /\ n.tries = call.tries /\ n.retried = call.retried /\ n.refused = call.refused
      /\ n.sends = call.sends /\ n.posts = call.posts
  BY <1>1, <1>3 DEF Call
<1> HIDE DEF n
<1>5. call.sends \in Nat /\ call.posts \in Nat /\ MaxAttempts \in Nat
  BY <1>1, SapAssumption DEF Call
<1>6. SendsFit(n) /\ PostsFit(n)
  BY <1>1, <1>3, <1>4, <1>5 DEF CallFits, SendsFit, PostsFit, Spent
<1>7. TokensFit(n)
  BY <1>1, <1>3, <1>4 DEF CallFits, TokensFit
<1>8. CallFits(n)
  BY <1>1, <1>3, <1>4, <1>6, <1>7 DEF CallFits, AnswerFits
<1>9. n.phase # "post" /\ calls[c].phase # "post"
  BY <1>1, <1>3, <1>4 DEF call
<1> QED
  BY <1>2, <1>4, <1>8, <1>9, SameErp, QuietMove

LEMMA LockedFits == ASSUME GInv, NEW c \in Callers, Locked(c) PROVE GInv'
<1> DEFINE call == calls[c]
<1>1. /\ call \in Call /\ CallFits(call) /\ call.phase = "lock" /\ holder = Nobody
      /\ config.mode = "live" /\ config.configured
      /\ token \in 0..issued /\ issued \in Nat /\ MaxAttempts \in Nat \ {0}
      /\ Nobody \notin Callers
  BY SapAssumption DEF GInv, TypeOK, Locked, At, CallFits
<1>2. /\ UNCHANGED <<config, erp, stub, token, fresh, issued, revoked>>
      /\ revoked \in SUBSET Nat
  BY DEF Locked, GInv, TypeOK
<1>3. call.sends \in Nat /\ call.posts \in Nat
  BY <1>1 DEF Call
<1>4. CASE Usable
  <2> DEFINE n == [call EXCEPT !.phase = "send", !.token = token]
  <2>1. Becomes(c, n) /\ holder' = holder
    BY <1>4 DEF Locked
  <2>2. token \in 1..issued /\ token \in Nat
    BY <1>1, <1>4 DEF Usable
  <2> HIDE DEF call
  <2>3. /\ n \in Call /\ n.phase = "send" /\ n.token = token /\ n.why = call.why
        /\ n.tries = call.tries /\ n.retried = call.retried /\ n.refused = call.refused
        /\ n.sends = call.sends /\ n.posts = call.posts
    BY <1>1, <2>2 DEF Call
  <2> HIDE DEF n
  <2>4. SendsFit(n) /\ PostsFit(n)
    BY <1>1, <1>3, <2>3 DEF CallFits, SendsFit, PostsFit, Spent
  <2>5. TokensFit(n)
    BY <1>1, <2>2, <2>3 DEF CallFits, TokensFit
  <2>6. CallFits(n)
    BY <1>1, <2>3, <2>4, <2>5 DEF CallFits, AnswerFits
  <2>7. n.phase # "post" /\ calls[c].phase # "post"
    BY <1>1, <2>3 DEF call
  <2> QED
    BY <1>2, <2>1, <2>3, <2>6, <2>7, SameErp, QuietMove
<1>5. CASE ~Usable
  <2> DEFINE to == [call EXCEPT !.phase = "post"]
  <2>0. PICK n : n = to
    OBVIOUS
  <2>1. Becomes(c, n) /\ holder' = c
    BY <1>5, <2>0 DEF Locked
  <2> HIDE DEF call
  <2>2. /\ n \in Call /\ n.phase = "post" /\ n.why = call.why
        /\ n.tries = call.tries /\ n.retried = call.retried /\ n.refused = call.refused
        /\ n.sends = call.sends /\ n.posts = call.posts
    BY <1>1, <2>0 DEF Call
  <2>3. SendsFit(n) /\ PostsFit(n)
    BY <1>1, <1>3, <2>2 DEF CallFits, SendsFit, PostsFit, Spent
  <2>4. TokensFit(n)
    BY <1>1, <2>2 DEF CallFits, TokensFit
  <2>5. CallFits(n)
    BY <1>1, <2>2, <2>3, <2>4 DEF CallFits, AnswerFits
  <2>6. TokenMoves
    BY <1>1, <1>2 DEF TokenMoves
  <2>7. CallFits(n)'
    BY <1>2, <2>2, <2>5, <2>6, CallStays
  <2>8. /\ calls' \in [Callers -> Call] /\ \A d \in Callers : CallFits(calls[d])'
        /\ \A d \in Callers : calls'[d].tries < MaxAttempts
        /\ calls'[c] = n /\ \A d \in Callers \ {c} : calls'[d] = calls[d]
    BY <1>2, <2>1, <2>6, <2>7, CallMoves
  <2>9. LockFits'
    <3>1. \A d \in Callers : calls[d].phase # "post"
      BY <1>1 DEF GInv, LockFits, At
    <3>2. ~Usable'
      BY <1>2, <1>5 DEF Usable
    <3> QED
      BY <2>1, <2>2, <2>8, <3>1, <3>2 DEF LockFits, At
  <2> QED
    BY <1>2, <2>1, <2>8, <2>9, SameErp DEF GInv, TypeOK
<1> QED
  BY <1>4, <1>5

LEMMA TokenIssuedFits == ASSUME GInv, NEW c \in Callers, TokenIssued(c) PROVE GInv'
<1> DEFINE call == calls[c]  r == Requested(call)  next == issued + 1
           to == [r EXCEPT !.phase = "send", !.tries = 0, !.token = next]
<1>0. PICK n : n = to
  OBVIOUS
<1>1. /\ call \in Call /\ CallFits(call) /\ call.phase = "post" /\ At(c, "post")
      /\ token \in 0..issued /\ issued \in Nat /\ next \in Nat /\ next = issued + 1
      /\ MaxAttempts \in Nat \ {0} /\ config.mode = "live" /\ config.configured
  BY SapAssumption DEF GInv, TypeOK, TokenIssued, At, CallFits
<1>2. /\ UNCHANGED <<config, erp, stub, revoked>> /\ Release(c) /\ Becomes(c, n)
      /\ issued' = next /\ token' = next /\ fresh' = TRUE /\ revoked \in SUBSET Nat
  BY <1>0 DEF TokenIssued, GInv, TypeOK
<1> HIDE DEF call, r, next
<1>3. /\ r \in Call /\ r.phase = call.phase /\ r.why = call.why /\ r.retried = call.retried
      /\ r.refused = call.refused /\ r.sends <= Spent(call)
      /\ r.posts <= Spent(call) + MaxAttempts
  BY <1>1, RequestedFacts, CountsFit DEF r
<1>4. /\ n \in Call /\ n.phase = "send" /\ n.tries = 0 /\ n.token = next
      /\ n.why = call.why /\ n.retried = call.retried /\ n.refused = call.refused
      /\ n.sends = r.sends /\ n.posts = r.posts
  BY <1>0, <1>1, <1>3 DEF Call
<1>5. r.sends \in Nat /\ r.posts \in Nat /\ Spent(call) \in Nat /\ Spent(n) = Spent(call)
  BY <1>1, <1>3, <1>4 DEF Call, Spent
<1>6. SendsFit(n) /\ PostsFit(n)
  BY <1>1, <1>3, <1>4, <1>5 DEF SendsFit, PostsFit
<1>7. TokensFit(n)'
  <2>1. n.refused \subseteq 1..issued
    BY <1>1, <1>4 DEF CallFits, TokensFit
  <2>2. next \in 1..issued' /\ n.refused \subseteq 1..issued' /\ next \notin n.refused
    BY <1>1, <1>2, <2>1
  <2> QED
    BY <1>1, <1>2, <1>4, <2>2 DEF CallFits, TokensFit
<1>8. CallFits(n)'
  BY <1>1, <1>2, <1>4, <1>6, <1>7 DEF CallFits, SendsFit, PostsFit, AnswerFits, Spent
<1>9. TokenMoves
  BY <1>1, <1>2 DEF TokenMoves
<1>10. /\ calls' \in [Callers -> Call] /\ \A d \in Callers : CallFits(calls[d])'
       /\ \A d \in Callers : calls'[d].tries < MaxAttempts
  BY <1>2, <1>8, <1>9, CallMoves
<1>11. LockFits' /\ holder' \in Callers \cup {Nobody}
  BY <1>1, <1>2, <1>4, LockMoves
<1>12. token' \in 0..issued'
  BY <1>1, <1>2
<1> QED
  BY <1>1, <1>2, <1>10, <1>11, <1>12, SameErp DEF GInv, TypeOK

LEMMA UnauthorizedFits == ASSUME GInv, NEW c \in Callers, Unauthorized(c) PROVE GInv'
<1> DEFINE call == calls[c]  r == Requested(call)
           refused == IF call.phase = "send" THEN r.refused \cup {call.token} ELSE r.refused
           a == [r EXCEPT !.refused = refused]
<1>1. /\ call \in Call /\ CallFits(call) /\ call.phase \in {"post", "send"}
      /\ token \in 0..issued /\ issued \in Nat /\ config \in Config
      /\ MaxAttempts \in Nat \ {0} /\ config.mode # "stub" /\ config.configured
      /\ call.phase = "post" => ~config.authorised
  BY SapAssumption DEF GInv, TypeOK, Unauthorized, At, CallFits
<1>2. /\ UNCHANGED <<config, erp, stub, issued, revoked>> /\ Release(c)
      /\ revoked \in SUBSET Nat /\ token \in 0..issued /\ fresh \in BOOLEAN
  BY DEF Unauthorized, GInv, TypeOK
<1>3. IF GivenUp(a)
      THEN Becomes(c, Failed(a, "auth")) /\ UNCHANGED <<token, fresh>>
      ELSE /\ Becomes(c, [a EXCEPT !.phase = "auth", !.retried = TRUE, !.token = 0, !.tries = 0])
           /\ Discarded
  BY DEF Unauthorized, AuthFails
<1> HIDE DEF call, r
<1>4. /\ r \in Call /\ r.phase = call.phase /\ r.retried = call.retried
      /\ r.refused = call.refused /\ r.token = call.token /\ r.why = call.why
      /\ r.sends <= Spent(call) + MaxAttempts /\ r.posts <= Spent(call) + MaxAttempts
      /\ call.token \in Nat
  BY <1>1, RequestedFacts, CountsFit DEF r, Call
<1>5. refused \in SUBSET Nat
  BY <1>4 DEF Call
<1>6. /\ config.mode = "live" => refused \subseteq 1..issued
      /\ config.mode = "live" /\ config.authorised => refused # {}
      /\ config.mode = "live" /\ config.authorised /\ call.retried =>
            \E t, u \in refused : t # u
  <2> SUFFICES ASSUME config.mode = "live"
               PROVE  /\ refused \subseteq 1..issued
                      /\ config.authorised => refused # {}
                      /\ config.authorised /\ call.retried => \E t, u \in refused : t # u
    OBVIOUS
  <2>1. /\ call.refused \subseteq 1..issued
        /\ call.phase = "send" => call.token \in 1..issued /\ call.token \notin call.refused
        /\ config.authorised /\ call.retried => call.refused # {}
    BY <1>1 DEF CallFits, TokensFit
  <2> QED
    BY <1>1, <1>4, <2>1
<1> HIDE DEF refused
<1>7. /\ a \in Call /\ a.refused = refused /\ a.retried = call.retried /\ a.why = call.why
      /\ a.sends = r.sends /\ a.posts = r.posts
  BY <1>4, <1>5 DEF Call
<1> HIDE DEF a
<1>8. call.why = "none"
  BY <1>1 DEF CallFits
<1>9. r.sends \in Nat /\ r.posts \in Nat
  BY <1>4 DEF Call
<1>10. CASE GivenUp(a)
  <2> DEFINE n == Failed(a, "auth")
  <2>1. Becomes(c, n) /\ UNCHANGED <<token, fresh>>
    BY <1>3, <1>10
  <2>2. /\ n \in Call /\ n.phase = "failed" /\ n.why = "auth" /\ n.tries = 0
        /\ n.retried = call.retried /\ n.refused = refused
        /\ n.sends = r.sends /\ n.posts = r.posts
    BY <1>7 DEF Failed, Call
  <2> HIDE DEF n
  <2>3. SendsFit(n) /\ PostsFit(n)
    BY <1>4, <1>9, <2>2 DEF SendsFit, PostsFit, Spent
  <2>4. TokensFit(n)
    <3>1. config.mode = "live" => call.retried
      BY <1>7, <1>10 DEF GivenUp
    <3> QED
      BY <1>6, <2>2, <3>1 DEF TokensFit
  <2>5. CallFits(n)
    BY <1>1, <2>2, <2>3, <2>4 DEF CallFits, AnswerFits
  <2> QED
    BY <1>2, <2>1, <2>2, <2>5, SameErp, QuietMove
<1>11. CASE ~GivenUp(a)
  <2> DEFINE to == [a EXCEPT !.phase = "auth", !.retried = TRUE, !.token = 0, !.tries = 0]
  <2>0. PICK n : n = to
    OBVIOUS
  <2>1. Becomes(c, n) /\ token' = 0 /\ fresh' = FALSE
    BY <1>3, <1>11, <2>0 DEF Discarded
  <2>2. config.mode = "live" /\ ~call.retried
    BY <1>7, <1>11 DEF GivenUp
  <2>3. /\ n \in Call /\ n.phase = "auth" /\ n.why = "none" /\ n.tries = 0
        /\ n.retried = TRUE /\ n.refused = refused
        /\ n.sends = r.sends /\ n.posts = r.posts
    BY <1>7, <1>8, <2>0 DEF Call
  <2>4. SendsFit(n) /\ PostsFit(n)
    BY <1>1, <1>4, <1>9, <2>2, <2>3 DEF SendsFit, PostsFit, Spent
  <2>5. TokensFit(n)'
    BY <1>1, <1>2, <1>6, <2>1, <2>2, <2>3 DEF TokensFit
  <2>6. CallFits(n)'
    BY <1>1, <1>2, <2>3, <2>4, <2>5 DEF CallFits, SendsFit, PostsFit, AnswerFits, Spent
  <2>7. TokenMoves
    BY <1>1, <1>2, <2>1 DEF TokenMoves
  <2>8. /\ calls' \in [Callers -> Call] /\ \A d \in Callers : CallFits(calls[d])'
        /\ \A d \in Callers : calls'[d].tries < MaxAttempts
    BY <1>2, <2>1, <2>6, <2>7, CallMoves
  <2>9. ~Usable'
    BY <2>1 DEF Usable
  <2>10. LockFits' /\ holder' \in Callers \cup {Nobody}
    BY <1>2, <2>1, <2>3, <2>9, LockMoves
  <2>11. token' \in 0..issued'
    BY <1>1, <1>2, <2>1
  <2> QED
    BY <1>2, <2>1, <2>8, <2>10, <2>11, SameErp DEF GInv, TypeOK
<1> QED
  BY <1>10, <1>11

(* A request that is repeated, or was the last one.                        *)
LEMMA UnansweredFits ==
    ASSUME GInv, NEW c \in Callers, NEW call \in Call, CallFits(call), Unanswered(c, call),
           call.phase \in {"post", "send"}, call.phase = calls[c].phase,
           UNCHANGED <<config, stub, token, fresh, issued, revoked>>,
           erp' \in [Vendors -> Entity]
    PROVE  GInv'
<1> DEFINE r == Requested(call)
<1>1. /\ r \in Call /\ r.op = call.op /\ r.blocked = call.blocked /\ r.phase = call.phase
      /\ r.why = call.why /\ r.token = call.token /\ r.tries = call.tries
      /\ r.retried = call.retried /\ r.refused = call.refused
  BY RequestedFacts
<1>2. /\ config.configured /\ r.sends <= Spent(call) + MaxAttempts
      /\ r.posts <= Spent(call) + MaxAttempts
      /\ call.phase = "post" => r.sends <= Spent(call) /\ r.posts <= Spent(call) + call.tries + 1
      /\ call.phase = "send" => r.sends <= Spent(call) + call.tries + 1
  BY CountsFit
<1>3. r.sends \in Nat /\ r.posts \in Nat /\ Spent(call) \in Nat /\ MaxAttempts \in Nat \ {0}
      /\ call.tries \in Nat /\ Spent(call) + MaxAttempts \in Nat
  BY <1>1, SapAssumption DEF Call, Spent
<1>4. stub' \in [Vendors -> VendorStatus] /\ StubFits' /\ revoked' \in SUBSET Nat
  BY DEF GInv, TypeOK, StubFits
<1>5. CASE call.tries + 1 < MaxAttempts
  <2> DEFINE tries == r.tries + 1  n == [r EXCEPT !.tries = tries]
  <2>1. Becomes(c, n) /\ holder' = holder
    BY <1>5 DEF Unanswered
  <2>2. tries \in Nat /\ tries = call.tries + 1
    BY <1>1, <1>3
  <2> HIDE DEF r, tries
  <2>3. /\ n \in Call /\ n.phase = call.phase /\ n.why = call.why /\ n.token = call.token
        /\ n.tries = tries /\ n.retried = call.retried /\ n.refused = call.refused
        /\ n.sends = r.sends /\ n.posts = r.posts
    BY <1>1, <2>2 DEF Call
  <2> HIDE DEF n
  <2>4. SendsFit(n) /\ PostsFit(n)
    BY <1>2, <1>3, <2>2, <2>3 DEF SendsFit, PostsFit, Spent
  <2>5. TokensFit(n)
    BY <2>3 DEF CallFits, TokensFit
  <2>6. CallFits(n)
    BY <1>2, <1>5, <2>2, <2>3, <2>4, <2>5 DEF CallFits, AnswerFits
  <2> QED
    BY <1>4, <2>1, <2>3, <2>6, QuietMove
<1>6. CASE ~(call.tries + 1 < MaxAttempts)
  <2> DEFINE n == Failed(r, "other")
  <2>1. Becomes(c, n) /\ Release(c)
    BY <1>6 DEF Unanswered
  <2> HIDE DEF r
  <2>2. /\ n \in Call /\ n.phase = "failed" /\ n.why = "other" /\ n.tries = 0
        /\ n.retried = call.retried /\ n.refused = call.refused
        /\ n.sends = r.sends /\ n.posts = r.posts
    BY <1>1 DEF Failed, Call
  <2> HIDE DEF n
  <2>3. CallFits(n)
    BY <1>2, <2>2, EndedFits
  <2> QED
    BY <1>4, <2>1, <2>2, <2>3, QuietMove
<1> QED
  BY <1>5, <1>6

LEMMA NotDeliveredFits == ASSUME GInv, NEW c \in Callers, NotDelivered(c) PROVE GInv'
<1>1. calls[c] \in Call /\ CallFits(calls[c]) /\ erp \in [Vendors -> Entity]
  BY DEF GInv, TypeOK
<1> QED
  BY <1>1, UnansweredFits DEF NotDelivered, At

(* What a PATCH makes of an entity.                                        *)
LEMMA PatchedType ==
    ASSUME NEW entity \in Entity, NEW call \in Call
    PROVE  /\ Patched(entity, call) \in Entity
           /\ call.op # "read" => Patched(entity, call).purchasing = call.blocked
           /\ call.op = "status" => Patched(entity, call).posting = call.blocked
<1>1. call.op \in {"read", "status", "block"} /\ call.blocked \in BOOLEAN
  BY DEF Call
<1>2. CASE call.op = "read"
  BY <1>2 DEF Patched
<1>3. CASE call.op = "status"
  <2> DEFINE b == call.blocked
  <2>1. Patched(entity, call) = [purchasing |-> b, posting |-> b, payment |-> b] /\ b \in BOOLEAN
    BY <1>1, <1>3 DEF Patched
  <2> HIDE DEF b
  <2>2. /\ Patched(entity, call) \in Entity /\ Patched(entity, call).purchasing = b
        /\ Patched(entity, call).posting = b
    BY <2>1 DEF Entity
  <2> QED
    BY <2>2 DEF b
<1>4. CASE call.op = "block"
  <2> DEFINE b == call.blocked
  <2>1. Patched(entity, call) = [entity EXCEPT !.purchasing = b] /\ b \in BOOLEAN
    BY <1>1, <1>4 DEF Patched
  <2> HIDE DEF b
  <2>2. Patched(entity, call) \in Entity /\ Patched(entity, call).purchasing = b
    BY <2>1 DEF Entity
  <2> QED
    BY <1>4, <2>2 DEF b
<1> QED
  BY <1>1, <1>2, <1>3, <1>4

LEMMA AnswerLostFits == ASSUME GInv, NEW c \in Callers, AnswerLost(c) PROVE GInv'
<1> DEFINE call == calls[c]  n == [call EXCEPT !.applied = TRUE]
<1>1. /\ call \in Call /\ CallFits(call) /\ call.phase = "send" /\ erp \in [Vendors -> Entity]
      /\ erp' = [erp EXCEPT ![call.vendor] = Patched(@, call)]
      /\ Unanswered(c, n) /\ UNCHANGED <<config, stub, token, fresh, issued, revoked>>
  BY DEF GInv, TypeOK, AnswerLost, Accepted, At
<1>2. erp' \in [Vendors -> Entity]
  BY <1>1, PatchedType DEF Call
<1> HIDE DEF call
<1>3. /\ n \in Call /\ n.phase = call.phase /\ n.why = call.why /\ n.token = call.token
      /\ n.tries = call.tries /\ n.retried = call.retried /\ n.refused = call.refused
      /\ n.sends = call.sends /\ n.posts = call.posts
  BY <1>1 DEF Call
<1> HIDE DEF n
<1>4. CallFits(n)
  BY <1>1, <1>3 DEF CallFits, SendsFit, PostsFit, TokensFit, AnswerFits, Spent
<1> QED
  BY <1>1, <1>2, <1>3, <1>4, UnansweredFits DEF call

(* A call that fails after one more request; applied may have been set.    *)
LEMMA RequestFails ==
    ASSUME GInv, NEW call \in Call, CallFits(call), call.phase \in {"post", "send"},
           NEW applied \in BOOLEAN
    PROVE  LET n == Failed([Requested(call) EXCEPT !.applied = applied], "other")
           IN  n \in Call /\ CallFits(n) /\ n.phase = "failed"
<1> DEFINE r == Requested(call)  a == [r EXCEPT !.applied = applied]  n == Failed(a, "other")
<1>1. /\ r \in Call /\ r.retried = call.retried /\ r.refused = call.refused
      /\ config.configured /\ r.sends <= Spent(call) + MaxAttempts
      /\ r.posts <= Spent(call) + MaxAttempts
  BY RequestedFacts, CountsFit
<1> HIDE DEF r
<1>2. /\ a \in Call /\ a.retried = call.retried /\ a.refused = call.refused
      /\ a.sends = r.sends /\ a.posts = r.posts
  BY <1>1 DEF Call
<1> HIDE DEF a
<1>3. /\ n \in Call /\ n.phase = "failed" /\ n.why = "other" /\ n.tries = 0
      /\ n.retried = call.retried /\ n.refused = call.refused
      /\ n.sends = r.sends /\ n.posts = r.posts
  BY <1>2 DEF Failed, Call
<1> HIDE DEF n
<1>4. CallFits(n)
  BY <1>1, <1>3, EndedFits
<1> QED
  BY <1>3, <1>4 DEF n, a, r

(* The same without the flag.                                              *)
LEMMA RequestFailsPlainly ==
    ASSUME GInv, NEW call \in Call, CallFits(call), call.phase \in {"post", "send"}
    PROVE  LET n == Failed(Requested(call), "other")
           IN  n \in Call /\ CallFits(n) /\ n.phase = "failed"
<1> DEFINE r == Requested(call)
<1>1. r \in Call
  BY RequestedFacts
<1> HIDE DEF r
<1>2. r.applied \in BOOLEAN /\ [r EXCEPT !.applied = r.applied] = r
  BY <1>1 DEF Call
<1> QED
  BY <1>2, RequestFails DEF r

LEMMA RefusedFits == ASSUME GInv, NEW c \in Callers, Refused(c) PROVE GInv'
<1>1. /\ calls[c] \in Call /\ CallFits(calls[c]) /\ calls[c].phase \in {"post", "send"}
      /\ Becomes(c, Failed(Requested(calls[c]), "other")) /\ Release(c)
      /\ UNCHANGED <<config, erp, stub, token, fresh, issued, revoked>>
      /\ revoked \in SUBSET Nat
  BY DEF GInv, TypeOK, Refused, Accepted, At
<1> DEFINE n == Failed(Requested(calls[c]), "other")
<1>2. n \in Call /\ CallFits(n) /\ n.phase = "failed"
  BY <1>1, RequestFailsPlainly
<1> HIDE DEF n
<1> QED
  BY <1>1, <1>2, SameErp, QuietMove DEF n

LEMMA AnsweredFits == ASSUME GInv, NEW c \in Callers, Answered(c) PROVE GInv'
<1> DEFINE call == calls[c]  r == Requested(call)  entity == Patched(erp[call.vendor], call)
<1>1. /\ call \in Call /\ CallFits(call) /\ call.phase = "send" /\ erp \in [Vendors -> Entity]
      /\ UNCHANGED <<config, stub, token, fresh, holder, issued, revoked>>
      /\ revoked \in SUBSET Nat /\ call.vendor \in Vendors
      /\ stub' \in [Vendors -> VendorStatus] /\ StubFits'
  BY DEF GInv, TypeOK, Answered, Accepted, At, Call, StubFits
<1>2. /\ entity \in Entity
      /\ call.op # "read" => entity.purchasing = call.blocked
      /\ call.op = "status" => entity.posting = call.blocked
  BY <1>1, PatchedType
<1>3. [erp EXCEPT ![call.vendor] = entity] \in [Vendors -> Entity]
  BY <1>1, <1>2
<1>4. CASE /\ erp' = [erp EXCEPT ![call.vendor] = entity]
           /\ Becomes(c, [r EXCEPT !.phase = "done", !.applied = TRUE, !.token = 0, !.tries = 0,
                                   !.answer = FromSupplier(entity)])
  <2> DEFINE answer == FromSupplier(entity)
             n == [r EXCEPT !.phase = "done", !.applied = TRUE, !.token = 0, !.tries = 0,
                            !.answer = answer]
  <2>1. /\ r \in Call /\ r.op = call.op /\ r.blocked = call.blocked /\ r.why = call.why
        /\ r.retried = call.retried /\ r.refused = call.refused
        /\ config.configured /\ r.sends <= Spent(call) + MaxAttempts
        /\ r.posts <= Spent(call) + MaxAttempts
    BY <1>1, RequestedFacts, CountsFit
  <2>2. /\ answer \in VendorStatus /\ answer.block = entity.purchasing
        /\ (answer.status = "blocked") = (entity.purchasing \/ entity.posting)
    <3> DEFINE status == IF entity.purchasing \/ entity.posting THEN "blocked" ELSE "approved"
               block  == entity.purchasing
    <3>1. /\ status \in Statuses /\ block \in BOOLEAN
          /\ (status = "blocked") = (entity.purchasing \/ entity.posting)
      BY <1>2 DEF Statuses, Entity
    <3>2. answer = [status |-> status, block |-> block]
      BY DEF FromSupplier
    <3> HIDE DEF answer, status, block
    <3>3. answer \in VendorStatus /\ answer.block = block /\ answer.status = status
      BY <3>1, <3>2 DEF VendorStatus
    <3> QED
      BY <3>1, <3>3 DEF block
  <2>3. Becomes(c, n)
    BY <1>4
  <2>4. call.op # "read" => /\ answer.block = call.blocked
                            /\ call.op = "status" \/ call.blocked =>
                                  (answer.status = "blocked") = call.blocked
    <3>1. call.blocked \in BOOLEAN /\ entity.posting \in BOOLEAN
      BY <1>1, <1>2 DEF Call, Entity
    <3> QED
      BY <1>2, <2>2, <3>1
  <2> HIDE DEF call, entity, r, answer
  <2>5. /\ n \in Call /\ n.phase = "done" /\ n.applied = TRUE /\ n.tries = 0
        /\ n.answer = answer /\ n.op = call.op /\ n.blocked = call.blocked
        /\ n.why = call.why /\ n.retried = call.retried /\ n.refused = call.refused
        /\ n.sends = r.sends /\ n.posts = r.posts
    BY <2>1, <2>2 DEF Call
  <2> HIDE DEF n
  <2>6. SendsFit(n) /\ PostsFit(n)
    BY <2>1, <2>5 DEF SendsFit, PostsFit, Spent
  <2>7. TokensFit(n)
    BY <1>1, <2>5 DEF CallFits, TokensFit
  <2>8. AnswerFits(n)
    BY <2>4, <2>5 DEF AnswerFits
  <2>9. MaxAttempts \in Nat \ {0}
    BY SapAssumption
  <2>10. CallFits(n)
    BY <2>1, <2>5, <2>6, <2>7, <2>8, <2>9 DEF CallFits
  <2>11. erp' \in [Vendors -> Entity]
    BY <1>3, <1>4
  <2> QED
    BY <1>1, <2>3, <2>5, <2>10, <2>11, QuietMove DEF call
<1>5. CASE /\ erp' = [erp EXCEPT ![call.vendor] = entity]
           /\ Becomes(c, Failed([r EXCEPT !.applied = TRUE], "other"))
  <2> DEFINE n == Failed([r EXCEPT !.applied = TRUE], "other")
  <2>1. n \in Call /\ CallFits(n) /\ n.phase = "failed"
    BY <1>1, RequestFails
  <2>2. erp' \in [Vendors -> Entity] /\ Becomes(c, n) /\ calls[c].phase # "post"
    BY <1>1, <1>3, <1>5
  <2> HIDE DEF n
  <2> QED
    BY <1>1, <2>1, <2>2, QuietMove
<1>6. CASE ErrorBody(c) /\ UNCHANGED erp
  <2> DEFINE n == Failed(r, "other")
  <2>1. n \in Call /\ CallFits(n) /\ n.phase = "failed"
    BY <1>1, RequestFailsPlainly
  <2>2. erp' \in [Vendors -> Entity] /\ Becomes(c, n) /\ calls[c].phase # "post"
    BY <1>1, <1>6 DEF ErrorBody
  <2> HIDE DEF n
  <2> QED
    BY <1>1, <2>1, <2>2, QuietMove
<1> QED
  BY <1>4, <1>5, <1>6 DEF Answered

-----------------------------------------------------------------------------
LEMMA NextGInv == GInv /\ [Next]_vars => GInv'
<1> SUFFICES ASSUME GInv, [Next]_vars PROVE GInv'
  OBVIOUS
<1>1. ASSUME NEW c \in Callers, (\E v \in Vendors : Begin(c, v)) \/ Step(c) \/ Cancelled(c)
      PROVE  GInv'
  BY <1>1, BeginFits, StubAnswersFits, UnconfiguredFits, HeadersFits, LockedFits,
     TokenIssuedFits, UnauthorizedFits, NotDeliveredFits, AnswerLostFits, RefusedFits,
     AnsweredFits, CancelledFits DEF Step
<1>2. CASE Expire \/ Revoke
  BY <1>2, OthersFit
<1>3. ASSUME NEW v \in Vendors, MockRoute(v) \/ OutsideChange(v)
      PROVE  GInv'
  BY <1>3, OthersFit, MockRouteFits
<1>4. CASE UNCHANGED vars
  <2>1. UNCHANGED <<config, erp, stub, token, fresh, holder, issued, revoked, calls>>
    BY <1>4 DEF vars
  <2>2. fresh \in BOOLEAN /\ revoked \in SUBSET Nat
    BY DEF GInv, TypeOK
  <2> QED
    BY <2>1, <2>2, SameErp, OutsideFits
<1> QED
  BY <1>1, <1>2, <1>3, <1>4 DEF Next

LEMMA SpecGInv == Spec => []GInv
  BY InitGInv, NextGInv, PTL DEF Spec

-----------------------------------------------------------------------------
(* The state of the gateways and of every call has its type; no call is    *)
(* past its last attempt.                                                  *)
THEOREM GatewayTypes == Spec => []TypeOK
<1>1. GInv => TypeOK
  BY DEF GInv
<1> QED
  BY <1>1, SpecGInv, PTL

(* Whatever the number of callers, one at a time asks for a token, and     *)
(* only while the cache has none to use (_fetch_token's second look).      *)
THEOREM NobodyFetchesNeedlessly == Spec => []NoNeedlessFetch
<1>1. GInv => NoNeedlessFetch
  BY DEF GInv, LockFits, NoNeedlessFetch
<1> QED
  BY <1>1, SpecGInv, PTL

(* _authorized gives up on a revoked token only after the tenant has       *)
(* refused two different ones: the invariant says that a refused token is  *)
(* neither cached nor sent again by the call it was refused to.            *)
THEOREM OneRevocationIsSurvived == Spec => []RevocationIsSurvived
<1>1. GInv => RevocationIsSurvived
  BY DEF GInv, CallFits, TokensFit, RevocationIsSurvived
<1> QED
  BY <1>1, SpecGInv, PTL

(* The retry for a refused token and the repetitions of SourceHttpClient   *)
(* do not multiply: at most twice the attempts go to either endpoint.      *)
THEOREM RequestsAreBounded == Spec => []SendsBounded
<1>1. ASSUME GInv, NEW c \in Callers
      PROVE  /\ calls[c].sends <= 2 * MaxAttempts /\ calls[c].posts <= 2 * MaxAttempts
             /\ ~config.configured => calls[c].sends + calls[c].posts = 0
  <2>1. /\ calls[c].sends \in Nat /\ calls[c].posts \in Nat /\ MaxAttempts \in Nat
        /\ CallFits(calls[c])
    BY <1>1, SapAssumption DEF GInv, TypeOK, Call
  <2>2. Spent(calls[c]) <= MaxAttempts /\ Spent(calls[c]) \in Nat
    BY <2>1 DEF Spent
  <2>3. calls[c].sends <= 2 * MaxAttempts /\ calls[c].posts <= 2 * MaxAttempts
    BY <2>1, <2>2 DEF CallFits, SendsFit, PostsFit
  <2>4. ~config.configured => calls[c].sends + calls[c].posts = 0
    BY <2>1 DEF CallFits
  <2> QED
    BY <2>3, <2>4
<1>2. GInv => SendsBounded
  BY <1>1 DEF SendsBounded
<1> QED
  BY <1>2, SpecGInv, PTL

(* A call of either gateway that returns was applied, and the vendor it    *)
(* reports is the one that was asked for.                                  *)
THEOREM ReturnMeansApplied == Spec => []OkMeansApplied
<1>1. GInv => OkMeansApplied
  BY DEF GInv, CallFits, AnswerFits, OkMeansApplied, At
<1> QED
  BY <1>1, SpecGInv, PTL

(* After any actions, routes and PATCHes the three views of the stub agree *)
(* on whether a vendor is blocked.                                         *)
THEOREM StubViewsAgree == Spec => []ViewsAgree
<1>1. ASSUME StubFits, NEW v \in Vendors, stub[v] \in VendorStatus
      PROVE  LET blocked == stub[v].status = "blocked"
             IN  /\ (FromSupplier(ToSupplier(stub[v])).status = "blocked") = blocked
                 /\ CentrallyBlocked(stub[v]) = blocked
                 /\ FromSupplier(ToSupplier(stub[v])).block => blocked
  <2> DEFINE block == stub[v].block  blocked == stub[v].status = "blocked"
  <2>1. block \in BOOLEAN /\ blocked \in BOOLEAN /\ (block => blocked)
    BY <1>1 DEF StubFits, VendorStatus
  <2>2. FromSupplier(ToSupplier(stub[v])) =
           [status |-> IF block \/ blocked THEN "blocked" ELSE "approved", block |-> block]
    BY DEF FromSupplier, ToSupplier
  <2>3. CentrallyBlocked(stub[v]) = blocked
    BY DEF CentrallyBlocked
  <2> HIDE DEF block, blocked
  <2>4. /\ (FromSupplier(ToSupplier(stub[v])).status = "blocked") = blocked
        /\ FromSupplier(ToSupplier(stub[v])).block => blocked
    BY <2>1, <2>2
  <2> QED
    BY <2>3, <2>4 DEF blocked
<1>2. GInv => ViewsAgree
  BY <1>1 DEF GInv, TypeOK, ViewsAgree
<1> QED
  BY <1>2, SpecGInv, PTL
=============================================================================
