----------------------------- MODULE SapGateway -----------------------------
(***************************************************************************)
(* The two gateways to the ERP.  HttpSapClient sends one authenticated     *)
(* request for a call, over an HTTP client that repeats what times out; a  *)
(* live tenant wants a bearer token, which the calls share and which may   *)
(* be revoked before it expires.  StubSapService holds the vendors in      *)
(* memory and is reached by the runs and by the /mock-sap routes.          *)
(*                                                                         *)
(* The tenant is an environment: it applies a PATCH or refuses it, its     *)
(* answers may be lost, its own users change vendors too.  Every caller    *)
(* makes one call.  A token is its serial number.                          *)
(***************************************************************************)
EXTENDS Naturals, FiniteSets

CONSTANTS
    Callers,      \* concurrent calls: actions of runs and confirmations
    Nobody,       \* no caller
    Vendors,
    Configs,      \* settings of the process, see Config
    MaxAttempts,  \* SourceHttpConfig.max_attempts of the SAP client
    MaxIssued     \* tokens the model's tenant issues

(* configured says whether the mode's URL and secrets are set, authorised  *)
(* whether the tenant accepts them; outside whether anybody else changes   *)
(* vendors; asks is what calls are made for.                               *)
Ask == [op : {"read", "status", "block"}, blocked : BOOLEAN]
Config == [mode : {"stub", "sandbox", "live"}, configured : BOOLEAN,
           authorised : BOOLEAN, outside : BOOLEAN,
           asks : SUBSET Ask]

ASSUME SapAssumption ==
    /\ Nobody \notin Callers
    /\ Configs \subseteq Config
    /\ MaxAttempts \in Nat \ {0} /\ MaxIssued \in Nat

VARIABLES
    config,
    erp,      \* A_Supplier of every vendor at the tenant
    stub,     \* VendorStatus of every vendor in the stub
    token,    \* the cached token, 0 for none
    fresh,    \* the cached token's time has not come
    holder,   \* who holds _token_lock
    issued,   \* tokens issued so far
    revoked,  \* tokens the tenant no longer accepts
    calls

vars == <<config, erp, stub, token, fresh, holder, issued, revoked, calls>>

(* The stub takes any status text; one stands for all the others.          *)
Statuses     == {"approved", "blocked", "other"}
VendorStatus == [status : Statuses, block : BOOLEAN]
Entity       == [purchasing : BOOLEAN, posting : BOOLEAN, payment : BOOLEAN]

Orderable == [status |-> "approved", block |-> FALSE]

(* sends and posts count the requests for the entity and for a token,      *)
(* refused the tokens answered with 401; applied says whether the tenant   *)
(* ever applied the call's PATCH.                                          *)
Call == [op : {"read", "status", "block"}, vendor : Vendors, blocked : BOOLEAN,
         phase : {"idle", "auth", "lock", "post", "send", "done", "failed"},
         why : {"none", "auth", "other"},
         token : Nat, tries : Nat, retried : BOOLEAN, refused : SUBSET Nat,
         sends : Nat, posts : Nat, applied : BOOLEAN, answer : VendorStatus]

(* Vendors, token, lock and calls keep their shapes; no request is tried   *)
(* more often than the HTTP client's max_attempts.                         *)
TypeOK ==
    /\ config \in Config
    /\ erp \in [Vendors -> Entity]
    /\ stub \in [Vendors -> VendorStatus]
    /\ token \in 0..issued /\ fresh \in BOOLEAN
    /\ holder \in Callers \cup {Nobody}
    /\ issued \in Nat /\ revoked \in SUBSET Nat
    /\ calls \in [Callers -> Call]
    /\ \A c \in Callers : calls[c].tries < MaxAttempts

Init ==
    /\ config \in Configs
    /\ erp = [v \in Vendors |-> [purchasing |-> FALSE, posting |-> FALSE, payment |-> FALSE]]
    /\ stub = [v \in Vendors |-> Orderable]
    /\ token = 0 /\ fresh = FALSE /\ holder = Nobody
    /\ issued = 0 /\ revoked = {}
    /\ \E v \in Vendors : calls = [c \in Callers |->
          [op |-> "read", vendor |-> v, blocked |-> FALSE, phase |-> "idle",
           why |-> "none", token |-> 0, tries |-> 0, retried |-> FALSE, refused |-> {},
           sends |-> 0, posts |-> 0, applied |-> FALSE, answer |-> Orderable]]

-----------------------------------------------------------------------------
(* The payloads.                                                           *)

(* vendor_status_from_supplier                                             *)
FromSupplier(entity) ==
    [status |-> IF entity.purchasing \/ entity.posting THEN "blocked" ELSE "approved",
     block  |-> entity.purchasing]

(* supplier_entity_from_status                                             *)
ToSupplier(vendor) ==
    [purchasing |-> vendor.block, posting |-> vendor.status = "blocked",
     payment |-> vendor.status = "blocked"]

(* business_partner_entity                                                 *)
CentrallyBlocked(vendor) == vendor.status = "blocked"

(* The body of the PATCH of a call, applied by the tenant: a status change *)
(* sets all three indicators, a purchasing block one.                      *)
PatchedOneFlag(entity, call) ==
    IF call.op = "read" THEN entity ELSE [entity EXCEPT !.purchasing = call.blocked]
Patched(entity, call) ==
    CASE call.op = "read"   -> entity
      [] call.op = "status" -> [purchasing |-> call.blocked, posting |-> call.blocked,
                                payment |-> call.blocked]
      [] call.op = "block"  -> [entity EXCEPT !.purchasing = call.blocked]

-----------------------------------------------------------------------------
(* The stub.                                                               *)

(* update_vendor_status and set_purchasing_block.                          *)
StubStatus(status)  == [status |-> status, block |-> status = "blocked"]
StubBlock(blocked) ==
    [status |-> IF blocked THEN "blocked" ELSE "approved", block |-> blocked]

(* A PATCH body: the purchasing flag may be absent; raised says whether    *)
(* the posting or the payment flag is true.                                *)
PatchBodies == [purchasing : {"absent", "true", "false"}, raised : BOOLEAN]

(* apply_supplier_patch                                                    *)
StubPatchedIfRaised(vendor, patch) ==
    [status |-> IF patch.raised THEN "blocked" ELSE "approved",
     block  |-> IF patch.purchasing = "absent" THEN vendor.block
                ELSE patch.purchasing = "true"]
StubPatched(vendor, patch) ==
    LET block == IF patch.purchasing = "absent" THEN vendor.block
                 ELSE patch.purchasing = "true"
    IN  [status |-> IF block \/ patch.raised THEN "blocked" ELSE "approved",
         block  |-> block]

(* A route of /mock-sap.                                                   *)
MockRoute(v) ==
    /\ config.outside
    /\ \/ \E status \in Statuses : stub' = [stub EXCEPT ![v] = StubStatus(status)]
       \/ \E blocked \in BOOLEAN : stub' = [stub EXCEPT ![v] = StubBlock(blocked)]
       \/ \E patch \in PatchBodies : stub' = [stub EXCEPT ![v] = StubPatched(@, patch)]
    /\ UNCHANGED <<config, erp, token, fresh, holder, issued, revoked, calls>>

-----------------------------------------------------------------------------
(* A call begins.                                                          *)

Becomes(c, call) == calls' = [calls EXCEPT ![c] = call]

At(c, phase) == calls[c].phase = phase

Failed(call, why) == [call EXCEPT !.phase = "failed", !.why = why, !.token = 0, !.tries = 0]

Begin(c, v) ==
    /\ At(c, "idle")
    /\ \E ask \in config.asks :
          Becomes(c, [calls[c] EXCEPT !.op = ask.op, !.blocked = ask.blocked, !.vendor = v,
                                     !.phase = "auth"])
    /\ UNCHANGED <<config, erp, stub, token, fresh, holder, issued, revoked>>

(* The stub answers at once; there is nothing to wait for.                 *)
StubAnswers(c) ==
    /\ At(c, "auth") /\ config.mode = "stub"
    /\ LET v == calls[c].vendor
           status == IF calls[c].blocked THEN "blocked" ELSE "approved"
       IN  /\ stub' = CASE calls[c].op = "read"   -> stub
                        [] calls[c].op = "status" -> [stub EXCEPT ![v] = StubStatus(status)]
                        [] calls[c].op = "block"  -> [stub EXCEPT ![v] =
                                                         StubBlock(calls[c].blocked)]
           /\ Becomes(c, [calls[c] EXCEPT !.phase = "done", !.answer = stub'[v],
                                          !.applied = TRUE])
    /\ UNCHANGED <<config, erp, token, fresh, holder, issued, revoked>>

-----------------------------------------------------------------------------
(* _auth_headers and _fetch_token.                                         *)

Usable == token # 0 /\ fresh

Unconfigured(c) ==
    /\ At(c, "auth") /\ config.mode # "stub" /\ ~config.configured
    /\ Becomes(c, Failed(calls[c], "other"))
    /\ UNCHANGED <<config, erp, stub, token, fresh, holder, issued, revoked>>

Headers(c) ==
    /\ At(c, "auth") /\ config.mode # "stub" /\ config.configured
    /\ LET to == IF config.mode = "sandbox" \/ Usable THEN "send" ELSE "lock"
       IN  Becomes(c, [calls[c] EXCEPT !.phase = to,
                           !.token = IF config.mode = "live" /\ Usable THEN token ELSE 0])
    /\ UNCHANGED <<config, erp, stub, token, fresh, holder, issued, revoked>>

(* The lock is taken, and the cache looked at again.                       *)
Locked(c) ==
    /\ At(c, "lock") /\ holder = Nobody
    /\ IF Usable
       THEN /\ Becomes(c, [calls[c] EXCEPT !.phase = "send", !.token = token])
            /\ UNCHANGED holder
       ELSE /\ Becomes(c, [calls[c] EXCEPT !.phase = "post"])
            /\ holder' = c
    /\ UNCHANGED <<config, erp, stub, token, fresh, issued, revoked>>

(* One more request, for a token or for the entity.                        *)
Requested(call) ==
    IF call.phase = "post" THEN [call EXCEPT !.posts = @ + 1] ELSE [call EXCEPT !.sends = @ + 1]

ReleaseForgotten(c) == UNCHANGED holder
Release(c) == holder' = IF holder = c THEN Nobody ELSE holder

TokenIssued(c) ==
    /\ At(c, "post") /\ issued < MaxIssued
    /\ issued' = issued + 1 /\ token' = issued + 1 /\ fresh' = TRUE
    /\ Becomes(c, [Requested(calls[c]) EXCEPT !.phase = "send", !.tries = 0,
                                              !.token = issued + 1])
    /\ Release(c)
    /\ UNCHANGED <<config, erp, stub, revoked>>

(* 401 or 403, or an answer of the token endpoint without a token: the     *)
(* cached token is dropped, whoever fetched it, and a live call starts     *)
(* over once.                                                              *)
DiscardedNot == UNCHANGED <<token, fresh>>
Discarded    == token' = 0 /\ fresh' = FALSE

GivenUp(call)      == config.mode # "live" \/ call.retried

AuthFails(c) ==
    LET call == [Requested(calls[c]) EXCEPT !.refused =
                     IF calls[c].phase = "send" THEN @ \cup {calls[c].token} ELSE @]
    IN  IF GivenUp(call)
        THEN Becomes(c, Failed(call, "auth")) /\ UNCHANGED <<token, fresh>>
        ELSE Becomes(c, [call EXCEPT !.phase = "auth", !.retried = TRUE,
                                          !.token = 0, !.tries = 0]) /\ Discarded

Unauthorized(c) ==
    /\ \/ At(c, "post") /\ ~config.authorised
       \/ At(c, "send") /\ (~config.authorised \/ calls[c].token \in revoked)
    /\ AuthFails(c)
    /\ Release(c)
    /\ UNCHANGED <<config, erp, stub, issued, revoked>>

-----------------------------------------------------------------------------
(* Requests and answers.                                                   *)

(* A time-out, a transport error, 429 or 5xx: the request is repeated, a   *)
(* bounded number of times.  It may have arrived.                          *)
Unanswered(c, call) ==
    IF call.tries + 1 < MaxAttempts
    THEN Becomes(c, [Requested(call) EXCEPT !.tries = @ + 1]) /\ UNCHANGED holder
    ELSE Becomes(c, Failed(Requested(call), "other")) /\ Release(c)

NotDelivered(c) ==
    /\ At(c, "post") \/ At(c, "send")
    /\ Unanswered(c, calls[c])
    /\ UNCHANGED <<config, erp, stub, token, fresh, issued, revoked>>

Accepted(c) ==
    At(c, "send") /\ config.authorised /\ calls[c].token \notin revoked

AnswerLost(c) ==
    /\ Accepted(c)
    /\ erp' = [erp EXCEPT ![calls[c].vendor] = Patched(@, calls[c])]
    /\ Unanswered(c, [calls[c] EXCEPT !.applied = TRUE])
    /\ UNCHANGED <<config, stub, token, fresh, issued, revoked>>

(* Another 4xx, or a body that cannot be read, from either endpoint.       *)
Refused(c) ==
    /\ At(c, "post") \/ Accepted(c)
    /\ Becomes(c, Failed(Requested(calls[c]), "other"))
    /\ Release(c)
    /\ UNCHANGED <<config, erp, stub, token, fresh, issued, revoked>>

(* The entity comes back, or no JSON although the PATCH was applied (204), *)
(* or an OData error with status 200, for which nothing was applied.       *)
ErrorBody(c) == Becomes(c, Failed(Requested(calls[c]), "other"))

Answered(c) ==
    /\ Accepted(c)
    /\ LET v == calls[c].vendor
       IN  \/ /\ erp' = [erp EXCEPT ![v] = Patched(@, calls[c])]
              /\ Becomes(c, [Requested(calls[c]) EXCEPT
                                 !.phase = "done", !.applied = TRUE, !.token = 0, !.tries = 0,
                                 !.answer = FromSupplier(Patched(erp[v], calls[c]))])
           \/ /\ erp' = [erp EXCEPT ![v] = Patched(@, calls[c])]
              /\ Becomes(c, Failed([Requested(calls[c]) EXCEPT !.applied = TRUE], "other"))
           \/ ErrorBody(c) /\ UNCHANGED erp
    /\ UNCHANGED <<config, stub, token, fresh, holder, issued, revoked>>

(* The caller's task is cancelled; the lock comes back.                    *)
Cancelled(c) ==
    /\ calls[c].phase \in {"auth", "lock", "post", "send"} /\ config.mode # "stub"
    /\ Becomes(c, Failed(calls[c], "other"))
    /\ Release(c)
    /\ UNCHANGED <<config, erp, stub, token, fresh, issued, revoked>>

-----------------------------------------------------------------------------
(* The tenant, its users, and time.                                        *)

Expire ==
    /\ Usable
    /\ fresh' = FALSE
    /\ UNCHANGED <<config, erp, stub, token, holder, issued, revoked, calls>>

Revoke ==
    /\ config.mode = "live" /\ issued > 0 /\ issued \notin revoked
    /\ revoked' = 1..issued
    /\ UNCHANGED <<config, erp, stub, token, fresh, holder, issued, calls>>

OutsideChange(v) ==
    /\ config.outside
    /\ \E entity \in Entity : erp' = [erp EXCEPT ![v] = entity]
    /\ UNCHANGED <<config, stub, token, fresh, holder, issued, revoked, calls>>

-----------------------------------------------------------------------------
Step(c) ==
    \/ StubAnswers(c) \/ Unconfigured(c) \/ Headers(c) \/ Locked(c) \/ TokenIssued(c)
    \/ Unauthorized(c) \/ NotDelivered(c) \/ AnswerLost(c) \/ Refused(c) \/ Answered(c)

Next ==
    \/ \E c \in Callers :
          \/ \E v \in Vendors : Begin(c, v)
          \/ Step(c) \/ Cancelled(c)
    \/ Expire \/ Revoke
    \/ \E v \in Vendors : MockRoute(v) \/ OutsideChange(v)

Spec == Init /\ [][Next]_vars

(* Every request is answered or times out, and the lock wakes its waiters. *)
FairSpec == Spec /\ \A c \in Callers : WF_vars(Step(c))

-----------------------------------------------------------------------------
(* Properties.                                                             *)

(* A token is fetched by one call at a time, and only while the cache has  *)
(* none that could be used: a caller that waited for the lock takes what   *)
(* the one before it fetched.                                              *)
NoNeedlessFetch ==
    \A c \in Callers : At(c, "post") => holder = c /\ ~Usable

(* Revocations alone make a call fail only by refusing it two different    *)
(* tokens: the retry never sends the refused one again, whoever else       *)
(* drops, fetches and caches tokens meanwhile.                             *)
RevocationIsSurvived ==
    config.mode = "live" /\ config.authorised =>
        \A c \in Callers : calls[c].why = "auth" =>
            \E t, u \in calls[c].refused : t # u

(* However time-outs, refusals and revocations mix, a call sends a bounded *)
(* number of requests, and none without its settings.                      *)
SendsBounded ==
    \A c \in Callers :
        /\ calls[c].sends <= 2 * MaxAttempts /\ calls[c].posts <= 2 * MaxAttempts
        /\ ~config.configured => calls[c].sends + calls[c].posts = 0

(* A call that returns has changed the vendor and reports it as asked for, *)
(* whatever flags the tenant's users had set.                              *)
OkMeansApplied ==
    \A c \in Callers : At(c, "done") /\ calls[c].op # "read" =>
        /\ calls[c].applied
        /\ calls[c].answer.block = calls[c].blocked
        /\ calls[c].op = "status" \/ calls[c].blocked =>
              (calls[c].answer.status = "blocked") = calls[c].blocked

(* The stub's views agree on who may be ordered from: what a run reads,    *)
(* the A_Supplier entity read back as the HTTP client would, and the       *)
(* business partner, after any mixture of actions and PATCHes.             *)
ViewsAgree ==
    \A v \in Vendors :
        LET blocked == stub[v].status = "blocked"
        IN  /\ (FromSupplier(ToSupplier(stub[v])).status = "blocked") = blocked
            /\ CentrallyBlocked(stub[v]) = blocked
            /\ FromSupplier(ToSupplier(stub[v])).block => blocked

(* What sap_actions.py says of an action that failed: the vendor state is  *)
(* left unchanged.                                                         *)
FailedLeavesVendor ==
    \A c \in Callers : At(c, "failed") /\ calls[c].op # "read" => ~calls[c].applied

(* Every call ends, and none waits for ever for the token of another.      *)
CallsEnd ==
    \A c \in Callers :
        calls[c].phase \in {"auth", "lock", "post", "send"} ~>
        calls[c].phase \in {"done", "failed"}
=============================================================================
