----------------------------- MODULE ReviewGate -----------------------------
(***************************************************************************)
(* What TerraSentry promises about the dossier of a run, whatever happens  *)
(* to the task, the process or the ERP behind it:                          *)
(*                                                                         *)
(*   - a dossier (verdict plus due-diligence statement) leaves the gate    *)
(*     alone only when the rubric found the record compliant, otherwise    *)
(*     with exactly one human decision;                                    *)
(*   - the action log holds at most one successful ERP action for a run,   *)
(*     and that action is the one the decision (or the compliant verdict)  *)
(*     calls for;                                                          *)
(*   - none of it is ever taken back, except by deleting the run.          *)
(*                                                                         *)
(* RunLifecycle implements this specification.                             *)
(***************************************************************************)

CONSTANT Runs      \* run identifiers

VARIABLES
    dossier,       \* dossier[r]: none, held, released, or withdrawn (run deleted)
    verdict,       \* verdict[r]: what the rubric said, "none" before it did
    decision,      \* decision[r]: the recorded human decision
    acted          \* acted[r]: the successful ERP action on the log

gateVars == <<dossier, verdict, decision, acted>>

HeldVerdict == {"high_risk", "ambiguous"}
Choice      == {"approve", "override"}

(* The vendor status a released dossier calls for (planned_status).        *)
Called(d) == IF d = "override" THEN "blocked" ELSE "approved"

GateInit ==
    /\ dossier  = [r \in Runs |-> "none"]
    /\ verdict  = [r \in Runs |-> "none"]
    /\ decision = [r \in Runs |-> "none"]
    /\ acted    = [r \in Runs |-> "none"]

(* A compliant record is released with no person involved.                 *)
ReleaseAlone(r) ==
    /\ dossier[r] = "none"
    /\ dossier' = [dossier EXCEPT ![r] = "released"]
    /\ verdict' = [verdict EXCEPT ![r] = "compliant"]
    /\ acted' \in {acted, [acted EXCEPT ![r] = "approved"]}
    /\ UNCHANGED decision

(* Every other verdict waits for a person.                                 *)
Hold(r) ==
    /\ dossier[r] = "none"
    /\ dossier' = [dossier EXCEPT ![r] = "held"]
    /\ \E v \in HeldVerdict : verdict' = [verdict EXCEPT ![r] = v]
    /\ UNCHANGED <<decision, acted>>

(* The decision, the release and (in auto mode) the logged ERP action are  *)
(* one step.                                                               *)
Settle(r) ==
    /\ dossier[r] = "held"
    /\ dossier' = [dossier EXCEPT ![r] = "released"]
    /\ \E d \in Choice :
          /\ decision' = [decision EXCEPT ![r] = d]
          /\ acted' \in {acted, [acted EXCEPT ![r] = Called(d)]}
    /\ UNCHANGED verdict

(* A later confirmation logs the action that was still pending.            *)
Act(r) ==
    /\ dossier[r] = "released"
    /\ acted[r] = "none"
    /\ acted' = [acted EXCEPT ![r] = Called(decision[r])]
    /\ UNCHANGED <<dossier, verdict, decision>>

(* Deleting the run takes its whole file with it.                          *)
Withdraw(r) ==
    /\ dossier[r] # "withdrawn"
    /\ dossier'  = [dossier EXCEPT ![r] = "withdrawn"]
    /\ verdict'  = [verdict EXCEPT ![r] = "none"]
    /\ decision' = [decision EXCEPT ![r] = "none"]
    /\ acted'    = [acted EXCEPT ![r] = "none"]

GateNext ==
    \E r \in Runs :
        ReleaseAlone(r) \/ Hold(r) \/ Settle(r) \/ Act(r) \/ Withdraw(r)

GateSpec == GateInit /\ [][GateNext]_gateVars
=============================================================================
