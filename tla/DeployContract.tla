--------------------------- MODULE DeployContract ---------------------------
(***************************************************************************)
(* What the deployment service is promised by DeployVM of any provider     *)
(* (internal/provider/provider.go): a success means that the machine is    *)
(* the one that was asked for, a PartialDeployError that it is there and   *)
(* configured, so that the service may track it, and a clone reported      *)
(* removed is gone.  Any other failure promises nothing.  A machine never  *)
(* gets another deployment's settings.                                     *)
(***************************************************************************)
CONSTANT Deployments

VARIABLES
  outcome,  \* per deployment: what DeployVM has returned
  built     \* per deployment: how far its machine has come

Stages == {"absent", "raw", "configured", "whole"}
Outcomes == {"none", "ok", "partial", "removed", "failed"}
Warrants(o, stage) ==
  /\ o = "ok" => stage = "whole"
  /\ o = "partial" => stage \in {"configured", "whole"}
  /\ o = "removed" => stage = "absent"

Init == outcome = [d \in Deployments |-> "none"] /\ built = [d \in Deployments |-> "absent"]
\* The machine changes while DeployVM works on it.
Build(d) ==
  /\ outcome[d] = "none"
  /\ \E stage \in Stages : built' = [built EXCEPT ![d] = stage]
  /\ UNCHANGED outcome
\* DeployVM returns, maybe with its last change.
Return(d) ==
  /\ outcome[d] = "none"
  /\ \E o \in Outcomes \ {"none"}, stage \in Stages :
       /\ Warrants(o, stage)
       /\ outcome' = [outcome EXCEPT ![d] = o]
       /\ built' = [built EXCEPT ![d] = stage]
\* Afterwards users finish it or remove it, and a copy left behind may go on.
Afterwards(d) ==
  /\ outcome[d] # "none" /\ built[d] # "absent"
  /\ \E stage \in Stages :
       /\ Warrants(outcome[d], stage) \/ stage = "absent"
       /\ built' = [built EXCEPT ![d] = stage]
  /\ UNCHANGED outcome

Next == \E d \in Deployments : Build(d) \/ Return(d) \/ Afterwards(d)
Spec == Init /\ [][Next]_<<outcome, built>>
=============================================================================
