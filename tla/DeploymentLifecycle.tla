------------------------- MODULE DeploymentLifecycle -------------------------
(***************************************************************************)
(* What a deployment record promises to the people and systems that watch *)
(* it, said without goroutines, contexts or hypervisors.                   *)
(*                                                                         *)
(* A record is accepted once, moves forward only, settles once, and may    *)
(* be cleared afterwards.  A VM row points at a record that exists.  The   *)
(* subscribers of the webhooks are told of at most one outcome, and only   *)
(* while the record can still be read.  Module Deployment implements it.   *)
(***************************************************************************)

CONSTANT Deployments       \* identities of deployment records (never reused)

VARIABLES row,             \* row[d]: status column of the deployments row
          tracked,         \* tracked[d]: the managed_vms row made for d
          told             \* told[d]: outcomes announced for d

vars == <<row, tracked, told>>

Live     == {"pending", "running"}
Terminal == {"completed", "failed", "cancelled"}
Exists   == Live \union Terminal
Outcomes == {"deploy.completed", "deploy.failed", "deploy.cancelled"}

Init == /\ row     = [d \in Deployments |-> "none"]
        /\ tracked = [d \in Deployments |-> "never"]
        /\ told    = [d \in Deployments |-> {}]

Accept(d) == /\ row[d] = "none"
             /\ row' = [row EXCEPT ![d] = "pending"]
             /\ UNCHANGED <<tracked, told>>

Begin(d) == /\ row[d] = "pending"
            /\ row' = [row EXCEPT ![d] = "running"]
            /\ UNCHANGED <<tracked, told>>

\* A record settles once; only a running deployment completes.
Settle(d) == /\ \E s \in Terminal :
                  /\ IF s = "completed" THEN row[d] = "running" ELSE row[d] \in Live
                  /\ row' = [row EXCEPT ![d] = s]
             /\ UNCHANGED <<tracked, told>>

\* The VM enters the inventory, pointing at a record that exists.
Track(d) == /\ row[d] \in Exists
            /\ tracked[d] = "never"
            /\ tracked' = [tracked EXCEPT ![d] = "yes"]
            /\ UNCHANGED <<row, told>>

Untrack(d) == /\ tracked[d] = "yes"
              /\ tracked' = [tracked EXCEPT ![d] = "removed"]
              /\ UNCHANGED <<row, told>>

\* One outcome per deployment, and never about a record that is gone.
Announce(d) == /\ row[d] \in Exists
               /\ told[d] = {}
               /\ \E e \in Outcomes : told' = [told EXCEPT ![d] = {e}]
               /\ UNCHANGED <<row, tracked>>

\* A deleted target takes the record and the VM row that points at it along.
Drop(d) == /\ row[d] \in Exists
           /\ row' = [row EXCEPT ![d] = "dropped"]
           /\ tracked' = [tracked EXCEPT ![d] = IF @ = "yes" THEN "removed" ELSE @]
           /\ UNCHANGED told

\* History is cleared as a whole, and never under a VM that points at it.
Clear == /\ \A d \in Deployments : row[d] \in Terminal => tracked[d] # "yes"
         /\ row' = [d \in Deployments |-> IF row[d] \in Terminal THEN "deleted" ELSE row[d]]
         /\ UNCHANGED <<tracked, told>>

Next == \/ \E d \in Deployments : \/ Accept(d) \/ Begin(d) \/ Settle(d)
                                  \/ Track(d) \/ Untrack(d) \/ Announce(d) \/ Drop(d)
        \/ Clear

Spec == Init /\ [][Next]_vars
=============================================================================
