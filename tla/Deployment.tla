------------------------------ MODULE Deployment ------------------------------
(***************************************************************************)
(* DeployService (internal/service/deploy.go): what happens to a           *)
(* deployment from POST /api/deploy until its goroutine has returned.      *)
(*                                                                         *)
(* Actors that interleave on one deployment:                               *)
(*   - the request that starts it (Start), up to the `go runDeploy`;       *)
(*   - its goroutine (runDeploy), one label of pc per stretch of code      *)
(*     between two calls another actor can get in between;                 *)
(*   - requests to cancel it (DeployHandler.Cancel, DeployService.Cancel); *)
(*   - the administrator who clears the history, removes the VM, or        *)
(*     deletes the target (each deployment has a target of its own here);  *)
(*   - the hypervisor, which goes on cloning whatever Forgemill does;      *)
(*   - the 4 h deadline, and a crash of the whole process.                 *)
(* The SQLite handle has one connection, so a statement or a transaction   *)
(* is one step.                                                            *)
(***************************************************************************)

CONSTANTS Deployments,       \* ids of deployments rows (AUTOINCREMENT: never reused)
          HypervisorFaults,  \* the hypervisor may refuse or fail calls by itself
          WriteFaults,       \* the database may refuse a single write
          Crashes            \* the process may die at any moment

ASSUME FaultsAreBoolean == {HypervisorFaults, WriteFaults, Crashes} \subseteq BOOLEAN

VARIABLES
  row,        \* row[d]: deployments.status; "none" before there is a row, "deleted"
              \* when history was cleared, "dropped" when its target was deleted
  tracked,    \* tracked[d]: the managed_vms row with deployment_id = d
  vm,         \* vm[d]: the clone, as the hypervisor sees it
  pc,         \* pc[d]: where Start or runDeploy stands
  cancels,    \* DeployService.cancels: the ids with a registered cancel func
  ctx,        \* ctx[d]: the goroutine's context
  request,    \* request[d]: a request to cancel d that is being served
  fired,      \* fired[d]: events handed to webhooks and notifications
  disturbed,  \* history: d met a crash or a refused write
  raced       \* history: Cancel wrote the row of a deployment still in progress

vars == <<row, tracked, vm, pc, cancels, ctx, request, fired, disturbed, raced>>

Live     == {"pending", "running"}
Terminal == {"completed", "failed", "cancelled"}
Exists   == Live \union Terminal
Gone     == {"deleted", "dropped"}
Outcomes == {"deploy.completed", "deploy.failed", "deploy.cancelled"}
Events   == Outcomes \union {"deploy.started"}

\* Places of runDeploy: before the hypervisor call, polling, and winding up.
Working  == {"spawn", "connect", "clone", "cloning", "poll", "asking", "extras"}
Settling == {"complete", "cancel", "trackPartial", "fail", "failExtras"}
Telling  == {"trackDone", "tellCompleted", "tellCancelled", "tellFailed", "tellFailedExtras"}
Leaving  == {"trackExtras", "return"}
InGoroutine == Working \union Settling \union Telling \union Leaving
Places      == InGoroutine \union {"idle", "insert"}

Init == /\ row     = [d \in Deployments |-> "none"]
        /\ tracked = [d \in Deployments |-> "never"]
        /\ vm      = [d \in Deployments |-> "none"]
        /\ pc      = [d \in Deployments |-> "idle"]
        /\ ctx     = [d \in Deployments |-> "none"]
        /\ request = [d \in Deployments |-> "none"]
        /\ fired   = [d \in Deployments |-> {}]
        /\ cancels = {} /\ disturbed = {} /\ raced = {}

------------------------------------------------------------------------------
(* What the steps share *)

\* Slip: status updates without their transition guards.
ValidFromAnything(s) == Exists

\* UpdateDeploymentStatus: the states a row may be moved to s from.
ValidFrom(s) == CASE s = "running"   -> {"pending"}
                  [] s = "completed" -> {"running"}
                  [] OTHER           -> Live

\* UPDATE ... WHERE id = d AND status IN ValidFrom(s).  Every caller in
\* runDeploy logs a refusal, at most, and goes on.
StatusWrite(d, s) == row' = IF row[d] \in ValidFrom(s) THEN [row EXCEPT ![d] = s] ELSE row

\* A status write of the goroutine: it happens, or the database refuses it.
GoroutineWrite(d, s) ==
  \/ StatusWrite(d, s) /\ UNCHANGED disturbed
  \/ WriteFaults /\ disturbed' = disturbed \union {d} /\ UNCHANGED row

Goto(d, from, to) == pc[d] = from /\ pc' = [pc EXCEPT ![d] = to]

\* fireWebhook reads the row again and drops the event when it is gone.
Fire(d, e) == fired' = IF row[d] \in Exists THEN [fired EXCEPT ![d] = @ \union {e}] ELSE fired

\* A call made with the deployment's context succeeds only while that is live
\* (the step is the moment the answer arrives); it fails on its own account,
\* or because the context has ended.
CallMaySucceed(d) == ctx[d] = "live"
CallMayFail(d)    == HypervisorFaults \/ ctx[d] # "live"

------------------------------------------------------------------------------
(* Start *)

\* The request is valid and its row is inserted as pending.  A request that
\* is refused leaves no row.
Start(d) == /\ row[d] = "none"
            /\ row' = [row EXCEPT ![d] = "pending"]
            /\ Goto(d, "idle", "insert")
            /\ UNCHANGED <<tracked, vm, cancels, ctx, request, fired, disturbed, raced>>

\* The context with its 4 h deadline, its cancel func in the map, go runDeploy.
Register(d) == /\ Goto(d, "insert", "spawn")
               /\ ctx' = [ctx EXCEPT ![d] = "live"]
               /\ cancels' = cancels \union {d}
               /\ UNCHANGED <<row, tracked, vm, request, fired, disturbed, raced>>

------------------------------------------------------------------------------
(* runDeploy, up to the end of the clone *)

\* The row is set running; deploy.started is fired whatever became of that.
Begin(d) == /\ Goto(d, "spawn", "connect")
            /\ GoroutineWrite(d, "running")
            /\ Fire(d, "deploy.started")
            /\ UNCHANGED <<tracked, vm, cancels, ctx, request, raced>>

\* GetProvider, which reads the target's row, and Connect.
Connect(d) == /\ \/ CallMaySucceed(d) /\ row[d] # "dropped" /\ Goto(d, "connect", "clone")
                 \/ (CallMayFail(d) \/ row[d] = "dropped") /\ Goto(d, "connect", "fail")
              /\ UNCHANGED <<row, tracked, vm, cancels, ctx, request, fired, disturbed, raced>>

\* DeployVM sends the clone request, or fails before it does.
RequestClone(d) == /\ \/ /\ CallMaySucceed(d)
                         /\ Goto(d, "clone", "cloning")
                         /\ vm' = [vm EXCEPT ![d] = "copying"]
                      \/ CallMayFail(d) /\ Goto(d, "clone", "fail") /\ UNCHANGED vm
                   /\ UNCHANGED <<row, tracked, cancels, ctx, request, fired, disturbed, raced>>

\* DeployVM waits for the clone, configures the VM and starts it.
CloneReturns(d) == /\ vm[d] = "present" /\ CallMaySucceed(d)
                   /\ Goto(d, "cloning", "poll")
                   /\ UNCHANGED <<row, tracked, vm, cancels, ctx, request, fired, disturbed, raced>>

\* PartialDeployError: the VM exists but could not be resized or started.
ClonePartial(d) == /\ vm[d] = "present" /\ CallMayFail(d)
                   /\ Goto(d, "cloning", "trackPartial")
                   /\ UNCHANGED <<row, tracked, vm, cancels, ctx, request, fired, disturbed, raced>>

\* Slip: DeployVM waits for its task without watching the context.
CloneFailsDeaf(d) == /\ vm[d] = "none"
                     /\ Goto(d, "cloning", "fail")
                     /\ UNCHANGED <<row, tracked, vm, cancels, ctx, request, fired, disturbed, raced>>

\* Any other error: waiting for the task or configuring the VM failed, the
\* clone stays as it is.  A configuration the hypervisor rejects is rolled
\* back with the same context, so only while that is live.
CloneFails(d) == /\ CallMayFail(d) \/ vm[d] = "none"
                 /\ Goto(d, "cloning", "fail")
                 /\ \/ UNCHANGED vm
                    \/ /\ vm[d] = "present" /\ ctx[d] = "live"
                       /\ vm' = [vm EXCEPT ![d] = "none"]
                 /\ UNCHANGED <<row, tracked, cancels, ctx, request, fired, disturbed, raced>>

------------------------------------------------------------------------------
(* runDeploy, the polling loop *)

\* Slip: the cancelled branch returns without writing the row.
PollEndedUnrecorded(d) ==
  /\ ctx[d] # "live"
  /\ Goto(d, "poll", "tellCancelled")
  /\ UNCHANGED <<row, tracked, vm, cancels, ctx, request, fired, disturbed, raced>>

\* The select at the top of the loop.
PollEnded(d) == /\ ctx[d] # "live"
                /\ Goto(d, "poll", "cancel")
                /\ UNCHANGED <<row, tracked, vm, cancels, ctx, request, fired, disturbed, raced>>

PollLive(d) == /\ ctx[d] = "live"
               /\ Goto(d, "poll", "asking")
               /\ UNCHANGED <<row, tracked, vm, cancels, ctx, request, fired, disturbed, raced>>

\* GetDeployProgress: still running, finished (with or without extra disks
\* and NICs to attach), or an error of the call or of the task.
Ask(d) == /\ \/ /\ CallMaySucceed(d)
                /\ \E next \in {"poll", "complete", "extras"} : Goto(d, "asking", next)
             \/ CallMayFail(d) /\ Goto(d, "asking", "fail")
          /\ UNCHANGED <<row, tracked, vm, cancels, ctx, request, fired, disturbed, raced>>

\* attachDeployExtras: all of them, or the first failure.
AttachExtras(d) == /\ \/ CallMaySucceed(d) /\ Goto(d, "extras", "complete")
                      \/ CallMayFail(d) /\ Goto(d, "extras", "failExtras")
                   /\ UNCHANGED <<row, tracked, vm, cancels, ctx, request, fired, disturbed, raced>>

------------------------------------------------------------------------------
(* runDeploy, winding up: a status write, a VM row and an event, in the order *)
(* each exit of the function makes them *)

\* The goroutine writes the outcome s.
Settle(d, from, s, to) ==
  /\ Goto(d, from, to)
  /\ GoroutineWrite(d, s)
  /\ UNCHANGED <<tracked, vm, cancels, ctx, request, fired, raced>>

\* registerDeployedVM: the insert violates its foreign key when the
\* deployments row is gone; either error is only logged.
RegisterVM(d, from, to) ==
  /\ Goto(d, from, to)
  /\ \/ /\ tracked' = IF row[d] \in Exists THEN [tracked EXCEPT ![d] = "yes"] ELSE tracked
        /\ UNCHANGED disturbed
     \/ /\ WriteFaults /\ disturbed' = disturbed \union {d}
        /\ UNCHANGED tracked
  /\ UNCHANGED <<row, vm, cancels, ctx, request, fired, raced>>

\* fireWebhook at the end of an exit.
Tell(d, from, e, to) ==
  /\ Goto(d, from, to)
  /\ Fire(d, e)
  /\ UNCHANGED <<row, tracked, vm, cancels, ctx, request, disturbed, raced>>

\* Slip: the VM is not registered on success.
ExitCompletedUntracked(d) == \/ Settle(d, "complete", "completed", "tellCompleted")
                             \/ Tell(d, "tellCompleted", "deploy.completed", "return")

\* Slip: the event goes out before the VM is registered.
ExitCompletedHasty(d) == \/ Settle(d, "complete", "completed", "tellCompleted")
                         \/ Tell(d, "tellCompleted", "deploy.completed", "trackDone")
                         \/ RegisterVM(d, "trackDone", "return")

\* The success exit: completed, the VM registered, deploy.completed.
ExitCompleted(d) == \/ Settle(d, "complete", "completed", "trackDone")
                    \/ RegisterVM(d, "trackDone", "tellCompleted")
                    \/ Tell(d, "tellCompleted", "deploy.completed", "return")

\* Slip: no return after the cancelled branch, the loop goes on.
ExitCancelledFallsThrough(d) == \/ Settle(d, "cancel", "cancelled", "tellCancelled")
                                \/ Tell(d, "tellCancelled", "deploy.cancelled", "asking")

\* The exit of ctx.Done(): cancelled, deploy.cancelled.
ExitCancelled(d) == \/ Settle(d, "cancel", "cancelled", "tellCancelled")
                    \/ Tell(d, "tellCancelled", "deploy.cancelled", "return")

\* failDeploy; a partially deployed VM was registered before.
ExitFailed(d) == \/ RegisterVM(d, "trackPartial", "fail")
                 \/ Settle(d, "fail", "failed", "tellFailed")
                 \/ Tell(d, "tellFailed", "deploy.failed", "return")

\* failDeploy after an extra disk or NIC failed; the VM is registered after.
ExitExtras(d) == \/ Settle(d, "failExtras", "failed", "tellFailedExtras")
                 \/ Tell(d, "tellFailedExtras", "deploy.failed", "trackExtras")
                 \/ RegisterVM(d, "trackExtras", "return")

\* The deferred function: the cancel func leaves the map and is called.
Return(d) == /\ Goto(d, "return", "idle")
             /\ cancels' = cancels \ {d}
             /\ ctx' = [ctx EXCEPT ![d] = "none"]
             /\ UNCHANGED <<row, tracked, vm, request, fired, disturbed, raced>>

------------------------------------------------------------------------------
(* A request to cancel; one at a time for each deployment *)

\* DeployHandler.Cancel refuses a row that is not live.
CancelCheck(d) == /\ request[d] = "none" /\ row[d] \in Live
                  /\ request' = [request EXCEPT ![d] = "checked"]
                  /\ UNCHANGED <<row, tracked, vm, pc, cancels, ctx, fired, disturbed, raced>>

\* DeployService.Cancel looks for the cancel func under its mutex ...
CancelLookup(d) == /\ request[d] = "checked"
                   /\ request' = [request EXCEPT ![d] = IF d \in cancels THEN "signal" ELSE "write"]
                   /\ UNCHANGED <<row, tracked, vm, pc, cancels, ctx, fired, disturbed, raced>>

\* ... and calls it, after the unlock: too late when the goroutine has left.
CancelSignal(d) == /\ request[d] = "signal"
                   /\ request' = [request EXCEPT ![d] = "none"]
                   /\ ctx' = [ctx EXCEPT ![d] = IF @ = "live" THEN "cancelled" ELSE @]
                   /\ UNCHANGED <<row, tracked, vm, pc, cancels, fired, disturbed, raced>>

\* ... or, having found none, writes the row itself.
CancelWrite(d) == /\ request[d] = "write"
                  /\ request' = [request EXCEPT ![d] = "none"]
                  /\ \/ /\ StatusWrite(d, "cancelled")
                        /\ raced' = IF row[d] \in Live /\ pc[d] # "idle" THEN raced \union {d} ELSE raced
                     \/ WriteFaults /\ UNCHANGED <<row, raced>>
                  /\ UNCHANGED <<tracked, vm, pc, cancels, ctx, fired, disturbed>>

------------------------------------------------------------------------------
(* The surroundings *)

\* Slip: context.WithCancel, no deadline.
NoDeadline(d) == FALSE

\* context.WithTimeout: four hours have passed.
Deadline(d) == /\ ctx[d] = "live"
               /\ ctx' = [ctx EXCEPT ![d] = "expired"]
               /\ UNCHANGED <<row, tracked, vm, pc, cancels, request, fired, disturbed, raced>>

\* The clone task ends, whether or not anyone still waits for it.
CloneEnds(d) == /\ vm[d] = "copying"
                /\ \E v \in {"present"} \union (IF HypervisorFaults THEN {"none"} ELSE {}) :
                     vm' = [vm EXCEPT ![d] = v]
                /\ UNCHANGED <<row, tracked, pc, cancels, ctx, request, fired, disturbed, raced>>

\* VMService.Delete removes the VM from the hypervisor and then its record;
\* with force, or when the first part was done before, the record alone.
RemoveVM(d) == /\ tracked[d] = "yes"
               /\ \/ vm' = [vm EXCEPT ![d] = "none"] /\ UNCHANGED tracked
                  \/ tracked' = [tracked EXCEPT ![d] = "removed"] /\ UNCHANGED vm
               /\ UNCHANGED <<row, pc, cancels, ctx, request, fired, disturbed, raced>>

\* Slip: foreign keys off, as with the older SQLite driver.
NeverRefused == FALSE

\* managed_vms.deployment_id references deployments(id) with no ON DELETE
\* clause and foreign keys are on: one tracked VM refuses the whole DELETE.
ClearRefused == \E d \in Deployments : row[d] \in Terminal /\ tracked[d] = "yes"

\* ClearDeploymentHistory, one transaction.
ClearHistory == /\ ~ClearRefused
                /\ row' = [d \in Deployments |-> IF row[d] \in Terminal THEN "deleted" ELSE row[d]]
                /\ UNCHANGED <<tracked, vm, pc, cancels, ctx, request, fired, disturbed, raced>>

\* DeleteTarget removes the target with its VM rows and its deployments,
\* those in progress included, in one transaction; no goroutine is told.
DeleteTarget(d) == /\ row[d] \in Exists
                   /\ row' = [row EXCEPT ![d] = "dropped"]
                   /\ tracked' = [tracked EXCEPT ![d] = IF @ = "yes" THEN "removed" ELSE @]
                   /\ UNCHANGED <<vm, pc, cancels, ctx, request, fired, disturbed, raced>>

\* The process dies and comes back: the rows and the hypervisor keep their
\* state, everything else is gone, and nothing at startup looks for it.
Crash == /\ Crashes
         /\ disturbed' = disturbed \union {d \in Deployments : pc[d] # "idle"}
         /\ pc'      = [d \in Deployments |-> "idle"]
         /\ ctx'     = [d \in Deployments |-> "none"]
         /\ request' = [d \in Deployments |-> "none"]
         /\ cancels' = {}
         /\ UNCHANGED <<row, tracked, vm, fired, raced>>

------------------------------------------------------------------------------
CloneCall(d) == RequestClone(d) \/ CloneReturns(d) \/ ClonePartial(d) \/ CloneFails(d)
Calls(d)     == Connect(d) \/ CloneCall(d) \/ Ask(d) \/ AttachExtras(d)
Poll(d)      == PollEnded(d) \/ PollLive(d)
WindUp(d)    == ExitCompleted(d) \/ ExitCancelled(d) \/ ExitFailed(d) \/ ExitExtras(d) \/ Return(d)

RunDeploy(d) == Begin(d) \/ Calls(d) \/ Poll(d) \/ WindUp(d)
Cancel(d)    == CancelCheck(d) \/ CancelLookup(d) \/ CancelSignal(d) \/ CancelWrite(d)

Next == \/ \E d \in Deployments : \/ Start(d) \/ Register(d) \/ RunDeploy(d) \/ Cancel(d)
                                  \/ Deadline(d) \/ CloneEnds(d) \/ RemoveVM(d)
                                  \/ DeleteTarget(d)
        \/ ClearHistory
        \/ Crash

Spec == Init /\ [][Next]_vars

\* Goroutines are scheduled, timers fire, and a call returns once its context
\* has ended.  Before that it may take for ever, as may a clone; nobody has to
\* cancel, clear or remove anything.
Fairness == \A d \in Deployments : /\ WF_vars(Register(d))
                                   /\ WF_vars(Begin(d) \/ Poll(d) \/ WindUp(d))
                                   /\ WF_vars(ctx[d] # "live" /\ Calls(d))
                                   /\ WF_vars(Deadline(d))

FairSpec == Spec /\ Fairness

------------------------------------------------------------------------------
(* Properties *)

\* Type invariant.
TypeOK == /\ row     \in [Deployments -> Exists \union Gone \union {"none"}]
          /\ tracked \in [Deployments -> {"never", "yes", "removed"}]
          /\ vm      \in [Deployments -> {"none", "copying", "present"}]
          /\ pc      \in [Deployments -> Places]
          /\ ctx     \in [Deployments -> {"none", "live", "cancelled", "expired"}]
          /\ request \in [Deployments -> {"none", "checked", "signal", "write"}]
          /\ fired   \in [Deployments -> SUBSET Events]
          /\ cancels \subseteq Deployments
          /\ disturbed \subseteq Deployments
          /\ raced \subseteq Deployments

\* A row that says pending or running has a goroutine (or a request about to
\* start one) that will settle it: every exit of runDeploy writes an outcome.
\* Only a crash or a refused write leaves a live row to nobody.
LiveRowHasOwner ==
  \A d \in Deployments : row[d] \in Live /\ pc[d] = "idle" => d \in disturbed

\* From its first to its last statement a goroutine can be reached through the
\* cancels map, and the map holds no func of a goroutine that has left.
CancellableWhileRunning ==
  \A d \in Deployments : d \in cancels <=> pc[d] \in InGoroutine

\* A tracked VM's deployment row exists: the manifest and the credentials of
\* the VM are read through it, whatever is cleared or registered in between.
TrackedKeepsRecord ==
  \A d \in Deployments : tracked[d] = "yes" => row[d] \in Exists

\* A deployment that is shown as completed, and whose goroutine has left, has
\* put its VM into the inventory, even when the history is cleared around it.
CompletedIsTracked ==
  \A d \in Deployments :
    row[d] = "completed" /\ pc[d] = "idle" /\ d \notin disturbed => tracked[d] # "never"

\* Whoever receives deploy.completed can already look the VM up.
CompletedWebhookHasVM ==
  \A d \in Deployments :
    "deploy.completed" \in fired[d] => tracked[d] # "never" \/ d \in disturbed

RowOf(e) == CASE e = "deploy.completed" -> "completed"
              [] e = "deploy.failed"    -> "failed"
              [] OTHER                  -> "cancelled"

\* The outcome that was announced is the outcome on record, for as long as
\* the record is kept.  Excepted are rows a crash or a refused write left
\* behind, and those Cancel wrote under a deployment still in progress.
OutcomeAgreement ==
  \A d \in Deployments \ (disturbed \union raced) :
    \A e \in fired[d] \ {"deploy.started"} : row[d] \in Gone \union {RowOf(e)}

\* The deployment records keep the promises of DeploymentLifecycle.
Lifecycle == INSTANCE DeploymentLifecycle
               WITH told <- [d \in Deployments |-> fired[d] \ {"deploy.started"}]

\* Implements the abstract record: forward-only statuses, one outcome told,
\* no clearing under a tracked VM.
ImplementsLifecycle == Lifecycle!Spec

\* No deployment stays pending or running for ever, whatever the hypervisor
\* does: the deadline ends it (crashes and refused writes excepted).
EveryDeploymentSettles ==
  \A d \in Deployments : row[d] \in Live ~> row[d] \notin Live \/ d \in disturbed

\* MED-15: no goroutine is leaked on a stalled deployment.
GoroutinesReturn ==
  \A d \in Deployments : pc[d] # "idle" ~> pc[d] = "idle"

\* What Cancel's comments say: the goroutine it signals records the
\* cancellation itself, so none whose context was cancelled writes "failed".
\* (The code does not keep this: see the README.)
SignalledIsNotFailed ==
  [][\A d \in Deployments : row[d] \in Live /\ row'[d] = "failed" => ctx[d] # "cancelled"]_vars
=============================================================================
