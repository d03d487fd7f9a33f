------------------------------- MODULE Execution -------------------------------
(***************************************************************************)
(* ExecutorService (internal/service/executor.go) and the SSH session it   *)
(* drives (internal/service/ssh.go): a script that is run on a VM, from    *)
(* POST /api/vms/{id}/execute until its goroutine has returned.            *)
(*                                                                         *)
(* Actors that interleave on one execution:                                *)
(*   - the request that starts it (Execute), which counts before it        *)
(*     inserts;                                                            *)
(*   - its goroutine (runExecution, and sshExecute inside it);             *)
(*   - the guest: its sshd, the job, and the reader of the job's output;   *)
(*   - requests to cancel it, the administrator who removes the VM;        *)
(*   - the time limit, and a crash of the whole process.                   *)
(* The SQLite handle has one connection, so a statement or a transaction   *)
(* is one step.                                                            *)
(***************************************************************************)
EXTENDS Integers, FiniteSets

CONSTANTS Executions,   \* ids of action_executions rows (AUTOINCREMENT: never reused)
          VMs,          \* managed VMs
          VmOf,         \* VmOf[e]: the VM e is to run on
          MaxPerVM,     \* maxConcurrentPerVM
          MaxTotal,     \* maxConcurrentTotal
          GuestFaults,  \* SSH calls may be refused, connections may break
          GuestHangs,   \* a guest's sshd may stop answering, for ever
          WriteFaults,  \* the database may refuse a single write
          Crashes       \* the process may die at any moment

ASSUME ExecutionsArePlaced == /\ IsFiniteSet(Executions)
                              /\ VmOf \in [Executions -> VMs]
ASSUME LimitsArePositive   == MaxPerVM \in Nat \ {0} /\ MaxTotal \in Nat \ {0}
ASSUME SwitchesAreBoolean  == {GuestFaults, GuestHangs, WriteFaults, Crashes} \subseteq BOOLEAN

VARIABLES
  row,        \* row[e]: action_executions.status; "none" before, "deleted" after
  pc,         \* pc[e]: where Execute or runExecution stands
  cancels,    \* ExecutorService.cancels: the ids with a registered cancel func
  ctx,        \* ctx[e]: the goroutine's context
  job,        \* job[e]: the script, as the guest sees it
  out,        \* out[e]: the goroutine that reads the job's output
  request,    \* request[e]: a request to cancel e that has found its cancel func
  told,       \* told[e]: the last message sent to the execution's watchers
  vms,        \* managed_vms: the VMs there still are
  hung,       \* the VMs whose sshd has stopped answering
  disturbed,  \* history: e met a crash or a refused write
  overtaken   \* history: a row was inserted between e's counts and e's insert

vars == <<row, pc, cancels, ctx, job, out, request, told, vms, hung, disturbed, overtaken>>

Live     == {"pending", "running"}
Terminal == {"completed", "failed", "cancelled"}
Exists   == Live \union Terminal

\* Places of Execute, of runExecution (and sshExecute), and the two ends.
InRequest   == {"counted", "admitted", "created"}
InSession   == {"connect", "wait", "kill", "hangup", "drain"}
Settling    == {"erred", "exited"}
Telling     == {"tellCancelled", "tellError", "tellExit"}
InGoroutine == {"spawned", "return"} \union InSession \union Settling \union Telling
Places      == {"idle", "done"} \union InRequest \union InGoroutine

Begun == {"starting", "running"}   \* the guest has the script and is not through
Ended == {"ok", "bad"}             \* it exited with 0, with another code

Init == /\ row     = [e \in Executions |-> "none"]
        /\ pc      = [e \in Executions |-> "idle"]
        /\ ctx     = [e \in Executions |-> "none"]
        /\ job     = [e \in Executions |-> "none"]
        /\ out     = [e \in Executions |-> "off"]
        /\ request = [e \in Executions |-> "none"]
        /\ told    = [e \in Executions |-> "none"]
        /\ vms     = VMs
        /\ cancels = {} /\ hung = {} /\ disturbed = {} /\ overtaken = {}

------------------------------------------------------------------------------
(* What the steps share *)

Goto(e, from, to) == pc[e] = from /\ pc' = [pc EXCEPT ![e] = to]

\* UpdateExecutionStatus: no guard on the old status, and no error when the
\* row is gone.
StatusWrite(e, s) == row' = IF row[e] \in Exists THEN [row EXCEPT ![e] = s] ELSE row

\* An outcome the goroutine writes without looking at the error.
OutcomeWrite(e, s) ==
  \/ StatusWrite(e, s) /\ UNCHANGED disturbed
  \/ WriteFaults /\ disturbed' = disturbed \union {e} /\ UNCHANGED row

Answers(e) == VmOf[e] \notin hung

\* Slip: what is still pending is not counted.
RunningOnly == {e \in Executions : row[e] = "running"}

\* The rows the two counts look at, status IN ('pending', 'running').
Counted == {e \in Executions : row[e] \in Live}

On(v) == {e \in Executions : VmOf[e] = v}

------------------------------------------------------------------------------
(* Execute *)

\* The first limit; a request that is refused here changes nothing.
CountForVM(e) ==
  /\ Cardinality(Counted \intersect On(VmOf[e])) < MaxPerVM
  /\ Goto(e, "idle", "counted")
  /\ overtaken' = overtaken \ {e}
  /\ UNCHANGED <<row, cancels, ctx, job, out, request, told, vms, hung, disturbed>>

\* The second limit.
CountTotal(e) ==
  /\ \/ Cardinality(Counted) < MaxTotal /\ Goto(e, "counted", "admitted")
     \/ Cardinality(Counted) >= MaxTotal /\ Goto(e, "counted", "idle")
  /\ UNCHANGED <<row, cancels, ctx, job, out, request, told, vms, hung, disturbed, overtaken>>

\* VM, credentials, script and parameters are looked up and the row is
\* inserted; any of that may be refused, and is when the VM is gone.
Create(e) ==
  /\ \/ /\ VmOf[e] \in vms
        /\ Goto(e, "admitted", "created")
        /\ row' = [row EXCEPT ![e] = "pending"]
        /\ overtaken' = overtaken \union
                          {f \in Executions \ {e} : pc[f] \in {"counted", "admitted"}}
     \/ Goto(e, "admitted", "idle") /\ UNCHANGED <<row, overtaken>>
  /\ UNCHANGED <<cancels, ctx, job, out, request, told, vms, hung, disturbed>>

\* The context with its time limit, its cancel func in the map, go runExecution.
Register(e) ==
  /\ Goto(e, "created", "spawned")
  /\ ctx' = [ctx EXCEPT ![e] = "live"]
  /\ cancels' = cancels \union {e}
  /\ UNCHANGED <<row, job, out, request, told, vms, hung, disturbed, overtaken>>

------------------------------------------------------------------------------
(* runExecution up to the end of the SSH session *)

\* The row is set running.  When that write is refused the goroutine returns
\* at once and the row stays pending.
Mark(e) ==
  /\ \/ /\ StatusWrite(e, "running") /\ Goto(e, "spawned", "connect")
        /\ UNCHANGED disturbed
     \/ /\ WriteFaults /\ disturbed' = disturbed \union {e}
        /\ Goto(e, "spawned", "return")
        /\ UNCHANGED row
  /\ UNCHANGED <<cancels, ctx, job, out, request, told, vms, hung, overtaken>>

\* sshDial, the sudo probe, the session and its start: none of them looks at
\* the context, all of them wait for the guest.  The start may be reported as
\* failed although the guest has the script.
Connect(e) ==
  /\ Answers(e)
  /\ \/ /\ Goto(e, "connect", "wait")
        /\ job' = [job EXCEPT ![e] = "starting"]
        /\ out' = [out EXCEPT ![e] = "reading"]
     \/ /\ GuestFaults /\ Goto(e, "connect", "erred")
        /\ \E j \in {"none", "starting"} : job' = [job EXCEPT ![e] = j]
        /\ UNCHANGED out
  /\ UNCHANGED <<row, cancels, ctx, request, told, vms, hung, disturbed, overtaken>>

\* The select: the command has exited and its session is closed.
Exited(e) ==
  /\ job[e] \in Ended /\ Answers(e)
  /\ Goto(e, "wait", "drain")
  /\ UNCHANGED <<row, cancels, ctx, job, out, request, told, vms, hung, disturbed, overtaken>>

\* The select: the connection broke.  Its pipes end with it.
Lost(e) ==
  /\ GuestFaults
  /\ Goto(e, "wait", "erred")
  /\ out' = [out EXCEPT ![e] = "eof"]
  /\ UNCHANGED <<row, cancels, ctx, job, request, told, vms, hung, disturbed, overtaken>>

\* Slip: the select waits for the command only.
NeverStopped(e) == FALSE

\* The select: the context has ended (also when the command has exited as well).
Stopped(e) ==
  /\ ctx[e] # "live"
  /\ Goto(e, "wait", "kill")
  /\ UNCHANGED <<row, cancels, ctx, job, out, request, told, vms, hung, disturbed, overtaken>>

\* remoteKill opens a second session, for which the guest has to answer, and
\* looks for a process named after the execution: the job is not yet under
\* that name while sudo starts it.
RemoteKill(e) ==
  /\ Answers(e)
  /\ Goto(e, "kill", "hangup")
  /\ \/ job' = [job EXCEPT ![e] = IF @ = "running" THEN "killed" ELSE @]
     \/ GuestFaults /\ UNCHANGED job
  /\ UNCHANGED <<row, cancels, ctx, out, request, told, vms, hung, disturbed, overtaken>>

\* The signals, the close, and at most two seconds for the reader, which may
\* or may not be through.
HangUp(e) ==
  /\ Goto(e, "hangup", "erred")
  /\ UNCHANGED <<row, cancels, ctx, job, out, request, told, vms, hung, disturbed, overtaken>>

\* <-outputDone
Drain(e) ==
  /\ out[e] = "eof"
  /\ Goto(e, "drain", "exited")
  /\ UNCHANGED <<row, cancels, ctx, job, out, request, told, vms, hung, disturbed, overtaken>>

------------------------------------------------------------------------------
(* runExecution, winding up: the outcome is written and then told *)

Settle(e, from, s, to) ==
  /\ Goto(e, from, to)
  /\ OutcomeWrite(e, s)
  /\ UNCHANGED <<cancels, ctx, job, out, request, told, vms, hung, overtaken>>

Tell(e, from, message, to) ==
  /\ Goto(e, from, to)
  /\ told' = [told EXCEPT ![e] = message]
  /\ UNCHANGED <<row, cancels, ctx, job, out, request, vms, hung, disturbed, overtaken>>

\* Slip: the cancelled branch does not record the outcome.
ErredSilently(e) ==
  \/ ctx[e] = "cancelled" /\ Tell(e, "erred", "cancelled", "return")
  \/ ctx[e] # "cancelled" /\ Settle(e, "erred", "failed", "tellError")

\* Slip: no return after the cancelled branch.
ErredThrough(e) ==
  \/ ctx[e] = "cancelled" /\ Settle(e, "erred", "cancelled", "exited")
  \/ ctx[e] # "cancelled" /\ Settle(e, "erred", "failed", "tellError")

\* sshExecute returned an error: the context says whether that was a cancel.
Erred(e) ==
  \/ ctx[e] = "cancelled" /\ Settle(e, "erred", "cancelled", "tellCancelled")
  \/ ctx[e] # "cancelled" /\ Settle(e, "erred", "failed", "tellError")

Outcome(e) == IF job[e] = "ok" THEN "completed" ELSE "failed"

\* Slip: the watchers are told first.
ExitedHasty(e) ==
  \/ Tell(e, "exited", Outcome(e), "tellExit")
  \/ Settle(e, "tellExit", Outcome(e), "return")

\* sshExecute returned an exit code.
ExitCode(e) ==
  \/ Settle(e, "exited", Outcome(e), "tellExit")
  \/ Tell(e, "tellExit", Outcome(e), "return")

\* sendWSStatus or sendWSError at the end of the error branches.
TellErred(e) ==
  \/ Tell(e, "tellCancelled", "cancelled", "return")
  \/ Tell(e, "tellError", "error", "return")

\* The deferred functions: the cancel func leaves the map and is called.
Return(e) ==
  /\ Goto(e, "return", "done")
  /\ cancels' = cancels \ {e}
  /\ ctx' = [ctx EXCEPT ![e] = "none"]
  /\ UNCHANGED <<row, job, out, request, told, vms, hung, disturbed, overtaken>>

------------------------------------------------------------------------------
(* A request to cancel; one at a time for each execution *)

\* The handler reads the row, Cancel finds the func under its mutex.  Without
\* a row or a func the request is refused.
CancelLookup(e) ==
  /\ request[e] = "none" /\ row[e] \in Exists /\ e \in cancels
  /\ request' = [request EXCEPT ![e] = "found"]
  /\ UNCHANGED <<row, pc, cancels, ctx, job, out, told, vms, hung, disturbed, overtaken>>

\* The call after the unlock: too late when the goroutine has left.
CancelSignal(e) ==
  /\ request[e] = "found"
  /\ request' = [request EXCEPT ![e] = "none"]
  /\ ctx' = [ctx EXCEPT ![e] = IF @ = "live" THEN "cancelled" ELSE @]
  /\ UNCHANGED <<row, pc, cancels, job, out, told, vms, hung, disturbed, overtaken>>

------------------------------------------------------------------------------
(* The guest, the administrator, time, and the process *)

\* sudo has handed over to the shell that carries the execution's name.
JobStarts(e) ==
  /\ job[e] = "starting"
  /\ job' = [job EXCEPT ![e] = "running"]
  /\ UNCHANGED <<row, pc, cancels, ctx, out, request, told, vms, hung, disturbed, overtaken>>

\* The script, and whatever it left behind on its output, is through.
JobEnds(e) ==
  /\ job[e] = "running"
  /\ \E j \in Ended : job' = [job EXCEPT ![e] = j]
  /\ UNCHANGED <<row, pc, cancels, ctx, out, request, told, vms, hung, disturbed, overtaken>>

\* The reader meets the end of the output: of the job, or of the session that
\* was closed under it.
OutputEnds(e) ==
  /\ out[e] = "reading"
  /\ job[e] \notin Begun \/ pc[e] \notin InSession
  /\ out' = [out EXCEPT ![e] = "eof"]
  /\ UNCHANGED <<row, pc, cancels, ctx, job, request, told, vms, hung, disturbed, overtaken>>

\* context.WithTimeout: the time limit has passed.
Deadline(e) ==
  /\ ctx[e] = "live"
  /\ ctx' = [ctx EXCEPT ![e] = "expired"]
  /\ UNCHANGED <<row, pc, cancels, job, out, request, told, vms, hung, disturbed, overtaken>>

\* DeleteManagedVM, one transaction: the executions of the VM and its row.
DeleteVM(v) ==
  /\ v \in vms
  /\ vms' = vms \ {v}
  /\ row' = [e \in Executions |-> IF VmOf[e] = v /\ row[e] \in Exists THEN "deleted" ELSE row[e]]
  /\ UNCHANGED <<pc, cancels, ctx, job, out, request, told, hung, disturbed, overtaken>>

GuestHangsUp(v) ==
  /\ GuestHangs
  /\ hung' = hung \union {v}
  /\ UNCHANGED <<row, pc, cancels, ctx, job, out, request, told, vms, disturbed, overtaken>>

\* The process dies and comes back: rows and jobs keep their state, everything
\* else is gone, and nothing at startup looks for unfinished executions.
Crash ==
  /\ Crashes
  /\ disturbed' = disturbed \union {e \in Executions : pc[e] \notin {"idle", "done"}}
  /\ pc'      = [e \in Executions |-> IF row[e] = "none" THEN "idle" ELSE "done"]
  /\ ctx'     = [e \in Executions |-> "none"]
  /\ out'     = [e \in Executions |-> IF out[e] = "off" THEN "off" ELSE "eof"]
  /\ request' = [e \in Executions |-> "none"]
  /\ cancels' = {}
  /\ UNCHANGED <<row, job, told, vms, hung, overtaken>>

------------------------------------------------------------------------------
Execute(e)    == CountForVM(e) \/ CountTotal(e) \/ Create(e) \/ Register(e)
SshExecute(e) == \/ Connect(e) \/ Exited(e) \/ Stopped(e)
                 \/ RemoteKill(e) \/ HangUp(e) \/ Drain(e)
WindUp(e)     == Erred(e) \/ ExitCode(e) \/ TellErred(e) \/ Return(e)
RunExecution(e) == Mark(e) \/ SshExecute(e) \/ WindUp(e)
Cancel(e)     == CancelLookup(e) \/ CancelSignal(e)
Guest(e)      == JobStarts(e) \/ JobEnds(e) \/ OutputEnds(e) \/ Lost(e)

Next == \/ \E e \in Executions : \/ Execute(e) \/ RunExecution(e) \/ Cancel(e)
                                 \/ Guest(e) \/ Deadline(e)
        \/ \E v \in VMs : DeleteVM(v) \/ GuestHangsUp(v)
        \/ Crash

Spec == Init /\ [][Next]_vars

\* Goroutines are scheduled, timers fire, closed pipes end, and a guest that
\* has not hung answers.  No job has to start or to end, no connection has to
\* break, nobody has to cancel.
Fairness == \A e \in Executions : /\ WF_vars(Register(e))
                                  /\ WF_vars(RunExecution(e))
                                  /\ WF_vars(OutputEnds(e))
                                  /\ WF_vars(Deadline(e))

FairSpec == Spec /\ Fairness

------------------------------------------------------------------------------
(* Properties *)

\* Type invariant.
TypeOK == /\ row     \in [Executions -> Exists \union {"none", "deleted"}]
          /\ pc      \in [Executions -> Places]
          /\ ctx     \in [Executions -> {"none", "live", "cancelled", "expired"}]
          /\ job     \in [Executions -> {"none", "killed"} \union Begun \union Ended]
          /\ out     \in [Executions -> {"off", "reading", "eof"}]
          /\ request \in [Executions -> {"none", "found"}]
          /\ told    \in [Executions -> Terminal \union {"none", "error"}]
          /\ cancels \subseteq Executions
          /\ vms     \subseteq VMs
          /\ hung    \subseteq VMs
          /\ disturbed \subseteq Executions
          /\ overtaken \subseteq Executions

\* A row that counts against the limits has a goroutine (or a request about
\* to start one) that will settle it, unless a crash or a refused write
\* orphaned it: every exit of runExecution writes an outcome.
LiveRowHasOwner ==
  \A e \in Executions : row[e] \in Live /\ pc[e] \in {"idle", "done"} => e \in disturbed

\* Whatever is shown as running can be cancelled: it is in the cancels map
\* until after its outcome is written.
RunningIsCancellable ==
  \A e \in Executions : row[e] = "running" /\ e \notin disturbed => e \in cancels

\* The limits of Execute hold for the executions that were inserted before
\* another one could follow the same count.  (They do not hold for the others:
\* counting and inserting are separate statements.)
InTime == {e \in Executions \ overtaken : row[e] \in Live}

LimitsUnlessOvertaken ==
  /\ \A v \in VMs : Cardinality(InTime \intersect On(v)) <= MaxPerVM
  /\ Cardinality(InTime) <= MaxTotal

\* What is shown as completed ran to its end with exit code 0, and all of its
\* output had been read when the row was written.
CompletedRan ==
  \A e \in Executions : row[e] = "completed" => job[e] = "ok" /\ out[e] = "eof"

\* UpdateExecutionStatus has no guard, yet an outcome on record is final:
\* nothing but the removal of the VM changes the row again.
OutcomeIsFinal ==
  [][\A e \in Executions : row[e] \in Terminal => row'[e] \in {row[e], "deleted"}]_vars

\* Watchers who are told the end can already read it from the row.
ToldIsRecorded ==
  \A e \in Executions \ disturbed :
    told[e] # "none" => row[e] \in {"deleted", IF told[e] = "error" THEN "failed" ELSE told[e]}

\* Whether or not the job ever ends, no execution holds its slot for ever: the
\* time limit ends it, where the guest still answers.
EveryExecutionSettles ==
  \A e \in Executions :
    row[e] \in Live ~> row[e] \notin Live \/ e \in disturbed \/ ~Answers(e)

\* What README.md says of POST /api/executions/:id/cancel: it kills the remote
\* job.  (A cancel that comes while sudo starts the job does not.)
CancelledJobIsKilled ==
  \A e \in Executions : row[e] = "cancelled" => job[e] \notin Begun
=============================================================================
