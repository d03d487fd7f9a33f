--------------------------- MODULE DeploymentProofs ---------------------------
(***************************************************************************)
(* Theorems about Deployment, for every set of deployments and with or     *)
(* without hypervisor and database faults.                                 *)
(*                                                                         *)
(* The argument: where the goroutine of a deployment stands says what its  *)
(* row, its VM row and its announced outcome may be (Sound).  Only a crash *)
(* or a refused write (disturbed) and a status written by Cancel under a   *)
(* running goroutine (raced) loosen the tie.  Sound is inductive, and the  *)
(* properties are read off from it.                                        *)
(***************************************************************************)
EXTENDS Deployment, TLAPS

\* Places at which runDeploy has not yet announced an outcome ...
Unannounced == {"insert"} \union Working \union Settling \union Telling

\* ... and at which it has not yet registered the VM.
Unregistered == {"insert"} \union Working
                \union {"complete", "cancel", "trackPartial", "failExtras"}
                \union {"trackDone", "tellCancelled", "tellFailedExtras", "trackExtras"}

\* Where the row of an undisturbed deployment stands, unless it is gone.
RowAt(place) ==
  CASE place \in {"insert", "spawn"}                             -> {"pending"}
    [] place \in (Working \ {"spawn"}) \union Settling           -> {"running"}
    [] place \in {"trackDone", "tellCompleted"}                  -> {"completed"}
    [] place = "tellCancelled"                                   -> {"cancelled"}
    [] place \in {"tellFailed", "tellFailedExtras", "trackExtras"} -> {"failed"}
    [] place = "return"                                          -> Terminal
    [] OTHER                                                     -> Terminal \union {"none"}

Sound(d) ==
  /\ row[d] = "none" => pc[d] = "idle" /\ tracked[d] = "never" /\ fired[d] = {}
  /\ d \in cancels <=> pc[d] \in InGoroutine
  /\ d \notin disturbed \union raced => row[d] \in Gone \union RowAt(pc[d])
  /\ d \in raced => row[d] \in Gone \union {"cancelled"}
  /\ row[d] = "completed" => pc[d] \in {"trackDone", "tellCompleted", "return", "idle"}
  /\ pc[d] \in Unannounced => fired[d] \intersect Outcomes = {}
  /\ pc[d] \in Unregistered => tracked[d] = "never"
  /\ tracked[d] = "yes" => row[d] \in Exists
  /\ pc[d] = "tellCompleted" => tracked[d] # "never" \/ d \in disturbed \/ row[d] \in Gone
  /\ row[d] = "completed" /\ pc[d] # "trackDone" => tracked[d] # "never" \/ d \in disturbed
  /\ "deploy.completed" \in fired[d] => tracked[d] # "never" \/ d \in disturbed
  /\ d \notin disturbed \union raced =>
       \A e \in fired[d] \ {"deploy.started"} : row[d] \in Gone \union {RowOf(e)}

\* The inductive invariant.
IInv == TypeOK /\ \A d \in Deployments : Sound(d)

------------------------------------------------------------------------------
(* Type correctness *)

\* What a goroutine's status write may do to the row and to the history.
LEMMA WriteTyped ==
  ASSUME TypeOK, NEW d \in Deployments, NEW s \in Exists, GoroutineWrite(d, s)
  PROVE  /\ row' \in [Deployments -> Exists \union Gone \union {"none"}]
         /\ disturbed' \subseteq Deployments
BY DEF TypeOK, GoroutineWrite, StatusWrite, Exists

\* What announcing an event may do to the announced events.
LEMMA FireTyped ==
  ASSUME TypeOK, NEW d \in Deployments, NEW e \in Events, Fire(d, e)
  PROVE  fired' \in [Deployments -> SUBSET Events]
BY DEF TypeOK, Fire

\* A goroutine that moves stays within its labels.
LEMMA GotoTyped ==
  ASSUME TypeOK, NEW d \in Deployments, NEW from, NEW to \in Places, Goto(d, from, to)
  PROVE  pc' \in [Deployments -> Places]
BY DEF TypeOK, Goto

\* The labels and the values used below are the right ones.
LEMMA Labels ==
  /\ Places = {"idle", "insert", "spawn", "connect", "clone", "cloning", "poll", "asking",
               "extras", "complete", "cancel", "trackPartial", "fail", "failExtras",
               "trackDone", "tellCompleted", "tellCancelled", "tellFailed",
               "tellFailedExtras", "trackExtras", "return"}
  /\ Exists = {"pending", "running", "completed", "failed", "cancelled"}
  /\ Events = {"deploy.completed", "deploy.failed", "deploy.cancelled", "deploy.started"}
BY DEF Places, InGoroutine, Working, Settling, Telling, Leaving, Exists, Live, Terminal,
       Events, Outcomes

\* Every exit of runDeploy keeps the types.
LEMMA WindUpTyped ==
  ASSUME TypeOK, NEW d \in Deployments, WindUp(d)
  PROVE  TypeOK'
<1>1. ASSUME NEW from, NEW s \in Exists, NEW to \in Places, Settle(d, from, s, to)
      PROVE  TypeOK'
  BY <1>1, WriteTyped, GotoTyped DEF Settle, TypeOK
<1>2. ASSUME NEW from, NEW to \in Places, RegisterVM(d, from, to)
      PROVE  TypeOK'
  BY <1>2, GotoTyped DEF RegisterVM, TypeOK
<1>3. ASSUME NEW from, NEW e \in Events, NEW to \in Places, Tell(d, from, e, to)
      PROVE  TypeOK'
  BY <1>3, FireTyped, GotoTyped DEF Tell, TypeOK
<1>4. CASE Return(d)
  BY <1>4, GotoTyped, Labels DEF Return, TypeOK
<1>5. CASE ExitCompleted(d)
  BY <1>1, <1>2, <1>3, <1>5, Labels DEF ExitCompleted
<1>6. CASE ExitCancelled(d)
  BY <1>1, <1>3, <1>6, Labels DEF ExitCancelled
<1>7. CASE ExitFailed(d)
  BY <1>1, <1>2, <1>3, <1>7, Labels DEF ExitFailed
<1>8. CASE ExitExtras(d)
  BY <1>1, <1>2, <1>3, <1>8, Labels DEF ExitExtras
<1> QED BY <1>4, <1>5, <1>6, <1>7, <1>8 DEF WindUp

\* Every step keeps the types.
LEMMA TypedStep ==
  ASSUME TypeOK, [Next]_vars
  PROVE  TypeOK'
<1>1. ASSUME NEW d \in Deployments, Start(d) \/ Register(d)
      PROVE  TypeOK'
  BY <1>1, GotoTyped, Labels DEF Start, Register, TypeOK
<1>2. ASSUME NEW d \in Deployments, Begin(d)
      PROVE  TypeOK'
  BY <1>2, WriteTyped, FireTyped, GotoTyped, Labels DEF Begin, TypeOK
<1>3. ASSUME NEW d \in Deployments, Calls(d)
      PROVE  TypeOK'
  BY <1>3, GotoTyped, Labels
     DEF Calls, Connect, CloneCall, RequestClone, CloneReturns, ClonePartial, CloneFails,
         Ask, AttachExtras, TypeOK
<1>4. ASSUME NEW d \in Deployments, Poll(d)
      PROVE  TypeOK'
  BY <1>4, GotoTyped, Labels DEF Poll, PollEnded, PollLive, TypeOK
<1>5. ASSUME NEW d \in Deployments, Cancel(d)
      PROVE  TypeOK'
  BY <1>5, Labels
     DEF Cancel, CancelCheck, CancelLookup, CancelSignal, CancelWrite, StatusWrite, TypeOK
<1>6. ASSUME NEW d \in Deployments,
             Deadline(d) \/ CloneEnds(d) \/ RemoveVM(d) \/ DeleteTarget(d)
      PROVE  TypeOK'
  BY <1>6, Labels DEF Deadline, CloneEnds, RemoveVM, DeleteTarget, Gone, TypeOK
<1>7. CASE ClearHistory
  BY <1>7, Labels DEF ClearHistory, Gone, TypeOK
<1>8. CASE Crash
  BY <1>8, Labels DEF Crash, TypeOK
<1>9. CASE UNCHANGED vars
  BY <1>9 DEF vars, TypeOK
<1> QED
  BY <1>1, <1>2, <1>3, <1>4, <1>5, <1>6, <1>7, <1>8, <1>9, WindUpTyped DEF Next, RunDeploy

\* The variables keep their types, whatever fails.
THEOREM TypeCorrect == Spec => []TypeOK
<1>1. Init => TypeOK
  BY Labels DEF Init, TypeOK
<1> QED BY <1>1, TypedStep, PTL DEF Spec

------------------------------------------------------------------------------
(* Soundness of every deployment *)

\* d is as it was, as far as Sound can tell.
Untouched(d) == /\ row'[d] = row[d] /\ tracked'[d] = tracked[d]
                /\ pc'[d] = pc[d] /\ fired'[d] = fired[d]
                /\ d \in cancels' <=> d \in cancels
                /\ d \in disturbed' <=> d \in disturbed
                /\ d \in raced' <=> d \in raced

LEMMA UntouchedSound ==
  ASSUME NEW d \in Deployments, Sound(d), Untouched(d)
  PROVE  Sound(d)'
BY DEF Sound, Untouched

\* A status write of the goroutine of d leaves the others alone.
LEMMA WriteElsewhere ==
  ASSUME TypeOK, NEW d \in Deployments, NEW s, GoroutineWrite(d, s), NEW e \in Deployments \ {d}
  PROVE  row'[e] = row[e] /\ (e \in disturbed' <=> e \in disturbed)
BY DEF TypeOK, GoroutineWrite, StatusWrite

LEMMA FireElsewhere ==
  ASSUME TypeOK, NEW d \in Deployments, NEW ev, Fire(d, ev), NEW e \in Deployments \ {d}
  PROVE  fired'[e] = fired[e]
BY DEF TypeOK, Fire

LEMMA GotoElsewhere ==
  ASSUME TypeOK, NEW d \in Deployments, NEW from, NEW to, Goto(d, from, to),
         NEW e \in Deployments \ {d}
  PROVE  pc'[e] = pc[e]
BY DEF TypeOK, Goto

\* Steps of one deployment, or about it, leave the others untouched.
LEMMA StepElsewhere ==
  ASSUME TypeOK, NEW d \in Deployments, NEW e \in Deployments \ {d},
         \/ Start(d) \/ Register(d) \/ RunDeploy(d) \/ Cancel(d)
         \/ Deadline(d) \/ CloneEnds(d) \/ RemoveVM(d) \/ DeleteTarget(d)
  PROVE  Untouched(e)
<1> USE DEF Untouched, TypeOK
<1>1. CASE Start(d) \/ Register(d)
  BY <1>1, GotoElsewhere DEF Start, Register
<1>2. CASE Begin(d)
  BY <1>2, WriteElsewhere, FireElsewhere, GotoElsewhere DEF Begin
<1>3. CASE Calls(d)
  BY <1>3, GotoElsewhere
     DEF Calls, Connect, CloneCall, RequestClone, CloneReturns, ClonePartial, CloneFails,
         Ask, AttachExtras
<1>4. CASE Poll(d)
  BY <1>4, GotoElsewhere DEF Poll, PollEnded, PollLive
<1>5. CASE WindUp(d)
  <2>1. ASSUME NEW from, NEW s, NEW to, Settle(d, from, s, to)
        PROVE  Untouched(e)
    BY <2>1, WriteElsewhere, GotoElsewhere DEF Settle
  <2>2. ASSUME NEW from, NEW to, RegisterVM(d, from, to)
        PROVE  Untouched(e)
    BY <2>2, GotoElsewhere DEF RegisterVM
  <2>3. ASSUME NEW from, NEW ev, NEW to, Tell(d, from, ev, to)
        PROVE  Untouched(e)
    BY <2>3, FireElsewhere, GotoElsewhere DEF Tell
  <2>4. CASE Return(d)
    BY <2>4, GotoElsewhere DEF Return
  <2> QED
    BY <1>5, <2>1, <2>2, <2>3, <2>4
       DEF WindUp, ExitCompleted, ExitCancelled, ExitFailed, ExitExtras
<1>6. CASE Cancel(d)
  BY <1>6 DEF Cancel, CancelCheck, CancelLookup, CancelSignal, CancelWrite, StatusWrite
<1>7. CASE Deadline(d) \/ CloneEnds(d) \/ RemoveVM(d) \/ DeleteTarget(d)
  BY <1>7 DEF Deadline, CloneEnds, RemoveVM, DeleteTarget
<1> QED BY <1>1, <1>2, <1>3, <1>4, <1>5, <1>6, <1>7 DEF RunDeploy

\* The request that starts a deployment, and the goroutine's calls of the
\* hypervisor: the row goes from nothing to pending to running.
LEMMA LaunchSound ==
  ASSUME TypeOK, NEW d \in Deployments, Sound(d),
         Start(d) \/ Register(d) \/ Begin(d) \/ Calls(d)
  PROVE  Sound(d)'
<1> USE DEF TypeOK, Sound, RowAt, RowOf, Goto, Unannounced, Unregistered, Working, Settling, Telling, Leaving, InGoroutine, Exists, Live, Terminal, Gone, Outcomes, Events
<1>1. CASE Start(d)
  BY <1>1 DEF Start
<1>2. CASE Register(d)
  BY <1>2 DEF Register
<1>3. CASE Begin(d)
  BY <1>3 DEF Begin, GoroutineWrite, StatusWrite, ValidFrom, Fire
<1>4. CASE Connect(d)
  BY <1>4 DEF Connect
<1>5. CASE CloneCall(d)
  BY <1>5 DEF CloneCall, RequestClone, CloneReturns, ClonePartial, CloneFails
<1>6. CASE Ask(d) \/ AttachExtras(d)
  BY <1>6 DEF Ask, AttachExtras
<1> QED BY <1>1, <1>2, <1>3, <1>4, <1>5, <1>6 DEF Calls

\* The polling loop moves between places where the row is running.
LEMMA PollSound ==
  ASSUME TypeOK, NEW d \in Deployments, Sound(d), Poll(d)
  PROVE  Sound(d)'
  BY DEF TypeOK, Sound, RowAt, RowOf, Goto, Unannounced, Unregistered, Working, Settling, Telling,
         Leaving, InGoroutine, Exists, Live, Terminal, Gone, Outcomes, Events, Poll, PollEnded, PollLive

\* The four exits: the outcome written, the VM registered, the event announced.
LEMMA WindUpSound ==
  ASSUME TypeOK, NEW d \in Deployments, Sound(d), WindUp(d)
  PROVE  Sound(d)'
<1> USE DEF TypeOK, Sound, RowAt, RowOf, Goto, Unannounced, Unregistered, Working, Settling, Telling, Leaving, InGoroutine, Exists, Live, Terminal, Gone, Outcomes, Events
<1>1. CASE ExitCompleted(d)
  <2>1. CASE Settle(d, "complete", "completed", "trackDone")
    BY <2>1 DEF Settle, GoroutineWrite, StatusWrite, ValidFrom
  <2>2. CASE RegisterVM(d, "trackDone", "tellCompleted")
    BY <2>2 DEF RegisterVM
  <2>3. CASE Tell(d, "tellCompleted", "deploy.completed", "return")
    BY <2>3 DEF Tell, Fire
  <2> QED BY <1>1, <2>1, <2>2, <2>3 DEF ExitCompleted
<1>2. CASE ExitCancelled(d)
  <2>1. CASE Settle(d, "cancel", "cancelled", "tellCancelled")
    BY <2>1 DEF Settle, GoroutineWrite, StatusWrite, ValidFrom
  <2>2. CASE Tell(d, "tellCancelled", "deploy.cancelled", "return")
    BY <2>2 DEF Tell, Fire
  <2> QED BY <1>2, <2>1, <2>2 DEF ExitCancelled
<1>3. CASE ExitFailed(d)
  <2>1. CASE RegisterVM(d, "trackPartial", "fail")
    BY <2>1 DEF RegisterVM
  <2>2. CASE Settle(d, "fail", "failed", "tellFailed")
    BY <2>2 DEF Settle, GoroutineWrite, StatusWrite, ValidFrom
  <2>3. CASE Tell(d, "tellFailed", "deploy.failed", "return")
    BY <2>3 DEF Tell, Fire
  <2> QED BY <1>3, <2>1, <2>2, <2>3 DEF ExitFailed
<1>4. CASE ExitExtras(d)
  <2>1. CASE Settle(d, "failExtras", "failed", "tellFailedExtras")
    BY <2>1 DEF Settle, GoroutineWrite, StatusWrite, ValidFrom
  <2>2. CASE Tell(d, "tellFailedExtras", "deploy.failed", "trackExtras")
    BY <2>2 DEF Tell, Fire
  <2>3. CASE RegisterVM(d, "trackExtras", "return")
    BY <2>3 DEF RegisterVM
  <2> QED BY <1>4, <2>1, <2>2, <2>3 DEF ExitExtras
<1>5. CASE Return(d)
  BY <1>5 DEF Return
<1> QED BY <1>1, <1>2, <1>3, <1>4, <1>5 DEF WindUp

\* What others do to a deployment: cancel it, let it expire, remove its VM,
\* its target or its record, or crash under it.
LEMMA SurroundingsSound ==
  ASSUME TypeOK, NEW d \in Deployments, Sound(d),
         \/ Cancel(d) \/ Deadline(d) \/ CloneEnds(d) \/ RemoveVM(d) \/ DeleteTarget(d)
         \/ ClearHistory \/ Crash
  PROVE  Sound(d)'
<1> USE DEF TypeOK, Sound, RowAt, RowOf, Unannounced, Unregistered, Working, Settling, Telling, Leaving, InGoroutine, Exists, Live, Terminal, Gone, Outcomes, Events
<1>1. CASE Cancel(d)
  BY <1>1 DEF Cancel, CancelCheck, CancelLookup, CancelSignal, CancelWrite, StatusWrite, ValidFrom
<1>2. CASE Deadline(d) \/ CloneEnds(d) \/ RemoveVM(d)
  BY <1>2 DEF Deadline, CloneEnds, RemoveVM
<1>3. CASE DeleteTarget(d)
  BY <1>3 DEF DeleteTarget
<1>4. CASE ClearHistory
  BY <1>4 DEF ClearHistory, ClearRefused
<1>5. CASE Crash
  BY <1>5 DEF Crash
<1> QED BY <1>1, <1>2, <1>3, <1>4, <1>5

\* The inductive step.
LEMMA SoundStep ==
  ASSUME IInv, [Next]_vars
  PROVE  IInv'
<1>1. TypeOK'
  BY TypedStep DEF IInv
<1>2. SUFFICES ASSUME NEW e \in Deployments
               PROVE  Sound(e)'
  BY <1>1 DEF IInv
<1>3. TypeOK /\ Sound(e)
  BY DEF IInv
<1>4. ASSUME NEW d \in Deployments,
             \/ Start(d) \/ Register(d) \/ RunDeploy(d) \/ Cancel(d)
             \/ Deadline(d) \/ CloneEnds(d) \/ RemoveVM(d) \/ DeleteTarget(d)
      PROVE  Sound(e)'
  <2>1. CASE d = e
    BY <1>3, <1>4, <2>1, LaunchSound, PollSound, WindUpSound, SurroundingsSound DEF RunDeploy
  <2>2. CASE d # e
    BY <1>3, <1>4, <2>2, StepElsewhere, UntouchedSound
  <2> QED BY <2>1, <2>2
<1>5. CASE ClearHistory \/ Crash
  BY <1>3, <1>5, SurroundingsSound
<1>6. CASE UNCHANGED vars
  BY <1>3, <1>6, UntouchedSound DEF vars, Untouched
<1> QED BY <1>4, <1>5, <1>6 DEF Next

\* IInv holds in every reachable state.
THEOREM Invariance == Spec => []IInv
<1>1. Init => IInv
  <2>1. Init => TypeOK
    BY Labels DEF Init, TypeOK
  <2>2. ASSUME Init, NEW d \in Deployments
        PROVE  Sound(d)
    BY <2>2 DEF Init, Sound, RowAt, RowOf, Unannounced, Unregistered, Working, Settling, Telling, Leaving, InGoroutine, Exists, Live, Terminal, Gone, Outcomes, Events
  <2> QED BY <2>1, <2>2 DEF IInv
<1> QED BY <1>1, SoundStep, PTL DEF Spec

------------------------------------------------------------------------------
(* The properties, read off from the invariant *)

\* No live row without somebody who will settle it.
THEOREM LiveRowsHaveOwners == Spec => []LiveRowHasOwner
<1>1. IInv => LiveRowHasOwner
  BY DEF IInv, Sound, LiveRowHasOwner, RowAt, Live, Terminal, Gone, Working, Settling
<1> QED BY <1>1, Invariance, PTL

\* The cancels map names exactly the running goroutines.
THEOREM RunningIsCancellable == Spec => []CancellableWhileRunning
<1>1. IInv => CancellableWhileRunning
  BY DEF IInv, Sound, CancellableWhileRunning
<1> QED BY <1>1, Invariance, PTL

\* A tracked VM's deployment row exists.
THEOREM RecordsAreKept == Spec => []TrackedKeepsRecord
<1>1. IInv => TrackedKeepsRecord
  BY DEF IInv, Sound, TrackedKeepsRecord
<1> QED BY <1>1, Invariance, PTL

\* A completed deployment has put its VM into the inventory.
THEOREM CompletedAreTracked == Spec => []CompletedIsTracked
<1>1. IInv => CompletedIsTracked
  BY DEF IInv, Sound, CompletedIsTracked
<1> QED BY <1>1, Invariance, PTL

\* deploy.completed is not announced before the VM can be looked up.
THEOREM WebhooksFollowInventory == Spec => []CompletedWebhookHasVM
<1>1. IInv => CompletedWebhookHasVM
  BY DEF IInv, Sound, CompletedWebhookHasVM
<1> QED BY <1>1, Invariance, PTL

\* The outcome announced is the outcome on record.
THEOREM OutcomesAgree == Spec => []OutcomeAgreement
<1>1. IInv => OutcomeAgreement
  BY DEF IInv, Sound, OutcomeAgreement
<1> QED BY <1>1, Invariance, PTL

------------------------------------------------------------------------------
(* Deployment implements DeploymentLifecycle *)

\* What the abstract record sees of the announced events.
told == [d \in Deployments |-> fired[d] \ {"deploy.started"}]

\* A status write is a step of the record: it settles, or nothing happens.
LEMMA WriteSettles ==
  ASSUME TypeOK, NEW d \in Deployments, NEW s \in Terminal, StatusWrite(d, s),
         UNCHANGED <<tracked, fired>>
  PROVE  [Lifecycle!Next]_Lifecycle!vars
<1>1. CASE row[d] \in ValidFrom(s)
  <2>1. /\ row' = [row EXCEPT ![d] = s]
        /\ IF s = "completed" THEN row[d] = "running" ELSE row[d] \in Lifecycle!Live
    BY <1>1 DEF StatusWrite, ValidFrom, Lifecycle!Live, Live, Terminal
  <2>2. Lifecycle!Settle(d)
    BY <2>1 DEF Lifecycle!Settle, Lifecycle!Terminal, Terminal
  <2> QED BY <2>2 DEF Lifecycle!Next
<1>2. CASE row[d] \notin ValidFrom(s)
  BY <1>2 DEF StatusWrite, Lifecycle!vars
<1> QED BY <1>1, <1>2

\* Begin is the abstract Begin, or nothing happens to the record.
LEMMA BeginRefines ==
  ASSUME TypeOK, NEW d \in Deployments, Begin(d)
  PROVE  [Lifecycle!Next]_Lifecycle!vars
<1>1. told' = told
  BY DEF Begin, Fire, TypeOK, told
<1>2. \/ row[d] = "pending" /\ row' = [row EXCEPT ![d] = "running"]
      \/ row' = row
  BY DEF Begin, GoroutineWrite, StatusWrite, ValidFrom
<1>3. tracked' = tracked
  BY DEF Begin
<1>4. Lifecycle!Begin(d) \/ UNCHANGED Lifecycle!vars
  BY <1>1, <1>2, <1>3 DEF Lifecycle!Begin, Lifecycle!vars, told
<1> QED BY <1>4 DEF Lifecycle!Next

\* Registering a VM that was not registered before is Track.
LEMMA RegisterRefines ==
  ASSUME TypeOK, NEW d \in Deployments, Sound(d), NEW from \in Unregistered, NEW to,
         RegisterVM(d, from, to)
  PROVE  [Lifecycle!Next]_Lifecycle!vars
<1>1. tracked[d] = "never"
  BY DEF Sound, RegisterVM, Goto
<1>2. \/ row[d] \in Lifecycle!Exists /\ tracked' = [tracked EXCEPT ![d] = "yes"]
      \/ tracked' = tracked
  BY DEF RegisterVM, Exists, Live, Terminal, Lifecycle!Exists, Lifecycle!Live, Lifecycle!Terminal
<1>3. UNCHANGED <<row, fired>>
  BY DEF RegisterVM
<1>4. Lifecycle!Track(d) \/ UNCHANGED Lifecycle!vars
  BY <1>1, <1>2, <1>3 DEF Lifecycle!Track, Lifecycle!vars
<1> QED BY <1>4 DEF Lifecycle!Next

\* The first outcome told is Announce.
LEMMA TellRefines ==
  ASSUME TypeOK, NEW d \in Deployments, Sound(d), NEW from \in Telling,
         NEW e \in Outcomes, NEW to, Tell(d, from, e, to)
  PROVE  [Lifecycle!Next]_Lifecycle!vars
<1>1. told[d] = {}
  <2>1. fired[d] \intersect Outcomes = {}
    BY DEF Tell, Goto, Sound, Unannounced
  <2> QED BY <2>1 DEF TypeOK, told, Events
<1>2. UNCHANGED <<row, tracked>>
  BY DEF Tell
<1>3. CASE row[d] \in Exists
  <2>1. fired' = [fired EXCEPT ![d] = @ \union {e}]
    BY <1>3 DEF Tell, Fire
  <2>2. told' = [told EXCEPT ![d] = {e}]
    BY <1>1, <2>1 DEF TypeOK, told, Outcomes
  <2>3. Lifecycle!Announce(d)
    BY <1>1, <1>2, <1>3, <2>2
       DEF Lifecycle!Announce, told, Outcomes, Lifecycle!Outcomes,
           Exists, Live, Terminal, Lifecycle!Exists, Lifecycle!Live, Lifecycle!Terminal
  <2> QED BY <2>3 DEF Lifecycle!Next
<1>4. CASE row[d] \notin Exists
  BY <1>2, <1>4 DEF Tell, Fire, Lifecycle!vars
<1> QED BY <1>3, <1>4

\* Every exit of runDeploy, step by step.
LEMMA WindUpRefines ==
  ASSUME TypeOK, NEW d \in Deployments, Sound(d), WindUp(d)
  PROVE  [Lifecycle!Next]_Lifecycle!vars
<1>1. ASSUME NEW from, NEW s \in Terminal, NEW to, Settle(d, from, s, to)
      PROVE  [Lifecycle!Next]_Lifecycle!vars
  BY <1>1, WriteSettles DEF Settle, GoroutineWrite, Lifecycle!vars
<1>2. CASE Return(d)
  BY <1>2 DEF Return, Lifecycle!vars
<1>3. CASE ExitCompleted(d)
  BY <1>1, <1>3, RegisterRefines, TellRefines
     DEF ExitCompleted, Terminal, Unregistered, Telling, Outcomes
<1>4. CASE ExitCancelled(d)
  BY <1>1, <1>4, TellRefines DEF ExitCancelled, Terminal, Telling, Outcomes
<1>5. CASE ExitFailed(d)
  BY <1>1, <1>5, RegisterRefines, TellRefines
     DEF ExitFailed, Terminal, Unregistered, Telling, Outcomes
<1>6. CASE ExitExtras(d)
  BY <1>1, <1>6, RegisterRefines, TellRefines
     DEF ExitExtras, Terminal, Unregistered, Telling, Outcomes
<1> QED BY <1>2, <1>3, <1>4, <1>5, <1>6 DEF WindUp

\* What others do to the record: settle it, untrack it, drop it.
LEMMA SurroundingsRefine ==
  ASSUME IInv, NEW d \in Deployments,
         Cancel(d) \/ RemoveVM(d) \/ DeleteTarget(d)
  PROVE  [Lifecycle!Next]_Lifecycle!vars
<1>1. CASE CancelCheck(d) \/ CancelLookup(d) \/ CancelSignal(d)
  BY <1>1 DEF CancelCheck, CancelLookup, CancelSignal, Lifecycle!vars
<1>2. CASE CancelWrite(d)
  <2>1. CASE StatusWrite(d, "cancelled")
    BY <1>2, <2>1, WriteSettles DEF CancelWrite, IInv, Terminal
  <2>2. CASE UNCHANGED row
    BY <1>2, <2>2 DEF CancelWrite, Lifecycle!vars
  <2> QED BY <1>2, <2>1, <2>2 DEF CancelWrite
<1>3. CASE RemoveVM(d)
  <2>1. Lifecycle!Untrack(d) \/ UNCHANGED Lifecycle!vars
    BY <1>3 DEF RemoveVM, Lifecycle!Untrack, Lifecycle!vars
  <2> QED BY <2>1 DEF Lifecycle!Next
<1>4. CASE DeleteTarget(d)
  <2>1. Lifecycle!Drop(d)
    BY <1>4 DEF DeleteTarget, Lifecycle!Drop, Exists, Live, Terminal,
                Lifecycle!Exists, Lifecycle!Live, Lifecycle!Terminal
  <2> QED BY <2>1 DEF Lifecycle!Next
<1> QED BY <1>1, <1>2, <1>3, <1>4 DEF Cancel

\* Every step of a deployment is a step of its record, or leaves it alone.
LEMMA StepRefines ==
  ASSUME IInv, [Next]_vars
  PROVE  [Lifecycle!Next]_Lifecycle!vars
<1>1. ASSUME NEW d \in Deployments, Start(d)
      PROVE  [Lifecycle!Next]_Lifecycle!vars
  <2>1. Lifecycle!Accept(d)
    BY <1>1 DEF Start, Lifecycle!Accept
  <2> QED BY <2>1 DEF Lifecycle!Next
<1>2. ASSUME NEW d \in Deployments,
             Register(d) \/ Calls(d) \/ Poll(d) \/ Deadline(d) \/ CloneEnds(d)
      PROVE  [Lifecycle!Next]_Lifecycle!vars
  BY <1>2 DEF Register, Calls, Connect, CloneCall, RequestClone, CloneReturns, ClonePartial, CloneFails,
              Ask, AttachExtras, Poll, PollEnded, PollLive, Deadline, CloneEnds, Lifecycle!vars
<1>3. ASSUME NEW d \in Deployments, Begin(d) \/ WindUp(d)
      PROVE  [Lifecycle!Next]_Lifecycle!vars
  BY <1>3, BeginRefines, WindUpRefines DEF IInv
<1>4. ASSUME NEW d \in Deployments, Cancel(d) \/ RemoveVM(d) \/ DeleteTarget(d)
      PROVE  [Lifecycle!Next]_Lifecycle!vars
  BY <1>4, SurroundingsRefine
<1>5. CASE ClearHistory
  <2>1. Lifecycle!Clear
    BY <1>5 DEF ClearHistory, ClearRefused, Lifecycle!Clear, Terminal, Lifecycle!Terminal
  <2> QED BY <2>1 DEF Lifecycle!Next
<1>6. CASE Crash \/ UNCHANGED vars
  BY <1>6 DEF Crash, vars, Lifecycle!vars
<1> QED BY <1>1, <1>2, <1>3, <1>4, <1>5, <1>6 DEF Next, RunDeploy

\* Deployment implements the abstract record.
THEOREM RefinesLifecycle == Spec => ImplementsLifecycle
<1>1. Init => Lifecycle!Init
  BY DEF Init, Lifecycle!Init
<1> QED BY <1>1, StepRefines, Invariance, PTL DEF Spec, ImplementsLifecycle, Lifecycle!Spec
=============================================================================
