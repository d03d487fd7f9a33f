---------------------------- MODULE ExecutionProofs ----------------------------
(***************************************************************************)
(* Theorems about Execution, for every set of executions and VMs, every    *)
(* limit, and with or without faults of the guest, the database and the    *)
(* process.                                                                *)
(*                                                                         *)
(* The argument: where Execute and runExecution stand says what the row,   *)
(* the job, the reader and the watchers may be (Sound); only a crash or a  *)
(* refused write (disturbed) loosens the tie.  For the limits, a request   *)
(* that has counted and was not overtaken may still rely on what it saw    *)
(* (CountsHold).  Both are inductive.                                      *)
(***************************************************************************)
EXTENDS Execution, FiniteSetTheorems, TLAPS

\* Places at which an undisturbed execution's row is pending, and running.
PendingAt == {"created", "spawned"}
RunningAt == InSession \union Settling
SettledAt == Telling \union {"return", "done"}
NoRowAt   == {"idle", "counted", "admitted"}

\* What the row must be once the watchers are about to be told.
RecordOf(e) == CASE pc[e] = "tellCancelled" -> "cancelled"
                 [] pc[e] = "tellError"     -> "failed"
                 [] OTHER                   -> Outcome(e)

Sound(e) ==
  /\ row[e] = "none" <=> pc[e] \in NoRowAt
  /\ e \in cancels <=> pc[e] \in InGoroutine
  /\ row[e] = "pending" => pc[e] \in PendingAt \/ e \in disturbed
  /\ row[e] = "running" => pc[e] \in RunningAt \/ e \in disturbed
  /\ row[e] \in Terminal => pc[e] \in SettledAt
  /\ pc[e] \in {"drain", "exited", "tellExit"} => job[e] \in Ended
  /\ pc[e] \in {"exited", "tellExit"} => out[e] = "eof"
  /\ pc[e] \in NoRowAt \union PendingAt \union {"connect"} => out[e] = "off"
  /\ row[e] = "completed" => job[e] = "ok" /\ out[e] = "eof"
  /\ pc[e] \in Telling /\ e \notin disturbed => row[e] \in {"deleted", RecordOf(e)}
  /\ told[e] # "none" => pc[e] \in {"return", "done"}
  /\ told[e] # "none" /\ e \notin disturbed =>
       row[e] \in {"deleted", IF told[e] = "error" THEN "failed" ELSE told[e]}

\* A request relies on its counts until another one overtakes it.
CountsHold ==
  \A e \in Executions \ overtaken :
    /\ pc[e] \in {"counted", "admitted"} => Cardinality(Counted \intersect On(VmOf[e])) < MaxPerVM
    /\ pc[e] = "admitted" => Cardinality(Counted) < MaxTotal

\* The inductive invariant.
IInv == TypeOK /\ \A e \in Executions : Sound(e)
LInv == LimitsUnlessOvertaken /\ CountsHold

------------------------------------------------------------------------------
(* Type correctness *)

\* The labels and the values used below are the right ones.
LEMMA Labels ==
  /\ Places = {"idle", "done", "counted", "admitted", "created", "spawned", "return",
               "connect", "wait", "kill", "hangup", "drain", "erred", "exited",
               "tellCancelled", "tellError", "tellExit"}
  /\ Exists = {"pending", "running", "completed", "failed", "cancelled"}
BY DEF Places, InRequest, InGoroutine, InSession, Settling, Telling, Exists, Live, Terminal

\* A goroutine that moves stays within its labels.
LEMMA GotoTyped ==
  ASSUME TypeOK, NEW e \in Executions, NEW from, NEW to \in Places, Goto(e, from, to)
  PROVE  pc' \in [Executions -> Places]
BY DEF TypeOK, Goto

\* What a status write may do to the row.
LEMMA WriteTyped ==
  ASSUME TypeOK, NEW e \in Executions, NEW s \in Exists, StatusWrite(e, s)
  PROVE  row' \in [Executions -> Exists \union {"none", "deleted"}]
BY DEF TypeOK, StatusWrite

\* Every exit of runExecution keeps the types.
LEMMA WindUpTyped ==
  ASSUME TypeOK, NEW e \in Executions, WindUp(e)
  PROVE  TypeOK'
<1>1. ASSUME NEW from, NEW s \in Exists, NEW to \in Places, Settle(e, from, s, to)
      PROVE  TypeOK'
  BY <1>1, WriteTyped, GotoTyped DEF Settle, OutcomeWrite, TypeOK
<1>2. ASSUME NEW from, NEW m \in Terminal \union {"error"}, NEW to \in Places,
             Tell(e, from, m, to)
      PROVE  TypeOK'
  BY <1>2, GotoTyped DEF Tell, TypeOK
<1>3. Outcome(e) \in Exists /\ Outcome(e) \in Terminal
  BY DEF Outcome, Exists, Terminal
<1>4. CASE Return(e)
  BY <1>4, GotoTyped, Labels DEF Return, TypeOK
<1>5. CASE Erred(e)
  BY <1>1, <1>5, Labels DEF Erred
<1>6. CASE ExitCode(e)
  BY <1>1, <1>2, <1>3, <1>6, Labels DEF ExitCode
<1>7. CASE TellErred(e)
  BY <1>2, <1>7, Labels DEF TellErred, Terminal
<1> QED BY <1>4, <1>5, <1>6, <1>7 DEF WindUp

\* Every step keeps the types.
LEMMA TypedStep ==
  ASSUME TypeOK, [Next]_vars
  PROVE  TypeOK'
<1>1. ASSUME NEW e \in Executions, Execute(e)
      PROVE  TypeOK'
  BY <1>1, GotoTyped, Labels DEF Execute, CountForVM, CountTotal, Create, Register, TypeOK
<1>2. ASSUME NEW e \in Executions, Mark(e)
      PROVE  TypeOK'
  BY <1>2, GotoTyped, WriteTyped, Labels DEF Mark, TypeOK
<1>3. ASSUME NEW e \in Executions, SshExecute(e)
      PROVE  TypeOK'
  BY <1>3, GotoTyped, Labels
     DEF SshExecute, Connect, Exited, Stopped, RemoteKill, HangUp, Drain, Begun, TypeOK
<1>4. ASSUME NEW e \in Executions, Guest(e)
      PROVE  TypeOK'
  BY <1>4, GotoTyped, Labels DEF Guest, JobStarts, JobEnds, OutputEnds, Lost, Begun, TypeOK
<1>5. ASSUME NEW e \in Executions, Cancel(e) \/ Deadline(e)
      PROVE  TypeOK'
  BY <1>5 DEF Cancel, CancelLookup, CancelSignal, Deadline, TypeOK
<1>6. ASSUME NEW v \in VMs, DeleteVM(v) \/ GuestHangsUp(v)
      PROVE  TypeOK'
  BY <1>6 DEF DeleteVM, GuestHangsUp, TypeOK
<1>7. CASE Crash
  BY <1>7, Labels DEF Crash, TypeOK
<1>8. CASE UNCHANGED vars
  BY <1>8 DEF vars, TypeOK
<1> QED BY <1>1, <1>2, <1>3, <1>4, <1>5, <1>6, <1>7, <1>8, WindUpTyped DEF Next, RunExecution

\* The variables keep their types, whatever fails.
THEOREM ExecutionTypeCorrect == Spec => []TypeOK
<1>1. Init => TypeOK
  BY Labels DEF Init, TypeOK
<1> QED BY <1>1, TypedStep, PTL DEF Spec

------------------------------------------------------------------------------
(* Soundness of every execution *)

\* e is as it was, as far as Sound can tell.
Untouched(e) == /\ row'[e] = row[e] /\ pc'[e] = pc[e] /\ job'[e] = job[e]
                /\ out'[e] = out[e] /\ told'[e] = told[e]
                /\ e \in cancels' <=> e \in cancels
                /\ e \in disturbed' <=> e \in disturbed

LEMMA UntouchedSound ==
  ASSUME NEW e \in Executions, Sound(e), Untouched(e)
  PROVE  Sound(e)'
BY DEF Sound, Untouched, RecordOf, Outcome

\* Steps of one execution, or about it, leave the others untouched.
LEMMA StepElsewhere ==
  ASSUME TypeOK, NEW e \in Executions, NEW f \in Executions \ {e},
         \/ Execute(e) \/ RunExecution(e) \/ Cancel(e) \/ Guest(e) \/ Deadline(e)
  PROVE  Untouched(f)
<1> USE DEF Untouched, TypeOK, Goto
<1>1. CASE Execute(e)
  BY <1>1 DEF Execute, CountForVM, CountTotal, Create, Register
<1>2. CASE Mark(e)
  BY <1>2 DEF Mark, StatusWrite
<1>3. CASE SshExecute(e)
  BY <1>3 DEF SshExecute, Connect, Exited, Stopped, RemoteKill, HangUp, Drain
<1>4. CASE WindUp(e)
  <2>1. ASSUME NEW from, NEW s, NEW to, Settle(e, from, s, to)
        PROVE  Untouched(f)
    BY <2>1 DEF Settle, OutcomeWrite, StatusWrite
  <2>2. ASSUME NEW from, NEW m, NEW to, Tell(e, from, m, to)
        PROVE  Untouched(f)
    BY <2>2 DEF Tell
  <2>3. CASE Return(e)
    BY <2>3 DEF Return
  <2> QED BY <1>4, <2>1, <2>2, <2>3 DEF WindUp, Erred, ExitCode, TellErred
<1>5. CASE Cancel(e) \/ Guest(e) \/ Deadline(e)
  BY <1>5 DEF Cancel, CancelLookup, CancelSignal, Deadline,
              Guest, JobStarts, JobEnds, OutputEnds, Lost
<1> QED BY <1>1, <1>2, <1>3, <1>4, <1>5 DEF RunExecution

\* The request, and the goroutine up to the end of its SSH session.
LEMMA SessionSound ==
  ASSUME TypeOK, NEW e \in Executions, Sound(e), Execute(e) \/ Mark(e) \/ SshExecute(e)
  PROVE  Sound(e)'
<1> USE DEF TypeOK, Sound, Goto, NoRowAt, PendingAt, RunningAt, SettledAt, InRequest, InGoroutine,
            InSession, Settling, Telling, Exists, Live, Terminal, RecordOf, Outcome
<1>1. CASE Execute(e)
  BY <1>1 DEF Execute, CountForVM, CountTotal, Create, Register
<1>2. CASE Mark(e)
  BY <1>2 DEF Mark, StatusWrite
<1>3. CASE Connect(e)
  BY <1>3 DEF Connect
<1>4. CASE Exited(e) \/ Stopped(e) \/ Drain(e) \/ HangUp(e)
  BY <1>4 DEF Exited, Stopped, Drain, HangUp
<1>5. CASE RemoteKill(e)
  BY <1>5 DEF RemoteKill
<1> QED BY <1>1, <1>2, <1>3, <1>4, <1>5 DEF SshExecute

\* The exits: the outcome written, then told.
LEMMA WindUpSound ==
  ASSUME TypeOK, NEW e \in Executions, Sound(e), WindUp(e)
  PROVE  Sound(e)'
<1> USE DEF TypeOK, Sound, Goto, NoRowAt, PendingAt, RunningAt, SettledAt, InRequest, InGoroutine,
            InSession, Settling, Telling, Exists, Live, Terminal, RecordOf, Outcome
<1>1. CASE Erred(e)
  BY <1>1 DEF Erred, Settle, OutcomeWrite, StatusWrite
<1>2. CASE ExitCode(e)
  BY <1>2 DEF ExitCode, Settle, OutcomeWrite, StatusWrite, Tell, Ended
<1>3. CASE TellErred(e)
  BY <1>3 DEF TellErred, Tell
<1>4. CASE Return(e)
  BY <1>4 DEF Return
<1> QED BY <1>1, <1>2, <1>3, <1>4 DEF WindUp

\* What others do to an execution.
LEMMA SurroundingsSound ==
  ASSUME TypeOK, NEW e \in Executions, Sound(e),
         \/ Cancel(e) \/ Guest(e) \/ Deadline(e)
         \/ Crash \/ \E v \in VMs : DeleteVM(v) \/ GuestHangsUp(v)
  PROVE  Sound(e)'
<1> USE DEF TypeOK, Sound, Goto, NoRowAt, PendingAt, RunningAt, SettledAt, InRequest, InGoroutine,
            InSession, Settling, Telling, Exists, Live, Terminal, RecordOf, Outcome
<1>1. CASE Cancel(e) \/ Deadline(e)
  BY <1>1 DEF Cancel, CancelLookup, CancelSignal, Deadline
<1>2. CASE Guest(e)
  BY <1>2 DEF Guest, JobStarts, JobEnds, OutputEnds, Lost, Begun, Ended
<1>3. ASSUME NEW v \in VMs, DeleteVM(v) \/ GuestHangsUp(v)
      PROVE  Sound(e)'
  BY <1>3 DEF DeleteVM, GuestHangsUp
<1>4. CASE Crash
  BY <1>4 DEF Crash
<1> QED BY <1>1, <1>2, <1>3, <1>4

\* The inductive step.
LEMMA SoundStep ==
  ASSUME IInv, [Next]_vars
  PROVE  IInv'
<1>1. TypeOK'
  BY TypedStep DEF IInv
<1>2. SUFFICES ASSUME NEW f \in Executions
               PROVE  Sound(f)'
  BY <1>1 DEF IInv
<1>3. TypeOK /\ Sound(f)
  BY DEF IInv
<1>4. ASSUME NEW e \in Executions,
             \/ Execute(e) \/ RunExecution(e) \/ Cancel(e) \/ Guest(e) \/ Deadline(e)
      PROVE  Sound(f)'
  <2>1. CASE e = f
    BY <1>3, <1>4, <2>1, SessionSound, WindUpSound, SurroundingsSound DEF RunExecution
  <2>2. CASE e # f
    BY <1>3, <1>4, <2>2, StepElsewhere, UntouchedSound
  <2> QED BY <2>1, <2>2
<1>5. CASE Crash \/ \E v \in VMs : DeleteVM(v) \/ GuestHangsUp(v)
  BY <1>3, <1>5, SurroundingsSound
<1>6. CASE UNCHANGED vars
  BY <1>3, <1>6, UntouchedSound DEF vars, Untouched
<1> QED BY <1>4, <1>5, <1>6 DEF Next

\* IInv holds in every reachable state.
THEOREM ExecutionInvariance == Spec => []IInv
<1>1. Init => IInv
  <2>1. Init => TypeOK
    BY Labels DEF Init, TypeOK
  <2>2. ASSUME Init, NEW e \in Executions
        PROVE  Sound(e)
    BY <2>2 DEF Init, Sound, NoRowAt, PendingAt, RunningAt, SettledAt, InRequest, InGoroutine,
                InSession, Settling, Telling, Exists, Live, Terminal, RecordOf, Outcome
  <2> QED BY <2>1, <2>2 DEF IInv
<1> QED BY <1>1, SoundStep, PTL DEF Spec

------------------------------------------------------------------------------
(* The properties, read off from the invariant *)

\* No live row without somebody who will settle it.
THEOREM LiveExecutionsHaveOwners == Spec => []LiveRowHasOwner
<1>1. IInv => LiveRowHasOwner
  BY DEF IInv, Sound, LiveRowHasOwner, NoRowAt, PendingAt, RunningAt, InSession, Settling, Live
<1> QED BY <1>1, ExecutionInvariance, PTL

\* Whatever is shown as running can be cancelled.
THEOREM RunningExecutionsAreCancellable == Spec => []RunningIsCancellable
<1>1. IInv => RunningIsCancellable
  BY DEF IInv, Sound, RunningIsCancellable, RunningAt, InGoroutine, InSession, Settling
<1> QED BY <1>1, ExecutionInvariance, PTL

\* Completed means: exited with 0, and all of the output read.
THEOREM CompletedExecutionsRan == Spec => []CompletedRan
<1>1. IInv => CompletedRan
  BY DEF IInv, Sound, CompletedRan
<1> QED BY <1>1, ExecutionInvariance, PTL

\* Whoever is told the end can read it from the row.
THEOREM EndsToldAreRecorded == Spec => []ToldIsRecorded
<1>1. IInv => ToldIsRecorded
  BY DEF IInv, Sound, ToldIsRecorded
<1> QED BY <1>1, ExecutionInvariance, PTL

\* No step takes an outcome back, although no statement guards against it: the
\* goroutine that writes outcomes has written none before.
LEMMA FinalStep ==
  ASSUME IInv, [Next]_vars, NEW f \in Executions, row[f] \in Terminal
  PROVE  row'[f] \in {row[f], "deleted"}
<1>1. TypeOK /\ Sound(f)
  BY DEF IInv
<1>2. ASSUME NEW e \in Executions,
             \/ Execute(e) \/ RunExecution(e) \/ Cancel(e) \/ Guest(e) \/ Deadline(e)
      PROVE  row'[f] \in {row[f], "deleted"}
  <2>1. CASE e # f
    BY <1>1, <1>2, <2>1, StepElsewhere DEF Untouched
  <2>2. CASE e = f
    <3> USE <1>1, <2>2 DEF TypeOK, Sound, SettledAt, Telling, Terminal, Goto
    <3>1. CASE Execute(e)
      BY <3>1 DEF Execute, CountForVM, CountTotal, Create, Register
    <3>2. CASE Mark(e) \/ SshExecute(e)
      BY <3>2 DEF Mark, SshExecute, Connect, Exited, Stopped, RemoteKill, HangUp, Drain
    <3>3. CASE WindUp(e)
      BY <3>3 DEF WindUp, Erred, ExitCode, TellErred, Settle, Tell, Return
    <3>4. CASE Cancel(e) \/ Guest(e) \/ Deadline(e)
      BY <3>4 DEF Cancel, CancelLookup, CancelSignal, Deadline,
                  Guest, JobStarts, JobEnds, OutputEnds, Lost
    <3> QED BY <1>2, <3>1, <3>2, <3>3, <3>4 DEF RunExecution
  <2> QED BY <2>1, <2>2
<1>3. ASSUME NEW v \in VMs, DeleteVM(v) \/ GuestHangsUp(v)
      PROVE  row'[f] \in {row[f], "deleted"}
  BY <1>1, <1>3 DEF DeleteVM, GuestHangsUp, TypeOK
<1>4. CASE Crash \/ UNCHANGED vars
  BY <1>4 DEF Crash, vars
<1> QED BY <1>2, <1>3, <1>4 DEF Next

\* An outcome on record is final.
THEOREM OutcomesAreFinal == Spec => OutcomeIsFinal
<1>1. IInv /\ [Next]_vars =>
        [\A e \in Executions : row[e] \in Terminal => row'[e] \in {row[e], "deleted"}]_vars
  BY FinalStep
<1> QED BY <1>1, ExecutionInvariance, PTL DEF Spec, OutcomeIsFinal

------------------------------------------------------------------------------
(* The limits *)

\* All the sets that are counted are finite.
LEMMA CountsAreFinite ==
  ASSUME NEW S \in SUBSET Executions
  PROVE  IsFiniteSet(S) /\ Cardinality(S) \in Nat
BY ExecutionsArePlaced, FS_Subset, FS_CardinalityType

\* Fewer executions, a lower count; one more, at most one more.
LEMMA CountsAreMonotone ==
  ASSUME NEW S \in SUBSET Executions, NEW T \in SUBSET S
  PROVE  Cardinality(T) <= Cardinality(S)
BY CountsAreFinite, FS_Subset

LEMMA OneMore ==
  ASSUME NEW S \in SUBSET Executions, NEW e \in Executions, NEW T \in SUBSET (S \union {e})
  PROVE  Cardinality(T) <= Cardinality(S) + 1
<1>1. Cardinality(S \union {e}) <= Cardinality(S) + 1
  BY CountsAreFinite, FS_AddElement
<1>2. Cardinality(T) <= Cardinality(S \union {e})
  BY CountsAreMonotone
<1> QED BY <1>1, <1>2, CountsAreFinite

\* A step that inserts nothing and lets no further request pass a limit.
Quiet == /\ Counted' \subseteq Counted
         /\ InTime' \subseteq InTime
         /\ \A e \in Executions : e \notin overtaken' /\ pc'[e] \in {"counted", "admitted"} =>
                                   e \notin overtaken /\ pc'[e] = pc[e]

LEMMA QuietKeepsLimits ==
  ASSUME LInv, Quiet
  PROVE  LInv'
<1> USE LimitsArePositive, CountsAreFinite, CountsAreMonotone
<1>1. Counted \in SUBSET Executions /\ InTime \in SUBSET Executions
  BY DEF Counted, InTime
<1>2. LimitsUnlessOvertaken'
  <2>1. ASSUME NEW v \in VMs
        PROVE  Cardinality(InTime' \intersect On(v)) <= MaxPerVM
    <3>1. Cardinality(InTime' \intersect On(v)) <= Cardinality(InTime \intersect On(v))
      BY <1>1 DEF Quiet
    <3>2. Cardinality(InTime \intersect On(v)) <= MaxPerVM
      BY DEF LInv, LimitsUnlessOvertaken
    <3>3. /\ Cardinality(InTime' \intersect On(v)) \in Nat
          /\ Cardinality(InTime \intersect On(v)) \in Nat
      BY <1>1 DEF Quiet
    <3> QED BY <3>1, <3>2, <3>3
  <2>2. Cardinality(InTime') <= MaxTotal
    <3>1. Cardinality(InTime') <= Cardinality(InTime)
      BY <1>1 DEF Quiet
    <3>2. Cardinality(InTime) <= MaxTotal
      BY DEF LInv, LimitsUnlessOvertaken
    <3>3. Cardinality(InTime') \in Nat /\ Cardinality(InTime) \in Nat
      BY <1>1 DEF Quiet
    <3> QED BY <3>1, <3>2, <3>3
  <2> QED BY <2>1, <2>2 DEF LimitsUnlessOvertaken, On
<1>3. CountsHold'
  <2> SUFFICES ASSUME NEW e \in Executions, e \notin overtaken', pc'[e] \in {"counted", "admitted"}
               PROVE  /\ Cardinality(Counted' \intersect On(VmOf[e])) < MaxPerVM
                      /\ pc'[e] = "admitted" => Cardinality(Counted') < MaxTotal
    BY DEF CountsHold, On
  <2>1. e \in Executions \ overtaken /\ pc[e] = pc'[e]
    BY DEF Quiet
  <2>2. Cardinality(Counted \intersect On(VmOf[e])) < MaxPerVM
    BY <2>1 DEF LInv, CountsHold
  <2>3. Cardinality(Counted' \intersect On(VmOf[e])) <= Cardinality(Counted \intersect On(VmOf[e]))
    BY <1>1 DEF Quiet
  <2>4. Cardinality(Counted') <= Cardinality(Counted)
    BY <1>1 DEF Quiet
  <2>5. pc[e] = "admitted" => Cardinality(Counted) < MaxTotal
    BY <2>1 DEF LInv, CountsHold
  <2>6. /\ Cardinality(Counted' \intersect On(VmOf[e])) \in Nat
        /\ Cardinality(Counted \intersect On(VmOf[e])) \in Nat
        /\ Cardinality(Counted') \in Nat /\ Cardinality(Counted) \in Nat
    BY <1>1 DEF Quiet
  <2> QED BY <2>1, <2>2, <2>3, <2>4, <2>5, <2>6
<1> QED BY <1>2, <1>3 DEF LInv

\* Every step but a count and an insertion is quiet.
Inserts(e) == Create(e) /\ pc'[e] = "created"

LEMMA MostStepsAreQuiet ==
  ASSUME IInv, [Next]_vars,
         \A e \in Executions : ~CountForVM(e) /\ ~CountTotal(e) /\ ~Inserts(e)
  PROVE  Quiet
<1> USE DEF Quiet, Counted, InTime, Live, Exists, Terminal
<1>1. TypeOK /\ \A e \in Executions : Sound(e)
  BY DEF IInv
<1>2. ASSUME NEW e \in Executions, Create(e) \/ Register(e)
      PROVE  Quiet
  BY <1>1, <1>2 DEF Create, Register, Inserts, Goto, TypeOK
<1>3. ASSUME NEW e \in Executions, Mark(e)
      PROVE  Quiet
  BY <1>1, <1>3 DEF Mark, StatusWrite, Goto, TypeOK, Sound, SettledAt, Telling
<1>4. ASSUME NEW e \in Executions, SshExecute(e)
      PROVE  Quiet
  BY <1>1, <1>4 DEF SshExecute, Connect, Exited, Stopped, RemoteKill, HangUp, Drain, Goto, TypeOK
<1>5. ASSUME NEW e \in Executions, WindUp(e)
      PROVE  Quiet
  BY <1>1, <1>5 DEF WindUp, Erred, ExitCode, TellErred, Settle, Tell, Return, Outcome,
                    OutcomeWrite, StatusWrite, Goto, TypeOK
<1>6. ASSUME NEW e \in Executions, Cancel(e) \/ Guest(e) \/ Deadline(e)
      PROVE  Quiet
  BY <1>1, <1>6 DEF Cancel, CancelLookup, CancelSignal, Deadline,
                    Guest, JobStarts, JobEnds, OutputEnds, Lost, Goto, TypeOK
<1>7. ASSUME NEW v \in VMs, DeleteVM(v) \/ GuestHangsUp(v)
      PROVE  Quiet
  BY <1>1, <1>7 DEF DeleteVM, GuestHangsUp, TypeOK
<1>8. CASE Crash \/ UNCHANGED vars
  BY <1>1, <1>8 DEF Crash, vars, TypeOK
<1> QED BY <1>2, <1>3, <1>4, <1>5, <1>6, <1>7, <1>8 DEF Next, Execute, RunExecution

\* A count that passes has seen room; one that is refused starts over.
LEMMA CountKeepsLimits ==
  ASSUME IInv, LInv, NEW e \in Executions, CountForVM(e) \/ CountTotal(e)
  PROVE  LInv'
<1>1. Counted' = Counted /\ InTime' = InTime /\ \A v \in VMs : On(v)' = On(v)
  BY DEF IInv, TypeOK, Sound, NoRowAt, CountForVM, CountTotal, Goto, Counted, InTime, Live, On
<1>2. LimitsUnlessOvertaken'
  BY <1>1 DEF LInv, LimitsUnlessOvertaken
<1>3. ASSUME NEW f \in Executions, f \notin overtaken', pc'[f] \in {"counted", "admitted"}
      PROVE  /\ Cardinality(Counted \intersect On(VmOf[f])) < MaxPerVM
             /\ pc'[f] = "admitted" => Cardinality(Counted) < MaxTotal
  <2>1. CASE f # e
    BY <1>3, <2>1 DEF IInv, TypeOK, LInv, CountsHold, CountForVM, CountTotal, Goto
  <2>2. CASE f = e /\ CountForVM(e)
    BY <1>3, <2>2 DEF IInv, TypeOK, CountForVM, Goto
  <2>3. CASE f = e /\ CountTotal(e)
    BY <1>3, <2>3 DEF IInv, TypeOK, LInv, CountsHold, CountTotal, Goto
  <2> QED BY <2>1, <2>2, <2>3
<1>4. CountsHold'
  BY <1>1, <1>3 DEF CountsHold, On
<1> QED BY <1>2, <1>4 DEF LInv

\* An insertion that was not overtaken uses up the room it has seen, and
\* overtakes every other request.
LEMMA InsertKeepsLimits ==
  ASSUME IInv, LInv, NEW e \in Executions, Inserts(e)
  PROVE  LInv'
<1> USE LimitsArePositive
<1>1. /\ TypeOK /\ Sound(e) /\ pc[e] = "admitted" /\ row[e] = "none"
      /\ row' = [row EXCEPT ![e] = "pending"] /\ pc' = [pc EXCEPT ![e] = "created"]
      /\ overtaken' = overtaken \union {f \in Executions \ {e} : pc[f] \in {"counted", "admitted"}}
  BY DEF IInv, TypeOK, Sound, NoRowAt, Inserts, Create, Goto
<1>2. Counted \in SUBSET Executions /\ InTime \in SUBSET Counted
  BY DEF Counted, InTime
<1>3. CountsHold'
  BY <1>1 DEF CountsHold, TypeOK
<1>4. CASE e \in overtaken
  <2>1. InTime' \in SUBSET InTime
    BY <1>1, <1>4 DEF InTime, TypeOK
  <2>2. ASSUME NEW v \in VMs
        PROVE  Cardinality(InTime' \intersect On(v)) <= MaxPerVM
    <3>1. Cardinality(InTime' \intersect On(v)) <= Cardinality(InTime \intersect On(v))
      BY <1>2, <2>1, CountsAreMonotone
    <3>2. Cardinality(InTime \intersect On(v)) <= MaxPerVM
      BY DEF LInv, LimitsUnlessOvertaken
    <3>3. /\ Cardinality(InTime' \intersect On(v)) \in Nat
          /\ Cardinality(InTime \intersect On(v)) \in Nat
      BY <1>2, <2>1, CountsAreFinite
    <3> QED BY <3>1, <3>2, <3>3
  <2>3. Cardinality(InTime') <= MaxTotal
    <3>1. Cardinality(InTime') <= Cardinality(InTime)
      BY <1>2, <2>1, CountsAreMonotone
    <3>2. Cardinality(InTime) <= MaxTotal
      BY DEF LInv, LimitsUnlessOvertaken
    <3>3. Cardinality(InTime') \in Nat /\ Cardinality(InTime) \in Nat
      BY <1>2, <2>1, CountsAreFinite
    <3> QED BY <3>1, <3>2, <3>3
  <2> QED BY <1>3, <2>2, <2>3 DEF LInv, LimitsUnlessOvertaken, On
<1>5. CASE e \notin overtaken
  <2>1. /\ Cardinality(Counted \intersect On(VmOf[e])) < MaxPerVM
        /\ Cardinality(Counted) < MaxTotal
    BY <1>1, <1>5 DEF LInv, CountsHold
  <2>2. InTime' \in SUBSET (InTime \union {e})
    BY <1>1 DEF InTime, TypeOK
  <2>3. Cardinality(InTime') <= MaxTotal
    <3>1. Cardinality(InTime') <= Cardinality(Counted) + 1
      BY <1>2, <2>2, OneMore
    <3>2. Cardinality(InTime') \in Nat /\ Cardinality(Counted) \in Nat
      BY <1>2, <2>2, CountsAreFinite
    <3> QED BY <2>1, <3>1, <3>2
  <2>4. ASSUME NEW v \in VMs
        PROVE  Cardinality(InTime' \intersect On(v)) <= MaxPerVM
    <3>1. CASE v = VmOf[e]
      <4>1. InTime' \intersect On(v) \in SUBSET ((Counted \intersect On(v)) \union {e})
        BY <1>2, <2>2
      <4>2. Cardinality(InTime' \intersect On(v)) <= Cardinality(Counted \intersect On(v)) + 1
        BY <1>2, <4>1, OneMore
      <4>3. /\ Cardinality(InTime' \intersect On(v)) \in Nat
            /\ Cardinality(Counted \intersect On(v)) \in Nat
        BY <1>2, <2>2, CountsAreFinite
      <4> QED BY <2>1, <3>1, <4>2, <4>3
    <3>2. CASE v # VmOf[e]
      <4>1. InTime' \intersect On(v) \in SUBSET (InTime \intersect On(v))
        BY <2>2, <3>2 DEF On
      <4>2. Cardinality(InTime' \intersect On(v)) <= Cardinality(InTime \intersect On(v))
        BY <1>2, <4>1, CountsAreMonotone
      <4>3. Cardinality(InTime \intersect On(v)) <= MaxPerVM
        BY DEF LInv, LimitsUnlessOvertaken
      <4>4. /\ Cardinality(InTime' \intersect On(v)) \in Nat
            /\ Cardinality(InTime \intersect On(v)) \in Nat
        BY <1>2, <2>2, CountsAreFinite
      <4> QED BY <4>2, <4>3, <4>4
    <3> QED BY <3>1, <3>2
  <2> QED BY <1>3, <2>3, <2>4 DEF LInv, LimitsUnlessOvertaken, On
<1> QED BY <1>4, <1>5

\* The limits of Execute, for every set of executions and every limit: they
\* hold for whoever was not overtaken between counting and inserting.
THEOREM LimitsHold == Spec => []LimitsUnlessOvertaken
<1>1. Init => LInv
  <2>1. Init => Counted = {} /\ InTime = {}
    BY DEF Init, Counted, InTime, Live
  <2>2. Init => CountsHold
    BY DEF Init, CountsHold
  <2>3. ASSUME Init, NEW v \in VMs
        PROVE  InTime \intersect On(v) = {}
    BY <2>1, <2>3
  <2>4. Cardinality({}) = 0
    BY FS_EmptySet
  <2>5. MaxPerVM \in Nat /\ MaxTotal \in Nat
    BY LimitsArePositive
  <2>6. ASSUME Init
        PROVE  LimitsUnlessOvertaken
    <3>1. Cardinality(InTime) <= MaxTotal
      BY <2>1, <2>4, <2>5, <2>6
    <3>2. ASSUME NEW v \in VMs
          PROVE  Cardinality(InTime \intersect On(v)) <= MaxPerVM
      BY <2>3, <2>4, <2>5, <2>6
    <3> QED BY <3>1, <3>2 DEF LimitsUnlessOvertaken
  <2> QED BY <2>2, <2>6 DEF LInv
<1>2. IInv /\ LInv /\ [Next]_vars => LInv'
  BY MostStepsAreQuiet, QuietKeepsLimits, CountKeepsLimits, InsertKeepsLimits
<1> QED BY <1>1, <1>2, ExecutionInvariance, PTL DEF Spec, LInv
=============================================================================
