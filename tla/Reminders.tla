-------------------------------- MODULE Reminders --------------------------------
(***************************************************************************)
(* A target whose host runs on an evaluation license: what a connection    *)
(* test learns and records (internal/service/target.go,                    *)
(* internal/provider/vmware/license.go), the health checker that tests     *)
(* targets (target_health.go), and the reminders it sends before the       *)
(* evaluation ends (target_evaluation.go).                                 *)
(*                                                                         *)
(* The checker is one goroutine; users test a connection whenever they     *)
(* like.  The host is asked first and its answer stored later.             *)
(***************************************************************************)
EXTENDS Integers, FiniteSetsExt

CONSTANTS Lengths,   \* days an evaluation that is given to the host may last
          MaxDay,    \* bound: days
          MaxTerms,  \* bound: licenses the host is given
          Relative   \* the host reports hours left, not a date

ASSUME RemindersAssumption ==
  /\ Lengths \subseteq Nat \ {0} /\ {MaxDay, MaxTerms} \subseteq Nat
  /\ Relative \in BOOLEAN

VARIABLES
  today,     \* the day
  license,   \* what the host has: its number, its kind and the day it ends
  row,       \* the target's row: the evaluation it knows, and the last reminder
  checker,   \* where the health checker stands
  copy,      \* the row the sweep listed
  answers,   \* answers[t]: what the host told a test that has not stored it yet
  told,      \* reminders sent: <<license, stage>>
  swept,     \* a sweep has finished today
  crossed    \* history: a reminder's record fell on another evaluation

remindVars == <<today, license, row, checker, copy, answers, told, swept, crossed>>

Testers == {"checker", "user"}

NoAnswer == [asked |-> FALSE, term |-> 0, ends |-> 0]

RemindInit ==
  /\ today = 0 /\ license = [number |-> 1, kind |-> "other", ends |-> 0]
  /\ row = [term |-> 0, ends |-> 0, warned |-> -1]
  /\ copy = row /\ checker = "asleep" /\ answers = [t \in Testers |-> NoAnswer]
  /\ told = {} /\ swept = FALSE /\ crossed = FALSE

------------------------------------------------------------------------------
(* The host *)

\* An operator assigns a key or starts another evaluation.
Assign ==
  /\ license.number < MaxTerms
  /\ \/ license' = [number |-> license.number + 1, kind |-> "other", ends |-> 0]
     \/ \E days \in Lengths :
          license' = [number |-> license.number + 1, kind |-> "evaluation", ends |-> today + days]
  /\ UNCHANGED <<today, row, checker, copy, answers, told, swept, crossed>>

EvaluationOver == license.kind = "evaluation" /\ license.ends <= today

\* An evaluation that is over is no longer an evaluation to the host.
HostCapabilities ==
  IF license.kind = "evaluation" /\ ~EvaluationOver
  THEN [asked |-> TRUE, term |-> license.number, ends |-> license.ends]
  ELSE [NoAnswer EXCEPT !.asked = TRUE]

------------------------------------------------------------------------------
(* Testing a connection *)

AskHost(t) ==
  /\ ~answers[t].asked
  /\ answers' = [answers EXCEPT ![t] = HostCapabilities]
  /\ UNCHANGED <<today, license, row, copy, told, swept, crossed>>

\* Slip: the reminders of the last evaluation count for the next one.
SameAlways(answer) == TRUE

\* The expiry is compared as a moment, for which the term and its last day stand: two
\* evaluations may end on one day, not at one moment; hours left give another moment
\* each time.
SameExpiry(answer) ==
  answer.term = row.term /\ (answer.term = 0 \/ (answer.ends = row.ends /\ ~Relative))

UpdateTargetCapabilities(answer) ==
  row' = [row EXCEPT !.term = answer.term, !.ends = answer.ends,
                     !.warned = IF SameExpiry(answer) THEN @ ELSE -1]

Store(t) ==
  /\ answers[t].asked
  /\ UpdateTargetCapabilities(answers[t])
  /\ answers' = [answers EXCEPT ![t] = NoAnswer]
  /\ swept' = (swept /\ answers[t].term = row.term)
  /\ UNCHANGED <<today, license, copy, told, crossed>>

UserTests ==
  (AskHost("user") \/ Store("user")) /\ UNCHANGED checker

------------------------------------------------------------------------------
(* The sweep *)

Stages == {14, 7, 1, 0}

\* The reminder that is due so many days before the end; -1 when none is.
EvaluationStage(days) ==
  LET reached == {s \in Stages : days <= s} IN IF reached = {} THEN -1 ELSE Min(reached)

DaysUntil(day) == IF day <= today THEN 0 ELSE day - today

DueStage(r) == EvaluationStage(DaysUntil(r.ends))

Due(r) ==
  /\ r.term # 0 /\ DueStage(r) >= 0 /\ DueStage(r) # r.warned
  /\ ~(r.warned >= 0 /\ DueStage(r) > r.warned)

ListTargets ==
  /\ checker = "asleep" /\ checker' = "listed" /\ copy' = row
  /\ UNCHANGED <<today, license, row, answers, told, swept, crossed>>

NotifyEvaluation ==
  /\ checker = "listed"
  /\ IF Due(copy)
     THEN /\ told' = told \union {<<copy.term, DueStage(copy)>>}
          /\ checker' = "told" /\ UNCHANGED swept
     ELSE /\ checker' = "checking" /\ swept' = (row.term = copy.term) /\ UNCHANGED told
  /\ UNCHANGED <<today, license, row, copy, answers, crossed>>

RecordStage ==
  /\ checker = "told" /\ checker' = "checking"
  /\ row' = [row EXCEPT !.warned = DueStage(copy)]
  /\ crossed' = (crossed \/ row.term # copy.term)
  /\ swept' = (row.term = copy.term)
  /\ UNCHANGED <<today, license, copy, answers, told>>

\* Whether a check is due depends on the setting and on the last one's time.
CheckerTests ==
  /\ \/ checker = "checking" /\ checker' = "asleep"
        /\ UNCHANGED <<today, license, row, copy, answers, told, swept, crossed>>
     \/ checker = "checking" /\ AskHost("checker") /\ checker' = "storing"
     \/ checker = "storing" /\ Store("checker") /\ checker' = "asleep"

\* The checker wakes up every minute: a day does not end without a sweep.
Day ==
  /\ swept /\ checker = "asleep" /\ today < MaxDay
  /\ today' = today + 1 /\ swept' = FALSE
  /\ UNCHANGED <<license, row, checker, copy, answers, told, crossed>>

CheckerRestart ==
  /\ checker' = "asleep" /\ answers' = [t \in Testers |-> NoAnswer]
  /\ UNCHANGED <<today, license, row, copy, told, swept, crossed>>

RemindNext ==
  \/ Assign \/ UserTests \/ ListTargets \/ NotifyEvaluation \/ RecordStage \/ CheckerTests
  \/ Day \/ CheckerRestart

RemindSpec == RemindInit /\ [][RemindNext]_remindVars

------------------------------------------------------------------------------
(* Properties *)

Answers == [asked : BOOLEAN, term : 0..MaxTerms, ends : Nat]
TargetRows == [term : 0..MaxTerms, ends : Nat, warned : Stages \union {-1}]

\* Every variable has its type.
RemindTypeOK ==
  /\ today \in 0..MaxDay /\ row \in TargetRows /\ copy \in TargetRows
  /\ license \in [number : 1..(MaxTerms + 1), kind : {"other", "evaluation"}, ends : Nat]
  /\ checker \in {"asleep", "listed", "told", "checking", "storing"}
  /\ answers \in [Testers -> Answers] /\ told \subseteq (1..MaxTerms) \X Stages
  /\ {swept, crossed} \subseteq BOOLEAN

\* When the day's sweep is over, the reminder that is due for the evaluation on record
\* has gone out (target_evaluation.go:9), unless the record of one for another
\* evaluation fell on it.
NoSilentEvaluation ==
  swept /\ row.term # 0 /\ DueStage(row) >= 0 /\ ~crossed
    => <<row.term, DueStage(row)>> \in told
=============================================================================
