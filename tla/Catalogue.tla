-------------------------------- MODULE Catalogue --------------------------------
(***************************************************************************)
(* The catalogue of actions (internal/db/actions.go,                       *)
(* internal/api/handlers/actions.go): drafts and published actions, their  *)
(* versions, and the background jobs in which a language model drafts,     *)
(* reviews or fixes one (internal/service/ai_jobs.go, ai_draft.go,         *)
(* ai_review.go, ai_fix.go).                                               *)
(*                                                                         *)
(* A handler reads the action, checks it, and changes it in a later        *)
(* statement.  The content of an action is one value, its script.  Actions *)
(* that come with the server cannot be changed and are left out.           *)
(***************************************************************************)
EXTENDS Naturals, FiniteSets

CONSTANTS Actions,     \* row ids
          Scripts,     \* contents
          NoScript,    \* no content
          Edits,       \* slots for requests in flight
          Jobs,        \* slots for jobs the table of jobs holds
          JobLimit,    \* jobs that may run at once (8 in the code)
          MaxChanges   \* bound: requests and jobs

ASSUME CatalogueAssumption ==
  /\ NoScript \notin Scripts /\ 0 \notin Actions /\ IsFiniteSet(Edits) /\ IsFiniteSet(Jobs)
  /\ {JobLimit, MaxChanges} \subseteq Nat

VARIABLES
  actions,   \* actions[a]: the row
  versions,  \* versions[a][v]: content of the superseded version v, where there is one
  edits,     \* requests between their read and their write
  jobs,      \* jobs[j]: what the job is for, and where it stands
  changes,   \* requests and jobs so far
  seen,      \* history: <<action, version, content>> that could be run
  overtaken    \* history: a draft was published while a job was saving into it

catalogueVars == <<actions, versions, edits, jobs, changes, seen, overtaken>>

Versions == 1..(MaxChanges + 1)

\* sound: a person wrote or published this content (history).
NoAction == [status |-> "unused", version |-> 1, script |-> NoScript, review |-> NoScript, sound |-> FALSE]
NoEdit   == [op |-> "none", action |-> 0, script |-> NoScript, review |-> NoScript]
NoJob    == [kind |-> "none", at |-> "free", action |-> 0, script |-> NoScript, saw |-> "unused"]

CatalogueInit ==
  /\ actions = [a \in Actions |-> NoAction]
  /\ versions = [a \in Actions |-> <<>>]
  /\ edits = [e \in Edits |-> NoEdit] /\ jobs = [j \in Jobs |-> NoJob]
  /\ changes = 0 /\ seen = {} /\ overtaken = FALSE

Stored(a) == actions[a].status \in {"draft", "active"}

Counted == changes < MaxChanges /\ changes' = changes + 1

\* What can be run now has been seen.
Observed ==
  seen' = seen \union {<<a, actions'[a].version, actions'[a].script>> :
                         a \in {b \in Actions : actions'[b].status = "active"}}

------------------------------------------------------------------------------
(* Statements of the database *)

CreateAction(status, script, review, person) ==
  \E a \in Actions :
    /\ actions[a].status = "unused"
    /\ actions' = [actions EXCEPT ![a] = [status |-> status, version |-> 1, script |-> script,
                                          review |-> review, sound |-> person]]
    /\ UNCHANGED versions

\* Slip: the new content is what gets the old number.
SupersededByNew(a, script) == script

SupersededBy(a, script) == actions[a].script

\* A row of action_versions is inserted.
Archived(a, v, script) ==
  [u \in DOMAIN versions[a] \union {v} |-> IF u = v THEN script ELSE versions[a][u]]

\* One transaction.  A draft is overwritten; what an active action held becomes a
\* past version.
UpdateAction(a, script, review, person) ==
  LET old == actions[a]  active == old.status = "active"
  IN  /\ Stored(a)
      /\ actions' = [actions EXCEPT ![a] = [old EXCEPT
                       !.script = script, !.review = review, !.sound = person,
                       !.version = IF active THEN old.version + 1 ELSE old.version]]
      /\ versions' = IF active
           THEN [versions EXCEPT ![a] = Archived(a, old.version, SupersededBy(a, script))]
           ELSE versions

PublishAction(a) ==
  /\ actions[a].status = "draft"
  /\ actions' = [actions EXCEPT ![a] = [actions[a] EXCEPT !.status = "active", !.version = 1,
                                                          !.sound = TRUE]]
  /\ UNCHANGED versions

\* Executions and deployments are unlinked first; past versions go with the row.
DeleteAction(a) ==
  /\ Stored(a)
  /\ actions' = [actions EXCEPT ![a] = [NoAction EXCEPT !.status = "deleted"]]
  /\ versions' = [versions EXCEPT ![a] = <<>>]

SetActionReview(a, script) ==
  /\ actions' = IF Stored(a) THEN [actions EXCEPT ![a] = [actions[a] EXCEPT !.review = script]]
                ELSE actions
  /\ UNCHANGED versions

------------------------------------------------------------------------------
(* Requests *)

\* Create, Import (one row per entry), and a new script that is saved as a draft.
Create ==
  /\ Counted
  /\ \E status \in {"draft", "active"}, script \in Scripts :
       CreateAction(status, script, NoScript, TRUE)
  /\ Observed /\ UNCHANGED <<edits, jobs, overtaken>>

BeginChange(e, op, a, script, review) ==
  /\ edits[e] = NoEdit /\ Counted
  /\ edits' = [edits EXCEPT ![e] = [op |-> op, action |-> a, script |-> script, review |-> review]]
  /\ UNCHANGED <<actions, versions, jobs, seen, overtaken>>

\* An update carries the review of the row it has read.
ReadForUpdate(e) ==
  \E a \in Actions, script \in Scripts : Stored(a) /\ BeginChange(e, "update", a, script, actions[a].review)

ReadForPublish(e) ==
  \E a \in Actions : actions[a].status = "draft" /\ BeginChange(e, "publish", a, NoScript, NoScript)

RollbackAction(e) ==
  \E a \in Actions : \E v \in DOMAIN versions[a] :
    /\ Stored(a) /\ v # actions[a].version
    /\ BeginChange(e, "update", a, versions[a][v], NoScript)

ReadForDelete(e) == \E a \in Actions : Stored(a) /\ BeginChange(e, "delete", a, NoScript, NoScript)

\* The write finds the row as it is by now; when it does not fit, nothing changes.
Perform(r) ==
  CASE r.op = "update"  -> UpdateAction(r.action, r.script, r.review, TRUE)
    [] r.op = "publish" -> PublishAction(r.action)
    [] r.op = "delete"  -> DeleteAction(r.action)

Fits(r) == IF r.op = "publish" THEN actions[r.action].status = "draft" ELSE Stored(r.action)

WriteAction(e) ==
  /\ edits[e] # NoEdit
  /\ IF Fits(edits[e]) THEN Perform(edits[e]) ELSE UNCHANGED <<actions, versions>>
  /\ edits' = [edits EXCEPT ![e] = NoEdit]
  /\ Observed /\ UNCHANGED <<jobs, changes, overtaken>>

------------------------------------------------------------------------------
(* Jobs *)

RunningJobs == {j \in Jobs : jobs[j].at \notin {"free", "done", "failed"}}

\* A review and a fix get the script of the editor, a draft may go into one that exists.
StartJob(j) ==
  /\ jobs[j] = NoJob /\ Cardinality(RunningJobs) < JobLimit /\ Counted
  /\ \E kind \in {"draft", "review", "fix"}, a \in Actions \union {0}, script \in Scripts :
       jobs' = [jobs EXCEPT ![j] = [kind |-> kind, at |-> "asking", action |-> a, saw |-> "unused",
                                    script |-> IF kind = "draft" THEN NoScript ELSE script]]
  /\ UNCHANGED <<actions, versions, edits, seen, overtaken>>

JobMoves(j, at) == jobs' = [jobs EXCEPT ![j].at = at]

\* A review without the model is the linter's; a draft that was declined saves nothing.
ModelAnswers(j) ==
  /\ jobs[j].at = "asking"
  /\ \/ jobs[j].kind = "draft" /\ \E script \in Scripts :
          jobs' = [jobs EXCEPT ![j].at = "check", ![j].script = script]
     \/ jobs[j].kind = "review" /\ JobMoves(j, IF jobs[j].action = 0 THEN "done" ELSE "attach")
     \/ jobs[j].kind # "review" /\ (JobMoves(j, "done") \/ JobMoves(j, "failed"))
  /\ UNCHANGED <<actions, versions, edits, changes, seen, overtaken>>

AttachReview(j) ==
  /\ jobs[j].at = "attach"
  /\ SetActionReview(jobs[j].action, jobs[j].script)
  /\ JobMoves(j, "done") /\ UNCHANGED <<edits, changes, seen, overtaken>>

\* Slip: any action is taken for a draft.
AnyStored(a) == Stored(a)

IsDraft(a) == actions[a].status = "draft"

CheckDraft(j) ==
  /\ jobs[j].at = "check" /\ jobs[j].action # 0
  /\ LET a == jobs[j].action IN
       jobs' = [jobs EXCEPT ![j].at = IF IsDraft(a) THEN "save" ELSE "failed",
                            ![j].saw = actions[a].status]
  /\ UNCHANGED <<actions, versions, edits, changes, seen, overtaken>>

SaveDraftAction(j) ==
  LET r == jobs[j] IN
  /\ \/ r.at = "check" /\ r.action = 0 /\ CreateAction("draft", r.script, r.script, FALSE)
        /\ JobMoves(j, "done") /\ UNCHANGED overtaken
     \/ r.at = "save" /\ UpdateAction(r.action, r.script, r.script, FALSE)
        /\ overtaken' = (overtaken \/ (r.saw = "draft" /\ actions[r.action].status = "active"))
        /\ JobMoves(j, "done")
     \/ r.at = "save" /\ ~Stored(r.action) /\ JobMoves(j, "failed")
        /\ UNCHANGED <<actions, versions, overtaken>>
  /\ Observed /\ UNCHANGED <<edits, changes>>

\* Ten minutes after its end a job is forgotten.
Sweep(j) ==
  /\ jobs[j].at \in {"done", "failed"} /\ jobs' = [jobs EXCEPT ![j] = NoJob]
  /\ UNCHANGED <<actions, versions, edits, changes, seen, overtaken>>

CatalogueRestart ==
  /\ \/ \E j \in Jobs : jobs[j] # NoJob
     \/ \E e \in Edits : edits[e] # NoEdit
  /\ jobs' = [j \in Jobs |-> NoJob] /\ edits' = [e \in Edits |-> NoEdit]
  /\ UNCHANGED <<actions, versions, changes, seen, overtaken>>

CatalogueNext ==
  \/ Create
  \/ \E e \in Edits : ReadForUpdate(e) \/ ReadForPublish(e) \/ RollbackAction(e) \/ ReadForDelete(e) \/ WriteAction(e)
  \/ \E j \in Jobs : \/ StartJob(j) \/ ModelAnswers(j) \/ AttachReview(j) \/ CheckDraft(j)
                     \/ SaveDraftAction(j) \/ Sweep(j)
  \/ CatalogueRestart

CatalogueSpec == CatalogueInit /\ [][CatalogueNext]_catalogueVars

------------------------------------------------------------------------------
(* Properties *)

Contents == Scripts \union {NoScript}

\* Every variable has its type.
CatalogueTypeOK ==
  /\ actions \in [Actions -> [status : {"unused", "draft", "active", "deleted"}, version : Versions,
                              script : Contents, review : Contents, sound : BOOLEAN]]
  /\ \A a \in Actions : versions[a] \in [DOMAIN versions[a] -> Scripts]
                        /\ DOMAIN versions[a] \subseteq Versions
  /\ edits \in [Edits -> [op : {"none", "update", "publish", "delete"}, action : Actions \union {0},
                          script : Contents, review : Contents]]
  /\ jobs \in [Jobs -> [kind : {"none", "draft", "review", "fix"},
                        at : {"free", "asking", "check", "save", "attach", "done", "failed"},
                        action : Actions \union {0}, script : Contents,
                        saw : {"unused", "draft", "active", "deleted"}]]
  /\ changes \in 0..MaxChanges /\ seen \subseteq Actions \X Versions \X Scripts /\ overtaken \in BOOLEAN

GetVersion(a, v) == IF v = actions[a].version THEN actions[a].script ELSE versions[a][v]

\* Whatever could once be run under a version number is still what that number gives,
\* however requests and jobs overlap (actions.go:169, "every prior version stays
\* retrievable").
HistoryFaithful ==
  \A x \in seen : actions[x[1]].status = "active" => GetVersion(x[1], x[2]) = x[3]

\* What the model wrote cannot be run until a person publishes it (action-drafts.md:24),
\* unless the draft was published between the job's check and its save.
NothingRunsUnpublished ==
  \A a \in Actions : actions[a].status = "active" => actions[a].sound \/ overtaken
=============================================================================
