------------------------------ MODULE PlatformProofs -----------------------------
(***************************************************************************)
(* What the server keeps in its database and tells its users, for any      *)
(* number of rows, requests, jobs, people and days: the versions of an     *)
(* action, the statements of a migration, the references between rows,     *)
(* notices and reminders.  The last section puts these together with the   *)
(* components of MachineProofs, for the specification the runs check.      *)
(***************************************************************************)
EXTENDS MCPlatform, MachineProofs

------------------------------------------------------------------------------
(* The catalogue: a version number keeps its content, since an action       *)
(* changes in only four ways, whatever is read before: it is made or        *)
(* published while nothing of it could be run yet, its content moves to the *)
(* past when it is replaced, it is deleted for good, or it stays.  What a   *)
(* model wrote needs a person, since a job that saves has seen a draft.     *)

Texts == Scripts \union {NoScript}
Statuses == {"unused", "draft", "active", "deleted"}
ActionRows == [status : Statuses, version : Nat, script : Texts, review : Texts, sound : BOOLEAN]
EditRows == [op : {"none", "update", "publish", "delete"}, action : Actions \union {0},
             script : Texts, review : Texts]
JobPlaces == {"free", "asking", "check", "save", "attach", "done", "failed"}
JobRows == [kind : {"none", "draft", "review", "fix"},
            at : JobPlaces,
            action : Actions \union {0}, script : Texts, saw : Statuses]

Shaped ==
  /\ actions \in [Actions -> ActionRows]
  /\ DOMAIN versions = Actions
  /\ edits \in [Edits -> EditRows]
  /\ jobs \in [Jobs -> JobRows]
  /\ overtaken \in BOOLEAN

Past == \A a \in Actions : \A v \in DOMAIN versions[a] : versions[a][v] \in Texts
\* A request in flight is for an action, and so is a job that saves or attaches.
Aimed ==
  /\ \A e \in Edits : edits[e] # NoEdit => edits[e].op # "none" /\ edits[e].action \in Actions
  /\ \A j \in Jobs : jobs[j].at \in {"save", "attach"} => jobs[j].action \in Actions
\* A job saves into what it has seen to be a draft.
SavesDrafts == \A j \in Jobs : jobs[j].at = "save" => jobs[j].saw = "draft"

\* What could once be run belongs to an action that is there, under its number or
\* an earlier one, or to one that is deleted.
Witnessed(x) ==
  /\ x[1] \in Actions /\ x[2] \in Nat /\ actions[x[1]].status \in {"active", "deleted"}
  /\ actions[x[1]].status = "active" =>
       /\ x[2] <= actions[x[1]].version /\ GetVersion(x[1], x[2]) = x[3]
       /\ x[2] # actions[x[1]].version => x[2] \in DOMAIN versions[x[1]]
History == \A x \in seen : Witnessed(x)
CatalogueInv == Shaped /\ Past /\ Aimed /\ SavesDrafts /\ History /\ NothingRunsUnpublished

\* The ways an action may change.
Stays(a) == /\ actions'[a].status = actions[a].status /\ actions'[a].version = actions[a].version
            /\ actions'[a].script = actions[a].script /\ versions'[a] = versions[a]
Appears(a) == /\ actions[a].status \in {"unused", "draft"} /\ actions'[a].status \in {"draft", "active"}
              /\ versions'[a] = versions[a]
Advances(a) == /\ actions[a].status = "active" /\ actions'[a].status = "active"
               /\ actions'[a].version = actions[a].version + 1
               /\ versions'[a] = Archived(a, actions[a].version, actions[a].script)
Goes(a) == actions'[a].status = "deleted" /\ versions'[a] = <<>>
Lawful == \A a \in Actions : Stays(a) \/ Appears(a) \/ Advances(a) \/ Goes(a)

\* A lawful step keeps the history.
LEMMA HistoryKept ==
  ASSUME Shaped, Shaped', Past, History, Lawful, seen' = seen \/ Observed
  PROVE  History' /\ Past'
<1>1. ASSUME NEW x \in seen PROVE Witnessed(x)'
  <2> DEFINE a == x[1]
  <2>1. Witnessed(x) /\ a \in Actions /\ actions[a] \in ActionRows /\ actions'[a] \in ActionRows
    BY DEF History, Witnessed, Shaped
  <2>2. CASE Stays(a)
    BY <2>1, <2>2 DEF Stays, Witnessed, GetVersion
  <2>3. CASE Appears(a)
    BY <2>1, <2>3 DEF Appears, Witnessed
  <2>4. CASE Advances(a)
    <3>1. /\ x[2] \in Nat /\ x[2] <= actions[a].version /\ actions[a].version \in Nat
          /\ GetVersion(a, x[2]) = x[3]
          /\ x[2] # actions[a].version => x[2] \in DOMAIN versions[a]
      BY <2>1, <2>4 DEF Advances, Witnessed, ActionRows
    <3>2. x[2] <= actions'[a].version /\ x[2] # actions'[a].version
      BY <2>4, <3>1 DEF Advances
    <3>3. versions'[a][x[2]] = x[3] /\ x[2] \in DOMAIN versions'[a]
      <4>1. CASE x[2] = actions[a].version
        BY <2>4, <3>1, <4>1 DEF Advances, Archived, GetVersion
      <4>2. CASE x[2] # actions[a].version
        BY <2>4, <3>1, <4>2 DEF Advances, Archived, GetVersion
      <4> QED BY <4>1, <4>2
    <3> QED BY <2>1, <2>4, <3>1, <3>2, <3>3 DEF Advances, Witnessed, GetVersion
  <2>5. CASE Goes(a)
    BY <2>1, <2>5 DEF Goes, Witnessed
  <2> QED BY <2>1, <2>2, <2>3, <2>4, <2>5 DEF Lawful
<1>2. ASSUME Observed, NEW x \in seen', x \notin seen PROVE Witnessed(x)'
  <2>1. PICK a \in Actions : actions'[a].status = "active"
                             /\ x = <<a, actions'[a].version, actions'[a].script>>
    BY <1>2 DEF Observed
  <2>2. actions'[a].version \in Nat
    BY DEF Shaped, ActionRows
  <2> QED BY <2>1, <2>2 DEF Witnessed, GetVersion
<1>3. ASSUME NEW a \in Actions, NEW v \in DOMAIN versions'[a] PROVE versions'[a][v] \in Texts
  <2>1. CASE Stays(a) \/ Appears(a)
    BY <1>3, <2>1 DEF Stays, Appears, Past
  <2>2. CASE Advances(a)
    <3>1. /\ DOMAIN versions'[a] = DOMAIN versions[a] \union {actions[a].version}
          /\ versions'[a][v] = IF v = actions[a].version THEN actions[a].script ELSE versions[a][v]
      BY <1>3, <2>2 DEF Advances, Archived
    <3>2. actions[a].script \in Texts
      BY DEF Shaped, ActionRows
    <3> QED BY <1>3, <3>1, <3>2 DEF Past
  <2>3. CASE Goes(a)
    BY <1>3, <2>3 DEF Goes
  <2> QED BY <2>1, <2>2, <2>3 DEF Lawful
<1> QED BY <1>1, <1>2, <1>3 DEF History, Past

\* The write of one action is lawful; the content may be anything.
LEMMA CreateIsLawful ==
  ASSUME Shaped, NEW status \in {"draft", "active"}, NEW script \in Texts, NEW review \in Texts,
         NEW person \in BOOLEAN, CreateAction(status, script, review, person)
  PROVE  /\ actions' \in [Actions -> ActionRows] /\ DOMAIN versions' = Actions /\ Lawful
         /\ \A a \in Actions : actions'[a].status = "active" =>
              actions'[a].sound \/ (actions[a].status = "active" /\ actions'[a].sound = actions[a].sound)
              \/ (status = "active" /\ ~person)
<1> DEFINE rec == [status |-> status, version |-> 1, script |-> script, review |-> review, sound |-> person]
<1>1. PICK a \in Actions : actions[a].status = "unused" /\ actions' = [actions EXCEPT ![a] = rec]
                           /\ UNCHANGED versions
  BY DEF CreateAction
<1>2. rec \in ActionRows /\ rec.status = status /\ rec.sound = person
  BY DEF ActionRows, Statuses
<1> HIDE DEF rec
<1>3. /\ actions' \in [Actions -> ActionRows] /\ actions'[a] = rec
      /\ \A c \in Actions : c # a => actions'[c] = actions[c]
  BY <1>1, <1>2 DEF Shaped
<1>4. Appears(a) /\ \A c \in Actions : c # a => Stays(c)
  BY <1>1, <1>2, <1>3 DEF Appears, Stays
<1> QED BY <1>1, <1>2, <1>3, <1>4 DEF Lawful, Shaped

LEMMA UpdateIsLawful ==
  ASSUME Shaped, NEW a \in Actions, NEW script \in Texts, NEW review \in Texts,
         NEW person \in BOOLEAN, UpdateAction(a, script, review, person)
  PROVE  /\ actions' \in [Actions -> ActionRows] /\ DOMAIN versions' = Actions /\ Lawful
         /\ actions'[a].sound = person /\ actions'[a].status = actions[a].status
         /\ \A c \in Actions : c # a => actions'[c] = actions[c]
<1> DEFINE old == actions[a]
           next == IF old.status = "active" THEN old.version + 1 ELSE old.version
           rec == [old EXCEPT !.script = script, !.review = review, !.sound = person, !.version = next]
<1>1. /\ actions' = [actions EXCEPT ![a] = rec] /\ Stored(a)
      /\ versions' = IF old.status = "active"
           THEN [versions EXCEPT ![a] = Archived(a, old.version, old.script)] ELSE versions
  BY DEF UpdateAction, SupersededBy
<1>2. old \in ActionRows
  BY DEF Shaped
<1>3. /\ rec \in ActionRows /\ rec.status = old.status /\ rec.sound = person
      /\ old.status = "active" => rec.version = old.version + 1
  <2>1. next \in Nat
    BY <1>2 DEF ActionRows
  <2> HIDE DEF next
  <2>2. rec \in ActionRows /\ rec.status = old.status /\ rec.sound = person /\ rec.version = next
    BY <1>2, <2>1 DEF ActionRows
  <2> QED BY <2>2 DEF next
<1> HIDE DEF rec
<1>4. /\ actions' \in [Actions -> ActionRows] /\ actions'[a] = rec
      /\ \A c \in Actions : c # a => actions'[c] = actions[c]
  BY <1>1, <1>3 DEF Shaped
<1>5. /\ DOMAIN versions' = Actions /\ \A c \in Actions : c # a => versions'[c] = versions[c]
      /\ old.status = "active" => versions'[a] = Archived(a, old.version, old.script)
  BY <1>1 DEF Shaped
<1>6. Appears(a) \/ Advances(a)
  BY <1>1, <1>3, <1>4, <1>5 DEF Appears, Advances, Stored
<1>7. \A c \in Actions : c # a => Stays(c)
  BY <1>4, <1>5 DEF Stays
<1> QED BY <1>3, <1>4, <1>5, <1>6, <1>7 DEF Lawful

LEMMA PublishIsLawful ==
  ASSUME Shaped, NEW a \in Actions, PublishAction(a)
  PROVE  /\ actions' \in [Actions -> ActionRows] /\ DOMAIN versions' = Actions /\ Lawful
         /\ actions'[a].sound /\ \A c \in Actions : c # a => actions'[c] = actions[c]
<1> DEFINE rec == [actions[a] EXCEPT !.status = "active", !.version = 1, !.sound = TRUE]
<1>1. actions' = [actions EXCEPT ![a] = rec] /\ actions[a].status = "draft" /\ UNCHANGED versions
  BY DEF PublishAction
<1>2. rec \in ActionRows /\ rec.status = "active" /\ rec.sound
  BY DEF Shaped, ActionRows, Statuses
<1> HIDE DEF rec
<1>3. /\ actions' \in [Actions -> ActionRows] /\ actions'[a] = rec
      /\ \A c \in Actions : c # a => actions'[c] = actions[c]
  BY <1>1, <1>2 DEF Shaped
<1>4. Appears(a) /\ \A c \in Actions : c # a => Stays(c)
  BY <1>1, <1>2, <1>3 DEF Appears, Stays
<1> QED BY <1>1, <1>2, <1>3, <1>4 DEF Lawful, Shaped

LEMMA DeleteIsLawful ==
  ASSUME Shaped, NEW a \in Actions, DeleteAction(a)
  PROVE  /\ actions' \in [Actions -> ActionRows] /\ DOMAIN versions' = Actions /\ Lawful
         /\ actions'[a].status = "deleted" /\ \A c \in Actions : c # a => actions'[c] = actions[c]
<1> DEFINE rec == [NoAction EXCEPT !.status = "deleted"]
<1>1. actions' = [actions EXCEPT ![a] = rec] /\ versions' = [versions EXCEPT ![a] = <<>>]
  BY DEF DeleteAction
<1>2. rec \in ActionRows /\ rec.status = "deleted"
  BY DEF NoAction, ActionRows, Statuses, Texts
<1> HIDE DEF rec
<1>3. /\ actions' \in [Actions -> ActionRows] /\ actions'[a] = rec
      /\ \A c \in Actions : c # a => actions'[c] = actions[c]
  BY <1>1, <1>2 DEF Shaped
<1>4. DOMAIN versions' = Actions /\ \A c \in Actions : c # a => versions'[c] = versions[c]
  BY <1>1 DEF Shaped
<1>5. Goes(a) /\ \A c \in Actions : c # a => Stays(c)
  BY <1>1, <1>2, <1>3, <1>4 DEF Goes, Stays
<1> QED BY <1>2, <1>3, <1>4, <1>5 DEF Lawful

LEMMA ReviewIsLawful ==
  ASSUME Shaped, NEW a \in Actions, NEW script \in Texts, SetActionReview(a, script)
  PROVE  /\ actions' \in [Actions -> ActionRows] /\ DOMAIN versions' = Actions /\ Lawful
         /\ \A c \in Actions : actions'[c].status = actions[c].status /\ actions'[c].sound = actions[c].sound
<1> DEFINE rec == [actions[a] EXCEPT !.review = script]
<1>1. /\ actions' = (IF Stored(a) THEN [actions EXCEPT ![a] = rec] ELSE actions) /\ UNCHANGED versions
  BY DEF SetActionReview
<1>2. /\ rec \in ActionRows /\ rec.status = actions[a].status /\ rec.sound = actions[a].sound
      /\ rec.version = actions[a].version /\ rec.script = actions[a].script
  BY DEF Shaped, ActionRows
<1> HIDE DEF rec
<1>3. /\ actions' \in [Actions -> ActionRows] /\ actions'[a] \in {rec, actions[a]}
      /\ \A c \in Actions : c # a => actions'[c] = actions[c]
  BY <1>1, <1>2 DEF Shaped
<1>4. \A c \in Actions : Stays(c)
  BY <1>1, <1>2, <1>3 DEF Stays
<1> QED BY <1>1, <1>2, <1>3, <1>4 DEF Lawful, Shaped

-----------------------------------------------------------------------------
LEMMA CatalogueStarts == CatalogueInit => CatalogueInv
<1> SUFFICES ASSUME CatalogueInit PROVE CatalogueInv
  OBVIOUS
<1>1. NoAction \in ActionRows /\ NoEdit \in EditRows /\ NoJob \in JobRows
  BY DEF NoAction, NoEdit, NoJob, ActionRows, EditRows, JobRows, JobPlaces, Texts, Statuses
<1>2. Shaped
  BY <1>1 DEF CatalogueInit, Shaped
<1>3. Aimed /\ SavesDrafts
  BY DEF CatalogueInit, Aimed, SavesDrafts, NoJob
<1>4. History /\ NothingRunsUnpublished
  BY DEF CatalogueInit, History, NothingRunsUnpublished, NoAction
<1>5. Past
  BY DEF CatalogueInit, Past
<1> QED BY <1>2, <1>3, <1>4, <1>5 DEF CatalogueInv

\* Steps that leave the actions alone.
LEMMA QuietKeeps ==
  ASSUME CatalogueInv, UNCHANGED <<actions, versions, seen, overtaken>>,
         edits' \in [Edits -> EditRows], jobs' \in [Jobs -> JobRows], Aimed', SavesDrafts'
  PROVE  CatalogueInv'
<1>1. Shaped'
  BY DEF CatalogueInv, Shaped
<1>2. History' /\ NothingRunsUnpublished' /\ Past'
  BY DEF CatalogueInv, Past, History, Witnessed, GetVersion, NothingRunsUnpublished
<1> QED BY <1>1, <1>2 DEF CatalogueInv

LEMMA CreateKeeps == CatalogueInv /\ Create => CatalogueInv'
<1> SUFFICES ASSUME CatalogueInv, Create PROVE CatalogueInv'
  OBVIOUS
<1>1. PICK status \in {"draft", "active"}, script \in Scripts :
        CreateAction(status, script, NoScript, TRUE)
  BY DEF Create
<1>2. Observed /\ UNCHANGED <<edits, jobs, overtaken>>
  BY DEF Create
<1>3. /\ actions' \in [Actions -> ActionRows] /\ DOMAIN versions' = Actions /\ Lawful
      /\ \A a \in Actions : actions'[a].status = "active" =>
           actions'[a].sound \/ (actions[a].status = "active" /\ actions'[a].sound = actions[a].sound)
  BY <1>1, CreateIsLawful DEF CatalogueInv, Texts
<1>4. Shaped'
  BY <1>2, <1>3 DEF CatalogueInv, Shaped
<1>5. History' /\ Past'
  BY <1>2, <1>3, <1>4, HistoryKept DEF CatalogueInv
<1>6. Aimed' /\ SavesDrafts' /\ NothingRunsUnpublished'
  BY <1>2, <1>3 DEF CatalogueInv, Aimed, SavesDrafts, NothingRunsUnpublished
<1> QED BY <1>4, <1>5, <1>6 DEF CatalogueInv

\* A request that has read its action.
LEMMA BeginKeeps ==
  ASSUME CatalogueInv, NEW e \in Edits, NEW op \in {"update", "publish", "delete"},
         NEW a \in Actions, NEW script \in Texts, NEW review \in Texts,
         BeginChange(e, op, a, script, review)
  PROVE  CatalogueInv'
<1> DEFINE r == [op |-> op, action |-> a, script |-> script, review |-> review]
<1>1. edits' = [edits EXCEPT ![e] = r] /\ UNCHANGED <<actions, versions, jobs, seen, overtaken>>
  BY DEF BeginChange
<1>2. r \in EditRows /\ r.op # "none" /\ r.action \in Actions
  BY DEF EditRows
<1> HIDE DEF r
<1>3. /\ edits' \in [Edits -> EditRows] /\ jobs' \in [Jobs -> JobRows]
  BY <1>1, <1>2 DEF CatalogueInv, Shaped
<1>4. Aimed' /\ SavesDrafts'
  BY <1>1, <1>2 DEF CatalogueInv, Shaped, Aimed, SavesDrafts
<1> QED BY <1>1, <1>3, <1>4, QuietKeeps

LEMMA ReadKeeps ==
  ASSUME CatalogueInv, NEW e \in Edits,
         \/ ReadForUpdate(e) \/ ReadForPublish(e) \/ RollbackAction(e) \/ ReadForDelete(e)
  PROVE  CatalogueInv'
<1>1. CASE ReadForUpdate(e)
  <2>1. PICK a \in Actions, script \in Scripts : BeginChange(e, "update", a, script, actions[a].review)
    BY <1>1 DEF ReadForUpdate
  <2>2. actions[a].review \in Texts /\ script \in Texts
    BY DEF CatalogueInv, Shaped, ActionRows, Texts
  <2> QED BY <2>1, <2>2, BeginKeeps
<1>2. CASE ReadForPublish(e)
  <2>1. PICK a \in Actions : BeginChange(e, "publish", a, NoScript, NoScript)
    BY <1>2 DEF ReadForPublish
  <2> QED BY <2>1, BeginKeeps DEF Texts
<1>3. CASE RollbackAction(e)
  <2>1. PICK a \in Actions : \E v \in DOMAIN versions[a] : BeginChange(e, "update", a, versions[a][v], NoScript)
    BY <1>3 DEF RollbackAction
  <2>2. PICK v \in DOMAIN versions[a] : BeginChange(e, "update", a, versions[a][v], NoScript)
    BY <2>1
  <2>3. versions[a][v] \in Texts /\ NoScript \in Texts
    BY DEF CatalogueInv, Past, Texts
  <2> QED BY <2>2, <2>3, BeginKeeps
<1>4. CASE ReadForDelete(e)
  <2>1. PICK a \in Actions : BeginChange(e, "delete", a, NoScript, NoScript)
    BY <1>4 DEF ReadForDelete
  <2> QED BY <2>1, BeginKeeps DEF Texts
<1> QED BY <1>1, <1>2, <1>3, <1>4

\* The write finds the action as it is by now.
LEMMA WriteKeeps == ASSUME CatalogueInv, NEW e \in Edits, WriteAction(e) PROVE CatalogueInv'
<1> DEFINE r == edits[e]
           a == r.action
<1>1. /\ r # NoEdit /\ r \in EditRows /\ r.op \in {"update", "publish", "delete"} /\ a \in Actions
      /\ r.script \in Texts /\ r.review \in Texts
  BY DEF WriteAction, CatalogueInv, Shaped, Aimed, EditRows
<1>2. /\ edits' = [edits EXCEPT ![e] = NoEdit] /\ Observed /\ UNCHANGED <<jobs, overtaken>>
      /\ IF Fits(r) THEN Perform(r) ELSE UNCHANGED <<actions, versions>>
  BY DEF WriteAction
<1>3. /\ edits' \in [Edits -> EditRows] /\ jobs' \in [Jobs -> JobRows]
  <2>1. NoEdit \in EditRows
    BY DEF NoEdit, EditRows, Texts
  <2> QED BY <1>2, <2>1 DEF CatalogueInv, Shaped
<1>4. Aimed' /\ SavesDrafts'
  BY <1>2 DEF CatalogueInv, Shaped, Aimed, SavesDrafts
<1>5. /\ actions' \in [Actions -> ActionRows] /\ DOMAIN versions' = Actions /\ Lawful
      /\ NothingRunsUnpublished'
  <2>1. CASE ~Fits(r)
    BY <1>2, <2>1 DEF CatalogueInv, Shaped, Lawful, Stays, NothingRunsUnpublished
  <2>2. CASE Fits(r) /\ r.op = "update"
    <3>1. UpdateAction(a, r.script, r.review, TRUE)
      BY <1>2, <2>2 DEF Perform
    <3>2. /\ actions' \in [Actions -> ActionRows] /\ DOMAIN versions' = Actions /\ Lawful
          /\ actions'[a].sound = TRUE /\ \A c \in Actions : c # a => actions'[c] = actions[c]
      BY <1>1, <3>1, UpdateIsLawful DEF CatalogueInv
    <3> QED BY <1>2, <3>2 DEF CatalogueInv, NothingRunsUnpublished
  <2>3. CASE Fits(r) /\ r.op = "publish"
    <3>1. PublishAction(a)
      BY <1>2, <2>3 DEF Perform
    <3>2. /\ actions' \in [Actions -> ActionRows] /\ DOMAIN versions' = Actions /\ Lawful
          /\ actions'[a].sound /\ \A c \in Actions : c # a => actions'[c] = actions[c]
      BY <1>1, <3>1, PublishIsLawful DEF CatalogueInv
    <3> QED BY <1>2, <3>2 DEF CatalogueInv, NothingRunsUnpublished
  <2>4. CASE Fits(r) /\ r.op = "delete"
    <3>1. DeleteAction(a)
      BY <1>2, <2>4 DEF Perform
    <3>2. /\ actions' \in [Actions -> ActionRows] /\ DOMAIN versions' = Actions /\ Lawful
          /\ actions'[a].status = "deleted" /\ \A c \in Actions : c # a => actions'[c] = actions[c]
      BY <1>1, <3>1, DeleteIsLawful DEF CatalogueInv
    <3> QED BY <1>2, <3>2 DEF CatalogueInv, NothingRunsUnpublished
  <2> QED BY <1>1, <2>1, <2>2, <2>3, <2>4
<1>6. Shaped'
  BY <1>2, <1>3, <1>5 DEF CatalogueInv, Shaped
<1>7. History' /\ Past'
  BY <1>2, <1>5, <1>6, HistoryKept DEF CatalogueInv
<1> QED BY <1>4, <1>5, <1>6, <1>7 DEF CatalogueInv

-----------------------------------------------------------------------------
\* One job moves.
LEMMA JobIsSound ==
  ASSUME CatalogueInv, NEW j \in Jobs, NEW r \in JobRows, jobs' = [jobs EXCEPT ![j] = r],
         r.at \in {"save", "attach"} => r.action \in Actions, r.at = "save" => r.saw = "draft",
         UNCHANGED edits
  PROVE  jobs' \in [Jobs -> JobRows] /\ Aimed' /\ SavesDrafts'
<1>1. jobs' \in [Jobs -> JobRows] /\ jobs'[j] = r /\ \A k \in Jobs : k # j => jobs'[k] = jobs[k]
  BY DEF CatalogueInv, Shaped
<1> QED BY <1>1 DEF CatalogueInv, Aimed, SavesDrafts

LEMMA QuietJobKeeps ==
  ASSUME CatalogueInv, NEW j \in Jobs, NEW r \in JobRows, jobs' = [jobs EXCEPT ![j] = r],
         r.at \in {"save", "attach"} => r.action \in Actions, r.at = "save" => r.saw = "draft",
         UNCHANGED <<actions, versions, edits, seen, overtaken>>
  PROVE  CatalogueInv'
<1>1. jobs' \in [Jobs -> JobRows] /\ Aimed' /\ SavesDrafts'
  BY JobIsSound
<1>2. edits' \in [Edits -> EditRows]
  BY DEF CatalogueInv, Shaped
<1> QED BY <1>1, <1>2, QuietKeeps

\* A job that only goes on to a place where it neither saves nor attaches.
LEMMA JobMovesOn ==
  ASSUME CatalogueInv, NEW j \in Jobs,
         NEW at \in JobPlaces, JobMoves(j, at)
  PROVE  /\ [jobs[j] EXCEPT !.at = at] \in JobRows
         /\ [jobs[j] EXCEPT !.at = at].at = at
         /\ [jobs[j] EXCEPT !.at = at].action = jobs[j].action
         /\ jobs' = [jobs EXCEPT ![j] = [jobs[j] EXCEPT !.at = at]]
<1>1. jobs[j] \in JobRows
  BY DEF CatalogueInv, Shaped
<1>2. jobs' = [jobs EXCEPT ![j] = [jobs[j] EXCEPT !.at = at]]
  BY DEF JobMoves, CatalogueInv, Shaped
<1> QED BY <1>1, <1>2 DEF JobRows, JobPlaces

LEMMA StartJobKeeps == ASSUME CatalogueInv, NEW j \in Jobs, StartJob(j) PROVE CatalogueInv'
<1>1. PICK task \in {"draft", "review", "fix"}, a \in Actions \union {0}, script \in Scripts :
        jobs' = [jobs EXCEPT ![j] = [kind |-> task, at |-> "asking", action |-> a, saw |-> "unused",
                                     script |-> IF task = "draft" THEN NoScript ELSE script]]
  BY DEF StartJob
<1>2. UNCHANGED <<actions, versions, edits, seen, overtaken>>
  BY DEF StartJob
<1> DEFINE r == [kind |-> task, at |-> "asking", action |-> a, saw |-> "unused",
                 script |-> IF task = "draft" THEN NoScript ELSE script]
<1>3. r \in JobRows /\ r.at = "asking" /\ jobs' = [jobs EXCEPT ![j] = r]
  BY <1>1 DEF JobRows, JobPlaces, Texts, Statuses
<1> HIDE DEF r
<1> QED BY <1>2, <1>3, QuietJobKeeps

LEMMA ModelAnswersKeeps == ASSUME CatalogueInv, NEW j \in Jobs, ModelAnswers(j) PROVE CatalogueInv'
<1>1. UNCHANGED <<actions, versions, edits, seen, overtaken>> /\ jobs[j] \in JobRows
  BY DEF ModelAnswers, CatalogueInv, Shaped
<1>2. CASE \E script \in Scripts : jobs' = [jobs EXCEPT ![j].at = "check", ![j].script = script]
  <2>1. PICK script \in Scripts : jobs' = [jobs EXCEPT ![j].at = "check", ![j].script = script]
    BY <1>2
  <2> DEFINE r == [jobs[j] EXCEPT !.at = "check", !.script = script]
  <2>2. r \in JobRows /\ r.at = "check"
    BY <1>1 DEF JobRows, JobPlaces, Texts
  <2>3. jobs' = [jobs EXCEPT ![j] = r]
    BY <2>1 DEF CatalogueInv, Shaped
  <2> HIDE DEF r
  <2> QED BY <1>1, <2>2, <2>3, QuietJobKeeps
<1>3. CASE jobs[j].action # 0 /\ JobMoves(j, "attach")
  <2>1. jobs[j].action \in Actions
    BY <1>1, <1>3 DEF JobRows
  <2> DEFINE r == [jobs[j] EXCEPT !.at = "attach"]
  <2>2. r \in JobRows /\ r.at = "attach" /\ r.action \in Actions /\ jobs' = [jobs EXCEPT ![j] = r]
    BY <1>3, <2>1, JobMovesOn DEF JobPlaces
  <2> HIDE DEF r
  <2> QED BY <1>1, <2>2, QuietJobKeeps
<1>4. ASSUME NEW at \in {"done", "failed"}, JobMoves(j, at) PROVE CatalogueInv'
  <2> DEFINE r == [jobs[j] EXCEPT !.at = at]
  <2>1. r \in JobRows /\ r.at = at /\ jobs' = [jobs EXCEPT ![j] = r]
    <3>1. at \in JobPlaces
      BY DEF JobPlaces
    <3> QED BY <1>4, <3>1, JobMovesOn
  <2> HIDE DEF r
  <2> QED BY <1>1, <2>1, QuietJobKeeps
<1> QED BY <1>2, <1>3, <1>4 DEF ModelAnswers

LEMMA SweepKeeps == ASSUME CatalogueInv, NEW j \in Jobs, Sweep(j) PROVE CatalogueInv'
<1>1. NoJob \in JobRows /\ NoJob.at = "free"
  BY DEF NoJob, JobRows, JobPlaces, Texts, Statuses
<1> QED BY <1>1, QuietJobKeeps DEF Sweep

\* What is taken for a draft was one.
LEMMA CheckDraftKeeps == ASSUME CatalogueInv, NEW j \in Jobs, CheckDraft(j) PROVE CatalogueInv'
<1> DEFINE a == jobs[j].action
           next == IF IsDraft(a) THEN "save" ELSE "failed"
           r == [jobs[j] EXCEPT !.at = next, !.saw = actions[a].status]
<1>1. UNCHANGED <<actions, versions, edits, seen, overtaken>> /\ jobs[j] \in JobRows /\ a # 0
  BY DEF CheckDraft, CatalogueInv, Shaped
<1>2. a \in Actions /\ actions[a].status \in Statuses
  BY <1>1 DEF JobRows, CatalogueInv, Shaped, ActionRows
<1>3. jobs' = [jobs EXCEPT ![j] = r]
  BY DEF CheckDraft, CatalogueInv, Shaped
<1>4. next \in {"save", "failed"} /\ (next = "save" => actions[a].status = "draft")
  BY DEF IsDraft
<1> HIDE DEF next
<1>5. r \in JobRows /\ r.at = next /\ r.saw = actions[a].status /\ r.action = a
  BY <1>1, <1>2, <1>4 DEF JobRows, JobPlaces
<1> HIDE DEF r
<1> QED BY <1>1, <1>2, <1>3, <1>4, <1>5, QuietJobKeeps

LEMMA AttachKeeps == ASSUME CatalogueInv, NEW j \in Jobs, AttachReview(j) PROVE CatalogueInv'
<1> DEFINE r == [jobs[j] EXCEPT !.at = "done"]
<1>1. /\ jobs[j].action \in Actions /\ jobs[j].script \in Texts
      /\ SetActionReview(jobs[j].action, jobs[j].script) /\ UNCHANGED <<edits, seen, overtaken>>
  BY DEF AttachReview, CatalogueInv, Shaped, Aimed, JobRows
<1>2. r \in JobRows /\ r.at = "done" /\ jobs' = [jobs EXCEPT ![j] = r]
  BY JobMovesOn DEF AttachReview, JobPlaces
<1> HIDE DEF r
<1>3. jobs' \in [Jobs -> JobRows] /\ Aimed' /\ SavesDrafts'
  BY <1>1, <1>2, JobIsSound
<1>4. /\ actions' \in [Actions -> ActionRows] /\ DOMAIN versions' = Actions /\ Lawful
      /\ \A c \in Actions : actions'[c].status = actions[c].status /\ actions'[c].sound = actions[c].sound
  BY <1>1, ReviewIsLawful DEF CatalogueInv
<1>5. Shaped'
  BY <1>1, <1>3, <1>4 DEF CatalogueInv, Shaped
<1>6. History' /\ Past'
  BY <1>1, <1>4, <1>5, HistoryKept DEF CatalogueInv
<1>7. NothingRunsUnpublished'
  BY <1>1, <1>4 DEF CatalogueInv, NothingRunsUnpublished
<1> QED BY <1>3, <1>5, <1>6, <1>7 DEF CatalogueInv

\* A job saves a draft of its own, or into one that it saw; when that is active by
\* now, it has been overtaken.
LEMMA SaveKeeps == ASSUME CatalogueInv, NEW j \in Jobs, SaveDraftAction(j) PROVE CatalogueInv'
<1> DEFINE r == jobs[j]
<1>1. /\ r \in JobRows /\ r.script \in Texts /\ Observed /\ UNCHANGED edits
      /\ r.at = "save" => r.action \in Actions /\ r.saw = "draft"
  BY DEF SaveDraftAction, CatalogueInv, Shaped, Aimed, SavesDrafts, JobRows
<1>2. JobMoves(j, "done") \/ JobMoves(j, "failed")
  BY DEF SaveDraftAction
<1>3. jobs' \in [Jobs -> JobRows] /\ Aimed' /\ SavesDrafts'
  <2>1. ASSUME NEW at \in {"done", "failed"}, JobMoves(j, at)
        PROVE  jobs' \in [Jobs -> JobRows] /\ Aimed' /\ SavesDrafts'
    <3> DEFINE q == [jobs[j] EXCEPT !.at = at]
    <3>1. q \in JobRows /\ q.at = at /\ jobs' = [jobs EXCEPT ![j] = q]
      <4>1. at \in JobPlaces
        BY DEF JobPlaces
      <4> QED BY <2>1, <4>1, JobMovesOn
    <3> HIDE DEF q
    <3> QED BY <1>1, <3>1, JobIsSound
  <2> QED BY <1>2, <2>1
<1>4. /\ actions' \in [Actions -> ActionRows] /\ DOMAIN versions' = Actions /\ Lawful
      /\ overtaken' \in BOOLEAN /\ NothingRunsUnpublished'
  <2>1. CASE CreateAction("draft", r.script, r.script, FALSE) /\ UNCHANGED overtaken
    <3>1. /\ actions' \in [Actions -> ActionRows] /\ DOMAIN versions' = Actions /\ Lawful
          /\ \A a \in Actions : actions'[a].status = "active" =>
               actions'[a].sound \/ (actions[a].status = "active" /\ actions'[a].sound = actions[a].sound)
      BY <1>1, <2>1, CreateIsLawful DEF CatalogueInv
    <3> QED BY <2>1, <3>1 DEF CatalogueInv, Shaped, NothingRunsUnpublished
  <2>2. CASE /\ r.at = "save" /\ UpdateAction(r.action, r.script, r.script, FALSE)
             /\ overtaken' = (overtaken \/ (r.saw = "draft" /\ actions[r.action].status = "active"))
    <3>1. /\ actions' \in [Actions -> ActionRows] /\ DOMAIN versions' = Actions /\ Lawful
          /\ actions'[r.action].status = actions[r.action].status
          /\ \A c \in Actions : c # r.action => actions'[c] = actions[c]
      BY <1>1, <2>2, UpdateIsLawful DEF CatalogueInv
    <3>2. overtaken' \in BOOLEAN /\ (overtaken => overtaken')
          /\ (actions[r.action].status = "active" => overtaken')
      BY <1>1, <2>2 DEF CatalogueInv, Shaped
    <3> QED BY <3>1, <3>2 DEF CatalogueInv, NothingRunsUnpublished
  <2>3. CASE UNCHANGED <<actions, versions, overtaken>>
    BY <2>3 DEF CatalogueInv, Shaped, Lawful, Stays, NothingRunsUnpublished
  <2> QED BY <2>1, <2>2, <2>3 DEF SaveDraftAction
<1>5. Shaped'
  BY <1>1, <1>3, <1>4 DEF CatalogueInv, Shaped
<1>6. History' /\ Past'
  BY <1>1, <1>4, <1>5, HistoryKept DEF CatalogueInv
<1> QED BY <1>3, <1>4, <1>5, <1>6 DEF CatalogueInv

LEMMA CatalogueRestartKeeps == CatalogueInv /\ CatalogueRestart => CatalogueInv'
<1> SUFFICES ASSUME CatalogueInv, CatalogueRestart PROVE CatalogueInv'
  OBVIOUS
<1>1. NoEdit \in EditRows /\ NoJob \in JobRows /\ NoJob.at = "free"
  BY DEF NoEdit, NoJob, EditRows, JobRows, JobPlaces, Texts, Statuses
<1>2. edits' \in [Edits -> EditRows] /\ jobs' \in [Jobs -> JobRows] /\ Aimed' /\ SavesDrafts'
  BY <1>1 DEF CatalogueRestart, Aimed, SavesDrafts
<1> QED BY <1>2, QuietKeeps DEF CatalogueRestart

LEMMA CatalogueStep == CatalogueInv /\ [CatalogueNext]_catalogueVars => CatalogueInv'
<1> SUFFICES ASSUME CatalogueInv, [CatalogueNext]_catalogueVars PROVE CatalogueInv'
  OBVIOUS
<1>1. CASE UNCHANGED catalogueVars
  <2>1. UNCHANGED <<actions, versions, edits, jobs, seen, overtaken>>
    BY <1>1 DEF catalogueVars
  <2>2. edits' \in [Edits -> EditRows] /\ jobs' \in [Jobs -> JobRows] /\ Aimed' /\ SavesDrafts'
    BY <2>1 DEF CatalogueInv, Shaped, Aimed, SavesDrafts
  <2> QED BY <2>1, <2>2, QuietKeeps
<1>2. CASE Create \/ CatalogueRestart
  BY <1>2, CreateKeeps, CatalogueRestartKeeps
<1>3. ASSUME NEW e \in Edits, \/ ReadForUpdate(e) \/ ReadForPublish(e) \/ RollbackAction(e)
                              \/ ReadForDelete(e) \/ WriteAction(e)
      PROVE  CatalogueInv'
  BY <1>3, ReadKeeps, WriteKeeps
<1>4. ASSUME NEW j \in Jobs, \/ StartJob(j) \/ ModelAnswers(j) \/ AttachReview(j)
                             \/ CheckDraft(j) \/ SaveDraftAction(j) \/ Sweep(j)
      PROVE  CatalogueInv'
  BY <1>4, StartJobKeeps, ModelAnswersKeeps, AttachKeeps, CheckDraftKeeps, SaveKeeps, SweepKeeps
<1> QED BY <1>1, <1>2, <1>3, <1>4 DEF CatalogueNext

\* The inductive invariant of the catalogue (actions.go, ai_draft.go).
THEOREM CatalogueInvariance == CatalogueSpec => []CatalogueInv
BY CatalogueStarts, CatalogueStep, PTL DEF CatalogueSpec

\* What could once be run under a version number is what the number still gives,
\* for any number of actions, requests and jobs (UpdateAction, actions.go:169).
THEOREM HistoryIsFaithful == CatalogueSpec => []HistoryFaithful
<1>1. CatalogueInv => HistoryFaithful
  BY DEF CatalogueInv, History, Witnessed, HistoryFaithful
<1> QED BY <1>1, CatalogueInvariance, PTL

\* What a model wrote is not run before a person publishes it, unless the draft was
\* published between the job's check and its save (SaveDraftAction).
THEOREM NothingUnpublishedRuns == CatalogueSpec => []NothingRunsUnpublished
<1>1. CatalogueInv => NothingRunsUnpublished
  BY DEF CatalogueInv
<1> QED BY <1>1, CatalogueInvariance, PTL

-----------------------------------------------------------------------------
\* An action holds contents, and so does a request or a job that will write one.
Sane(a) ==
  /\ Stored(a) => actions[a].script \in Scripts
  /\ versions[a] \in [DOMAIN versions[a] -> Scripts] /\ DOMAIN versions[a] \subseteq Versions
Scripted ==
  /\ \A e \in Edits : edits[e].op = "update" => edits[e].script \in Scripts
  /\ \A j \in Jobs : jobs[j].at \in {"check", "save"} => jobs[j].script \in Scripts
\* A version is made by a request or a job, each of which makes one at most: the
\* numbers stay within the requests and jobs that are over.
EditsOpen == {e \in Edits : edits[e] # NoEdit}
JobsOpen == {j \in Jobs : jobs[j].at \in {"asking", "check", "save"}}
Load == Cardinality(EditsOpen) + Cardinality(JobsOpen)
Paid ==
  /\ changes \in 0..MaxChanges /\ Load \in Nat /\ Load <= changes
  /\ \A a \in Actions : 1 <= actions[a].version /\ actions[a].version + Load <= changes + 1
CatalogueMore ==
  /\ CatalogueInv /\ (\A a \in Actions : Sane(a)) /\ Scripted /\ Paid
  /\ seen \subseteq Actions \X Versions \X Scripts

LEMMA Sizes ==
  ASSUME NEW A \in SUBSET Edits, NEW B \in SUBSET Jobs, NEW C \in SUBSET Edits, NEW D \in SUBSET Jobs
  PROVE  /\ Cardinality(C) + Cardinality(D) \in Nat
         /\ C \subseteq A /\ D \subseteq B => Cardinality(C) + Cardinality(D) <= Cardinality(A) + Cardinality(B)
         /\ \A e \in Edits : C \subseteq A \cup {e} /\ D \subseteq B
              => Cardinality(C) + Cardinality(D) <= Cardinality(A) + Cardinality(B) + 1
         /\ \A j \in Jobs : C \subseteq A /\ D \subseteq B \cup {j}
              => Cardinality(C) + Cardinality(D) <= Cardinality(A) + Cardinality(B) + 1
         /\ \A e \in A : C \subseteq A \ {e} /\ D \subseteq B
              => Cardinality(C) + Cardinality(D) + 1 <= Cardinality(A) + Cardinality(B)
         /\ \A j \in B : C \subseteq A /\ D \subseteq B \ {j}
              => Cardinality(C) + Cardinality(D) + 1 <= Cardinality(A) + Cardinality(B)
<1>0. IsFiniteSet(Edits) /\ IsFiniteSet(Jobs)
  BY CatalogueAssumption
<1>1. IsFiniteSet(A) /\ IsFiniteSet(B) /\ IsFiniteSet(C) /\ IsFiniteSet(D)
  BY <1>0, FS_Subset
<1>2. Cardinality(A) \in Nat /\ Cardinality(B) \in Nat /\ Cardinality(C) \in Nat /\ Cardinality(D) \in Nat
  BY <1>1, FS_CardinalityType
<1>3. ASSUME NEW S, IsFiniteSet(S), NEW T, T \subseteq S
      PROVE  Cardinality(T) <= Cardinality(S)
  BY <1>3, FS_Subset
<1>4. ASSUME NEW S, IsFiniteSet(S), NEW x, NEW T, T \subseteq S \cup {x}
      PROVE  Cardinality(T) <= Cardinality(S) + 1
  <2>1. IsFiniteSet(S \cup {x}) /\ Cardinality(S \cup {x}) <= Cardinality(S) + 1
    <3>1. IsFiniteSet(S \cup {x}) /\ Cardinality(S) \in Nat
          /\ Cardinality(S \cup {x}) = (IF x \in S THEN Cardinality(S) ELSE Cardinality(S) + 1)
      BY <1>4, FS_AddElement, FS_CardinalityType
    <3> QED BY <3>1
  <2>2. IsFiniteSet(T)
    BY <1>4, <2>1, FS_Subset
  <2>3. Cardinality(T) <= Cardinality(S \cup {x})
    BY <1>3, <1>4, <2>1
  <2>4. /\ Cardinality(T) \in Nat /\ Cardinality(S) \in Nat /\ Cardinality(S \cup {x}) \in Nat
    BY <1>4, <2>1, <2>2, FS_CardinalityType
  <2> QED BY <2>1, <2>3, <2>4
<1>5. ASSUME NEW S, IsFiniteSet(S), NEW x \in S, NEW T, T \subseteq S \ {x}
      PROVE  Cardinality(T) + 1 <= Cardinality(S)
  <2>1. IsFiniteSet(S \ {x}) /\ Cardinality(S \ {x}) = Cardinality(S) - 1
    BY <1>5, FS_RemoveElement
  <2>2. Cardinality(T) <= Cardinality(S \ {x}) /\ IsFiniteSet(T)
    BY <1>3, <1>5, <2>1, FS_Subset
  <2>3. Cardinality(T) \in Nat /\ Cardinality(S) \in Nat
    BY <1>5, <2>2, FS_CardinalityType
  <2> QED BY <2>1, <2>2, <2>3
<1>6. C \subseteq A => Cardinality(C) <= Cardinality(A)
  BY <1>1, <1>3
<1>7. D \subseteq B => Cardinality(D) <= Cardinality(B)
  BY <1>1, <1>3
<1>8. \A e \in Edits : C \subseteq A \cup {e} => Cardinality(C) <= Cardinality(A) + 1
  BY <1>1, <1>4
<1>9. \A j \in Jobs : D \subseteq B \cup {j} => Cardinality(D) <= Cardinality(B) + 1
  BY <1>1, <1>4
<1>10. \A e \in A : C \subseteq A \ {e} => Cardinality(C) + 1 <= Cardinality(A)
  BY <1>1, <1>5
<1>11. \A j \in B : D \subseteq B \ {j} => Cardinality(D) + 1 <= Cardinality(B)
  BY <1>1, <1>5
<1> QED BY <1>2, <1>6, <1>7, <1>8, <1>9, <1>10, <1>11

\* What a step costs.
LEMMA Pays ==
  ASSUME Paid, actions \in [Actions -> ActionRows], Load' \in Nat,
         \/ /\ changes < MaxChanges /\ changes' = changes + 1 /\ Load' <= Load + 1
            /\ \A a \in Actions : actions'[a].version \in {actions[a].version, 1}
         \/ /\ changes' = changes /\ Load' <= Load
            /\ \A a \in Actions : actions'[a].version \in {actions[a].version, 1}
         \/ /\ changes' = changes /\ Load' + 1 <= Load
            /\ \A a \in Actions : actions'[a].version \in {actions[a].version, 1, actions[a].version + 1}
  PROVE  Paid'
<1>0. changes \in Nat /\ changes <= MaxChanges /\ Load \in Nat /\ Load <= changes /\ MaxChanges \in Nat
  BY CatalogueAssumption DEF Paid
<1>3. PICK c \in Nat, l \in Nat, k \in Nat : c = changes /\ l = Load /\ k = Load'
  BY <1>0
<1>4. \/ changes' = c + 1 /\ c < MaxChanges /\ k <= l + 1
      \/ changes' = c /\ k <= l
      \/ changes' = c /\ k + 1 <= l
  BY <1>3
<1>5. PICK n : n = changes'
  OBVIOUS
<1>6. c <= MaxChanges /\ l <= c /\ MaxChanges \in Nat
  BY <1>0, <1>3
<1>7. /\ n \in Nat /\ n <= MaxChanges /\ k <= n
      /\ (n = c + 1 /\ k <= l + 1) \/ (n = c /\ k <= l) \/ (n = c /\ k + 1 <= l)
  BY <1>4, <1>5, <1>6
<1>1. changes' \in 0..MaxChanges /\ Load' <= changes'
  BY <1>3, <1>5, <1>6, <1>7
<1>2. ASSUME NEW a \in Actions PROVE 1 <= actions'[a].version /\ actions'[a].version + Load' <= changes' + 1
  <2>1. PICK v \in Nat : v = actions[a].version
    BY DEF ActionRows
  <2>2. 1 <= v /\ v + Load <= changes + 1
    BY <2>1 DEF Paid
  <2>3. \/ changes' = c + 1 /\ k <= l + 1 /\ actions'[a].version \in {v, 1}
        \/ changes' = c /\ k <= l /\ actions'[a].version \in {v, 1}
        \/ changes' = c /\ k + 1 <= l /\ actions'[a].version \in {v, 1, v + 1}
    BY <1>3, <2>1
  <2>4. PICK w \in Nat : w = actions'[a].version
    BY <2>1, <2>3
  <2>5. \/ n = c + 1 /\ k <= l + 1 /\ w \in {v, 1}
        \/ n = c /\ k <= l /\ w \in {v, 1}
        \/ n = c /\ k + 1 <= l /\ w \in {v, 1, v + 1}
    BY <1>5, <2>3, <2>4
  <2>6. 1 <= v /\ v + l <= c + 1
    BY <1>3, <2>2
  <2>7. 1 <= w /\ w + k <= n + 1
    BY <1>6, <2>1, <2>4, <2>5, <2>6
  <2> QED BY <1>3, <1>5, <2>4, <2>7
<1> QED BY <1>1, <1>2 DEF Paid

LEMMA NothingArchived == <<>> \in [DOMAIN <<>> -> Scripts] /\ DOMAIN <<>> \subseteq Versions
  OBVIOUS

\* What the statements of the database write.
LEMMA StatementTypes ==
  ASSUME CatalogueMore, NEW a \in Actions, NEW script, NEW review, NEW person
  PROVE  /\ UpdateAction(a, script, review, person) /\ script \in Scripts =>
              \A c \in Actions : Sane(c)' /\ actions'[c].version \in {actions[c].version, actions[c].version + 1}
         /\ PublishAction(a) \/ DeleteAction(a) \/ SetActionReview(a, script) =>
              \A c \in Actions : Sane(c)' /\ actions'[c].version \in {actions[c].version, 1}
<1>0. /\ actions \in [Actions -> ActionRows] /\ DOMAIN versions = Actions
      /\ \A c \in Actions : Sane(c) /\ actions[c] \in ActionRows /\ actions[c].version \in Versions
      /\ Actions = DOMAIN actions
  <2>1. /\ actions \in [Actions -> ActionRows] /\ DOMAIN versions = Actions /\ \A c \in Actions : Sane(c)
    BY DEF CatalogueMore, CatalogueInv, Shaped
  <2>2. ASSUME NEW c \in Actions PROVE actions[c].version \in Versions
    <3>1. /\ actions[c].version \in Nat /\ 1 <= actions[c].version /\ changes \in 0..MaxChanges
          /\ actions[c].version + Load <= changes + 1 /\ Load \in Nat /\ MaxChanges \in Nat
      BY <2>1, CatalogueAssumption DEF CatalogueMore, Paid, ActionRows
    <3> QED BY <3>1 DEF Versions
  <2> QED BY <2>1, <2>2
<1>1. ASSUME UpdateAction(a, script, review, person), script \in Scripts
      PROVE  \A c \in Actions : Sane(c)' /\ actions'[c].version \in {actions[c].version, actions[c].version + 1}
  <2>1. PICK rec : /\ rec = [actions[a] EXCEPT !.script = script, !.review = review, !.sound = person,
                       !.version = IF actions[a].status = "active" THEN actions[a].version + 1 ELSE actions[a].version]
    OBVIOUS
  <2>2. /\ rec.script = script /\ rec.version \in {actions[a].version, actions[a].version + 1}
        /\ actions' = [actions EXCEPT ![a] = rec] /\ Stored(a)
    BY <1>0, <1>1, <2>1 DEF UpdateAction, ActionRows
  <2>3. versions' = versions \/ versions' = [versions EXCEPT ![a] = Archived(a, actions[a].version, actions[a].script)]
    BY <1>1 DEF UpdateAction, SupersededBy
  <2>4. actions[a].script \in Scripts
    BY <1>0, <2>2 DEF Sane
  <2>5. PICK past : past = Archived(a, actions[a].version, actions[a].script)
    OBVIOUS
  <2>6. past \in [DOMAIN past -> Scripts] /\ DOMAIN past \subseteq Versions
    BY <1>0, <2>4, <2>5 DEF Sane, Archived
  <2>7. \A c \in Actions : c # a => actions'[c] = actions[c] /\ versions'[c] = versions[c]
    BY <1>0, <2>2, <2>3
  <2>8. actions'[a] = rec /\ (versions'[a] = versions[a] \/ versions'[a] = past)
    BY <1>0, <2>2, <2>3, <2>5
  <2>9. Sane(a)'
    <3>1. CASE versions'[a] = versions[a]
      BY <1>0, <1>1, <2>2, <2>8, <3>1 DEF Sane, Stored
    <3>2. CASE versions'[a] = past
      BY <1>0, <1>1, <2>2, <2>6, <2>8, <3>2 DEF Sane, Stored
    <3> QED BY <2>8, <3>1, <3>2
  <2>10. \A c \in Actions : c # a => Sane(c)'
    BY <1>0, <2>7 DEF Sane, Stored
  <2> QED BY <2>2, <2>7, <2>8, <2>9, <2>10
<1>2. ASSUME PublishAction(a) \/ SetActionReview(a, script)
      PROVE  \A c \in Actions : Sane(c)' /\ actions'[c].version \in {actions[c].version, 1}
  <2>1. versions' = versions
    BY <1>2 DEF PublishAction, SetActionReview
  <2>2. \A c \in Actions : /\ actions'[c].script = actions[c].script /\ (Stored(c)' => Stored(c))
                           /\ actions'[c].version \in {actions[c].version, 1}
    <3>1. CASE PublishAction(a)
      BY <1>0, <3>1 DEF PublishAction, Stored, ActionRows
    <3>2. CASE SetActionReview(a, script)
      <4>1. actions' = actions \/ actions' = [actions EXCEPT ![a] = [actions[a] EXCEPT !.review = script]]
        BY <3>2 DEF SetActionReview
      <4>2. \A c \in Actions : /\ actions'[c].script = actions[c].script /\ actions'[c].status = actions[c].status
                               /\ actions'[c].version = actions[c].version
        BY <1>0, <4>1 DEF ActionRows
      <4> QED BY <4>2 DEF Stored
    <3> QED BY <1>2, <3>1, <3>2
  <2> QED BY <1>0, <2>1, <2>2 DEF Sane
<1>3. ASSUME DeleteAction(a)
      PROVE  \A c \in Actions : Sane(c)' /\ actions'[c].version \in {actions[c].version, 1}
  <2>1. /\ \A c \in Actions : c # a => actions'[c] = actions[c] /\ versions'[c] = versions[c]
        /\ actions'[a] = [NoAction EXCEPT !.status = "deleted"] /\ versions'[a] = <<>>
    BY <1>0, <1>3 DEF DeleteAction
  <2>2. actions'[a].status = "deleted" /\ actions'[a].version = 1
    BY <2>1 DEF NoAction
  <2>3. \A c \in Actions : c # a => Sane(c)'
    BY <1>0, <2>1 DEF Sane, Stored
  <2>4. Sane(a)'
    BY <2>1, <2>2, NothingArchived DEF Sane, Stored
  <2> QED BY <2>1, <2>2, <2>3, <2>4
<1> QED BY <1>1, <1>2, <1>3

LEMMA CreateTypes ==
  ASSUME CatalogueMore, NEW status, NEW script \in Scripts, NEW review, NEW person,
         CreateAction(status, script, review, person)
  PROVE  \A c \in Actions : Sane(c)' /\ actions'[c].version \in {actions[c].version, 1}
<1>0. actions \in [Actions -> ActionRows] /\ \A c \in Actions : Sane(c)
  BY DEF CatalogueMore, CatalogueInv, Shaped
<1>1. PICK a \in Actions : actions' = [actions EXCEPT ![a] =
        [status |-> status, version |-> 1, script |-> script, review |-> review, sound |-> person]]
  BY DEF CreateAction
<1>2. versions' = versions
  BY DEF CreateAction
<1>3. /\ actions'[a].script = script /\ actions'[a].version = 1
      /\ \A c \in Actions : c # a => actions'[c] = actions[c]
  BY <1>0, <1>1
<1> QED BY <1>0, <1>2, <1>3 DEF Sane, Stored

LEMMA LoadCompares ==
  ASSUME CatalogueMore
  PROVE  /\ Load' \in Nat
         /\ EditsOpen' \subseteq EditsOpen /\ JobsOpen' \subseteq JobsOpen => Load' <= Load
         /\ \A e \in Edits : EditsOpen' \subseteq EditsOpen \cup {e} /\ JobsOpen' \subseteq JobsOpen => Load' <= Load + 1
         /\ \A j \in Jobs : EditsOpen' \subseteq EditsOpen /\ JobsOpen' \subseteq JobsOpen \cup {j} => Load' <= Load + 1
         /\ \A e \in EditsOpen : EditsOpen' \subseteq EditsOpen \ {e} /\ JobsOpen' \subseteq JobsOpen => Load' + 1 <= Load
         /\ \A j \in JobsOpen : EditsOpen' \subseteq EditsOpen /\ JobsOpen' \subseteq JobsOpen \ {j} => Load' + 1 <= Load
<1>1. PICK A \in SUBSET Edits, B \in SUBSET Jobs, C \in SUBSET Edits, D \in SUBSET Jobs :
        A = EditsOpen /\ B = JobsOpen /\ C = EditsOpen' /\ D = JobsOpen'
  BY DEF EditsOpen, JobsOpen
<1>2. Load = Cardinality(A) + Cardinality(B) /\ Load' = Cardinality(C) + Cardinality(D)
  BY <1>1 DEF Load
<1>3. /\ Cardinality(C) + Cardinality(D) \in Nat
      /\ C \subseteq A /\ D \subseteq B => Cardinality(C) + Cardinality(D) <= Cardinality(A) + Cardinality(B)
      /\ \A e \in Edits : C \subseteq A \cup {e} /\ D \subseteq B
           => Cardinality(C) + Cardinality(D) <= Cardinality(A) + Cardinality(B) + 1
      /\ \A j \in Jobs : C \subseteq A /\ D \subseteq B \cup {j}
           => Cardinality(C) + Cardinality(D) <= Cardinality(A) + Cardinality(B) + 1
      /\ \A e \in A : C \subseteq A \ {e} /\ D \subseteq B
           => Cardinality(C) + Cardinality(D) + 1 <= Cardinality(A) + Cardinality(B)
      /\ \A j \in B : C \subseteq A /\ D \subseteq B \ {j}
           => Cardinality(C) + Cardinality(D) + 1 <= Cardinality(A) + Cardinality(B)
  BY Sizes
<1> QED BY <1>1, <1>2, <1>3

\* A step whose cost is paid keeps the types.
LEMMA MoreFollows ==
  ASSUME CatalogueMore, CatalogueInv', Scripted', \A a \in Actions : Sane(a)', Paid',
         seen' = seen \/ Observed
  PROVE  CatalogueMore'
<1>1. ASSUME NEW a \in Actions, actions'[a].status = "active"
      PROVE  actions'[a].script \in Scripts /\ actions'[a].version \in Versions
  <2>1. actions'[a].script \in Scripts
    BY <1>1 DEF Sane, Stored
  <2>2. /\ actions'[a].version \in Nat /\ 1 <= actions'[a].version /\ changes' \in 0..MaxChanges
        /\ actions'[a].version + Load' <= changes' + 1 /\ Load' \in Nat /\ MaxChanges \in Nat
    BY CatalogueAssumption DEF CatalogueInv, Shaped, ActionRows, Paid
  <2> QED BY <2>1, <2>2 DEF Versions
<1>2. CASE seen' = seen
  BY <1>2 DEF CatalogueMore
<1>3. CASE Observed
  <2>1. \A x \in seen' : x \in seen \/ \E a \in Actions :
          actions'[a].status = "active" /\ x = <<a, actions'[a].version, actions'[a].script>>
    BY <1>3 DEF Observed
  <2>2. seen' \subseteq Actions \X Versions \X Scripts
    BY <1>1, <2>1 DEF CatalogueMore
  <2> QED BY <2>2 DEF CatalogueMore
<1> QED BY <1>2, <1>3

\* A request is recorded, and has not written yet.
LEMMA ReadTypes ==
  ASSUME CatalogueMore, CatalogueInv', NEW e \in Edits,
         ReadForUpdate(e) \/ ReadForPublish(e) \/ RollbackAction(e) \/ ReadForDelete(e)
  PROVE  CatalogueMore'
<1>1. PICK op, a, script, review : BeginChange(e, op, a, script, review) /\ (op = "update" => script \in Scripts)
  <2>1. CASE RollbackAction(e)
    BY <2>1 DEF RollbackAction, CatalogueMore, Sane
  <2> QED BY <2>1 DEF ReadForUpdate, ReadForPublish, ReadForDelete
<1>2. /\ edits' = [edits EXCEPT ![e] = [op |-> op, action |-> a, script |-> script, review |-> review]]
      /\ changes < MaxChanges /\ changes' = changes + 1 /\ UNCHANGED <<actions, versions, jobs, seen>>
  BY <1>1 DEF BeginChange, Counted
<1>3. /\ edits \in [Edits -> EditRows] /\ edits'[e].op = op /\ edits'[e].script = script
      /\ \A f \in Edits : f # e => edits'[f] = edits[f]
  BY <1>2 DEF CatalogueMore, CatalogueInv, Shaped
<1>4. Scripted'
  BY <1>1, <1>2, <1>3 DEF CatalogueMore, Scripted
<1>5. EditsOpen' \subseteq EditsOpen \cup {e} /\ JobsOpen' \subseteq JobsOpen
  BY <1>2, <1>3 DEF EditsOpen, JobsOpen
<1>6. Load' \in Nat /\ Load' <= Load + 1
  BY <1>5, LoadCompares
<1>7. Paid'
  BY <1>2, <1>6, Pays DEF CatalogueMore, CatalogueInv, Shaped
<1>8. \A c \in Actions : Sane(c)'
  BY <1>2 DEF CatalogueMore, Sane, Stored
<1> QED BY <1>2, <1>4, <1>7, <1>8, MoreFollows

LEMMA WriteTypes ==
  ASSUME CatalogueMore, CatalogueInv', NEW e \in Edits, WriteAction(e)
  PROVE  CatalogueMore'
<1>1. PICK r \in EditRows : r = edits[e]
  BY DEF CatalogueMore, CatalogueInv, Shaped
<1>2. /\ r # NoEdit /\ r.op \in {"update", "publish", "delete"} /\ r.action \in Actions
      /\ r.op = "update" => r.script \in Scripts
  BY <1>1 DEF WriteAction, CatalogueMore, CatalogueInv, Aimed, EditRows, Scripted
<1>3. /\ edits' = [edits EXCEPT ![e] = NoEdit] /\ Observed /\ UNCHANGED <<jobs, changes>>
      /\ IF Fits(r) THEN Perform(r) ELSE UNCHANGED <<actions, versions>>
  BY <1>1 DEF WriteAction
<1>4. /\ edits'[e] = NoEdit /\ NoEdit.op = "none" /\ \A f \in Edits : f # e => edits'[f] = edits[f]
  BY <1>3 DEF CatalogueMore, CatalogueInv, Shaped, NoEdit
<1>5. Scripted'
  BY <1>3, <1>4 DEF CatalogueMore, Scripted
<1>6. e \in EditsOpen /\ EditsOpen' \subseteq EditsOpen \ {e} /\ JobsOpen' \subseteq JobsOpen
  BY <1>1, <1>2, <1>3, <1>4 DEF EditsOpen, JobsOpen
<1>7. Load' \in Nat /\ Load' + 1 <= Load
  BY <1>6, LoadCompares
<1>8. \A c \in Actions : Sane(c)' /\ actions'[c].version \in {actions[c].version, 1, actions[c].version + 1}
  <2>1. CASE UNCHANGED <<actions, versions>>
    BY <2>1 DEF CatalogueMore, Sane, Stored
  <2>2. CASE Fits(r) /\ r.op = "update"
    <3>1. UpdateAction(r.action, r.script, r.review, TRUE)
      BY <1>3, <2>2 DEF Perform
    <3> QED BY <1>2, <2>2, <3>1, StatementTypes
  <2>3. CASE Fits(r) /\ r.op = "publish"
    <3>1. PublishAction(r.action)
      BY <1>3, <2>3 DEF Perform
    <3> QED BY <1>2, <3>1, StatementTypes
  <2>4. CASE Fits(r) /\ r.op = "delete"
    <3>1. DeleteAction(r.action)
      BY <1>3, <2>4 DEF Perform
    <3> QED BY <1>2, <3>1, StatementTypes
  <2> QED BY <1>2, <1>3, <2>1, <2>2, <2>3, <2>4
<1>9. Paid'
  BY <1>3, <1>7, <1>8, Pays DEF CatalogueMore, CatalogueInv, Shaped
<1> QED BY <1>3, <1>5, <1>8, <1>9, MoreFollows

\* A job moves: it opens when it starts, and is open until it has saved.
LEMMA JobTypes ==
  ASSUME CatalogueMore, NEW j \in Jobs, UNCHANGED edits, NEW r, jobs' = [jobs EXCEPT ![j] = r],
         r.at \in {"check", "save"} => r.script \in Scripts
  PROVE  /\ Scripted' /\ EditsOpen' \subseteq EditsOpen
         /\ JobsOpen' \subseteq JobsOpen \cup {j}
         /\ j \in JobsOpen \/ r.at \notin {"asking", "check", "save"} => JobsOpen' \subseteq JobsOpen
         /\ r.at \notin {"asking", "check", "save"} => JobsOpen' \subseteq JobsOpen \ {j}
<1>1. jobs'[j] = r /\ \A k \in Jobs : k # j => jobs'[k] = jobs[k]
  BY DEF CatalogueMore, CatalogueInv, Shaped
<1>2. Scripted'
  BY <1>1 DEF CatalogueMore, Scripted
<1> QED BY <1>1, <1>2 DEF EditsOpen, JobsOpen

LEMMA CreateStepTypes == ASSUME CatalogueMore, CatalogueInv', Create PROVE CatalogueMore'
<1>1. PICK status \in {"draft", "active"}, script \in Scripts :
        CreateAction(status, script, NoScript, TRUE)
  BY DEF Create
<1>2. /\ Observed /\ UNCHANGED <<edits, jobs>> /\ changes < MaxChanges /\ changes' = changes + 1
  BY DEF Create, Counted
<1>3. \A c \in Actions : Sane(c)' /\ actions'[c].version \in {actions[c].version, 1}
  BY <1>1, CreateTypes
<1>4. Scripted' /\ EditsOpen' = EditsOpen /\ JobsOpen' = JobsOpen /\ Load' = Load
  BY <1>2 DEF CatalogueMore, Scripted, EditsOpen, JobsOpen, Load
<1>5. Load' \in Nat /\ Load' <= Load + 1
  <2>1. Load \in Nat
    BY DEF CatalogueMore, Paid
  <2> QED BY <1>4, <2>1
<1>6. Paid'
  BY <1>2, <1>3, <1>5, Pays DEF CatalogueMore, CatalogueInv, Shaped
<1> QED BY <1>2, <1>3, <1>4, <1>6, MoreFollows

\* A job that writes nothing.
LEMMA QuietJobTypes ==
  ASSUME CatalogueMore, CatalogueInv', NEW j \in Jobs, NEW r, jobs' = [jobs EXCEPT ![j] = r],
         UNCHANGED <<actions, versions, edits, seen>>,
         r.at \in {"check", "save"} => r.script \in Scripts,
         \/ changes < MaxChanges /\ changes' = changes + 1
         \/ changes' = changes /\ (j \in JobsOpen \/ r.at \notin {"asking", "check", "save"})
  PROVE  CatalogueMore'
<1>1. /\ Scripted' /\ EditsOpen' \subseteq EditsOpen
      /\ JobsOpen' \subseteq JobsOpen \cup {j}
      /\ j \in JobsOpen \/ r.at \notin {"asking", "check", "save"} => JobsOpen' \subseteq JobsOpen
  BY JobTypes
<1>2. /\ Load' \in Nat /\ Load' <= Load + 1
      /\ j \in JobsOpen \/ r.at \notin {"asking", "check", "save"} => Load' <= Load
  BY <1>1, LoadCompares
<1>3. Paid'
  BY <1>2, Pays DEF CatalogueMore, CatalogueInv, Shaped
<1>4. \A c \in Actions : Sane(c)'
  BY DEF CatalogueMore, Sane, Stored
<1> QED BY <1>1, <1>3, <1>4, MoreFollows

LEMMA QuietJobsType ==
  ASSUME CatalogueMore, CatalogueInv', NEW j \in Jobs,
         StartJob(j) \/ ModelAnswers(j) \/ CheckDraft(j) \/ Sweep(j)
  PROVE  CatalogueMore'
<1>1. jobs[j] \in JobRows /\ jobs \in [Jobs -> JobRows]
  BY DEF CatalogueMore, CatalogueInv, Shaped
<1>2. CASE StartJob(j)
  <2>1. PICK r : jobs' = [jobs EXCEPT ![j] = r] /\ r.at = "asking"
    <3>1. PICK task \in {"draft", "review", "fix"}, a \in Actions \union {0}, script \in Scripts :
            jobs' = [jobs EXCEPT ![j] = [kind |-> task, at |-> "asking", action |-> a, saw |-> "unused",
                                         script |-> IF task = "draft" THEN NoScript ELSE script]]
      BY <1>2 DEF StartJob
    <3>2. PICK r : r = [kind |-> task, at |-> "asking", action |-> a, saw |-> "unused",
                        script |-> IF task = "draft" THEN NoScript ELSE script]
      OBVIOUS
    <3>3. r.at = "asking"
      BY <3>2
    <3>4. jobs' = [jobs EXCEPT ![j] = r]
      BY <3>1, <3>2
    <3> QED BY <3>3, <3>4
  <2>2. changes < MaxChanges /\ changes' = changes + 1 /\ UNCHANGED <<actions, versions, edits, seen>>
    BY <1>2 DEF StartJob, Counted
  <2> QED BY <2>1, <2>2, QuietJobTypes
<1>3. CASE ModelAnswers(j)
  <2>1. /\ j \in JobsOpen /\ changes' = changes /\ UNCHANGED <<actions, versions, edits, seen>>
    BY <1>3 DEF ModelAnswers, JobsOpen
  <2>2. PICK r : jobs' = [jobs EXCEPT ![j] = r] /\ (r.at \in {"check", "save"} => r.script \in Scripts)
    <3>1. CASE \E script \in Scripts : jobs' = [jobs EXCEPT ![j].at = "check", ![j].script = script]
      <4>1. PICK script \in Scripts : jobs' = [jobs EXCEPT ![j].at = "check", ![j].script = script]
        BY <3>1
      <4>2. PICK r : r = [jobs[j] EXCEPT !.at = "check", !.script = script]
        OBVIOUS
      <4>3. r.script = script /\ jobs' = [jobs EXCEPT ![j] = r]
        BY <1>1, <4>1, <4>2 DEF JobRows
      <4> QED BY <4>3
    <3>2. ASSUME NEW at \in {"attach", "done", "failed"}, JobMoves(j, at)
          PROVE  \E r : jobs' = [jobs EXCEPT ![j] = r] /\ (r.at \in {"check", "save"} => r.script \in Scripts)
      <4>1. PICK r : r = [jobs[j] EXCEPT !.at = at]
        OBVIOUS
      <4>2. r.at = at /\ jobs' = [jobs EXCEPT ![j] = r]
        BY <1>1, <3>2, <4>1 DEF JobMoves, JobRows
      <4> QED BY <4>2
    <3> QED BY <1>3, <3>1, <3>2 DEF ModelAnswers
  <2> QED BY <2>1, <2>2, QuietJobTypes
<1>4. CASE CheckDraft(j)
  <2>1. /\ jobs[j].at = "check" /\ jobs[j].script \in Scripts /\ j \in JobsOpen
        /\ changes' = changes /\ UNCHANGED <<actions, versions, edits, seen>>
    BY <1>4 DEF CheckDraft, JobsOpen, CatalogueMore, Scripted
  <2>2. PICK at, saw, r : /\ r = [jobs[j] EXCEPT !.at = at, !.saw = saw]
                          /\ jobs' = [jobs EXCEPT ![j].at = at, ![j].saw = saw]
    BY <1>4 DEF CheckDraft
  <2>3. jobs' = [jobs EXCEPT ![j] = r] /\ r.script \in Scripts
    BY <1>1, <2>1, <2>2 DEF JobRows
  <2> QED BY <2>1, <2>3, QuietJobTypes
<1>5. CASE Sweep(j)
  <2>1. NoJob.at = "free" /\ changes' = changes /\ UNCHANGED <<actions, versions, edits, seen>>
        /\ jobs' = [jobs EXCEPT ![j] = NoJob]
    BY <1>5 DEF Sweep, NoJob
  <2> QED BY <2>1, QuietJobTypes
<1> QED BY <1>2, <1>3, <1>4, <1>5

\* A job that ends, and with it what it could still write.
LEMMA LastJobTypes ==
  ASSUME CatalogueMore, CatalogueInv', NEW j \in Jobs, AttachReview(j) \/ SaveDraftAction(j)
  PROVE  CatalogueMore'
<1>0. jobs[j] \in JobRows /\ jobs \in [Jobs -> JobRows] /\ changes' = changes /\ UNCHANGED edits
  BY DEF CatalogueMore, CatalogueInv, Shaped, AttachReview, SaveDraftAction
<1>1. PICK at \in {"done", "failed"} : JobMoves(j, at)
  BY DEF AttachReview, SaveDraftAction
<1>2. PICK r : r = [jobs[j] EXCEPT !.at = at]
  OBVIOUS
<1>3. r.at = at /\ jobs' = [jobs EXCEPT ![j] = r]
  BY <1>0, <1>1, <1>2 DEF JobMoves, JobRows
<1>4. Scripted' /\ EditsOpen' \subseteq EditsOpen /\ JobsOpen' \subseteq JobsOpen \ {j}
  BY <1>0, <1>3, JobTypes
<1>5. Load' \in Nat /\ Load' <= Load /\ (j \in JobsOpen => Load' + 1 <= Load)
  BY <1>4, LoadCompares
<1>6. CASE AttachReview(j)
  <2>1. SetActionReview(jobs[j].action, jobs[j].script) /\ UNCHANGED seen /\ jobs[j].action \in Actions
    BY <1>6 DEF AttachReview, CatalogueMore, CatalogueInv, Aimed
  <2>2. \A c \in Actions : Sane(c)' /\ actions'[c].version \in {actions[c].version, 1}
    BY <2>1, StatementTypes
  <2>3. Paid'
    BY <1>0, <1>5, <2>2, Pays DEF CatalogueMore, CatalogueInv, Shaped
  <2> QED BY <1>4, <2>1, <2>2, <2>3, MoreFollows
<1>7. CASE SaveDraftAction(j)
  <2>1. jobs[j].at \in {"check", "save"} /\ jobs[j].script \in Scripts /\ j \in JobsOpen /\ Observed
    BY <1>7 DEF SaveDraftAction, JobsOpen, CatalogueMore, Scripted
  <2>2. \A c \in Actions : Sane(c)' /\ actions'[c].version \in {actions[c].version, 1, actions[c].version + 1}
    <3>1. CASE CreateAction("draft", jobs[j].script, jobs[j].script, FALSE)
      BY <2>1, <3>1, CreateTypes
    <3>2. CASE jobs[j].at = "save" /\ UpdateAction(jobs[j].action, jobs[j].script, jobs[j].script, FALSE)
      <4>1. jobs[j].action \in Actions
        BY <3>2 DEF CatalogueMore, CatalogueInv, Aimed
      <4> QED BY <2>1, <3>2, <4>1, StatementTypes
    <3>3. CASE UNCHANGED <<actions, versions>>
      BY <3>3 DEF CatalogueMore, Sane, Stored
    <3> QED BY <1>7, <3>1, <3>2, <3>3 DEF SaveDraftAction
  <2>3. Paid'
    BY <1>0, <1>5, <2>1, <2>2, Pays DEF CatalogueMore, CatalogueInv, Shaped
  <2> QED BY <1>4, <2>1, <2>2, <2>3, MoreFollows
<1> QED BY <1>6, <1>7

LEMMA RestartTypes == ASSUME CatalogueMore, CatalogueInv', CatalogueRestart PROVE CatalogueMore'
<1>1. /\ jobs' = [j \in Jobs |-> NoJob] /\ edits' = [e \in Edits |-> NoEdit]
      /\ UNCHANGED <<actions, versions, changes, seen>>
  BY DEF CatalogueRestart
<1>2. Scripted' /\ EditsOpen' \subseteq EditsOpen /\ JobsOpen' \subseteq JobsOpen
  BY <1>1 DEF Scripted, EditsOpen, JobsOpen, NoJob, NoEdit
<1>3. Load' \in Nat /\ Load' <= Load
  BY <1>2, LoadCompares
<1>4. Paid'
  BY <1>1, <1>3, Pays DEF CatalogueMore, CatalogueInv, Shaped
<1>5. \A c \in Actions : Sane(c)'
  BY <1>1 DEF CatalogueMore, Sane, Stored
<1> QED BY <1>1, <1>2, <1>4, <1>5, MoreFollows

LEMMA CatalogueMoreStarts == CatalogueInit => CatalogueMore
<1> SUFFICES ASSUME CatalogueInit PROVE CatalogueMore
  OBVIOUS
<1>1. EditsOpen = {} /\ JobsOpen = {}
  BY DEF CatalogueInit, EditsOpen, JobsOpen, NoJob
<1>2. Load = 0
  BY <1>1, FS_EmptySet DEF Load
<1>3. Paid
  BY <1>2, CatalogueAssumption DEF CatalogueInit, Paid, NoAction
<1>4. Scripted /\ seen = {}
  BY DEF CatalogueInit, Scripted, NoJob, NoEdit
<1>5. ASSUME NEW a \in Actions PROVE Sane(a)
  <2>1. actions[a].status = "unused" /\ versions[a] = <<>>
    BY DEF CatalogueInit, NoAction
  <2> QED BY <2>1, NothingArchived DEF Sane, Stored
<1> QED BY <1>3, <1>4, <1>5, CatalogueStarts DEF CatalogueMore

LEMMA CatalogueMoreStep == CatalogueMore /\ [CatalogueNext]_catalogueVars => CatalogueMore'
<1> SUFFICES ASSUME CatalogueMore, [CatalogueNext]_catalogueVars PROVE CatalogueMore'
  OBVIOUS
<1>0. CatalogueInv'
  BY CatalogueStep DEF CatalogueMore
<1>1. CASE UNCHANGED catalogueVars
  BY <1>0, <1>1 DEF catalogueVars, CatalogueMore, Sane, Stored, Scripted, Paid, Load, EditsOpen, JobsOpen
<1>2. CASE Create \/ CatalogueRestart
  BY <1>0, <1>2, CreateStepTypes, RestartTypes
<1>3. ASSUME NEW e \in Edits, \/ ReadForUpdate(e) \/ ReadForPublish(e) \/ RollbackAction(e)
                              \/ ReadForDelete(e) \/ WriteAction(e)
      PROVE  CatalogueMore'
  BY <1>0, <1>3, ReadTypes, WriteTypes
<1>4. ASSUME NEW j \in Jobs, \/ StartJob(j) \/ ModelAnswers(j) \/ AttachReview(j)
                             \/ CheckDraft(j) \/ SaveDraftAction(j) \/ Sweep(j)
      PROVE  CatalogueMore'
  BY <1>0, <1>4, QuietJobsType, LastJobTypes
<1> QED BY <1>1, <1>2, <1>3, <1>4 DEF CatalogueNext

\* Every variable of the catalogue has its type: no version number is above the number
\* of requests and jobs, and whatever could be run is a script (actions.go).
THEOREM CatalogueTypes == CatalogueSpec => []CatalogueTypeOK
<1>1. CatalogueMore => CatalogueTypeOK
  <2> SUFFICES ASSUME CatalogueMore PROVE CatalogueTypeOK
    OBVIOUS
  <2>1. \A a \in Actions : Sane(a) /\ actions[a].version \in Versions
    <3>1. ASSUME NEW a \in Actions PROVE actions[a].version \in Versions
      <4>1. /\ actions[a].version \in Nat /\ 1 <= actions[a].version /\ changes \in 0..MaxChanges
            /\ actions[a].version + Load <= changes + 1 /\ Load \in Nat /\ MaxChanges \in Nat
        BY CatalogueAssumption DEF CatalogueMore, CatalogueInv, Shaped, Paid, ActionRows
      <4> QED BY <4>1 DEF Versions
    <3> QED BY <3>1 DEF CatalogueMore
  <2>2. actions \in [Actions -> [status : {"unused", "draft", "active", "deleted"}, version : Versions,
                                 script : Contents, review : Contents, sound : BOOLEAN]]
    <3>1. actions \in [Actions -> ActionRows]
      BY DEF CatalogueMore, CatalogueInv, Shaped
    <3>2. \A a \in Actions : actions[a] \in [status : {"unused", "draft", "active", "deleted"}, version : Versions,
                                 script : Contents, review : Contents, sound : BOOLEAN]
      BY <2>1, <3>1 DEF ActionRows, Statuses, Texts, Contents
    <3> QED BY <3>1, <3>2
  <2>3. edits \in [Edits -> [op : {"none", "update", "publish", "delete"}, action : Actions \union {0},
                             script : Contents, review : Contents]]
    BY DEF CatalogueMore, CatalogueInv, Shaped, EditRows, Texts, Contents
  <2>4. jobs \in [Jobs -> [kind : {"none", "draft", "review", "fix"},
                        at : {"free", "asking", "check", "save", "attach", "done", "failed"},
                        action : Actions \union {0}, script : Contents,
                        saw : {"unused", "draft", "active", "deleted"}]]
    BY DEF CatalogueMore, CatalogueInv, Shaped, JobRows, Texts, Contents, JobPlaces, Statuses
  <2>5. changes \in 0..MaxChanges /\ seen \subseteq Actions \X Versions \X Scripts /\ overtaken \in BOOLEAN
    BY DEF CatalogueMore, CatalogueInv, Shaped, Paid
  <2> QED BY <2>1, <2>2, <2>3, <2>4, <2>5 DEF CatalogueTypeOK, Sane
<1> QED BY <1>1, CatalogueMoreStarts, CatalogueMoreStep, PTL DEF CatalogueSpec

------------------------------------------------------------------------------
(* Migrations: the versions on record are 1 up to where the runner stands,  *)
(* so the one it read at its start is the last of them, and it passes over  *)
(* exactly those, however often the program dies on the way.                *)

\* The last version on record, told by where the runner stands.
OnRecord ==
  IF opening.at \in {"before", "statements"} THEN opening.version - 1
  ELSE IF opening.version < opening.current THEN opening.current ELSE opening.version

MigrationTyped ==
  /\ recorded \subseteq 1..Newest /\ columns \subseteq Columns
  /\ applied \in [1..Newest -> Nat] /\ seeded \in [1..Newest -> Nat]
  /\ opening \in [at : {"down", "next", "before", "statements", "after", "serving"},
                  current : 0..Newest, version : 0..Newest]
\* No gap on record.
Gapless == \E k \in 0..Newest : recorded = 1..k
OnceEach == \A v \in 1..Newest :
  /\ applied[v] = IF v \in recorded THEN 1 ELSE 0
  /\ seeded[v] <= 1 /\ (v \notin recorded => seeded[v] = 0)
  /\ v \in recorded /\ v \in Columns => v \in columns
Standing ==
  /\ ~At("down") => recorded = 1..OnRecord
  /\ opening.at \in {"before", "statements", "after"} => opening.current < opening.version
  /\ At("statements") /\ opening.version \in Columns => opening.version \in columns
  /\ At("after") => seeded[opening.version] = 0
  /\ At("serving") => opening.version = Newest
MigrationsInv == MigrationTyped /\ Gapless /\ OnceEach /\ Standing

\* The newest version on record is read as the last of a record without a gap.
LEMMA LatestIsLast ==
  ASSUME NEW k \in Nat, recorded = 1..k
  PROVE  Latest = k
<1> DEFINE S == {0} \cup recorded
<1>1. k \in S /\ \A x \in S : x \in Nat /\ k >= x
  OBVIOUS
<1> HIDE DEF S
<1>2. \A m \in S : (\A x \in S : m >= x) => m = k
  BY <1>1
<1>3. (CHOOSE m \in S : \A x \in S : m >= x) = k
  BY <1>1, <1>2
<1> QED BY <1>3 DEF Latest, Max, S

LEMMA MigrationsStart == MigrationsInit => MigrationsInv
<1> SUFFICES ASSUME MigrationsInit PROVE MigrationsInv
  OBVIOUS
<1>1. opening = [at |-> "down", current |-> 0, version |-> 0]
  BY DEF MigrationsInit, Down, Runner
<1>2. MigrationTyped
  BY <1>1, MigrationsAssumption DEF MigrationsInit, MigrationTyped
<1>3. recorded = 1..0 /\ 0 \in 0..Newest
  BY MigrationsAssumption DEF MigrationsInit
<1>4. OnceEach
  BY <1>3 DEF MigrationsInit, OnceEach
<1> QED BY <1>1, <1>2, <1>3, <1>4 DEF MigrationsInv, Gapless, Standing, At

\* The start finds the last version on record.
LEMMA OpenKeeps == ASSUME MigrationsInv, Open PROVE MigrationsInv'
<1>1. PICK k \in 0..Newest : recorded = 1..k
  BY DEF MigrationsInv, Gapless
<1>2. Latest = k
  BY <1>1, LatestIsLast, MigrationsAssumption
<1>3. opening' = [at |-> "next", current |-> k, version |-> 0] /\ UNCHANGED <<recorded, applied, columns, seeded>>
  BY <1>2 DEF Open, Runner
<1>4. OnRecord' = k
  BY <1>3, MigrationsAssumption DEF OnRecord
<1> QED
  BY <1>1, <1>3, <1>4, MigrationsAssumption
  DEF MigrationsInv, MigrationTyped, Gapless, OnceEach, Standing, At

\* A version is passed over when it is on record, and taken up when it is the
\* next one.
LEMMA NextVersionKeeps == ASSUME MigrationsInv, NextVersion PROVE MigrationsInv'
<1> DEFINE next == opening.version + 1
<1>1. /\ At("next") /\ recorded = 1..OnRecord /\ next \in 1..Newest
      /\ opening.current \in 0..Newest /\ opening.version \in 0..Newest
  BY MigrationsAssumption DEF NextVersion, Ready, At, MigrationsInv, Standing, MigrationTyped
<1>2. /\ UNCHANGED <<recorded, applied, columns, seeded>>
      /\ opening' = [opening EXCEPT !.version = next,
                       !.at = IF Skips(next) THEN "next" ELSE "before"]
  BY DEF NextVersion
<1>3. opening' = [at |-> IF Skips(next) THEN "next" ELSE "before",
                  current |-> opening.current, version |-> next]
  BY <1>2 DEF MigrationsInv, MigrationTyped
<1> HIDE DEF next
<1>4. next = opening.version + 1
  BY DEF next
<1>5. OnRecord = IF opening.version < opening.current THEN opening.current ELSE opening.version
  BY <1>1 DEF At, OnRecord
<1>6. OnRecord' = OnRecord /\ (~Skips(next) => opening'.current < opening'.version)
  BY <1>1, <1>3, <1>4, <1>5 DEF Skips, OnRecord
<1>7. MigrationTyped' /\ Gapless' /\ OnceEach'
  <2>1. next \in 0..Newest /\ (IF Skips(next) THEN "next" ELSE "before") \in {"next", "before"}
    BY <1>1, MigrationsAssumption
  <2>2. opening' \in [at : {"down", "next", "before", "statements", "after", "serving"},
                      current : 0..Newest, version : 0..Newest]
    BY <1>1, <1>3, <2>1
  <2>3. MigrationTyped'
    BY <1>2, <2>2 DEF MigrationsInv, MigrationTyped
  <2>4. Gapless' /\ OnceEach'
    BY <1>2 DEF MigrationsInv, Gapless, OnceEach
  <2> QED BY <2>3, <2>4
<1>8. opening'.at \in {"next", "before"} /\ (opening'.at = "before" => ~Skips(next))
  BY <1>3
<1>9. recorded' = 1..OnRecord'
  BY <1>1, <1>2, <1>6
<1>10. Standing'
  BY <1>6, <1>8, <1>9 DEF Standing, At
<1> QED BY <1>7, <1>10 DEF MigrationsInv

\* The column is there before the statements run.
LEMMA AddColumnKeeps == ASSUME MigrationsInv, AddColumn PROVE MigrationsInv'
<1>1. /\ At("before") /\ UNCHANGED <<recorded, applied, seeded>>
      /\ columns' = columns \cup (Columns \cap {opening.version})
  BY DEF AddColumn
<1>2. opening' = [at |-> "statements", current |-> opening.current, version |-> opening.version]
  BY DEF AddColumn, GoTo, MigrationsInv, MigrationTyped
<1>3. MigrationTyped' /\ Gapless' /\ OnceEach'
  BY <1>1, <1>2 DEF MigrationsInv, MigrationTyped, Gapless, OnceEach
<1>4. Standing'
  BY <1>1, <1>2 DEF MigrationsInv, Standing, OnRecord, At
<1> QED BY <1>3, <1>4 DEF MigrationsInv

\* The statements of the next version take effect, and it is on record.
LEMMA ApplyKeeps == ASSUME MigrationsInv, Apply PROVE MigrationsInv'
<1> DEFINE n == opening.version
<1>1. /\ At("statements") /\ recorded = 1..(n - 1) /\ opening.current < n
      /\ n \in 0..Newest /\ opening.current \in 0..Newest /\ (n \in Columns => n \in columns)
  BY DEF Apply, MigrationsInv, Standing, MigrationTyped, OnRecord, At
<1>2. /\ UNCHANGED <<columns, seeded>> /\ recorded' = recorded \cup {n}
      /\ applied' = [applied EXCEPT ![n] = applied[n] + 1]
  BY DEF Apply
<1>3. opening' = [at |-> "after", current |-> opening.current, version |-> n]
  BY DEF Apply, GoTo, MigrationsInv, MigrationTyped
<1> HIDE DEF n
<1>4. n \in 1..Newest /\ n \notin recorded
  BY <1>1, MigrationsAssumption
<1>5. recorded' = 1..n
  BY <1>1, <1>2, <1>4, MigrationsAssumption
<1>6. applied[n] = 0 /\ seeded[n] = 0
  BY <1>4 DEF MigrationsInv, OnceEach
<1>7. MigrationTyped'
  BY <1>1, <1>2, <1>3, <1>4, <1>6 DEF MigrationsInv, MigrationTyped
<1>8. OnceEach'
  BY <1>1, <1>2, <1>4, <1>6 DEF MigrationsInv, OnceEach, MigrationTyped
<1>9. OnRecord' = n
  BY <1>1, <1>3, <1>4 DEF OnRecord
<1>10. Gapless' /\ Standing'
  BY <1>1, <1>2, <1>3, <1>4, <1>5, <1>6, <1>9 DEF Gapless, Standing, At
<1> QED BY <1>7, <1>8, <1>10 DEF MigrationsInv

\* The Go step of a version runs at most once: the version is on record by then.
LEMMA SeedKeeps == ASSUME MigrationsInv, Seed PROVE MigrationsInv'
<1> DEFINE n == opening.version
<1>1. /\ At("after") /\ recorded = 1..n /\ opening.current < n /\ seeded[n] = 0
      /\ n \in 0..Newest /\ opening.current \in 0..Newest
  BY DEF Seed, MigrationsInv, Standing, MigrationTyped, OnRecord, At
<1>2. UNCHANGED <<recorded, applied, columns>>
  BY DEF Seed
<1>3. opening' = [at |-> "next", current |-> opening.current, version |-> n]
  BY DEF Seed, GoTo, MigrationsInv, MigrationTyped
<1>4. seeded' = seeded \/ seeded' = [seeded EXCEPT ![n] = seeded[n] + 1]
  BY DEF Seed
<1> HIDE DEF n
<1>5. n \in 1..Newest /\ n \in recorded
  BY <1>1, MigrationsAssumption
<1>6. MigrationTyped' /\ OnceEach'
  <2>1. seeded' \in [1..Newest -> Nat]
    BY <1>1, <1>4, <1>5 DEF MigrationsInv, MigrationTyped
  <2>2. MigrationTyped'
    BY <1>1, <1>2, <1>3, <2>1 DEF MigrationsInv, MigrationTyped
  <2>3. \A v \in 1..Newest : seeded'[v] <= 1 /\ (v \notin recorded => seeded'[v] = 0)
    <3>1. \A v \in 1..Newest : seeded[v] \in Nat /\ seeded[v] <= 1 /\ (v \notin recorded => seeded[v] = 0)
      BY DEF MigrationsInv, MigrationTyped, OnceEach
    <3>2. seeded[n] + 1 = 1 /\ seeded \in [1..Newest -> Nat]
      BY <1>1 DEF MigrationsInv, MigrationTyped
    <3>3. seeded' = seeded \/ seeded' = [seeded EXCEPT ![n] = 1]
      BY <1>4, <3>2
    <3>4. \A v \in 1..Newest : seeded'[v] = seeded[v] \/ (v = n /\ seeded'[v] = 1)
      BY <1>5, <3>2, <3>3
    <3> QED BY <1>5, <3>1, <3>4
  <2>4. OnceEach'
    BY <1>2, <2>3 DEF MigrationsInv, OnceEach
  <2> QED BY <2>2, <2>4
<1>7. OnRecord' = n
  BY <1>1, <1>3 DEF OnRecord
<1>8. Gapless' /\ Standing'
  BY <1>1, <1>2, <1>3, <1>5, <1>7 DEF MigrationsInv, Gapless, Standing, At
<1> QED BY <1>6, <1>8 DEF MigrationsInv

\* A death or a refusal leaves what is on record.
LEMMA DownKeeps ==
  ASSUME MigrationsInv, opening' = Down, UNCHANGED <<recorded, applied, columns, seeded>>
  PROVE  MigrationsInv'
<1>1. opening' = [at |-> "down", current |-> 0, version |-> 0]
  BY DEF Down, Runner
<1> QED
  BY <1>1, MigrationsAssumption DEF MigrationsInv, MigrationTyped, Gapless, OnceEach, Standing, At

LEMMA ServeKeeps == ASSUME MigrationsInv, Serve PROVE MigrationsInv'
<1>1. /\ At("next") /\ opening.version = Newest
      /\ UNCHANGED <<recorded, applied, columns, seeded>>
      /\ opening' = [at |-> "serving", current |-> opening.current, version |-> opening.version]
  BY DEF Serve, GoTo, MigrationsInv, MigrationTyped
<1> QED
  BY <1>1 DEF MigrationsInv, MigrationTyped, Gapless, OnceEach, Standing, OnRecord, At

LEMMA MigrationsStep == MigrationsInv /\ [MigrationsNext]_migrationVars => MigrationsInv'
<1> SUFFICES ASSUME MigrationsInv, [MigrationsNext]_migrationVars PROVE MigrationsInv'
  OBVIOUS
<1>1. CASE Refuse \/ Dies
  BY <1>1, DownKeeps DEF Refuse, Dies
<1>2. CASE UNCHANGED migrationVars
  BY <1>2 DEF migrationVars, MigrationsInv, MigrationTyped, Gapless, OnceEach, Standing, OnRecord, At
<1> QED
  BY <1>1, <1>2, OpenKeeps, NextVersionKeeps, AddColumnKeeps, ApplyKeeps, SeedKeeps, ServeKeeps
  DEF MigrationsNext

\* The runner stands where the record ends, whenever the program died.
THEOREM MigrationsInvariance == MigrationsSpec => []MigrationsInv
BY MigrationsStart, MigrationsStep, PTL DEF MigrationsSpec

LEMMA InvGivesOnce == MigrationsInv => MigratedOnce
<1> SUFFICES ASSUME MigrationsInv PROVE MigratedOnce
  OBVIOUS
<1>1. PICK k \in 0..Newest : recorded = 1..k
  BY DEF MigrationsInv, Gapless
<1>2. \A v \in 1..Newest : applied[v] <= 1 /\ seeded[v] <= 1
  BY DEF MigrationsInv, OnceEach
<1>3. recorded = {v \in 1..Newest : applied[v] = 1}
  <2>1. \A v \in 1..Newest : v \in recorded <=> applied[v] = 1
    BY DEF MigrationsInv, OnceEach
  <2>2. recorded \subseteq 1..Newest
    BY DEF MigrationsInv, MigrationTyped
  <2> QED BY <2>1, <2>2
<1>4. \A v \in recorded : 1..v \subseteq recorded /\ (v \in Columns => v \in columns)
  BY <1>1, MigrationsAssumption DEF MigrationsInv, OnceEach, MigrationTyped
<1>5. At("serving") => recorded = 1..Newest
  BY MigrationsAssumption DEF MigrationsInv, Standing, MigrationTyped, OnRecord, At
<1> QED BY <1>2, <1>3, <1>4, <1>5 DEF MigratedOnce

\* Each version's statements take effect exactly once and in order, no Go step
\* runs twice, and only a database of the newest version is served
\* (runMigrations).
THEOREM MigrationsHappenOnce == MigrationsSpec => []MigratedOnce
BY MigrationsInvariance, InvGivesOnce, PTL

\* Backups are of versions there were.
MigrationsMore == MigrationsInv /\ backups \subseteq 0..Newest /\ starts \in 0..MaxStarts

LEMMA MoreSteps == MigrationsMore /\ [MigrationsNext]_migrationVars => MigrationsMore'
<1> SUFFICES ASSUME MigrationsMore, [MigrationsNext]_migrationVars PROVE MigrationsMore'
  OBVIOUS
<1>1. MigrationsInv'
  BY MigrationsStep DEF MigrationsMore
<1>2. CASE UNCHANGED <<backups, starts>>
  BY <1>1, <1>2 DEF MigrationsMore
<1>3. CASE Open
  <2>1. Latest \in 0..Newest
    <3>1. PICK k \in 0..Newest : recorded = 1..k
      BY DEF MigrationsMore, MigrationsInv, Gapless
    <3>2. k \in Nat
      BY MigrationsAssumption
    <3> QED BY <3>1, <3>2, LatestIsLast
  <2>2. starts' = starts + 1 /\ starts < MaxStarts /\ (backups' = backups \cup {Latest} \/ backups' = backups)
    BY <1>3 DEF Open
  <2>3. starts' \in 0..MaxStarts
    BY <2>2, MigrationsAssumption DEF MigrationsMore
  <2>4. backups' \subseteq 0..Newest
    BY <2>1, <2>2 DEF MigrationsMore
  <2> QED BY <1>1, <2>3, <2>4 DEF MigrationsMore
<1>4. CASE ~Open
  <2>1. UNCHANGED <<backups, starts>>
    BY <1>4 DEF MigrationsNext, NextVersion, AddColumn, Apply, Refuse, Seed, Serve, Dies, migrationVars
  <2> QED BY <1>2, <2>1
<1> QED BY <1>3, <1>4

\* Every variable of the migrations has its type.
THEOREM MigrationsTypes == MigrationsSpec => []MigrationsTypeOK
<1>1. MigrationsInit => MigrationsMore
  BY MigrationsStart, MigrationsAssumption DEF MigrationsInit, MigrationsMore
<1>2. ASSUME MigrationsMore PROVE MigrationsTypeOK
  <2>1. MigrationTyped /\ OnceEach /\ backups \subseteq 0..Newest /\ starts \in 0..MaxStarts
    BY <1>2 DEF MigrationsMore, MigrationsInv
  <2>2. 0 \in 0..MaxStarts /\ 1 \in 0..MaxStarts
    BY MigrationsAssumption
  <2>3. \A v \in 1..Newest : applied[v] \in 0..MaxStarts /\ seeded[v] \in 0..MaxStarts
    <3>1. \A v \in 1..Newest : applied[v] \in {0, 1} /\ seeded[v] \in {0, 1}
      BY <2>1 DEF MigrationTyped, OnceEach
    <3> QED BY <2>2, <3>1
  <2>4. applied \in [1..Newest -> 0..MaxStarts] /\ seeded \in [1..Newest -> 0..MaxStarts]
    BY <2>1, <2>3 DEF MigrationTyped
  <2> QED BY <2>1, <2>4 DEF MigrationsTypeOK, MigrationTyped
<1> QED BY <1>1, <1>2, MoreSteps, PTL DEF MigrationsSpec

------------------------------------------------------------------------------
(* A transaction, statement by statement *)

LEMMA GreatestIs ==
  ASSUME NEW S \in SUBSET Int, IsFiniteSet(S), S # {}
  PROVE  Max(S) \in S /\ \A x \in S : x <= Max(S)
<1> DEFINE Above(m) == {x \in S : x > m}
           Uppers   == {Above(m) : m \in S}
<1>1. Uppers \subseteq FiniteSubsetsOf(S) /\ Uppers # {}
  <2>1. \A T \in SUBSET S : IsFiniteSet(T)
    BY FS_Subset
  <2>2. \A m \in S : Above(m) \in SUBSET S
    OBVIOUS
  <2> QED  BY <2>1, <2>2 DEF FiniteSubsetsOf
<1>2. PICK U \in Uppers : \A V \in Uppers : <<V, U>> \notin StrictSubsetOrdering(S)
  BY <1>1, FS_StrictSubsetOrderingWellFounded, WFMin, Zenon
<1>3. PICK m \in S : U = Above(m)
  OBVIOUS
<1>4. Above(m) = {}
  <2> SUFFICES ASSUME NEW n \in Above(m) PROVE FALSE
    OBVIOUS
  <2>1. n \in S /\ Above(n) \in Uppers
    OBVIOUS
  <2>2. \A x \in Above(n) : x \in S /\ x > n /\ n > m
    OBVIOUS
  <2>3. \A x \in S : x \in Int
    OBVIOUS
  <2>4. \A x \in Above(n) : x \in Above(m)
    BY <2>1, <2>2, <2>3
  <2>5. n \notin Above(n)
    BY <2>1, <2>3
  <2>6. Above(n) \in SUBSET S /\ Above(m) \in SUBSET S
    OBVIOUS
  <2> QED  BY <2>1, <2>4, <2>5, <2>6, <1>2, <1>3 DEF StrictSubsetOrdering
<1>5. \A y \in S : m >= y
  BY <1>4
<1> QED  BY <1>5 DEF Max

\* One step of the fold: the statement of the last place, after those before it.
LastDone(f, d, t, s) == IF s = {} THEN d ELSE Execute(f[s \ {Max(s)}], t[Max(s)])
IsFold(f, d, t, D) == f = [s \in D |-> LastDone(f, d, t, s)]
FewOf(S, n) == {s \in SUBSET S : Cardinality(s) <= n}

LEMMA FoldIs ==
  ASSUME NEW d, NEW t
  PROVE  FoldLeft(Execute, d, t) =
           (CHOOSE f : f = [s \in SUBSET DOMAIN t |-> LastDone(f, d, t, s)])[DOMAIN t]
BY DEF FoldLeft, MapThenFoldSet, LastDone

LEMMA PlacesLess ==
  ASSUME NEW n \in Nat, NEW s \in SUBSET (1..n), s # {}
  PROVE  /\ Max(s) \in s /\ s \ {Max(s)} \in SUBSET (1..n)
         /\ Cardinality(s) \in Nat /\ Cardinality(s \ {Max(s)}) = Cardinality(s) - 1
<1>1. IsFiniteSet(1..n)
  BY FS_Interval
<1>2. IsFiniteSet(s) /\ s \in SUBSET Int
  <2>1. IsFiniteSet(s)
    BY <1>1, FS_Subset
  <2> QED  BY <2>1
<1>3. Max(s) \in s
  BY <1>2, GreatestIs
<1>4. Cardinality(s) \in Nat /\ Cardinality(s \ {Max(s)}) = Cardinality(s) - 1
  BY <1>2, <1>3, FS_CardinalityType, FS_RemoveElement
<1> QED  BY <1>3, <1>4

LEMMA FoldsExist ==
  ASSUME NEW d, NEW t, NEW l \in Nat
  PROVE  \A n \in Nat : \E f : IsFold(f, d, t, FewOf(1..l, n))
<1> DEFINE Has(n) == \E f : IsFold(f, d, t, FewOf(1..l, n))
           None == {n \in Nat : ~Has(n)}
<1>0. \A s \in SUBSET (1..l) : Cardinality(s) \in Nat /\ (Cardinality(s) = 0 <=> s = {})
  <2> TAKE s \in SUBSET (1..l)
  <2>1. IsFiniteSet(1..l)
    BY FS_Interval
  <2>2. IsFiniteSet(s)
    BY <2>1, FS_Subset
  <2> QED  BY <2>2, FS_CardinalityType, FS_EmptySet
<1>1. Has(0)
  <2> DEFINE f == [s \in FewOf(1..l, 0) |-> d]
  <2>1. \A s \in FewOf(1..l, 0) : s = {}
    BY <1>0 DEF FewOf
  <2>2. IsFold(f, d, t, FewOf(1..l, 0))
    BY <2>1 DEF LastDone, IsFold
  <2> QED  BY <2>2
<1>2. ASSUME NEW n \in Nat, Has(n) PROVE Has(n + 1)
  <2>1. PICK f : IsFold(f, d, t, FewOf(1..l, n))
    BY <1>2
  <2> DEFINE g == [s \in FewOf(1..l, n + 1) |-> LastDone(f, d, t, s)]
  <2>2. ASSUME NEW s \in FewOf(1..l, n + 1), s # {}
        PROVE  s \ {Max(s)} \in FewOf(1..l, n) /\ s \ {Max(s)} \in FewOf(1..l, n + 1)
    BY <2>2, PlacesLess DEF FewOf
  <2>3. \A s \in FewOf(1..l, n) : s \in FewOf(1..l, n + 1) /\ g[s] = f[s]
    <3> TAKE s \in FewOf(1..l, n)
    <3>1. s \in FewOf(1..l, n + 1)
      BY <1>0 DEF FewOf
    <3>2. f[s] = LastDone(f, d, t, s)
      BY <2>1 DEF IsFold
    <3> QED  BY <3>1, <3>2
  <2>4. \A s \in FewOf(1..l, n + 1) : LastDone(g, d, t, s) = LastDone(f, d, t, s)
    BY <2>2, <2>3 DEF LastDone
  <2>5. IsFold(g, d, t, FewOf(1..l, n + 1))
    BY <2>4 DEF IsFold
  <2> QED  BY <2>5
<1> HIDE DEF Has
<1>3. SUFFICES ASSUME None # {} PROVE FALSE
  BY DEF Has
<1>4. PICK n \in None : \A m \in None : <<m, n>> \notin OpToRel(<, Nat)
  BY <1>3, NatLessThanWellFounded, WFMin, None \subseteq Nat
<1>5. \A m \in None : ~(m < n)
  BY <1>4 DEF OpToRel
<1>6. n # 0
  BY <1>1
<1>7. n - 1 \in Nat /\ n - 1 \notin None
  BY <1>5, <1>6
<1>8. Has(n)
  BY <1>2, <1>7
<1> QED  BY <1>8

\* h has the database after each number of a transaction's statements.
Runs(h, d, t, l) == /\ h[0] = d /\ FoldLeft(Execute, d, t) = h[l]
                    /\ \A k \in 1..l : h[k] = Execute(h[k - 1], t[k])

\* A transaction is what its statements do one after the other.
LEMMA FoldSteps ==
  ASSUME NEW d, NEW t, NEW l \in Nat, DOMAIN t = 1..l
  PROVE  \E h : Runs(h, d, t, l)
<1>0. \A s \in SUBSET (1..l) : IsFiniteSet(s) /\ Cardinality(s) \in Nat /\ Cardinality(s) <= l
  <2> TAKE s \in SUBSET (1..l)
  <2>1. IsFiniteSet(1..l) /\ Cardinality(1..l) = l
    BY FS_Interval
  <2>2. IsFiniteSet(s) /\ Cardinality(s) <= Cardinality(1..l)
    BY <2>1, FS_Subset
  <2> QED  BY <2>1, <2>2, FS_CardinalityType
<1>1. FewOf(1..l, l) = SUBSET (1..l)
  BY <1>0 DEF FewOf
<1>2. \E f : IsFold(f, d, t, SUBSET (1..l))
  <2>1. \A n \in Nat : \E f : IsFold(f, d, t, FewOf(1..l, n))
    BY FoldsExist, Zenon
  <2>2. \E f : IsFold(f, d, t, FewOf(1..l, l))
    BY <2>1, Zenon
  <2> QED  BY <1>1, <2>2, Zenon
<1>3. \E f : f = [s \in SUBSET (1..l) |-> LastDone(f, d, t, s)]
  BY <1>2 DEF IsFold
<1> DEFINE f == CHOOSE f : f = [s \in SUBSET (1..l) |-> LastDone(f, d, t, s)]
<1>4. f = [s \in SUBSET (1..l) |-> LastDone(f, d, t, s)]
  BY <1>3
<1>5. FoldLeft(Execute, d, t) = f[1..l]
  BY FoldIs
<1> HIDE DEF f
<1> DEFINE h == [k \in 0..l |-> f[1..k]]
<1>6. h[0] = d
  <2>1. 1..0 = {}
    OBVIOUS
  <2>2. f[{}] = d
    BY <1>4 DEF LastDone
  <2> QED  BY <2>1, <2>2
<1>7. ASSUME NEW k \in 1..l PROVE h[k] = Execute(h[k - 1], t[k])
  <2>1. 1..k \in SUBSET (1..l) /\ k \in 1..k
    OBVIOUS
  <2>2. Max(1..k) \in 1..k /\ \A x \in 1..k : x <= Max(1..k)
    <3>1. IsFiniteSet(1..k) /\ 1..k \in SUBSET Int /\ 1..k # {}
      BY <1>0, <2>1
    <3> HIDE <2>1
    <3> QED  BY <3>1, GreatestIs
  <2>3. Max(1..k) = k
    BY <2>1, <2>2
  <2>4. (1..k) \ {k} = 1..(k - 1)
    OBVIOUS
  <2>5. f[1..k] = Execute(f[(1..k) \ {Max(1..k)}], t[Max(1..k)])
    BY <1>4, <2>1 DEF LastDone
  <2>6. f[1..k] = Execute(f[1..(k - 1)], t[k])
    BY <2>3, <2>4, <2>5
  <2> QED  BY <2>6
<1>8. h[l] = f[1..l]
  OBVIOUS
<1> HIDE DEF h
<1> QED  BY <1>5, <1>6, <1>7, <1>8 DEF Runs

------------------------------------------------------------------------------
(* The rows of the database *)

\* What a reference may refer to: nothing that a VM's or an action's deletion clears away.
LegalKey(k) ==
  /\ k.to[1] \notin {"action_executions", "deployment_actions", "vm_snapshots", "vm_credentials",
                    "action_versions"}
  /\ k.to[1] = "managed_vms" => \/ k.from[1] = "action_executions" /\ k.column = "vm_id"
                               \/ k.from[1] \in {"vm_snapshots", "vm_credentials"}
  /\ k.to[1] = "actions" =>
       \/ k.from[1] \in {"action_executions", "deployment_actions", "action_versions"} /\ k.column = "action_id"
Owned == {"templates", "managed_vms", "deployments", "template_builds"}
KeptRow(d) ==
  /\ d = [rows |-> d.rows, keys |-> d.keys] /\ d.rows \subseteq AllRows
  /\ \A k \in d.keys : k.from \in d.rows /\ LegalKey(k)
  /\ \A r \in d.rows : r[1] \in Owned => \E k \in d.keys : k.from = r /\ k.column = "target_id"
SchemaInv == KeptRow(db) /\ ~Dangling(db)

\* What transactions are made of: no statement clears the target of a row.
Clearable == {k \in db.keys : k.column # "target_id"}
Statements == [gone : SUBSET AllRows, clears : SUBSET Clearable]

LEMMA ExecuteKeeps ==
  ASSUME NEW d, KeptRow(d), NEW s, \A k \in s.clears : k.column # "target_id"
  PROVE  KeptRow(Execute(d, s))
<1> DEFINE gone == Cascade(d, s.gone)
           e == [rows |-> d.rows \ gone, keys |-> {k \in d.keys \ s.clears : k.from \notin gone}]
<1>1. Effect(d, s) = e
  BY DEF Effect
<1> HIDE DEF gone
<1>2. KeptRow(e)
  <2>1. \A r \in d.rows \ gone : r[1] \in Owned =>
          \E k \in d.keys : k \notin s.clears /\ k.from = r /\ k.column = "target_id" /\ k.from \notin gone
    BY DEF KeptRow
  <2> QED  BY <2>1 DEF KeptRow
<1> QED  BY <1>1, <1>2 DEF Execute

\* A transaction that is committed keeps the rows in order.
LEMMA CommitStep ==
  ASSUME SchemaInv, NEW t, t \in Seq(Statements), ~Refused(t), db' = After(t)
  PROVE  SchemaInv'
<1> DEFINE l == Len(t)
<1>1. l \in Nat /\ DOMAIN t = 1..l /\ \A i \in 1..l : t[i] \in Statements
  OBVIOUS
<1> HIDE DEF l
<1>2. PICK h : Runs(h, db, t, l)
  BY <1>1, FoldSteps
<1> DEFINE Wrong == {k \in 0..l : ~KeptRow(h[k])}
<1>3. Wrong = {}
  <2> SUFFICES ASSUME Wrong # {} PROVE FALSE
    OBVIOUS
  <2>0. Wrong \subseteq Nat
    BY <1>1
  <2> HIDE DEF Wrong
  <2>1. PICK k \in Wrong : \A m \in Wrong : <<m, k>> \notin OpToRel(<, Nat)
    BY <2>0, NatLessThanWellFounded, WFMin
  <2>2. \A m \in Wrong : ~(m < k)
    BY <2>0, <2>1 DEF OpToRel
  <2> USE DEF Wrong
  <2>3. k # 0
    BY <1>2 DEF SchemaInv, Runs
  <2>4. k \in 1..l /\ k - 1 \in 0..l /\ k - 1 < k
    BY <1>1, <2>3
  <2>5. KeptRow(h[k - 1])
    BY <2>2, <2>4
  <2>6. \A x \in t[k].clears : x.column # "target_id"
    BY <1>1, <2>4 DEF Statements, Clearable
  <2>7. KeptRow(h[k])
    BY <1>2, <2>4, <2>5, <2>6, ExecuteKeeps DEF Runs
  <2> QED  BY <2>7
<1>4. KeptRow(h[l])
  BY <1>1, <1>3
<1>5. After(t) = h[l]
  BY <1>2 DEF After, Runs
<1> QED  BY <1>4, <1>5 DEF SchemaInv, Refused

LEMMA InsertKeeps ==
  ASSUME SchemaInv, NEW new \in AllRows, NEW needs, NEW may, Insert(new, needs, may),
         \A k \in needs \cup may : k.from = new /\ LegalKey(k),
         new[1] \in Owned => \E k \in needs : k.column = "target_id"
  PROVE  SchemaInv'
<1>1. PICK set \in SUBSET {k \in may : k.to \in db.rows} :
        db' = [rows |-> db.rows \cup {new}, keys |-> db.keys \cup needs \cup set]
  BY DEF Insert
<1>2. db'.rows = db.rows \cup {new} /\ db'.keys = db.keys \cup needs \cup set
  BY <1>1
<1>3. \A k \in needs : k.to \in db.rows
  BY DEF Insert
<1>4. ~Dangling(db')
  BY <1>2, <1>3 DEF SchemaInv, Dangling
<1>5. \A k \in db'.keys : k.from \in db'.rows /\ LegalKey(k)
  BY <1>2 DEF SchemaInv, KeptRow
<1>6. \A r \in db'.rows : r[1] \in Owned => \E k \in db'.keys : k.from = r /\ k.column = "target_id"
  BY <1>2 DEF SchemaInv, KeptRow
<1>7. db' = [rows |-> db'.rows, keys |-> db'.keys] /\ db'.rows \subseteq AllRows
  BY <1>1, <1>2 DEF SchemaInv, KeptRow
<1>8. KeptRow(db')
  BY <1>5, <1>6, <1>7 DEF KeptRow
<1> QED  BY <1>4, <1>8 DEF SchemaInv

LEMMA SetKeysKeeps ==
  ASSUME SchemaInv, NEW ks, SetKeys(ks), \A k \in ks : LegalKey(k) /\ k.column # "target_id"
  PROVE  SchemaInv'
<1>1. /\ db'.rows = db.rows /\ db' = [rows |-> db'.rows, keys |-> db'.keys]
      /\ db'.keys = {k \in db.keys : \A n \in ks : <<k.from, k.column>> # <<n.from, n.column>>} \cup ks
  BY DEF SetKeys, SchemaInv, KeptRow
<1>2. \A k \in ks : k.from \in db.rows /\ k.to \in db.rows
  BY DEF SetKeys
<1>3. ~Dangling(db')
  BY <1>1, <1>2 DEF SchemaInv, Dangling
<1>4. \A k \in db'.keys : k.from \in db'.rows /\ LegalKey(k)
  BY <1>1, <1>2 DEF SchemaInv, KeptRow
<1>5. \A r \in db'.rows : r[1] \in Owned => \E k \in db'.keys : k.from = r /\ k.column = "target_id"
  <2> SUFFICES ASSUME NEW r \in db.rows, r[1] \in Owned
               PROVE  \E k \in db'.keys : k.from = r /\ k.column = "target_id"
    BY <1>1
  <2>1. PICK k \in db.keys : k.from = r /\ k.column = "target_id"
    BY DEF SchemaInv, KeptRow
  <2>2. k \in db'.keys
    BY <1>1, <2>1
  <2> QED  BY <2>1, <2>2
<1>6. KeptRow(db')
  BY <1>1, <1>4, <1>5 DEF KeptRow, SchemaInv
<1> QED  BY <1>3, <1>6 DEF SchemaInv

\* Whatever refers to what a statement deletes is cleared or goes too.
GoesToo(d, s) ==
  \A k \in d.keys \ s.clears : k.to \in Cascade(d, s.gone) => k.from \in Cascade(d, s.gone)

\* Such a statement is not refused.
LEMMA NotRefused ==
  ASSUME NEW d, ~Dangling(d), NEW s, GoesToo(d, s)
  PROVE  /\ Execute(d, s) = Effect(d, s) /\ ~Dangling(Effect(d, s))
         /\ Effect(d, s).rows = d.rows \ Cascade(d, s.gone)
         /\ Effect(d, s).keys = {k \in d.keys \ s.clears : k.from \notin Cascade(d, s.gone)}
<1> DEFINE gone == Cascade(d, s.gone)
           e == [rows |-> d.rows \ gone, keys |-> {k \in d.keys \ s.clears : k.from \notin gone}]
<1>1. Effect(d, s) = e /\ Execute(d, s) = Effect(d, s)
  BY DEF Effect, Execute
<1>2. e.rows = d.rows \ gone /\ e.keys = {k \in d.keys \ s.clears : k.from \notin gone}
  OBVIOUS
<1> HIDE DEF gone, e
<1>3. ~Dangling(e)
  BY <1>2 DEF Dangling, gone, GoesToo
<1> QED  BY <1>1, <1>2, <1>3 DEF gone

\* A row with its references.
LEMMA KeysOfRows ==
  /\ \A t \in Tables : Row(t) \in AllRows /\ Row(t)[1] = t
  /\ \A t \in Templates : Template(t) \in AllRows /\ Template(t)[1] = "templates"
  /\ \A table, column, parent :
       /\ Refers(table, column, parent).from = Row(table) /\ Refers(table, column, parent).column = column
       /\ Refers(table, column, parent).to[1] = parent /\ Row(table)[1] = table
  /\ \A table : \A k \in SomeTemplate(table) :
       k.from = Row(table) /\ k.column = "template_id" /\ k.to[1] = "templates"
BY DEF Row, Template, AllRows, Refers, Key, SomeTemplate

\* A reference to one of the tables that no deletion clears away is legal.
LEMMA RefersAreLegal ==
  /\ \A table, column, parent :
       parent \in {"users", "auth_sources", "targets", "template_builds", "template_families",
                  "deployments", "bulk_deployments", "templates"}
         => LegalKey(Refers(table, column, parent))
  /\ \A table : table \in {"vm_snapshots", "vm_credentials"} =>
       \A column : LegalKey(Refers(table, column, "managed_vms"))
  /\ LegalKey(Refers("action_executions", "vm_id", "managed_vms"))
  /\ \A table : table \in {"action_executions", "deployment_actions", "action_versions"} =>
       LegalKey(Refers(table, "action_id", "actions"))
  /\ \A table : \A k \in SomeTemplate(table) : LegalKey(k)
<1>1. \A table, column, parent : Refers(table, column, parent).from[1] = table
  BY DEF Refers, Key, Row
<1> QED  BY <1>1, KeysOfRows DEF LegalKey

LEMMA InsertSteps ==
  ASSUME SchemaInv,
         \/ CreateUserRow \/ SetUserPreference \/ CreateAuthSource \/ CreateAPIKey \/ CreateNotification
         \/ CreateTarget \/ IgnoreVMs \/ CreateTemplateSource \/ CreateTemplate \/ GetOrCreateFamilyByOS
         \/ CreateBuildRow \/ CreateTemplateSchedule \/ CreateBulkDeployment \/ CreateDeployment
         \/ CreateDeploymentWithBulk \/ AddDeploymentLog \/ CreateManagedVM \/ CreateVMSnapshot
         \/ SetVMCredentials \/ CreateBlueprint \/ CreateActionRow \/ AddActionVersion
         \/ SetDeploymentActions \/ CreateExecution
  PROVE  SchemaInv'
<1>1. CASE CreateUserRow
  <2> DEFINE needs == {}
             may == {Refers("users", "auth_source_id", "auth_sources")}
  <2>1. Insert(Row("users"), needs, may)
    BY <1>1 DEF CreateUserRow
  <2>2. \A k \in needs \cup may : k.from = Row("users") /\ LegalKey(k)
    BY KeysOfRows, RefersAreLegal DEF Target, Creator
  <2>3. Row("users") \in AllRows /\ Row("users")[1] = "users"
    BY KeysOfRows DEF Tables
  <2> HIDE DEF needs, may
  <2> QED  BY <2>1, <2>2, <2>3, InsertKeeps DEF Owned
<1>2. CASE SetUserPreference
  <2> DEFINE needs == {Refers("user_preferences", "user_id", "users")}
             may == {}
  <2>1. Insert(Row("user_preferences"), needs, may)
    BY <1>2 DEF SetUserPreference
  <2>2. \A k \in needs \cup may : k.from = Row("user_preferences") /\ LegalKey(k)
    BY KeysOfRows, RefersAreLegal DEF Target, Creator
  <2>3. Row("user_preferences") \in AllRows /\ Row("user_preferences")[1] = "user_preferences"
    BY KeysOfRows DEF Tables
  <2> HIDE DEF needs, may
  <2> QED  BY <2>1, <2>2, <2>3, InsertKeeps DEF Owned
<1>3. CASE CreateAuthSource
  <2> DEFINE needs == {}
             may == {}
  <2>1. Insert(Row("auth_sources"), needs, may)
    BY <1>3 DEF CreateAuthSource
  <2>2. \A k \in needs \cup may : k.from = Row("auth_sources") /\ LegalKey(k)
    BY KeysOfRows, RefersAreLegal DEF Target, Creator
  <2>3. Row("auth_sources") \in AllRows /\ Row("auth_sources")[1] = "auth_sources"
    BY KeysOfRows DEF Tables
  <2> HIDE DEF needs, may
  <2> QED  BY <2>1, <2>2, <2>3, InsertKeeps DEF Owned
<1>4. CASE CreateAPIKey
  <2> DEFINE needs == {Refers("api_keys", "user_id", "users")}
             may == {}
  <2>1. Insert(Row("api_keys"), needs, may)
    BY <1>4 DEF CreateAPIKey
  <2>2. \A k \in needs \cup may : k.from = Row("api_keys") /\ LegalKey(k)
    BY KeysOfRows, RefersAreLegal DEF Target, Creator
  <2>3. Row("api_keys") \in AllRows /\ Row("api_keys")[1] = "api_keys"
    BY KeysOfRows DEF Tables
  <2> HIDE DEF needs, may
  <2> QED  BY <2>1, <2>2, <2>3, InsertKeeps DEF Owned
<1>5. CASE CreateNotification
  <2> DEFINE needs == {}
             may == {Refers("notifications", "user_id", "users")}
  <2>1. Insert(Row("notifications"), needs, may)
    BY <1>5 DEF CreateNotification
  <2>2. \A k \in needs \cup may : k.from = Row("notifications") /\ LegalKey(k)
    BY KeysOfRows, RefersAreLegal DEF Target, Creator
  <2>3. Row("notifications") \in AllRows /\ Row("notifications")[1] = "notifications"
    BY KeysOfRows DEF Tables
  <2> HIDE DEF needs, may
  <2> QED  BY <2>1, <2>2, <2>3, InsertKeeps DEF Owned
<1>6. CASE CreateTarget
  <2> DEFINE needs == {}
             may == {}
  <2>1. Insert(Row("targets"), needs, may)
    BY <1>6 DEF CreateTarget
  <2>2. \A k \in needs \cup may : k.from = Row("targets") /\ LegalKey(k)
    BY KeysOfRows, RefersAreLegal DEF Target, Creator
  <2>3. Row("targets") \in AllRows /\ Row("targets")[1] = "targets"
    BY KeysOfRows DEF Tables
  <2> HIDE DEF needs, may
  <2> QED  BY <2>1, <2>2, <2>3, InsertKeeps DEF Owned
<1>7. CASE IgnoreVMs
  <2> DEFINE needs == Target("target_ignored_vms")
             may == {}
  <2>1. Insert(Row("target_ignored_vms"), needs, may)
    BY <1>7 DEF IgnoreVMs
  <2>2. \A k \in needs \cup may : k.from = Row("target_ignored_vms") /\ LegalKey(k)
    BY KeysOfRows, RefersAreLegal DEF Target, Creator
  <2>3. Row("target_ignored_vms") \in AllRows /\ Row("target_ignored_vms")[1] = "target_ignored_vms"
    BY KeysOfRows DEF Tables
  <2> HIDE DEF needs, may
  <2> QED  BY <2>1, <2>2, <2>3, InsertKeeps DEF Owned
<1>8. CASE CreateTemplateSource
  <2> DEFINE needs == {}
             may == Target("template_sources")
  <2>1. Insert(Row("template_sources"), needs, may)
    BY <1>8 DEF CreateTemplateSource
  <2>2. \A k \in needs \cup may : k.from = Row("template_sources") /\ LegalKey(k)
    BY KeysOfRows, RefersAreLegal DEF Target, Creator
  <2>3. Row("template_sources") \in AllRows /\ Row("template_sources")[1] = "template_sources"
    BY KeysOfRows DEF Tables
  <2> HIDE DEF needs, may
  <2> QED  BY <2>1, <2>2, <2>3, InsertKeeps DEF Owned
<1>9. CASE GetOrCreateFamilyByOS
  <2> DEFINE needs == Target("template_families")
             may == {}
  <2>1. Insert(Row("template_families"), needs, may)
    BY <1>9 DEF GetOrCreateFamilyByOS
  <2>2. \A k \in needs \cup may : k.from = Row("template_families") /\ LegalKey(k)
    BY KeysOfRows, RefersAreLegal DEF Target, Creator
  <2>3. Row("template_families") \in AllRows /\ Row("template_families")[1] = "template_families"
    BY KeysOfRows DEF Tables
  <2> HIDE DEF needs, may
  <2> QED  BY <2>1, <2>2, <2>3, InsertKeeps DEF Owned
<1>10. CASE CreateBuildRow
  <2> DEFINE needs == Target("template_builds")
             may == Creator("template_builds")
  <2>1. Insert(Row("template_builds"), needs, may)
    BY <1>10 DEF CreateBuildRow
  <2>2. \A k \in needs \cup may : k.from = Row("template_builds") /\ LegalKey(k)
    BY KeysOfRows, RefersAreLegal DEF Target, Creator
  <2>3. Row("template_builds") \in AllRows /\ Row("template_builds")[1] = "template_builds"
    BY KeysOfRows DEF Tables
  <2>4. \E k \in needs : k.column = "target_id"
    BY KeysOfRows DEF Target
  <2> HIDE DEF needs, may
  <2> QED  BY <2>1, <2>2, <2>3, <2>4, InsertKeeps DEF Owned
<1>11. CASE CreateBulkDeployment
  <2> DEFINE needs == {}
             may == Creator("bulk_deployments")
  <2>1. Insert(Row("bulk_deployments"), needs, may)
    BY <1>11 DEF CreateBulkDeployment
  <2>2. \A k \in needs \cup may : k.from = Row("bulk_deployments") /\ LegalKey(k)
    BY KeysOfRows, RefersAreLegal DEF Target, Creator
  <2>3. Row("bulk_deployments") \in AllRows /\ Row("bulk_deployments")[1] = "bulk_deployments"
    BY KeysOfRows DEF Tables
  <2> HIDE DEF needs, may
  <2> QED  BY <2>1, <2>2, <2>3, InsertKeeps DEF Owned
<1>12. CASE AddDeploymentLog
  <2> DEFINE needs == {Refers("deployment_logs", "deployment_id", "deployments")}
             may == {}
  <2>1. Insert(Row("deployment_logs"), needs, may)
    BY <1>12 DEF AddDeploymentLog
  <2>2. \A k \in needs \cup may : k.from = Row("deployment_logs") /\ LegalKey(k)
    BY KeysOfRows, RefersAreLegal DEF Target, Creator
  <2>3. Row("deployment_logs") \in AllRows /\ Row("deployment_logs")[1] = "deployment_logs"
    BY KeysOfRows DEF Tables
  <2> HIDE DEF needs, may
  <2> QED  BY <2>1, <2>2, <2>3, InsertKeeps DEF Owned
<1>13. CASE CreateManagedVM
  <2> DEFINE needs == Target("managed_vms")
             may == {Refers("managed_vms", "deployment_id", "deployments")}
  <2>1. Insert(Row("managed_vms"), needs, may)
    BY <1>13 DEF CreateManagedVM
  <2>2. \A k \in needs \cup may : k.from = Row("managed_vms") /\ LegalKey(k)
    BY KeysOfRows, RefersAreLegal DEF Target, Creator
  <2>3. Row("managed_vms") \in AllRows /\ Row("managed_vms")[1] = "managed_vms"
    BY KeysOfRows DEF Tables
  <2>4. \E k \in needs : k.column = "target_id"
    BY KeysOfRows DEF Target
  <2> HIDE DEF needs, may
  <2> QED  BY <2>1, <2>2, <2>3, <2>4, InsertKeeps DEF Owned
<1>14. CASE CreateVMSnapshot
  <2> DEFINE needs == {Refers("vm_snapshots", "vm_id", "managed_vms")}
             may == {}
  <2>1. Insert(Row("vm_snapshots"), needs, may)
    BY <1>14 DEF CreateVMSnapshot
  <2>2. \A k \in needs \cup may : k.from = Row("vm_snapshots") /\ LegalKey(k)
    BY KeysOfRows, RefersAreLegal DEF Target, Creator
  <2>3. Row("vm_snapshots") \in AllRows /\ Row("vm_snapshots")[1] = "vm_snapshots"
    BY KeysOfRows DEF Tables
  <2> HIDE DEF needs, may
  <2> QED  BY <2>1, <2>2, <2>3, InsertKeeps DEF Owned
<1>15. CASE SetVMCredentials
  <2> DEFINE needs == {Refers("vm_credentials", "vm_id", "managed_vms")}
             may == {}
  <2>1. Insert(Row("vm_credentials"), needs, may)
    BY <1>15 DEF SetVMCredentials
  <2>2. \A k \in needs \cup may : k.from = Row("vm_credentials") /\ LegalKey(k)
    BY KeysOfRows, RefersAreLegal DEF Target, Creator
  <2>3. Row("vm_credentials") \in AllRows /\ Row("vm_credentials")[1] = "vm_credentials"
    BY KeysOfRows DEF Tables
  <2> HIDE DEF needs, may
  <2> QED  BY <2>1, <2>2, <2>3, InsertKeeps DEF Owned
<1>16. CASE CreateBlueprint
  <2> DEFINE needs == {}
             may == SomeTemplate("blueprints") \cup Target("blueprints") \cup Creator("blueprints")
  <2>1. Insert(Row("blueprints"), needs, may)
    BY <1>16 DEF CreateBlueprint
  <2>2. \A k \in needs \cup may : k.from = Row("blueprints") /\ LegalKey(k)
    BY KeysOfRows, RefersAreLegal DEF Target, Creator
  <2>3. Row("blueprints") \in AllRows /\ Row("blueprints")[1] = "blueprints"
    BY KeysOfRows DEF Tables
  <2> HIDE DEF needs, may
  <2> QED  BY <2>1, <2>2, <2>3, InsertKeeps DEF Owned
<1>17. CASE CreateActionRow
  <2> DEFINE needs == {}
             may == {}
  <2>1. Insert(Row("actions"), needs, may)
    BY <1>17 DEF CreateActionRow
  <2>2. \A k \in needs \cup may : k.from = Row("actions") /\ LegalKey(k)
    BY KeysOfRows, RefersAreLegal DEF Target, Creator
  <2>3. Row("actions") \in AllRows /\ Row("actions")[1] = "actions"
    BY KeysOfRows DEF Tables
  <2> HIDE DEF needs, may
  <2> QED  BY <2>1, <2>2, <2>3, InsertKeeps DEF Owned
<1>18. CASE AddActionVersion
  <2> DEFINE needs == {Refers("action_versions", "action_id", "actions")}
             may == {Refers("action_versions", "changed_by", "users")}
  <2>1. Insert(Row("action_versions"), needs, may)
    BY <1>18 DEF AddActionVersion
  <2>2. \A k \in needs \cup may : k.from = Row("action_versions") /\ LegalKey(k)
    BY KeysOfRows, RefersAreLegal DEF Target, Creator
  <2>3. Row("action_versions") \in AllRows /\ Row("action_versions")[1] = "action_versions"
    BY KeysOfRows DEF Tables
  <2> HIDE DEF needs, may
  <2> QED  BY <2>1, <2>2, <2>3, InsertKeeps DEF Owned
<1>19. CASE SetDeploymentActions
  <2> DEFINE needs == {Refers("deployment_actions", "deployment_id", "deployments"), Refers("deployment_actions", "action_id", "actions")}
             may == {}
  <2>1. Insert(Row("deployment_actions"), needs, may)
    BY <1>19 DEF SetDeploymentActions
  <2>2. \A k \in needs \cup may : k.from = Row("deployment_actions") /\ LegalKey(k)
    BY KeysOfRows, RefersAreLegal DEF Target, Creator
  <2>3. Row("deployment_actions") \in AllRows /\ Row("deployment_actions")[1] = "deployment_actions"
    BY KeysOfRows DEF Tables
  <2> HIDE DEF needs, may
  <2> QED  BY <2>1, <2>2, <2>3, InsertKeeps DEF Owned
<1>20. CASE CreateExecution
  <2> DEFINE needs == {Refers("action_executions", "vm_id", "managed_vms"), Refers("action_executions", "created_by", "users")}
             may == {Refers("action_executions", "action_id", "actions")}
  <2>1. Insert(Row("action_executions"), needs, may)
    BY <1>20 DEF CreateExecution
  <2>2. \A k \in needs \cup may : k.from = Row("action_executions") /\ LegalKey(k)
    BY KeysOfRows, RefersAreLegal DEF Target, Creator
  <2>3. Row("action_executions") \in AllRows /\ Row("action_executions")[1] = "action_executions"
    BY KeysOfRows DEF Tables
  <2> HIDE DEF needs, may
  <2> QED  BY <2>1, <2>2, <2>3, InsertKeeps DEF Owned
<1>21. CASE CreateTemplateSchedule
  <2>0. PICK x \in SomeTemplate("template_schedules") : Insert(Row("template_schedules"), {x}, {})
    BY <1>21 DEF CreateTemplateSchedule
  <2> DEFINE needs == {x}
             may == {}
  <2>1. Insert(Row("template_schedules"), needs, may)
    BY <2>0
  <2>2. \A k \in needs \cup may : k.from = Row("template_schedules") /\ LegalKey(k)
    BY KeysOfRows, RefersAreLegal DEF Target, Creator
  <2>3. Row("template_schedules") \in AllRows /\ Row("template_schedules")[1] = "template_schedules"
    BY KeysOfRows DEF Tables
  <2> HIDE DEF needs, may
  <2> QED  BY <2>1, <2>2, <2>3, InsertKeeps DEF Owned
<1>22. CASE CreateDeployment
  <2>0. PICK x \in SomeTemplate("deployments") : Insert(Row("deployments"), {x} \cup Target("deployments"), Creator("deployments"))
    BY <1>22 DEF CreateDeployment
  <2> DEFINE needs == {x} \cup Target("deployments")
             may == Creator("deployments")
  <2>1. Insert(Row("deployments"), needs, may)
    BY <2>0
  <2>2. \A k \in needs \cup may : k.from = Row("deployments") /\ LegalKey(k)
    BY KeysOfRows, RefersAreLegal DEF Target, Creator
  <2>3. Row("deployments") \in AllRows /\ Row("deployments")[1] = "deployments"
    BY KeysOfRows DEF Tables
  <2>4. \E k \in needs : k.column = "target_id"
    BY KeysOfRows DEF Target
  <2> HIDE DEF needs, may
  <2> QED  BY <2>1, <2>2, <2>3, <2>4, InsertKeeps DEF Owned
<1>23. CASE CreateDeploymentWithBulk
  <2>0. PICK x \in SomeTemplate("deployments") : Insert(Row("deployments"), {x, Refers("deployments", "bulk_deployment_id", "bulk_deployments")} \cup Target("deployments"), Creator("deployments"))
    BY <1>23 DEF CreateDeploymentWithBulk
  <2> DEFINE needs == {x, Refers("deployments", "bulk_deployment_id", "bulk_deployments")} \cup Target("deployments")
             may == Creator("deployments")
  <2>1. Insert(Row("deployments"), needs, may)
    BY <2>0
  <2>2. \A k \in needs \cup may : k.from = Row("deployments") /\ LegalKey(k)
    BY KeysOfRows, RefersAreLegal DEF Target, Creator
  <2>3. Row("deployments") \in AllRows /\ Row("deployments")[1] = "deployments"
    BY KeysOfRows DEF Tables
  <2>4. \E k \in needs : k.column = "target_id"
    BY KeysOfRows DEF Target
  <2> HIDE DEF needs, may
  <2> QED  BY <2>1, <2>2, <2>3, <2>4, InsertKeeps DEF Owned
<1>24. CASE CreateTemplate
  <2>0. PICK t \in Templates :
          Insert(Template(t), {Key(Template(t), "target_id", Row("targets"))}, {})
    BY <1>24 DEF CreateTemplate
  <2> DEFINE needs == {Key(Template(t), "target_id", Row("targets"))}
  <2>1. Insert(Template(t), needs, {})
    BY <2>0
  <2>2. \A k \in needs : k.from = Template(t) /\ k.to[1] = "targets" /\ k.column = "target_id"
    BY DEF Key, Row
  <2>3. \A k \in needs \cup {} : k.from = Template(t) /\ LegalKey(k)
    BY <2>2 DEF LegalKey
  <2>4. \E k \in needs : k.column = "target_id"
    BY <2>2
  <2>5. Template(t) \in AllRows
    BY KeysOfRows
  <2> HIDE DEF needs
  <2> QED  BY <2>1, <2>3, <2>4, <2>5, InsertKeeps
<1> QED  BY <1>1, <1>2, <1>3, <1>4, <1>5, <1>6, <1>7, <1>8, <1>9, <1>10, <1>11, <1>12, <1>13, <1>14, <1>15, <1>16, <1>17, <1>18, <1>19, <1>20, <1>21, <1>22, <1>23, <1>24

\* References that are set later are legal, and none is the target of a row.
LEMMA LinkSteps ==
  ASSUME SchemaInv, LinkBuildToTemplate \/ JoinFamily \/ SupersedeTemplate
  PROVE  SchemaInv'
<1>0. ASSUME NEW from, NEW column, NEW to, to[1] \in {"templates", "template_builds", "template_families"}
      PROVE  LegalKey(Key(from, column, to)) /\ Key(from, column, to).column = column
  BY <1>0 DEF LegalKey, Key
<1>1. CASE LinkBuildToTemplate
  <2>1. PICK t \in Templates :
          SetKeys({Key(Template(t), "build_id", Row("template_builds")),
                   Key(Row("template_builds"), "template_id", Template(t))})
    BY <1>1 DEF LinkBuildToTemplate
  <2> DEFINE ks == {Key(Template(t), "build_id", Row("template_builds")),
                    Key(Row("template_builds"), "template_id", Template(t))}
  <2>2. \A k \in ks : LegalKey(k) /\ k.column # "target_id"
    <3>1. Row("template_builds")[1] = "template_builds" /\ Template(t)[1] = "templates"
      BY DEF Row, Template
    <3> QED  BY <1>0, <3>1
  <2>3. SetKeys(ks)
    BY <2>1
  <2> HIDE DEF ks
  <2> QED  BY <2>2, <2>3, SetKeysKeeps
<1>2. CASE JoinFamily
  <2>1. PICK t \in Templates : SetKeys({Key(Template(t), "family_id", Row("template_families"))})
    BY <1>2 DEF JoinFamily
  <2> DEFINE ks == {Key(Template(t), "family_id", Row("template_families"))}
  <2>2. \A k \in ks : LegalKey(k) /\ k.column # "target_id"
    <3>1. Row("template_families")[1] = "template_families"
      BY DEF Row
    <3> QED  BY <1>0, <3>1
  <2>3. SetKeys(ks)
    BY <2>1
  <2> HIDE DEF ks
  <2> QED  BY <2>2, <2>3, SetKeysKeeps
<1>3. CASE SupersedeTemplate
  <2>1. PICK old \in Templates, new \in Templates :
          SetKeys({Key(Template(old), "superseded_by", Template(new))})
    BY <1>3 DEF SupersedeTemplate
  <2> DEFINE ks == {Key(Template(old), "superseded_by", Template(new))}
  <2>2. \A k \in ks : LegalKey(k) /\ k.column # "target_id"
    <3>1. Template(new)[1] = "templates"
      BY DEF Template
    <3> QED  BY <1>0, <3>1
  <2>3. SetKeys(ks)
    BY <2>1
  <2> HIDE DEF ks
  <2> QED  BY <2>2, <2>3, SetKeysKeeps
<1> QED  BY <1>1, <1>2, <1>3

\* Statements that delete rows there are, or clear references other than targets.
LEMMA StatementsAre ==
  ASSUME SchemaInv
  PROVE  /\ \A gone \in SUBSET AllRows : DeleteRows(gone) \in Statements
         /\ \A clears \in SUBSET Clearable : Statement({}, clears) \in Statements
         /\ \A table, column, parents : From(table, column, parents) \in SUBSET AllRows
         /\ \A table \in Tables : {Row(table)} \in SUBSET AllRows
         /\ \A t \in Templates : {Template(t)} \in SUBSET AllRows
         /\ \A column, parents : column # "target_id" => Referring(column, parents) \in SUBSET Clearable
<1>1. \A table, column, parents : From(table, column, parents) \in SUBSET AllRows
  BY DEF From, SchemaInv, KeptRow
<1>2. \A column, parents : column # "target_id" => Referring(column, parents) \in SUBSET Clearable
  BY DEF Referring, Clearable
<1>3. \A gone \in SUBSET AllRows, clears \in SUBSET Clearable : Statement(gone, clears) \in Statements
  BY DEF Statement, Statements
<1>4. {} \in SUBSET AllRows /\ {} \in SUBSET Clearable
  OBVIOUS
<1> QED  BY <1>1, <1>2, <1>3, <1>4, KeysOfRows DEF DeleteRows

LEMMA TransactionsAre ==
  ASSUME SchemaInv
  PROVE  /\ DeleteTargetTx \in Seq(Statements) /\ ClearDeploymentHistoryTx \in Seq(Statements)
         /\ DeleteManagedVMTx \in Seq(Statements) /\ DeleteActionTx \in Seq(Statements)
         /\ \A t \in Templates, keepVMs \in BOOLEAN : DeleteTemplateTx(t, keepVMs) \in Seq(Statements)
         /\ \A t \in Templates : DeleteSupersededTx(t) \in Seq(Statements)
         /\ \A table \in Leaves : DeleteOneTx(table) \in Seq(Statements)
<1>0. {"targets", "deployments", "managed_vms", "actions"} \subseteq Tables /\ Leaves \subseteq Tables
  BY DEF Tables, Leaves
<1>1. DeleteTargetTx \in Seq(Statements)
  <2>1. /\ DeleteRows(ExecutionsOn(OnTarget("managed_vms"))) \in Statements
        /\ DeleteRows(OnTarget("managed_vms")) \in Statements
        /\ DeleteRows(From("deployment_actions", "deployment_id", OnTarget("deployments"))) \in Statements
        /\ DeleteRows(OnTarget("deployments")) \in Statements
        /\ DeleteRows(From("template_schedules", "template_id", OnTarget("templates"))) \in Statements
        /\ DeleteRows(OnTarget("templates")) \in Statements
        /\ DeleteRows(OnTarget("template_builds")) \in Statements
        /\ DeleteRows({Row("targets")}) \in Statements
    BY <1>0, StatementsAre DEF OnTarget, ExecutionsOn
  <2> HIDE <1>0
  <2> QED  BY <2>1 DEF DeleteTargetTx
<1>2. ClearDeploymentHistoryTx \in Seq(Statements)
  <2> DEFINE over == db.rows \cap {Row("deployments")}
  <2>1. over \in SUBSET AllRows
    BY DEF SchemaInv, KeptRow
  <2> HIDE DEF over
  <2>2. /\ DeleteRows(From("deployment_logs", "deployment_id", over)) \in Statements
        /\ DeleteRows(From("deployment_actions", "deployment_id", over)) \in Statements
        /\ DeleteRows(over) \in Statements
    BY <2>1, StatementsAre
  <2>3. ClearDeploymentHistoryTx = << DeleteRows(From("deployment_logs", "deployment_id", over)),
          DeleteRows(From("deployment_actions", "deployment_id", over)), DeleteRows(over) >>
    BY DEF ClearDeploymentHistoryTx, over
  <2> QED  BY <2>2, <2>3
<1>3. DeleteManagedVMTx \in Seq(Statements)
  <2>1. /\ DeleteRows(ExecutionsOn({Row("managed_vms")})) \in Statements
        /\ DeleteRows({Row("managed_vms")}) \in Statements
    BY <1>0, StatementsAre DEF ExecutionsOn
  <2> QED  BY <2>1 DEF DeleteManagedVMTx
<1>4. DeleteActionTx \in Seq(Statements)
  <2> DEFINE cleared == {k \in Referring("action_id", {Row("actions")}) : k.from[1] = "action_executions"}
  <2>1. Referring("action_id", {Row("actions")}) \in SUBSET Clearable
    BY StatementsAre
  <2>2. cleared \in SUBSET Clearable
    BY <2>1
  <2> HIDE DEF cleared
  <2>3. /\ Statement({}, cleared) \in Statements
        /\ DeleteRows(From("deployment_actions", "action_id", {Row("actions")})) \in Statements
        /\ DeleteRows({Row("actions")}) \in Statements
    BY <1>0, <2>2, StatementsAre
  <2>4. DeleteActionTx = << Statement({}, cleared),
          DeleteRows(From("deployment_actions", "action_id", {Row("actions")})), DeleteRows({Row("actions")}) >>
    BY DEF DeleteActionTx, cleared
  <2> QED  BY <2>3, <2>4
<1>5. ASSUME NEW t \in Templates, NEW keepVMs \in BOOLEAN
      PROVE  DeleteTemplateTx(t, keepVMs) \in Seq(Statements)
  <2> DEFINE cleared == {k \in Referring("template_id", {Template(t)}) : k.from[1] = "deployments"}
             vms == <<DeleteRows(ExecutionsOn(DeployedVMs(t))), DeleteRows(DeployedVMs(t))>>
             others == << DeleteRows(From("deployment_actions", "deployment_id", Deployed(t))),
               Statement({}, cleared),
               DeleteRows(From("template_schedules", "template_id", {Template(t)})),
               DeleteRows(From("template_builds", "template_id", {Template(t)})),
               Statement({}, Referring("superseded_by", {Template(t)})),
               DeleteRows({Template(t)}) >>
  <2>1. Referring("template_id", {Template(t)}) \in SUBSET Clearable
    BY StatementsAre
  <2>2. cleared \in SUBSET Clearable
    BY <2>1
  <2>3. vms \in Seq(Statements)
    <3>1. DeleteRows(ExecutionsOn(DeployedVMs(t))) \in Statements /\ DeleteRows(DeployedVMs(t)) \in Statements
      BY StatementsAre DEF ExecutionsOn, DeployedVMs
    <3> QED  BY <3>1
  <2>4. others \in Seq(Statements)
    <3> HIDE DEF cleared
    <3>1. /\ DeleteRows(From("deployment_actions", "deployment_id", Deployed(t))) \in Statements
          /\ Statement({}, cleared) \in Statements
          /\ DeleteRows(From("template_schedules", "template_id", {Template(t)})) \in Statements
          /\ DeleteRows(From("template_builds", "template_id", {Template(t)})) \in Statements
          /\ Statement({}, Referring("superseded_by", {Template(t)})) \in Statements
          /\ DeleteRows({Template(t)}) \in Statements
      BY <2>2, StatementsAre
    <3> QED  BY <3>1
  <2>5. DeleteTemplateTx(t, keepVMs) = (IF keepVMs THEN <<>> ELSE vms) \o others
    BY DEF DeleteTemplateTx
  <2>6. <<>> \in Seq(Statements)
    OBVIOUS
  <2> HIDE DEF vms, others
  <2> QED  BY <2>3, <2>4, <2>5, <2>6
<1>6. ASSUME NEW t \in Templates PROVE DeleteSupersededTx(t) \in Seq(Statements)
  <2>1. DeleteRows(From("templates", "superseded_by", {Template(t)})) \in Statements
    BY StatementsAre
  <2> QED  BY <2>1 DEF DeleteSupersededTx
<1>7. ASSUME NEW table \in Leaves PROVE DeleteOneTx(table) \in Seq(Statements)
  <2>1. DeleteRows({Row(table)}) \in Statements
    BY <1>0, StatementsAre
  <2> QED  BY <2>1 DEF DeleteOneTx
<1> QED  BY <1>1, <1>2, <1>3, <1>4, <1>5, <1>6, <1>7

LEMMA DeleteSteps ==
  ASSUME SchemaInv,
         \/ DeleteTarget \/ DeleteTemplate \/ ClearDeploymentHistory \/ DeleteManagedVM
         \/ RemoveAction \/ DeleteSupersededTemplates \/ DeleteOne
  PROVE  SchemaInv'
<1>1. ASSUME NEW t \in Seq(Statements), Commit(t) PROVE SchemaInv'
  BY <1>1, CommitStep DEF Commit
<1>2. CASE DeleteTarget
  BY <1>1, <1>2, TransactionsAre DEF DeleteTarget
<1>3. CASE DeleteTemplate
  BY <1>1, <1>3, TransactionsAre DEF DeleteTemplate
<1>4. CASE ClearDeploymentHistory
  BY <1>1, <1>4, TransactionsAre DEF ClearDeploymentHistory
<1>5. CASE DeleteManagedVM
  BY <1>1, <1>5, TransactionsAre DEF DeleteManagedVM
<1>6. CASE RemoveAction
  BY <1>1, <1>6, TransactionsAre DEF RemoveAction
<1>7. CASE DeleteSupersededTemplates
  BY <1>1, <1>7, TransactionsAre DEF DeleteSupersededTemplates
<1>8. CASE DeleteOne
  BY <1>1, <1>8, TransactionsAre DEF DeleteOne
<1> QED  BY <1>2, <1>3, <1>4, <1>5, <1>6, <1>7, <1>8

------------------------------------------------------------------------------
(* Deletions that are never refused *)

LEMMA RowsOf ==
  ASSUME SchemaInv, NEW k \in db.keys, k.from[1] \in Tables
  PROVE  k.from = Row(k.from[1])
<1>1. k.from \in AllRows
  BY DEF SchemaInv, KeptRow
<1>2. "templates" \notin Tables
  BY DEF Tables
<1> QED  BY <1>1, <1>2 DEF AllRows, Row, Template

\* Nothing refers to rows of a table that nothing may refer to.
LEMMA CascadeIs ==
  ASSUME NEW d, \A k \in d.keys : LegalKey(k), NEW gone,
         \A r \in gone : r[1] \in {"action_executions", "deployment_actions"}
  PROVE  Cascade(d, gone) = gone /\ \A k \in d.keys : k.to \notin gone
<1>1. \A k \in d.keys : k.to \notin gone
  BY DEF LegalKey
<1> QED  BY <1>1 DEF Cascade

LEMMA VMsAreDeleted ==
  ASSUME SchemaInv
  PROVE  ~Refused(DeleteManagedVMTx)
<1> DEFINE vm == Row("managed_vms")
           first == DeleteRows(ExecutionsOn({vm}))
           second == DeleteRows({vm})
           d == Effect(db, first)
<1>0. \A k \in db.keys : LegalKey(k) /\ k.from \in db.rows
  BY DEF SchemaInv, KeptRow
<1>1. first.gone = ExecutionsOn({vm}) /\ first.clears = {} /\ second.gone = {vm} /\ second.clears = {}
  BY DEF DeleteRows, Statement
<1>2. \A r \in ExecutionsOn({vm}) : r[1] = "action_executions"
  BY DEF ExecutionsOn, From
<1>3. Cascade(db, first.gone) = ExecutionsOn({vm}) /\ \A k \in db.keys : k.to \notin ExecutionsOn({vm})
  BY <1>0, <1>1, <1>2, CascadeIs
<1> HIDE DEF first, second
<1>4. /\ Execute(db, first) = d /\ ~Dangling(d)
      /\ d.keys = {k \in db.keys : k.from \notin ExecutionsOn({vm})}
  <2>1. GoesToo(db, first)
    BY <1>1, <1>3 DEF GoesToo
  <2>2. ~Dangling(db)
    BY DEF SchemaInv
  <2>3. d.keys = {k \in db.keys \ first.clears : k.from \notin Cascade(db, first.gone)}
        /\ Execute(db, first) = d /\ ~Dangling(d)
    BY <2>1, <2>2, NotRefused
  <2> HIDE DEF d
  <2> QED  BY <1>1, <1>3, <2>3
<1> HIDE DEF d
<1>5. \A k \in d.keys : k \in db.keys /\ LegalKey(k) /\ ~(k.from[1] = "action_executions" /\ k.column = "vm_id" /\ k.to = vm)
  BY <1>0, <1>4 DEF ExecutionsOn, From
<1>6. \A k \in d.keys : k.to \in Cascade(d, {vm}) => k.from \in Cascade(d, {vm})
  <2> SUFFICES ASSUME NEW k \in d.keys, k.to \in Cascade(d, {vm}) PROVE k.from \in Cascade(d, {vm})
    OBVIOUS
  <2>1. k.to = vm \/ \E x \in d.keys : x.to = vm /\ Cascading(x) /\ k.to = x.from
    BY DEF Cascade
  <2>2. \A x \in d.keys : x.to = vm => x.from[1] \in {"vm_snapshots", "vm_credentials"}
    BY <1>5 DEF LegalKey, Row
  <2>3. k.to = vm
    BY <1>5, <2>1, <2>2 DEF LegalKey
  <2>4. Cascading(k)
    BY <2>2, <2>3 DEF Cascading
  <2> QED  BY <2>3, <2>4 DEF Cascade
<1>7. ~Dangling(Execute(d, second))
  <2>1. GoesToo(d, second)
    BY <1>1, <1>6 DEF GoesToo
  <2> QED  BY <1>4, <2>1, NotRefused
<1>8. DeleteManagedVMTx = <<first, second>>
  BY DEF DeleteManagedVMTx, first, second
<1>9. PICK h : Runs(h, db, DeleteManagedVMTx, 2)
  <2>1. DOMAIN DeleteManagedVMTx = 1..2
    BY <1>8
  <2> QED  BY <2>1, FoldSteps
<1>10. After(DeleteManagedVMTx) = Execute(d, second)
  <2>1. h[1] = Execute(h[0], first) /\ h[2] = Execute(h[1], second)
    BY <1>8, <1>9 DEF Runs
  <2> QED  BY <1>4, <1>9, <2>1 DEF Runs, After
<1> QED  BY <1>7, <1>10 DEF Refused

LEMMA ActionsAreDeleted ==
  ASSUME SchemaInv
  PROVE  ~Refused(DeleteActionTx)
<1> DEFINE action == Row("actions")
           cleared == {k \in Referring("action_id", {action}) : k.from[1] = "action_executions"}
           using == From("deployment_actions", "action_id", {action})
           first == Statement({}, cleared)
           second == DeleteRows(using)
           third == DeleteRows({action})
           d == Effect(db, first)
           e == Effect(d, second)
<1>0. \A k \in db.keys : LegalKey(k)
  BY DEF SchemaInv, KeptRow
<1>1. /\ first.gone = {} /\ first.clears = cleared /\ second.gone = using /\ second.clears = {}
      /\ third.gone = {action} /\ third.clears = {}
  BY DEF DeleteRows, Statement
<1>2. ASSUME NEW k \in db.keys, k.to = action, k \notin cleared, k.from \notin using
      PROVE  k.from[1] = "action_versions" /\ k.column = "action_id"
  <2>1. k.from[1] \in {"action_executions", "deployment_actions", "action_versions"} /\ k.column = "action_id"
    BY <1>0, <1>2 DEF LegalKey, Row
  <2>2. k \in Referring("action_id", {action})
    BY <1>2, <2>1 DEF Referring
  <2>3. k.from[1] # "action_executions"
    BY <1>2, <2>2
  <2>4. k.from[1] # "deployment_actions"
    BY <1>2, <2>1 DEF From
  <2> QED  BY <2>1, <2>3, <2>4
<1>3. \A r \in using : r[1] = "deployment_actions"
  BY DEF From
<1> HIDE DEF first, second, third, using, cleared
<1>4. Execute(db, first) = d /\ ~Dangling(d) /\ d.keys = db.keys \ cleared
  <2>1. Cascade(db, {}) = {}
    BY DEF Cascade
  <2>2. GoesToo(db, first) /\ ~Dangling(db)
    BY <1>1, <2>1 DEF GoesToo, SchemaInv
  <2>3. d.keys = {k \in db.keys \ first.clears : k.from \notin Cascade(db, first.gone)}
        /\ Execute(db, first) = d /\ ~Dangling(d)
    BY <2>2, NotRefused
  <2> HIDE DEF d
  <2> QED  BY <1>1, <2>1, <2>3
<1> HIDE DEF d
<1>5. Cascade(d, using) = using /\ \A k \in d.keys : k.to \notin using
  BY <1>0, <1>3, <1>4, CascadeIs
<1>6. Execute(d, second) = e /\ ~Dangling(e) /\ e.keys = {k \in d.keys : k.from \notin using}
  <2>1. GoesToo(d, second)
    BY <1>1, <1>5 DEF GoesToo
  <2>2. e.keys = {k \in d.keys \ second.clears : k.from \notin Cascade(d, second.gone)}
        /\ Execute(d, second) = e /\ ~Dangling(e)
    BY <1>4, <2>1, NotRefused
  <2> HIDE DEF e
  <2> QED  BY <1>1, <1>5, <2>2
<1> HIDE DEF e
<1>7. \A k \in e.keys : /\ LegalKey(k)
                        /\ k.to = action => k.from[1] = "action_versions" /\ k.column = "action_id"
  BY <1>0, <1>2, <1>4, <1>6
<1>8. \A k \in e.keys : k.to \in Cascade(e, {action}) => k.from \in Cascade(e, {action})
  <2> SUFFICES ASSUME NEW k \in e.keys, k.to \in Cascade(e, {action}) PROVE k.from \in Cascade(e, {action})
    OBVIOUS
  <2>1. k.to = action \/ \E x \in e.keys : x.to = action /\ Cascading(x) /\ k.to = x.from
    BY DEF Cascade
  <2>2. k.to = action
    BY <1>7, <2>1 DEF LegalKey
  <2>3. Cascading(k)
    BY <1>7, <2>2 DEF Cascading
  <2> QED  BY <2>2, <2>3 DEF Cascade
<1>9. ~Dangling(Execute(e, third))
  <2>1. GoesToo(e, third)
    BY <1>1, <1>8 DEF GoesToo
  <2> QED  BY <1>6, <2>1, NotRefused
<1>10. DeleteActionTx = <<first, second, third>>
  BY DEF DeleteActionTx, first, second, third, cleared, using
<1>11. PICK h : Runs(h, db, DeleteActionTx, 3)
  <2>1. DOMAIN DeleteActionTx = 1..3
    BY <1>10
  <2> QED  BY <2>1, FoldSteps
<1>12. After(DeleteActionTx) = Execute(e, third)
  <2>1. h[1] = Execute(h[0], first) /\ h[2] = Execute(h[1], second) /\ h[3] = Execute(h[2], third)
    BY <1>10, <1>11 DEF Runs
  <2> QED  BY <1>4, <1>6, <1>11, <2>1 DEF Runs, After
<1> QED  BY <1>9, <1>12 DEF Refused

\* The inductive invariant of the database: its references are the ones the tables
\* allow, and every row that has a target keeps it.
THEOREM SchemaInvariant == SchemaSpec => []SchemaInv
<1>1. SchemaInit => SchemaInv
  <2>1. Row("users") \in AllRows /\ Row("users")[1] = "users"
    BY KeysOfRows DEF Tables
  <2> QED  BY <2>1 DEF SchemaInit, SchemaInv, KeptRow, Dangling, Owned
<1>2. SchemaInv /\ [SchemaNext]_schemaVars => SchemaInv'
  <2> SUFFICES ASSUME SchemaInv, [SchemaNext]_schemaVars PROVE SchemaInv'
    OBVIOUS
  <2>1. CASE UNCHANGED schemaVars
    BY <2>1 DEF schemaVars, SchemaInv
  <2>2. CASE SchemaNext
    BY <2>2, InsertSteps, LinkSteps, DeleteSteps DEF SchemaNext
  <2> QED  BY <2>1, <2>2
<1> QED  BY <1>1, <1>2, PTL DEF SchemaSpec

\* Every reference is between two rows, and a row has the target it cannot be without.
THEOREM SchemaTypes == SchemaSpec => []SchemaTypeOK
<1>1. SchemaInv => SchemaTypeOK
  BY DEF SchemaInv, KeptRow, Owned, SchemaTypeOK
<1> QED  BY <1>1, SchemaInvariant, PTL

\* A VM's record and a saved action can always be deleted.
THEOREM DeletionsGoThrough == SchemaSpec => []NeverRefused
<1>1. SchemaInv => NeverRefused
  BY VMsAreDeleted, ActionsAreDeleted DEF NeverRefused
<1> QED  BY <1>1, SchemaInvariant, PTL

------------------------------------------------------------------------------
(* What becomes of an announcement *)

RoundRows == [at : {"quiet", "hooks", "notes", "done", "lost"}, kind : {"owner", "admins"},
              addressed : SUBSET People, hooks : SUBSET Hooks, under : SUBSET Hooks]
NoteRows == [at : {"none", "unread", "read", "dismissed", "expired", "refused"}, age : 0..3, read : 0..1]

\* The notices of an announcement are written: before its requests, or after them.
PastNotes(r) == (r.kind = "owner" /\ r.at = "done") \/ (r.kind = "admins" /\ r.at \in {"hooks", "done"})

WithinPlaces(r) == IsFiniteSet(r.under) /\ Cardinality(r.under) <= Places
Informed(r, notes, there) ==
  PastNotes(r) => \A u \in r.addressed \intersect there : notes[u].at # "none"
InTime(rec) == rec.at = "expired" => rec.age = 3 \/ rec.read = 1

NoticesInv ==
  /\ staff \in [there : SUBSET People, admins : SUBSET People] /\ staff.admins \subseteq staff.there
  /\ hooks \in [Hooks -> [there : BOOLEAN, row : HookRows]]
  /\ touched \in 0..MaxEdits
  /\ round \in [Announcements -> RoundRows]
  /\ notice \in [Announcements -> [People -> NoteRows]]
  /\ \A a \in Announcements : WithinPlaces(round[a]) /\ Informed(round[a], notice[a], staff.there)
  /\ \A a \in Announcements, u \in People : InTime(notice[a][u])

LEMMA NoticesInvGives == NoticesInv => NoticesTypeOK /\ NoticesKept
<1> SUFFICES ASSUME NoticesInv PROVE NoticesTypeOK /\ NoticesKept
  OBVIOUS
<1> USE DEF NoticesInv
<1>1. NoticesTypeOK
  BY DEF NoticesTypeOK, RoundRows, NoteRows, WithinPlaces
<1>2. ASSUME NEW a \in Announcements, NEW u \in People
      PROVE  /\ round[a].at = "done" /\ u \in round[a].addressed \intersect staff.there
                  => notice[a][u].at # "none"
             /\ notice[a][u].at = "expired" => notice[a][u].age = 3 \/ notice[a][u].read = 1
  <2>1. round[a].kind \in {"owner", "admins"}
    BY DEF RoundRows
  <2> QED  BY <2>1 DEF Informed, PastNotes, InTime
<1> QED  BY <1>1, <1>2 DEF NoticesKept

LEMMA NoneUnderWay ==
  ASSUME NEW r, r.under = {}
  PROVE  WithinPlaces(r)
<1>1. IsFiniteSet({}) /\ Cardinality({}) = 0 /\ Places \in Nat
  BY NoticesAssumption, FS_EmptySet
<1>2. Cardinality(r.under) = 0 /\ IsFiniteSet(r.under)
  BY <1>1
<1> QED  BY <1>1, <1>2 DEF WithinPlaces

\* One announcement moves on.
LEMMA MoveKeeps ==
  ASSUME NoticesInv, NEW a \in Announcements, NEW r \in RoundRows, Move(a, r),
         WithinPlaces(r), Informed(r, notice[a], staff.there)
  PROVE  NoticesInv'
<1>1. round' = [round EXCEPT ![a] = r] /\ UNCHANGED <<staff, hooks, touched, notice>>
  BY DEF Move
<1> QED  BY <1>1 DEF NoticesInv

\* One announcement's requests: never more than the places there are.
LEMMA NoticeRequests ==
  ASSUME NoticesInv, NEW a \in Announcements,
         \/ \E u \in People : Announce(a, u)
         \/ EmitForAdmins(a) \/ Started(a) \/ Told(a)
         \/ \E w \in Hooks : StartSend(a, w) \/ SendEnds(a, w)
  PROVE  NoticesInv'
<1> USE DEF NoticesInv
<1>0. /\ round[a] \in RoundRows /\ WithinPlaces(round[a]) /\ Informed(round[a], notice[a], staff.there)
      /\ Places \in Nat /\ Subscribed \subseteq Hooks
      /\ Quiet \in RoundRows /\ Quiet.under = {}
  BY NoticesAssumption DEF Subscribed, RoundRows, Quiet
<1>1. CASE \E u \in People : Announce(a, u)
  <2> PICK u \in People : Announce(a, u)
    BY <1>1
  <2> DEFINE r == [Quiet EXCEPT !.at = "hooks", !.addressed = {u}, !.hooks = Subscribed]
  <2>1. r \in RoundRows /\ r.under = {} /\ r.at = "hooks" /\ r.kind = "owner"
    BY <1>0 DEF RoundRows, Quiet
  <2>2. Move(a, r)
    BY DEF Announce
  <2> HIDE DEF r
  <2>3. WithinPlaces(r)
    BY <2>1, NoneUnderWay
  <2> QED  BY <2>1, <2>2, <2>3, MoveKeeps DEF Informed, PastNotes
<1>2. CASE EmitForAdmins(a)
  <2> DEFINE r == [Quiet EXCEPT !.at = "notes", !.kind = "admins", !.addressed = staff.admins]
  <2>1. r \in RoundRows /\ r.under = {} /\ r.at = "notes"
    BY <1>0 DEF RoundRows, Quiet
  <2>2. Move(a, r)
    BY <1>2 DEF EmitForAdmins
  <2> HIDE DEF r
  <2>3. WithinPlaces(r)
    BY <2>1, NoneUnderWay
  <2> QED  BY <2>1, <2>2, <2>3, MoveKeeps DEF Informed, PastNotes
<1>3. CASE Started(a)
  <2> DEFINE at == IF round[a].kind = "owner" THEN "notes" ELSE "done"
             r == [round[a] EXCEPT !.at = at]
  <2>1. round[a].at = "hooks" /\ Move(a, r)
    BY <1>3 DEF Started
  <2>2. r \in RoundRows /\ r.under = round[a].under /\ r.at = at /\ r.kind = round[a].kind
        /\ r.addressed = round[a].addressed
    BY <1>0 DEF RoundRows
  <2>3. PastNotes(r) => PastNotes(round[a])
    BY <1>0, <2>1, <2>2 DEF PastNotes, RoundRows
  <2> HIDE DEF r, at
  <2> QED  BY <1>0, <2>1, <2>2, <2>3, MoveKeeps DEF WithinPlaces, Informed
<1>4. CASE Told(a)
  <2>1. PICK r \in RoundRows : Move(a, r) /\ r.under = round[a].under /\ r.addressed = round[a].addressed
    <3> DEFINE owner == [round[a] EXCEPT !.at = "done"]
               admins == [round[a] EXCEPT !.at = "hooks", !.hooks = Subscribed]
    <3>1. /\ owner \in RoundRows /\ owner.under = round[a].under /\ owner.addressed = round[a].addressed
          /\ admins \in RoundRows /\ admins.under = round[a].under /\ admins.addressed = round[a].addressed
      BY <1>0 DEF RoundRows
    <3>2. Move(a, owner) \/ Move(a, admins)
      BY <1>4 DEF Told
    <3> HIDE DEF owner, admins
    <3> QED  BY <3>1, <3>2
  <2>2. \A u \in round[a].addressed \intersect staff.there : notice[a][u].at # "none"
    BY <1>4 DEF Told, Untold
  <2> QED  BY <1>0, <2>1, <2>2, MoveKeeps DEF WithinPlaces, Informed
<1>5. CASE \E w \in Hooks : StartSend(a, w)
  <2> PICK w \in Hooks : StartSend(a, w)
    BY <1>5
  <2> DEFINE r == [round[a] EXCEPT !.hooks = round[a].hooks \ {w}, !.under = round[a].under \cup {w}]
  <2>1. Cardinality(round[a].under) < Places /\ Move(a, r)
    BY DEF StartSend
  <2>2. r \in RoundRows /\ r.under = round[a].under \cup {w} /\ r.at = round[a].at
        /\ r.kind = round[a].kind /\ r.addressed = round[a].addressed
    BY <1>0 DEF RoundRows
  <2>3. WithinPlaces(r)
    <3>1. IsFiniteSet(round[a].under) /\ Cardinality(round[a].under) \in Nat
      BY <1>0, FS_CardinalityType DEF WithinPlaces
    <3>2. /\ IsFiniteSet(round[a].under \cup {w})
          /\ Cardinality(round[a].under \cup {w}) =
               IF w \in round[a].under THEN Cardinality(round[a].under) ELSE Cardinality(round[a].under) + 1
      BY <3>1, FS_AddElement
    <3> QED  BY <1>0, <2>1, <2>2, <3>1, <3>2 DEF WithinPlaces
  <2> HIDE DEF r
  <2> QED  BY <1>0, <2>1, <2>2, <2>3, MoveKeeps DEF Informed, PastNotes
<1>6. CASE \E w \in Hooks : SendEnds(a, w)
  <2> PICK w \in Hooks : SendEnds(a, w)
    BY <1>6
  <2> DEFINE r == [round[a] EXCEPT !.under = round[a].under \ {w}]
  <2>1. Move(a, r)
    BY DEF SendEnds
  <2>2. r \in RoundRows /\ r.under = round[a].under \ {w} /\ r.at = round[a].at
        /\ r.kind = round[a].kind /\ r.addressed = round[a].addressed
    BY <1>0 DEF RoundRows
  <2>3. WithinPlaces(r)
    <3>1. IsFiniteSet(round[a].under) /\ round[a].under \ {w} \subseteq round[a].under
      BY <1>0 DEF WithinPlaces
    <3>2. IsFiniteSet(round[a].under \ {w}) /\ Cardinality(round[a].under \ {w}) <= Cardinality(round[a].under)
      BY <3>1, FS_Subset
    <3>3. Cardinality(round[a].under \ {w}) \in Nat /\ Cardinality(round[a].under) \in Nat
      BY <3>1, <3>2, FS_CardinalityType
    <3> QED  BY <1>0, <2>2, <3>2, <3>3 DEF WithinPlaces
  <2> HIDE DEF r
  <2> QED  BY <1>0, <2>1, <2>2, <2>3, MoveKeeps DEF Informed, PastNotes
<1> QED  BY <1>1, <1>2, <1>3, <1>4, <1>5, <1>6

\* Notices change, and none of them becomes one that was never written.
LEMMA NotesKeep ==
  ASSUME NoticesInv, UNCHANGED <<staff, hooks, touched, round>>,
         notice' \in [Announcements -> [People -> NoteRows]],
         \A a \in Announcements, u \in People :
           /\ notice'[a][u].at = "none" => notice[a][u].at = "none"
           /\ InTime(notice'[a][u])
  PROVE  NoticesInv'
<1>1. \A a \in Announcements : Informed(round[a], notice'[a], staff.there)
  BY DEF NoticesInv, Informed, RoundRows
<1> QED  BY <1>1 DEF NoticesInv

LEMMA OneNoteKeeps ==
  ASSUME NoticesInv, NEW a \in Announcements, NEW u \in People, NEW rec \in NoteRows,
         Note(a, u, rec), UNCHANGED <<staff, hooks, touched, round>>,
         rec.at # "none", InTime(rec)
  PROVE  NoticesInv'
<1>1. notice' = [notice EXCEPT ![a] = [notice[a] EXCEPT ![u] = rec]]
  BY DEF Note, NoticesInv
<1>2. notice' \in [Announcements -> [People -> NoteRows]]
  BY <1>1 DEF NoticesInv
<1>3. \A b \in Announcements, v \in People : notice'[b][v] \in {notice[b][v], rec}
  BY <1>1 DEF NoticesInv
<1> QED  BY <1>2, <1>3, NotesKeep DEF NoticesInv

LEMMA NoteSteps ==
  ASSUME NoticesInv,
         \/ PeriodPasses \/ DeleteOldReadNotifications
         \/ \E u \in People : MarkAllNotificationsRead(u)
         \/ \E a \in Announcements : InsertNotice(a)
         \/ \E a \in Announcements, u \in People : MarkNotificationRead(a, u) \/ DeleteNotification(a, u)
  PROVE  NoticesInv'
<1> USE DEF NoticesInv
<1>0. \A a \in Announcements, u \in People : notice[a][u] \in NoteRows
  OBVIOUS
<1>1. CASE PeriodPasses
  <2>1. ASSUME NEW a \in Announcements, NEW u \in People
        PROVE  /\ notice'[a][u] \in NoteRows /\ InTime(notice'[a][u])
               /\ notice'[a][u].at = notice[a][u].at
    <3> DEFINE rec == notice[a][u]
               age == IF rec.age < 3 THEN rec.age + 1 ELSE rec.age
               read == IF rec.at = "read" THEN 1 ELSE rec.read
    <3>1. notice'[a][u] = IF Kept(rec) THEN [rec EXCEPT !.age = age, !.read = read] ELSE rec
      BY <1>1 DEF PeriodPasses
    <3>2. rec \in NoteRows /\ InTime(rec)
      OBVIOUS
    <3>3. age \in 0..3 /\ read \in 0..1
      BY <3>2 DEF NoteRows
    <3> HIDE DEF rec, age, read
    <3> QED  BY <3>1, <3>2, <3>3 DEF NoteRows, InTime, Kept, rec
  <2>2. notice' \in [Announcements -> [People -> NoteRows]]
    BY <1>1, <2>1 DEF PeriodPasses
  <2> QED  BY <1>1, <2>1, <2>2, NotesKeep DEF PeriodPasses
<1>2. CASE DeleteOldReadNotifications
  <2>1. ASSUME NEW a \in Announcements, NEW u \in People
        PROVE  /\ notice'[a][u] \in NoteRows /\ InTime(notice'[a][u])
               /\ notice'[a][u].at = "none" => notice[a][u].at = "none"
    <3> DEFINE rec == notice[a][u]
    <3>1. notice'[a][u] = IF Old(rec) THEN [rec EXCEPT !.at = "expired"] ELSE rec
      BY <1>2 DEF DeleteOldReadNotifications
    <3>2. rec \in NoteRows /\ InTime(rec)
      OBVIOUS
    <3> HIDE DEF rec
    <3> QED  BY <3>1, <3>2 DEF NoteRows, InTime, Old, rec
  <2>2. notice' \in [Announcements -> [People -> NoteRows]]
    BY <1>2, <2>1 DEF DeleteOldReadNotifications
  <2> QED  BY <1>2, <2>1, <2>2, NotesKeep DEF DeleteOldReadNotifications
<1>3. CASE \E u \in People : MarkAllNotificationsRead(u)
  <2> PICK u \in People : MarkAllNotificationsRead(u)
    BY <1>3
  <2>1. ASSUME NEW a \in Announcements, NEW v \in People
        PROVE  /\ notice'[a][v] \in NoteRows /\ InTime(notice'[a][v])
               /\ notice'[a][v].at = "none" => notice[a][v].at = "none"
    <3>1. notice[a][v] \in NoteRows /\ InTime(notice[a][v])
      OBVIOUS
    <3>2. notice'[a][v] = IF v = u /\ notice[a][v].at = "unread" THEN [notice[a][v] EXCEPT !.at = "read"]
                          ELSE notice[a][v]
      BY DEF MarkAllNotificationsRead, Marked
    <3> QED  BY <3>1, <3>2 DEF NoteRows, InTime
  <2>2. notice' \in [Announcements -> [People -> NoteRows]]
    BY <2>1 DEF MarkAllNotificationsRead, Marked
  <2> QED  BY <2>1, <2>2, NotesKeep DEF MarkAllNotificationsRead
<1>4. CASE \E a \in Announcements : InsertNotice(a)
  <2>1. PICK a \in Announcements, u \in People, at \in {"unread", "refused"} :
          Note(a, u, [NoNotice EXCEPT !.at = at]) /\ UNCHANGED <<staff, hooks, touched, round>>
    BY <1>4 DEF InsertNotice, Untold, RoundRows
  <2> DEFINE rec == [NoNotice EXCEPT !.at = at]
  <2>2. rec \in NoteRows /\ rec.at # "none" /\ InTime(rec)
    BY DEF NoNotice, NoteRows, InTime
  <2> HIDE DEF rec
  <2> QED  BY <2>1, <2>2, OneNoteKeeps DEF rec
<1>5. CASE \E a \in Announcements, u \in People : MarkNotificationRead(a, u) \/ DeleteNotification(a, u)
  <2> PICK a \in Announcements, u \in People : MarkNotificationRead(a, u) \/ DeleteNotification(a, u)
    BY <1>5
  <2> DEFINE read == [notice[a][u] EXCEPT !.at = "read"]  gone == [NoNotice EXCEPT !.at = "dismissed"]
  <2>1. /\ read \in NoteRows /\ read.at # "none" /\ InTime(read)
        /\ gone \in NoteRows /\ gone.at # "none" /\ InTime(gone)
    <3>1. read \in NoteRows /\ read.at = "read"
      BY <1>0 DEF NoteRows
    <3>2. gone \in NoteRows /\ gone.at = "dismissed"
      BY DEF NoNotice, NoteRows
    <3> HIDE DEF read, gone
    <3> QED  BY <3>1, <3>2 DEF InTime
  <2>2. (Note(a, u, read) \/ Note(a, u, gone)) /\ UNCHANGED <<staff, hooks, touched, round>>
    BY DEF MarkNotificationRead, DeleteNotification
  <2> HIDE DEF read, gone
  <2> QED  BY <2>1, <2>2, OneNoteKeeps
<1> QED  BY <1>1, <1>2, <1>3, <1>4, <1>5

\* Webhooks and users come and go.
LEMMA EditSteps ==
  ASSUME NoticesInv,
         \/ AnnouncerStops
         \/ \E w \in Hooks : CreateWebhook(w) \/ DeleteWebhook(w) \/ UpdateWebhook(w)
         \/ \E u \in People : ChangeRole(u) \/ UserGoes(u)
  PROVE  NoticesInv'
<1> USE DEF NoticesInv
<1>1. CASE AnnouncerStops
  <2>1. ASSUME NEW a \in Announcements
        PROVE  /\ round'[a] \in RoundRows /\ WithinPlaces(round'[a])
               /\ Informed(round'[a], notice[a], staff.there)
    <3> DEFINE r == round[a]  over == [r EXCEPT !.under = {}]
               lost == [r EXCEPT !.at = "lost", !.hooks = {}, !.under = {}]
    <3>1. r \in RoundRows /\ Informed(r, notice[a], staff.there)
      OBVIOUS
    <3>2. round'[a] = IF r.at \in {"quiet", "done"} THEN over ELSE lost
      BY <1>1 DEF AnnouncerStops
    <3> HIDE DEF r
    <3>3. /\ over \in RoundRows /\ over.under = {} /\ over.at = r.at /\ over.kind = r.kind
          /\ over.addressed = r.addressed
          /\ lost \in RoundRows /\ lost.under = {} /\ lost.at = "lost"
      BY <3>1 DEF RoundRows
    <3> HIDE DEF over, lost
    <3>4. WithinPlaces(over) /\ WithinPlaces(lost)
      BY <3>3, NoneUnderWay
    <3> QED  BY <3>1, <3>2, <3>3, <3>4 DEF Informed, PastNotes
  <2>2. round' \in [Announcements -> RoundRows]
    BY <1>1, <2>1 DEF AnnouncerStops
  <2> QED  BY <1>1, <2>1, <2>2 DEF AnnouncerStops
<1>2. CASE \E w \in Hooks : CreateWebhook(w) \/ DeleteWebhook(w) \/ UpdateWebhook(w)
  <2>1. touched' \in 0..MaxEdits
    BY <1>2, NoticesAssumption DEF CreateWebhook, DeleteWebhook, UpdateWebhook, Edit
  <2>2. hooks' \in [Hooks -> [there : BOOLEAN, row : HookRows]]
    <3>1. CASE \E w \in Hooks : CreateWebhook(w)
      BY <3>1 DEF CreateWebhook
    <3>2. CASE \E w \in Hooks : DeleteWebhook(w)
      BY <3>2 DEF DeleteWebhook, HookRows
    <3>3. CASE \E w \in Hooks : UpdateWebhook(w)
      BY <3>3 DEF UpdateWebhook
    <3> QED  BY <1>2, <3>1, <3>2, <3>3
  <2>3. UNCHANGED <<staff, round, notice>>
    BY <1>2 DEF CreateWebhook, DeleteWebhook, UpdateWebhook
  <2> QED  BY <2>1, <2>2, <2>3
<1>3. CASE \E u \in People : ChangeRole(u)
  <2>1. touched' \in 0..MaxEdits
    BY <1>3, NoticesAssumption DEF ChangeRole, Edit
  <2>2. /\ staff' \in [there : SUBSET People, admins : SUBSET People] /\ staff'.there = staff.there
        /\ staff'.admins \subseteq staff'.there
    BY <1>3 DEF ChangeRole
  <2> QED  BY <1>3, <2>1, <2>2 DEF ChangeRole
<1>4. CASE \E u \in People : UserGoes(u)
  <2> PICK u \in People : UserGoes(u)
    BY <1>4
  <2>1. touched' \in 0..MaxEdits
    BY NoticesAssumption DEF UserGoes, Edit
  <2>2. /\ staff' \in [there : SUBSET People, admins : SUBSET People]
        /\ staff'.there = staff.there \ {u} /\ staff'.admins \subseteq staff'.there
    BY DEF UserGoes
  <2>3. NoNotice \in NoteRows /\ InTime(NoNotice)
    BY DEF NoNotice, NoteRows, InTime
  <2>4. /\ notice' \in [Announcements -> [People -> NoteRows]]
        /\ \A a \in Announcements, v \in People : notice'[a][v] = IF v = u THEN NoNotice ELSE notice[a][v]
    BY <2>3 DEF UserGoes
  <2>5. \A a \in Announcements : Informed(round[a], notice'[a], staff'.there)
    BY <2>2, <2>4 DEF Informed, RoundRows
  <2> QED  BY <2>1, <2>2, <2>3, <2>4, <2>5 DEF UserGoes
<1> QED  BY <1>1, <1>2, <1>3, <1>4

\* The inductive invariant of the notices: an announcement that has got past its
\* notices has left one for everybody it is addressed to.
THEOREM NoticesInvariant == NoticesSpec => []NoticesInv
<1>1. NoticesInit => NoticesInv
  <2> SUFFICES ASSUME NoticesInit PROVE NoticesInv
    OBVIOUS
  <2> USE DEF NoticesInit
  <2>1. /\ staff \in [there : SUBSET People, admins : SUBSET People] /\ staff.admins \subseteq staff.there
        /\ touched \in 0..MaxEdits
    BY NoticesAssumption
  <2>2. hooks \in [Hooks -> [there : BOOLEAN, row : HookRows]]
    BY DEF HookRows
  <2>3. round \in [Announcements -> RoundRows]
    BY DEF RoundRows, Quiet
  <2>4. notice \in [Announcements -> [People -> NoteRows]]
    BY DEF NoteRows, NoNotice
  <2>6. \A a \in Announcements : WithinPlaces(round[a]) /\ Informed(round[a], notice[a], staff.there)
    <3>1. \A a \in Announcements : round[a].under = {} /\ round[a].at = "quiet"
      BY DEF Quiet
    <3> QED  BY <3>1, NoneUnderWay DEF Informed, PastNotes
  <2>7. \A a \in Announcements, u \in People : InTime(notice[a][u])
    BY DEF InTime, NoNotice
  <2> QED  BY <2>1, <2>2, <2>3, <2>4, <2>6, <2>7 DEF NoticesInv
<1>2. NoticesInv /\ [NoticesNext]_noticeVars => NoticesInv'
  <2> SUFFICES ASSUME NoticesInv, [NoticesNext]_noticeVars PROVE NoticesInv'
    OBVIOUS
  <2>1. CASE UNCHANGED noticeVars
    BY <2>1 DEF noticeVars, NoticesInv
  <2>2. CASE NoticesNext
    BY <2>2, NoticeRequests, NoteSteps, EditSteps DEF NoticesNext
  <2> QED  BY <2>1, <2>2
<1> QED  BY <1>1, <1>2, PTL DEF NoticesSpec

\* Every variable of the notices has its type.
THEOREM NoticesTypes == NoticesSpec => []NoticesTypeOK
BY NoticesInvariant, NoticesInvGives, PTL

\* Whom an announcement addressed has a notice of it, which stays until its time.
THEOREM NoticesAreKept == NoticesSpec => []NoticesKept
BY NoticesInvariant, NoticesInvGives, PTL

------------------------------------------------------------------------------
(* Reminders of evaluations that end *)

LEMMA LeastIsMin ==
  ASSUME NEW S \in SUBSET Int, NEW m \in S, \A n \in S : m <= n
  PROVE  Min(S) = m
<1>1. \A x \in S : (\A n \in S : x <= n) => x = m
  OBVIOUS
<1> QED  BY <1>1 DEF Min

\* The reminder that is due is the next one before the end.
LEMMA StageOf ==
  ASSUME NEW days \in Nat
  PROVE  EvaluationStage(days) = IF days <= 0 THEN 0 ELSE IF days <= 1 THEN 1
                                 ELSE IF days <= 7 THEN 7 ELSE IF days <= 14 THEN 14 ELSE -1
<1> DEFINE reached == {s \in Stages : days <= s}
<1>1. EvaluationStage(days) = IF reached = {} THEN -1 ELSE Min(reached)
  BY DEF EvaluationStage
<1>2. reached \in SUBSET Int /\ \A s \in reached : s \in {14, 7, 1, 0} /\ days <= s
  BY DEF Stages
<1>3. CASE days <= 0
  <2>1. 0 \in reached /\ \A s \in reached : 0 <= s
    BY <1>3 DEF Stages
  <2> QED  BY <1>1, <1>2, <1>3, <2>1, LeastIsMin
<1>4. CASE days = 1
  <2>1. 1 \in reached /\ \A s \in reached : 1 <= s
    BY <1>4 DEF Stages
  <2>2. Min(reached) = 1
    BY <1>2, <2>1, LeastIsMin
  <2> QED  BY <1>1, <1>4, <2>1, <2>2
<1>5. CASE days \in 2..7
  <2>1. 7 \in reached /\ \A s \in reached : 7 <= s
    BY <1>5 DEF Stages
  <2>2. Min(reached) = 7
    BY <1>2, <2>1, LeastIsMin
  <2> QED  BY <1>1, <1>5, <2>1, <2>2
<1>6. CASE days \in 8..14
  <2>1. 14 \in reached /\ \A s \in reached : 14 <= s
    BY <1>6 DEF Stages
  <2>2. Min(reached) = 14
    BY <1>2, <2>1, LeastIsMin
  <2> QED  BY <1>1, <1>6, <2>1, <2>2
<1>7. CASE days > 14
  <2>1. reached = {}
    BY <1>7 DEF Stages
  <2> QED  BY <1>1, <1>7, <2>1
<1> QED  BY <1>3, <1>4, <1>5, <1>6, <1>7

\* As the days pass a stage only comes down.
LEMMA StagesComeDown ==
  ASSUME NEW days \in Nat, NEW later \in Nat, later <= days, EvaluationStage(days) >= 0
  PROVE  EvaluationStage(later) \in Stages /\ EvaluationStage(later) <= EvaluationStage(days)
BY StageOf DEF Stages

LEMMA DueIsStage ==
  ASSUME today \in Nat, NEW r, r.ends \in Nat
  PROVE  DueStage(r) \in Stages \union {-1} /\ (DueStage(r) >= 0 => DueStage(r) \in Stages)
<1>1. DaysUntil(r.ends) \in Nat
  BY DEF DaysUntil
<1> QED  BY <1>1, StageOf DEF DueStage, Stages

\* An evaluation has one end, whoever knows of it.
FitsIn(x) ==
  x.term # 0 => /\ x.term <= license.number
                /\ x.term = license.number => license.kind = "evaluation" /\ x.ends = license.ends
SameEnd(x, y) == x.term = y.term /\ x.term # 0 => x.ends = y.ends
Seen == {row, copy} \union {answers[t] : t \in Testers}

\* What a row says was sent has been sent, and is not behind the day.
Warned(r) ==
  r.warned >= 0 /\ ~crossed
    => <<r.term, r.warned>> \in told /\ DueStage(r) \in Stages /\ DueStage(r) <= r.warned

RemindInv ==
  /\ RemindTypeOK /\ NoSilentEvaluation
  /\ license.kind = "evaluation" => license.number \in 1..MaxTerms
  /\ \A x, y \in Seen : SameEnd(x, y)
  /\ \A x \in Seen : FitsIn(x)
  /\ Warned(row) /\ Warned(copy)
  /\ checker = "told" => /\ copy.term # 0 /\ DueStage(copy) \in Stages
                         /\ <<copy.term, DueStage(copy)>> \in told

LEMMA SeenAre ==
  ASSUME RemindTypeOK
  PROVE  /\ \A x \in Seen : x.term \in 0..MaxTerms /\ x.ends \in Nat
         /\ row \in Seen /\ copy \in Seen /\ \A t \in Testers : answers[t] \in Seen
         /\ MaxTerms \in Nat /\ MaxDay \in Nat /\ today \in Nat
         /\ license.number \in Nat \ {0} /\ license.ends \in Nat
BY RemindersAssumption DEF RemindTypeOK, Seen, TargetRows, Answers

LEMMA AssignStep ==
  ASSUME RemindInv, Assign
  PROVE  RemindInv'
<1> USE DEF RemindInv
<1>0. UNCHANGED <<today, row, checker, copy, answers, told, swept, crossed>> /\ license.number < MaxTerms
  BY DEF Assign
<1>1. /\ license'.number = license.number + 1 /\ license'.number \in 1..MaxTerms
      /\ license' \in [number : 1..(MaxTerms + 1), kind : {"other", "evaluation"}, ends : Nat]
  BY <1>0, SeenAre, RemindersAssumption DEF Assign
<1>2. RemindTypeOK' /\ NoSilentEvaluation' /\ Seen' = Seen
  BY <1>0, <1>1 DEF RemindTypeOK, NoSilentEvaluation, Seen, DueStage, DaysUntil
<1>3. \A x \in Seen : FitsIn(x)'
  <2> SUFFICES ASSUME NEW x \in Seen, x.term # 0
               PROVE  x.term <= license'.number /\ x.term # license'.number
    BY DEF FitsIn
  <2> QED  BY <1>1, SeenAre DEF FitsIn
<1> QED  BY <1>0, <1>1, <1>2, <1>3 DEF Warned, DueStage, DaysUntil, SameEnd

LEMMA AskStep ==
  ASSUME RemindInv, NEW t \in Testers, AskHost(t), checker' \in {"asleep", "checking", "storing"} \/ checker' = checker
  PROVE  RemindInv'
<1> USE DEF RemindInv
<1>0. /\ answers' = [answers EXCEPT ![t] = HostCapabilities]
      /\ UNCHANGED <<today, license, row, copy, told, swept, crossed>>
  BY DEF AskHost
<1>1. HostCapabilities \in Answers /\ FitsIn(HostCapabilities)
      /\ (HostCapabilities.term # 0 => HostCapabilities.term = license.number)
      /\ (HostCapabilities.term # 0 => HostCapabilities.ends = license.ends /\ license.kind = "evaluation")
  <2>1. license.number \in Nat /\ license.ends \in Nat /\ MaxTerms \in Nat
    BY SeenAre
  <2>2. CASE license.kind = "evaluation" /\ ~EvaluationOver
    <3>1. HostCapabilities = [asked |-> TRUE, term |-> license.number, ends |-> license.ends]
      BY <2>2 DEF HostCapabilities
    <3>2. license.number \in 0..MaxTerms
      BY <2>1, <2>2
    <3> QED  BY <2>1, <2>2, <3>1, <3>2 DEF Answers, FitsIn
  <2>3. CASE ~(license.kind = "evaluation" /\ ~EvaluationOver)
    <3>1. HostCapabilities = [asked |-> TRUE, term |-> 0, ends |-> 0]
      BY <2>3 DEF HostCapabilities, NoAnswer
    <3> QED  BY <2>1, <3>1 DEF Answers, FitsIn
  <2> QED  BY <2>2, <2>3
<1>2. RemindTypeOK' /\ NoSilentEvaluation'
  <2>1. answers' \in [Testers -> Answers]
    BY <1>0, <1>1 DEF RemindTypeOK
  <2>2. checker' \in {"asleep", "listed", "told", "checking", "storing"}
    BY DEF RemindTypeOK
  <2> QED  BY <1>0, <2>1, <2>2 DEF RemindTypeOK, NoSilentEvaluation, DueStage, DaysUntil
<1>3. \A x \in Seen' : x \in Seen \/ x = HostCapabilities
  BY <1>0 DEF Seen, RemindTypeOK
<1>4. \A x \in Seen' : FitsIn(x)'
  BY <1>0, <1>1, <1>3 DEF FitsIn
<1>5. \A x \in Seen : SameEnd(x, HostCapabilities) /\ SameEnd(HostCapabilities, x)
  BY <1>1 DEF SameEnd, FitsIn
<1>6. \A x, y \in Seen' : SameEnd(x, y)
  BY <1>3, <1>5 DEF SameEnd
<1> QED  BY <1>0, <1>2, <1>4, <1>6 DEF Warned, DueStage, DaysUntil, SameEnd

LEMMA StoreStep ==
  ASSUME RemindInv, NEW t \in Testers, Store(t), checker' \in {"asleep"} \/ checker' = checker
  PROVE  RemindInv'
<1> USE DEF RemindInv
<1> DEFINE a == answers[t]  warned == IF SameExpiry(a) THEN row.warned ELSE -1
<1>0. /\ row' = [row EXCEPT !.term = a.term, !.ends = a.ends, !.warned = warned]
      /\ answers' = [answers EXCEPT ![t] = NoAnswer] /\ swept' = (swept /\ a.term = row.term)
      /\ UNCHANGED <<today, license, copy, told, crossed>>
  BY DEF Store, UpdateTargetCapabilities
<1>1. /\ a \in Seen /\ a.term \in 0..MaxTerms /\ a.ends \in Nat
      /\ NoAnswer \in Answers /\ NoAnswer.term = 0 /\ row \in TargetRows
  BY SeenAre DEF NoAnswer, Answers, RemindTypeOK
<1>2. warned \in Stages \union {-1}
  BY <1>1 DEF TargetRows
<1>3. row' \in TargetRows /\ row'.term = a.term /\ row'.ends = a.ends /\ row'.warned = warned
  BY <1>0, <1>1, <1>2 DEF TargetRows
<1>4. RemindTypeOK'
  <2>1. answers' \in [Testers -> Answers]
    BY <1>0, <1>1 DEF RemindTypeOK
  <2>2. swept' \in BOOLEAN
    BY <1>0, <1>1, <1>3 DEF RemindTypeOK
  <2> QED  BY <1>0, <1>3, <2>1, <2>2 DEF RemindTypeOK
<1>5. a.term = row.term /\ a.term # 0 => a.ends = row.ends
  BY <1>1, SeenAre DEF SameEnd
<1>6. NoSilentEvaluation'
  <2> SUFFICES ASSUME swept', row'.term # 0, DueStage(row)' >= 0, ~crossed
               PROVE  <<row'.term, DueStage(row)'>> \in told
    BY <1>0 DEF NoSilentEvaluation
  <2>1. swept /\ a.term = row.term /\ row'.term = row.term /\ row'.ends = row.ends
    BY <1>0, <1>3, <1>5
  <2>2. DueStage(row)' = DueStage(row)
    BY <1>0, <2>1 DEF DueStage, DaysUntil
  <2> QED  BY <2>1, <2>2 DEF NoSilentEvaluation
<1>7. \A x \in Seen' : x \in Seen \/ x = NoAnswer \/ (x.term = a.term /\ x.ends = a.ends)
  BY <1>0, <1>1, <1>3 DEF Seen, RemindTypeOK
<1>8. \A x \in Seen' : FitsIn(x)'
  BY <1>0, <1>1, <1>7 DEF FitsIn
<1>9. \A x, y \in Seen' : SameEnd(x, y)
  BY <1>1, <1>7 DEF SameEnd
<1> HIDE DEF a, warned
<1>10. Warned(row)'
  <2>0. row'.term = a.term /\ row'.warned = warned /\ crossed' = crossed /\ told' = told
    BY <1>0, <1>3
  <2> SUFFICES ASSUME warned >= 0, ~crossed
               PROVE  <<a.term, warned>> \in told /\ DueStage(row)' \in Stages /\ DueStage(row)' <= warned
    BY <2>0 DEF Warned
  <2>1. SameExpiry(a) /\ row.warned >= 0 /\ warned = row.warned
    BY <1>1 DEF TargetRows, warned
  <2>2. <<row.term, row.warned>> \in told /\ DueStage(row) \in Stages /\ DueStage(row) <= row.warned
    BY <2>1 DEF Warned
  <2>3. row.term # 0
    BY <2>2 DEF RemindTypeOK
  <2>4. a.term = row.term /\ a.ends = row.ends
    BY <2>1, <2>3 DEF SameExpiry, a
  <2>5. DueStage(row)' = DueStage(row)
    BY <1>0, <1>3, <2>4 DEF DueStage, DaysUntil
  <2> QED  BY <2>1, <2>2, <2>4, <2>5
<1>11. Warned(copy)' /\ (checker' = "told" => checker = "told")
  BY <1>0 DEF Warned, DueStage, DaysUntil
<1> QED  BY <1>0, <1>4, <1>6, <1>8, <1>9, <1>10, <1>11 DEF SameEnd, DueStage, DaysUntil

\* The sweep: a reminder goes out, and then goes on record.
LEMMA SweepStep ==
  ASSUME RemindInv, ListTargets \/ NotifyEvaluation \/ RecordStage
  PROVE  RemindInv'
<1> USE DEF RemindInv
<1>0. /\ row \in TargetRows /\ copy \in TargetRows /\ today \in Nat
      /\ row.term = copy.term /\ row.term # 0 => row.ends = copy.ends
      /\ DueStage(copy) \in Stages \union {-1}
      /\ copy.ends \in Nat /\ copy.term \in 0..MaxTerms /\ row.term \in 0..MaxTerms
  BY SeenAre, DueIsStage DEF RemindTypeOK, SameEnd, TargetRows
<1>1. CASE ListTargets
  <2>1. copy' = row /\ checker' = "listed" /\ UNCHANGED <<today, license, row, answers, told, swept, crossed>>
    BY <1>1 DEF ListTargets
  <2>2. RemindTypeOK' /\ NoSilentEvaluation'
    BY <2>1 DEF RemindTypeOK, NoSilentEvaluation, DueStage, DaysUntil
  <2>3. Seen' \subseteq Seen
    BY <2>1 DEF Seen
  <2> QED  BY <2>1, <2>2, <2>3 DEF Warned, DueStage, DaysUntil, SameEnd, FitsIn
<1>2. CASE NotifyEvaluation /\ Due(copy)
  <2>1. /\ told' = told \union {<<copy.term, DueStage(copy)>>} /\ checker' = "told"
        /\ UNCHANGED <<today, license, row, copy, answers, swept, crossed>>
    BY <1>2 DEF NotifyEvaluation
  <2>2. copy.term # 0 /\ DueStage(copy) \in Stages
    BY <1>0, <1>2 DEF Due
  <2>3. <<copy.term, DueStage(copy)>> \in (1..MaxTerms) \X Stages
    BY <1>0, <2>2, SeenAre
  <2>4. RemindTypeOK' /\ NoSilentEvaluation' /\ Seen' = Seen
    BY <2>1, <2>3 DEF RemindTypeOK, NoSilentEvaluation, Seen, DueStage, DaysUntil
  <2> QED  BY <2>1, <2>2, <2>4 DEF Warned, DueStage, DaysUntil, SameEnd, FitsIn
<1>3. CASE NotifyEvaluation /\ ~Due(copy)
  <2>1. /\ swept' = (row.term = copy.term) /\ checker' = "checking"
        /\ UNCHANGED <<today, license, row, copy, answers, told, crossed>>
    BY <1>3 DEF NotifyEvaluation
  <2>2. NoSilentEvaluation'
    <3> SUFFICES ASSUME row.term = copy.term, row.term # 0, DueStage(row) >= 0, ~crossed
                 PROVE  <<row.term, DueStage(row)>> \in told
      BY <2>1 DEF NoSilentEvaluation, DueStage, DaysUntil
    <3>1. DueStage(row) = DueStage(copy)
      BY <1>0 DEF DueStage
    <3>2. DueStage(copy) = copy.warned \/ (copy.warned >= 0 /\ DueStage(copy) > copy.warned)
      BY <1>3, <3>1 DEF Due
    <3>3. copy.warned >= 0
      BY <3>1, <3>2
    <3>4. <<copy.term, copy.warned>> \in told /\ DueStage(copy) <= copy.warned
      BY <3>3 DEF Warned
    <3>5. DueStage(copy) \in Int /\ copy.warned \in Int
      BY <1>0 DEF TargetRows, Stages
    <3> QED  BY <3>1, <3>2, <3>4, <3>5
  <2>3. RemindTypeOK' /\ Seen' = Seen
    BY <2>1 DEF RemindTypeOK, Seen
  <2> QED  BY <2>1, <2>2, <2>3 DEF Warned, DueStage, DaysUntil, SameEnd, FitsIn
<1>4. CASE RecordStage
  <2>1. /\ row' = [row EXCEPT !.warned = DueStage(copy)] /\ checker = "told" /\ checker' = "checking"
        /\ crossed' = (crossed \/ row.term # copy.term) /\ swept' = (row.term = copy.term)
        /\ UNCHANGED <<today, license, copy, answers, told>>
    BY <1>4 DEF RecordStage
  <2>2. row' \in TargetRows /\ row'.term = row.term /\ row'.ends = row.ends /\ row'.warned = DueStage(copy)
    BY <1>0, <2>1 DEF TargetRows
  <2>3. DueStage(row') = DueStage(row) /\ (row.term = copy.term => DueStage(row) = DueStage(copy))
        /\ <<copy.term, DueStage(copy)>> \in told
    BY <1>0, <2>1, <2>2 DEF DueStage
  <2>4. RemindTypeOK'
    BY <2>1, <2>2 DEF RemindTypeOK
  <2>5. NoSilentEvaluation'
    <3>1. DueStage(row)' = DueStage(row)
      BY <2>1, <2>2 DEF DueStage, DaysUntil
    <3>2. swept' => row.term = copy.term
      BY <2>1
    <3> QED  BY <2>1, <2>2, <2>3, <3>1, <3>2 DEF NoSilentEvaluation
  <2>6. Warned(row)'
    <3>1. DueStage(copy) \in Stages /\ DueStage(copy) \in Int
      BY <2>1 DEF Stages
    <3>2. DueStage(row)' = DueStage(row)
      BY <2>1, <2>2 DEF DueStage, DaysUntil
    <3> SUFFICES ASSUME ~crossed'
                 PROVE  /\ <<row.term, DueStage(copy)>> \in told
                        /\ DueStage(row) \in Stages /\ DueStage(row) <= DueStage(copy)
      BY <2>1, <2>2, <3>2 DEF Warned
    <3>3. row.term = copy.term /\ DueStage(row) = DueStage(copy)
      BY <2>1, <2>3
    <3> QED  BY <2>3, <3>1, <3>3
  <2>7. Warned(copy)'
    BY <2>1 DEF Warned, DueStage, DaysUntil
  <2>8. \A x \in Seen' : x \in Seen \/ (x.term = row.term /\ x.ends = row.ends)
    BY <2>1, <2>2 DEF Seen
  <2>9. row \in Seen
    BY DEF Seen
  <2>10. \A x \in Seen' : FitsIn(x)'
    BY <2>1, <2>8, <2>9 DEF FitsIn
  <2>11. \A x, y \in Seen' : SameEnd(x, y)
    BY <2>8, <2>9 DEF SameEnd
  <2> QED  BY <2>1, <2>4, <2>5, <2>6, <2>7, <2>10, <2>11 DEF SameEnd
<1> QED  BY <1>1, <1>2, <1>3, <1>4

LEMMA DayStep ==
  ASSUME RemindInv, Day
  PROVE  RemindInv'
<1> USE DEF RemindInv
<1>0. /\ today' = today + 1 /\ swept' = FALSE /\ today' \in 0..MaxDay /\ checker = "asleep"
      /\ UNCHANGED <<license, row, checker, copy, answers, told, crossed>>
      /\ today \in Nat
  BY SeenAre DEF Day, RemindTypeOK
<1>1. RemindTypeOK' /\ NoSilentEvaluation' /\ Seen' = Seen
  BY <1>0 DEF RemindTypeOK, NoSilentEvaluation, Seen
<1>2. ASSUME NEW r \in {row, copy}, Warned(r) PROVE Warned(r)'
  <2> SUFFICES ASSUME r.warned >= 0, ~crossed
               PROVE  /\ <<r.term, r.warned>> \in told
                      /\ DueStage(r)' \in Stages /\ DueStage(r)' <= r.warned
    BY <1>0 DEF Warned
  <2>1. /\ <<r.term, r.warned>> \in told /\ DueStage(r) \in Stages /\ DueStage(r) <= r.warned
        /\ r.ends \in Nat /\ r.warned \in Int
    BY <1>2 DEF Warned, RemindTypeOK, TargetRows, Stages
  <2>2. DaysUntil(r.ends) \in Nat /\ DaysUntil(r.ends)' \in Nat /\ DaysUntil(r.ends)' <= DaysUntil(r.ends)
    BY <1>0, <2>1 DEF DaysUntil
  <2>3. DueStage(r) >= 0 /\ DueStage(r) = EvaluationStage(DaysUntil(r.ends))
        /\ DueStage(r)' = EvaluationStage(DaysUntil(r.ends)')
    BY <2>1 DEF DueStage, Stages, EvaluationStage
  <2>4. DueStage(r)' \in Stages /\ DueStage(r)' <= DueStage(r)
    BY <2>2, <2>3, StagesComeDown
  <2>5. DueStage(r)' \in Int /\ DueStage(r) \in Int
    BY <2>1, <2>4 DEF Stages
  <2> QED  BY <2>1, <2>4, <2>5
<1> QED  BY <1>0, <1>1, <1>2 DEF SameEnd, FitsIn, Warned

LEMMA CheckerSteps ==
  ASSUME RemindInv, CheckerTests \/ CheckerRestart \/ UserTests
  PROVE  RemindInv'
<1> USE DEF RemindInv
<1>1. CASE CheckerRestart
  <2>1. /\ checker' = "asleep" /\ answers' = [t \in Testers |-> NoAnswer]
        /\ UNCHANGED <<today, license, row, copy, told, swept, crossed>>
    BY <1>1 DEF CheckerRestart
  <2>2. NoAnswer \in Answers /\ NoAnswer.term = 0
    BY RemindersAssumption DEF NoAnswer, Answers
  <2>3. RemindTypeOK' /\ NoSilentEvaluation'
    BY <2>1, <2>2 DEF RemindTypeOK, NoSilentEvaluation, DueStage, DaysUntil
  <2>4. \A x \in Seen' : x \in Seen \/ x = NoAnswer
    BY <2>1 DEF Seen
  <2> QED  BY <2>1, <2>2, <2>3, <2>4 DEF Warned, DueStage, DaysUntil, SameEnd, FitsIn
<1>2. CASE UserTests
  BY <1>2, AskStep, StoreStep DEF UserTests, Testers
<1>3. CASE CheckerTests
  <2>1. CASE checker = "checking" /\ checker' = "asleep"
             /\ UNCHANGED <<today, license, row, copy, answers, told, swept, crossed>>
    <3>1. RemindTypeOK' /\ NoSilentEvaluation' /\ Seen' = Seen
      BY <2>1 DEF RemindTypeOK, NoSilentEvaluation, Seen, DueStage, DaysUntil
    <3> QED  BY <2>1, <3>1 DEF Warned, DueStage, DaysUntil, SameEnd, FitsIn
  <2>2. CASE AskHost("checker") /\ checker' = "storing"
    BY <2>2, AskStep DEF Testers
  <2>3. CASE Store("checker") /\ checker' = "asleep"
    BY <2>3, StoreStep DEF Testers
  <2> QED  BY <1>3, <2>1, <2>2, <2>3 DEF CheckerTests
<1> QED  BY <1>1, <1>2, <1>3

\* The inductive invariant of the reminders: what a row, or a copy
\* of it, says was sent has been sent, and is not behind the day.
THEOREM RemindInvariant == RemindSpec => []RemindInv
<1>1. RemindInit => RemindInv
  <2> SUFFICES ASSUME RemindInit PROVE RemindInv
    OBVIOUS
  <2> USE DEF RemindInit
  <2>1. MaxDay \in Nat /\ MaxTerms \in Nat
    BY RemindersAssumption
  <2>2. row \in TargetRows /\ copy \in TargetRows /\ row.warned = -1 /\ copy.warned = -1
        /\ row.term = 0 /\ copy.term = 0
    BY <2>1 DEF TargetRows
  <2>3. answers \in [Testers -> Answers] /\ \A t \in Testers : answers[t].term = 0
    BY <2>1 DEF Answers, NoAnswer
  <2>4. license \in [number : 1..(MaxTerms + 1), kind : {"other", "evaluation"}, ends : Nat]
    BY <2>1
  <2>5. RemindTypeOK
    <3>1. today \in 0..MaxDay
      BY <2>1
    <3>2. checker \in {"asleep", "listed", "told", "checking", "storing"}
      OBVIOUS
    <3>3. told \subseteq (1..MaxTerms) \X Stages
      OBVIOUS
    <3>4. swept \in BOOLEAN /\ crossed \in BOOLEAN
      OBVIOUS
    <3> HIDE DEF RemindInit
    <3> QED  BY <2>2, <2>3, <2>4, <3>1, <3>2, <3>3, <3>4 DEF RemindTypeOK
  <2>6. \A x \in Seen : x.term = 0
    BY <2>2, <2>3 DEF Seen
  <2> QED  BY <2>2, <2>5, <2>6 DEF RemindInv, NoSilentEvaluation, SameEnd, FitsIn, Warned
<1>2. RemindInv /\ [RemindNext]_remindVars => RemindInv'
  <2> SUFFICES ASSUME RemindInv, [RemindNext]_remindVars PROVE RemindInv'
    OBVIOUS
  <2>1. CASE UNCHANGED remindVars
    BY <2>1 DEF remindVars, RemindInv, RemindTypeOK, NoSilentEvaluation, Seen, Warned, DueStage,
                DaysUntil, SameEnd, FitsIn
  <2>2. CASE RemindNext
    BY <2>2, AssignStep, CheckerSteps, SweepStep, DayStep DEF RemindNext
  <2> QED  BY <2>1, <2>2
<1> QED  BY <1>1, <1>2, PTL DEF RemindSpec

\* Every variable of the reminders has its type.
THEOREM RemindTypes == RemindSpec => []RemindTypeOK
BY RemindInvariant, PTL DEF RemindInv

\* Once the day's sweep is over the reminder that is due has gone out.
THEOREM RemindersGoOut == RemindSpec => []NoSilentEvaluation
BY RemindInvariant, PTL DEF RemindInv

------------------------------------------------------------------------------
(* The platform *)

LEMMA PlatformStarts ==
  PlatformInit => /\ CatalogueInit /\ RemindInit /\ SchemaInit /\ MigrationsInit /\ ProxmoxInit
                  /\ VSphereInit /\ BulkInit /\ HardwareInit /\ NoticesInit
BY DEF PlatformInit

LEMMA PlatformSteps ==
  [PlatformNext]_platformVars =>
    /\ [CatalogueNext]_catalogueVars /\ [RemindNext]_remindVars /\ [SchemaNext]_schemaVars
    /\ [MigrationsNext]_migrationVars /\ [ProxmoxNext]_proxmoxVars /\ [VSphereNext]_vsphereVars
    /\ [BulkNext]_bulkVars /\ [HardwareNext]_hardwareVars /\ [NoticesNext]_noticeVars
<1> SUFFICES ASSUME [PlatformNext]_platformVars
             PROVE  /\ [CatalogueNext]_catalogueVars /\ [RemindNext]_remindVars /\ [SchemaNext]_schemaVars
                    /\ [MigrationsNext]_migrationVars /\ [ProxmoxNext]_proxmoxVars /\ [VSphereNext]_vsphereVars
                    /\ [BulkNext]_bulkVars /\ [HardwareNext]_hardwareVars /\ [NoticesNext]_noticeVars
  OBVIOUS
<1>1. CASE UNCHANGED platformVars
  BY <1>1 DEF platformVars
<1>2. CASE PlatformNext
  BY <1>2 DEF PlatformNext, Still
<1> QED  BY <1>1, <1>2

\* Each component of the platform behaves as its own specification says.
THEOREM PlatformComposes ==
  PlatformSpec => /\ CatalogueSpec /\ RemindSpec /\ SchemaSpec /\ MigrationsSpec /\ ProxmoxSpec
                  /\ VSphereSpec /\ BulkSpec /\ HardwareSpec /\ NoticesSpec
BY PlatformStarts, PlatformSteps, PTL
  DEF PlatformSpec, CatalogueSpec, RemindSpec, SchemaSpec, MigrationsSpec, ProxmoxSpec,
      VSphereSpec, BulkSpec, HardwareSpec, NoticesSpec

\* Every variable of the nine components has its type, and no row of the database
\* refers to one that is gone (actions.go, sqlite.go, bulk.go).
THEOREM PlatformTypes == PlatformSpec => []PlatformTypeOK
BY PlatformComposes, CatalogueTypes, RemindTypes, SchemaTypes, MigrationsTypes, ProxmoxTypes,
   VSphereTypes, BulkTypes, HardwareTypes, NoticesTypes, PTL DEF PlatformTypeOK
=============================================================================
