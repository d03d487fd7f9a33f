-------------------------------- MODULE Factory --------------------------------
(***************************************************************************)
(* The template factory of one target and one operating system             *)
(* (internal/factory, internal/service/factory.go): requests that start,   *)
(* cancel and delete builds, the engine that runs one Packer build at a    *)
(* time, the schedule that rebuilds a template, the listing of templates   *)
(* from the hypervisor, and the lineage that links a finished build to its *)
(* template, its family and the versions it supersedes.                    *)
(*                                                                         *)
(* A request and the engine's goroutine interleave at every database call. *)
(* The database enforces its foreign keys and serves one connection, so a  *)
(* transaction that is not ended keeps everybody else out.                 *)
(***************************************************************************)
EXTENDS Integers, FiniteSets, FiniteSetsExt

CONSTANTS MaxBuilds,     \* bound: rows of template_builds
          MaxIso,        \* bound: ISO images the vendor publishes
          Attempts,      \* searches for a finished template (3 in the code)
          WriteFaults,   \* a statement that is only logged when it fails may fail
          Crashes,       \* the server may stop and start again
          MaxActs        \* bound: what users do besides starting builds

ASSUME FactoryAssumption ==
  /\ {MaxBuilds, MaxIso, Attempts} \subseteq Nat \ {0} /\ MaxActs \in Nat
  /\ {WriteFaults, Crashes} \subseteq BOOLEAN

\* The templates the hypervisor can hold by their managed object reference or
\* VMID: 0 was made by hand, the others are made by builds.
Builds == 1..MaxBuilds
Refs   == 0..MaxBuilds
Custom == <<"custom", 1>>
None   == <<"none", 1>>

\* The name StartBuild derives and the name RebuildTemplate derives.
Names == {Custom} \union ({"fm-os-target", "base"} \X Builds)

Active == {"pending", "building"}      \* 'downloading' is never written
Ended  == {"completed", "failed", "cancelled"}

VARIABLES
  builds,     \* builds[b]: the row of template_builds
  call,       \* call[b]: the request that makes row b, until the engine has it
  engine,     \* the engine's running build (0: none) and its context
  stage,      \* where executeBuild stands
  found,      \* the row onBuildComplete found by name: 0 none, -1 since replaced
  vms,        \* vms[r]: the name of template r on the hypervisor, or None
  rows,       \* rows[r]: the row of templates for r
  used,       \* rows that deployments reference
  schedule,   \* the template of the schedule's row (-1: no schedule)
  iso,        \* the checksum the vendor publishes now
  admin,      \* the users' request in flight, and how many they still make
  listing,    \* what a user's synchronisation has listed and not yet stored
  answer,     \* what the engine's has listed and not yet stored
  conn,       \* the database connection: free, or held by an open transaction
  overtaken,  \* history: builds handed over with a version read before another link
  unwritten,  \* history: builds whose last write of a status failed
  cut         \* history: the last supersede failed, or a crash came before it

vars == <<builds, call, engine, stage, found, vms, rows, used, schedule,
          iso, admin, listing, answer, conn, overtaken, unwritten, cut>>

NoRow   == [name |-> None]
NoBuild == [status |-> "absent"]
Rest    == [build |-> 0, cancelled |-> FALSE, attempt |-> 1]
NoCall  == [at |-> "idle", name |-> Custom, prev |-> 0]
NoAdmin == [op |-> "none", build |-> 0, left |-> MaxActs]

\* Slip: a listed template has no version yet.
SyncedUnversioned(n) == [name |-> n, build |-> 0, version |-> 0, iso |-> 0,
                         family |-> FALSE, status |-> "active", by |-> -1]

Synced(n) == [name |-> n, build |-> 0, version |-> 1, iso |-> 0,
              family |-> FALSE, status |-> "active", by |-> -1]

Init ==
  /\ builds = [b \in Builds |-> NoBuild] /\ call = [b \in Builds |-> NoCall]
  /\ engine = Rest /\ stage = "none" /\ found = 0
  /\ vms  = [r \in Refs |-> IF r = 0 THEN Custom ELSE None]
  /\ rows = [r \in Refs |-> IF r = 0 THEN Synced(Custom) ELSE NoRow]
  /\ used = {} /\ schedule = -1 /\ iso = 1
  /\ admin = NoAdmin /\ listing = {} /\ answer = {} /\ conn = "free"
  /\ overtaken = {} /\ unwritten = {} /\ cut = FALSE

------------------------------------------------------------------------------
(* What the users may still do: one request of theirs is in flight at a time. *)

MayAct == admin.op = "none" /\ admin.left > 0
Acted  == admin' = [admin EXCEPT !.left = @ - 1]
Done   == admin' = [admin EXCEPT !.op = "none", !.build = 0]

------------------------------------------------------------------------------
(* What the tables say *)

Present == {r \in Refs : rows[r] # NoRow}
Managed == {r \in Present : rows[r].build # 0}
Family  == {r \in Present : rows[r].family}
Exists(b) == builds[b].status \notin {"absent", "deleted"}

ActiveInFamily == {r \in Family : rows[r].status = "active"}

GetMaxVersionInFamily == Max({0} \union {rows[r].version : r \in Family})

\* A row of templates that another row refers to cannot be deleted, unless that
\* row goes with the same statement.
Referenced(r, going) ==
  \/ r \in used \/ schedule = r
  \/ \E b \in Builds : Exists(b) /\ builds[b].template = r
  \/ \E q \in Present \ going : rows[q].by = r

\* A row of template_builds that a template or a later build refers to stays.
BuildReferenced(b) ==
  \/ \E r \in Present : rows[r].build = b
  \/ \E c \in Builds : Exists(c) /\ builds[c].previous = b

\* UPDATE template_builds SET status: a row that is gone is no error, and no caller
\* does anything about an error but log it.
UpdateBuildStatus(b, s) ==
  \/ /\ builds' = IF Exists(b) THEN [builds EXCEPT ![b].status = s] ELSE builds
     /\ unwritten' = unwritten \ {b}
  \/ WriteFaults /\ UNCHANGED builds /\ unwritten' = unwritten \union {b}

------------------------------------------------------------------------------
(* Starting a build *)

NextRow == {b \in Builds : call[b].at = "idle" /\ \A c \in 1..b-1 : call[c].at # "idle"}

\* The version comes from the templates linked so far.
NextVersion == GetMaxVersionInFamily + 1

Request(b, base, previous) ==
  /\ conn = "free" /\ b \in NextRow /\ NextVersion \in Builds
  /\ call' = [call EXCEPT ![b] = [at |-> "read", name |-> <<base, NextVersion>>, prev |-> previous]]
  /\ UNCHANGED <<builds, engine, stage, found, vms, rows, used, schedule,
                 iso, admin, listing, answer, conn, overtaken, unwritten, cut>>

\* StartBuild up to the version it reads.
StartBuild(b) == Request(b, "fm-os-target", 0)

\* RebuildTemplate refuses a template that is not managed or has no family.
RebuildTemplate(b, r) ==
  r \in Managed \intersect Family /\ Request(b, "base", rows[r].build)

RebuildByUser(b) == \E r \in Refs : RebuildTemplate(b, r)

CreateTemplateBuild(b) ==
  /\ conn = "free" /\ call[b].at = "read"
  /\ builds' = [builds EXCEPT ![b] = [status |-> "pending", version |-> call[b].name[2],
                  template |-> -1, previous |-> call[b].prev, iso |-> 0]]
  /\ call' = [call EXCEPT ![b].at = "created"]
  /\ UNCHANGED <<engine, stage, found, vms, rows, used, schedule, iso, admin,
                 listing, answer, conn, overtaken, unwritten, cut>>

\* Slip: the engine counts as free while a build is only being set up.
FreeEarly(b) == stage \in {"none", "setup"}

Free(b) == engine.build = 0

\* RunBuild takes the engine, or the row is marked failed.
RunBuild(b) ==
  /\ call[b].at = "created"
  /\ call' = [call EXCEPT ![b].at = "done"]
  /\ \/ /\ Free(b)
        /\ engine' = [Rest EXCEPT !.build = b] /\ stage' = "setup"
        /\ overtaken' = IF call[b].name[2] = NextVersion THEN overtaken
                        ELSE overtaken \union {b}
        /\ UNCHANGED <<builds, unwritten>>
     \/ /\ ~Free(b) /\ conn = "free"
        /\ UpdateBuildStatus(b, "failed")
        /\ UNCHANGED <<engine, stage, overtaken>>
  /\ UNCHANGED <<found, vms, rows, used, schedule, iso, admin, listing, answer, conn, cut>>

------------------------------------------------------------------------------
(* The engine's goroutine *)

\* Until Packer is done; afterwards the completion is under way.
Working == {"setup", "generate", "files", "init", "build", "retry"}
Completing == {"lineage", "listing", "store", "capabilities", "find", "link", "family", "supersede"}

EngineKeeps == UNCHANGED <<call, used, schedule, iso, admin, listing, overtaken, cut>>
RecordKeeps == UNCHANGED <<builds, unwritten>>

\* The deferred function: the engine is free again, whatever happened.
Released == engine' = Rest /\ stage' = "none" /\ found' = 0

\* failBuild and handleCancel: the row's last status, then the deferred function.
FailBuild == UpdateBuildStatus(engine.build, "failed") /\ Released

\* Slip: a cancelled build does not give the engine back.
HandleCancelBusy == UpdateBuildStatus(engine.build, "cancelled")
                      /\ UNCHANGED <<engine, stage, found>>

HandleCancel == UpdateBuildStatus(engine.build, "cancelled") /\ Released

\* The row is building, whatever it was.
Setup ==
  /\ stage = "setup" /\ conn = "free"
  /\ \/ UpdateBuildStatus(engine.build, "building")
        /\ stage' = "generate" /\ UNCHANGED <<engine, found>>
     \/ FailBuild
  /\ UNCHANGED <<vms, rows, answer, conn>> /\ EngineKeeps

\* The published checksum, or 0 for the address it is published at.
ResolveChecksum == {0, iso}

Generate ==
  /\ stage = "generate" /\ conn = "free"
  /\ \/ /\ \E sum \in ResolveChecksum :
             builds' = IF Exists(engine.build) THEN [builds EXCEPT ![engine.build].iso = sum]
                       ELSE builds
        /\ stage' = "files" /\ UNCHANGED <<engine, found, unwritten>>
     \/ FailBuild
  /\ UNCHANGED <<vms, rows, answer, conn>> /\ EngineKeeps

WriteFiles ==
  /\ stage = "files" /\ conn = "free"
  /\ \/ stage' = "init" /\ RecordKeeps /\ UNCHANGED <<engine, found>>
     \/ FailBuild
  /\ UNCHANGED <<vms, rows, answer, conn>> /\ EngineKeeps

PackerInit ==
  /\ stage = "init" /\ conn = "free"
  /\ \/ engine.cancelled /\ HandleCancel
     \/ ~engine.cancelled /\ FailBuild
     \/ /\ ~engine.cancelled
        /\ UpdateBuildStatus(engine.build, "building")
        /\ stage' = "build" /\ UNCHANGED <<engine, found>>
  /\ UNCHANGED <<vms, rows, answer, conn>> /\ EngineKeeps

\* packer build, and once more when a Proxmox node could not download the ISO.
PackerFails ==
  /\ stage \in {"build", "retry"} /\ conn = "free" /\ ~engine.cancelled
  /\ \/ FailBuild
     \/ stage = "build" /\ stage' = "retry" /\ RecordKeeps /\ UNCHANGED <<engine, found>>
  /\ UNCHANGED <<vms, rows, answer, conn>> /\ EngineKeeps

PackerCancelled ==
  /\ stage \in {"build", "retry"} /\ conn = "free" /\ engine.cancelled
  /\ HandleCancel
  /\ UNCHANGED <<vms, rows, answer, conn>> /\ EngineKeeps

\* packer build -force: a template of that name makes way for the new one.
PackerSucceeds ==
  /\ stage \in {"build", "retry"} /\ conn = "free" /\ ~engine.cancelled
  /\ LET b == engine.build IN
       /\ vms' = [r \in Refs |-> IF r = b THEN call[b].name
                                 ELSE IF vms[r] = call[b].name THEN None ELSE vms[r]]
       /\ UpdateBuildStatus(b, "completed")
  /\ stage' = "lineage"
  /\ UNCHANGED <<engine, found, rows, answer, conn>> /\ EngineKeeps

\* Two hours after RunBuild the context ends; nothing distinguishes that from a
\* cancel.
Deadline ==
  /\ stage \in Working /\ ~engine.cancelled
  /\ engine' = [engine EXCEPT !.cancelled = TRUE]
  /\ RecordKeeps /\ UNCHANGED <<stage, found, vms, rows, answer, conn>> /\ EngineKeeps

------------------------------------------------------------------------------
(* SyncTemplates: unmanaged rows are deleted and listed ones stored again, in one
   transaction, whether they still exist by then or not.  A row that must stay makes
   the whole transaction fail. *)

Unmanaged == Present \ Managed

SyncFails == \E r \in Unmanaged : Referenced(r, Unmanaged)

TemplateName(r) == IF r = 0 THEN Custom ELSE call[r].name

StoreListing(seen) ==
  /\ ~SyncFails
  /\ rows' = [r \in Refs |->
       IF r \in Managed THEN rows[r] ELSE IF r \in seen THEN Synced(TemplateName(r)) ELSE NoRow]

Listed == {r \in Refs : vms[r] # None}

\* A user's synchronisation: the listing is taken before the transaction.
ListTemplates ==
  /\ MayAct /\ listing = {} /\ Listed # {}
  /\ listing' = Listed /\ Acted
  /\ UNCHANGED <<builds, call, engine, stage, found, vms, rows, used, schedule,
                 iso, answer, conn, overtaken, unwritten, cut>>

SyncTemplates ==
  /\ listing # {} /\ conn = "free"
  /\ IF SyncFails THEN UNCHANGED <<rows, found>>
     ELSE /\ StoreListing(listing)
          /\ found' = IF found \in Unmanaged THEN -1 ELSE found
  /\ listing' = {}
  /\ UNCHANGED <<builds, call, engine, stage, vms, used, schedule, iso, admin,
                 answer, conn, overtaken, unwritten, cut>>

------------------------------------------------------------------------------
(* onBuildComplete *)

\* GetTemplateByName: a row without a build first, then the newest.
ByName(n, table) ==
  LET named == {r \in Refs : table[r] # NoRow /\ table[r].name = n}
      fresh == {r \in named : table[r].build = 0}
  IN  IF fresh # {} THEN {Max(fresh)} ELSE IF named # {} THEN {Max(named)} ELSE {}

CompletionKeeps == RecordKeeps /\ UNCHANGED vms /\ EngineKeeps

\* The build's row is read first; without it the lineage is left out.
GetTemplateBuild ==
  /\ stage = "lineage" /\ conn = "free"
  /\ \/ Exists(engine.build) /\ stage' = "listing" /\ UNCHANGED <<engine, found>>
     \/ (~Exists(engine.build) \/ WriteFaults) /\ Released
  /\ UNCHANGED <<rows, answer, conn>> /\ CompletionKeeps

\* The engine's synchronisation is at the hypervisor, without a deadline: for the
\* listing, and once more, after it was stored, for what the host allows.
AtHypervisor == {"listing", "capabilities"}

HypervisorAnswers ==
  /\ \/ stage = "listing" /\ stage' = "store" /\ answer' = Listed
     \/ stage \in AtHypervisor /\ stage' = "find" /\ UNCHANGED answer
  /\ UNCHANGED <<engine, found, rows, conn>> /\ CompletionKeeps

StoreAnswer ==
  /\ stage = "store" /\ conn = "free" /\ answer' = {}
  /\ \/ StoreListing(answer) /\ stage' = "capabilities"
     \/ (SyncFails \/ WriteFaults) /\ UNCHANGED rows /\ stage' = "find"
  /\ UNCHANGED <<engine, found, conn>> /\ CompletionKeeps

\* The lookup by name, whatever became of the synchronisation; one that fails has found
\* nothing.  After the last attempt the lineage is left out.
FindTemplate ==
  /\ stage = "find" /\ conn = "free"
  /\ LET hit == ByName(call[engine.build].name, rows)
     IN  \/ found' \in hit /\ stage' = "link" /\ UNCHANGED engine
         \/ /\ hit = {} \/ WriteFaults
            /\ \/ /\ engine.attempt < Attempts /\ stage' = "listing"
                  /\ engine' = [engine EXCEPT !.attempt = @ + 1] /\ UNCHANGED found
               \/ engine.attempt = Attempts /\ Released
  /\ UNCHANGED <<rows, answer, conn>> /\ CompletionKeeps

\* Slip: the version stays the one the listing gave the template.
LinkedUnversioned(row, b) == [row EXCEPT !.build = b, !.iso = builds[b].iso, !.status = "active"]

Linked(row, b) == [row EXCEPT !.build = b, !.version = builds[b].version,
                              !.iso = builds[b].iso, !.status = "active"]

\* One transaction; a build or a template that is gone breaks a foreign key.
LinkBuildToTemplate ==
  /\ stage = "link" /\ conn = "free"
  /\ LET b == engine.build
         gone == found = -1 \/ ~Exists(b)
     IN  \/ (gone \/ WriteFaults) /\ Released /\ UNCHANGED <<builds, rows>>
         \/ /\ ~gone /\ rows' = [rows EXCEPT ![found] = Linked(rows[found], b)]
            /\ builds' = [builds EXCEPT ![b].template = found]
            /\ stage' = "family" /\ UNCHANGED <<engine, found>>
  /\ UNCHANGED <<vms, answer, conn, unwritten>> /\ EngineKeeps

\* The transaction ends with its commit, which may be refused.  When a statement of
\* it fails it is left open until onBuildComplete returns, and the next statement
\* waits for it.  Without the family nothing is superseded.
LinkFamily ==
  /\ stage = "family" /\ conn = "free"
  /\ \/ rows' = [rows EXCEPT ![found].family = TRUE] /\ stage' = "supersede"
        /\ UNCHANGED <<engine, found, conn>>
     \/ WriteFaults /\ conn' \in {"free", "held"} /\ stage' = "supersede"
        /\ UNCHANGED <<rows, engine, found>>
     \/ WriteFaults /\ Released /\ UNCHANGED <<rows, conn>>
  /\ UNCHANGED answer /\ CompletionKeeps

\* Slip: only the template of the build this one was made from is superseded.
OthersByLineage == {r \in ActiveInFamily \ {found} : rows[r].build = builds[engine.build].previous}

Others == ActiveInFamily \ {found}

\* The completion is over, also when this fails.
Supersede ==
  /\ stage = "supersede" /\ conn = "free" /\ Released
  /\ \/ rows' = [r \in Refs |-> IF r \in Others
                   THEN [rows[r] EXCEPT !.status = "superseded", !.by = found] ELSE rows[r]]
        /\ cut' = FALSE
     \/ WriteFaults /\ UNCHANGED rows /\ cut' = TRUE
  /\ RecordKeeps
  /\ UNCHANGED <<vms, conn, call, used, schedule, iso, admin, listing, answer, overtaken>>

EngineStep == Setup \/ Generate \/ WriteFiles \/ PackerInit \/ PackerCancelled \/ GetTemplateBuild
                \/ StoreAnswer \/ FindTemplate \/ LinkBuildToTemplate \/ LinkFamily \/ Supersede
Packer     == PackerFails \/ PackerSucceeds

------------------------------------------------------------------------------
(* The schedule *)

\* checkTemplate: a checksum that was never resolved cannot be compared.
HasUpdate(r) == rows[r].build # 0 /\ rows[r].iso # 0 /\ rows[r].iso # iso

CreateSchedule ==
  /\ MayAct /\ Acted /\ schedule = -1 /\ conn = "free"
  /\ \E r \in Managed : schedule' = r
  /\ UNCHANGED <<builds, call, engine, stage, found, vms, rows, used, iso,
                 listing, answer, conn, overtaken, unwritten, cut>>

DeleteSchedule ==
  /\ MayAct /\ Acted /\ schedule # -1 /\ conn = "free" /\ schedule' = -1
  /\ UNCHANGED <<builds, call, engine, stage, found, vms, rows, used, iso, listing, answer, conn,
                 overtaken, unwritten, cut>>

\* The vendor's next image.  Nobody compares checksums before there is a schedule.
Publish ==
  /\ schedule # -1 /\ iso < MaxIso /\ iso' = iso + 1
  /\ UNCHANGED <<builds, call, engine, stage, found, vms, rows, used, schedule,
                 admin, listing, answer, conn, overtaken, unwritten, cut>>

\* An on_update schedule; the rebuild is skipped while a build runs.
TriggerRebuild(b) == engine.build = 0 /\ RebuildTemplate(b, schedule)

ProcessSchedule(b) == schedule # -1 /\ HasUpdate(schedule) /\ TriggerRebuild(b)

------------------------------------------------------------------------------
(* Administrators and the world *)

AdminKeeps == UNCHANGED <<call, stage, found, iso, listing, answer, conn, overtaken, cut>>

\* CancelBuild and DeleteBuild read the row first and act on it later.
ReadBuild(op, b) ==
  /\ MayAct /\ conn = "free"
  /\ \/ op = "cancel" /\ builds[b].status \in Active
     \/ op = "delete" /\ Exists(b) /\ builds[b].status # "building"
  /\ admin' = [op |-> op, build |-> b, left |-> admin.left - 1]
  /\ RecordKeeps /\ UNCHANGED <<engine, vms, rows, used, schedule>> /\ AdminKeeps

\* IsRunningBuild decides between the engine and an orphaned row.
CheckRunning ==
  /\ admin.op = "cancel"
  /\ admin' = [admin EXCEPT !.op = IF engine.build = admin.build THEN "signal" ELSE "orphan"]
  /\ RecordKeeps /\ UNCHANGED <<engine, vms, rows, used, schedule>> /\ AdminKeeps

\* Engine.CancelBuild ends whatever runs by now.
Signal ==
  /\ admin.op = "signal" /\ Done
  /\ engine' = IF engine.build = 0 THEN engine ELSE [engine EXCEPT !.cancelled = TRUE]
  /\ RecordKeeps /\ UNCHANGED <<vms, rows, used, schedule>> /\ AdminKeeps

CancelOrphan ==
  /\ admin.op = "orphan" /\ conn = "free" /\ Done
  /\ UpdateBuildStatus(admin.build, "cancelled")
  /\ UNCHANGED <<engine, vms, rows, used, schedule>> /\ AdminKeeps

DeleteBuild ==
  /\ admin.op = "delete" /\ conn = "free" /\ Done
  /\ builds' = IF BuildReferenced(admin.build) \/ ~Exists(admin.build) THEN builds
               ELSE [builds EXCEPT ![admin.build].status = "deleted"]
  /\ UNCHANGED <<engine, vms, rows, used, schedule, unwritten>> /\ AdminKeeps

\* DELETE FROM templates WHERE superseded_by = r: all of them, or none when one is
\* referred to, as its build does.
Superseded(r) == {q \in Present : rows[q].by = r /\ rows[q].status = "superseded"}

CleanupRefused(r) == \E q \in Superseded(r) : Referenced(q, Superseded(r))

CleanupSuperseded(r) ==
  /\ MayAct /\ Acted /\ conn = "free" /\ Superseded(r) # {}
  /\ rows' = [q \in Refs |-> IF q \in Superseded(r) /\ ~CleanupRefused(r) THEN NoRow ELSE rows[q]]
  /\ RecordKeeps /\ UNCHANGED <<engine, vms, used, schedule>> /\ AdminKeeps

\* DeleteTemplate deletes the builds linked to it first, which the row itself
\* refers to: only a template without a build can go.
DeleteTemplate(r, destroy) ==
  /\ MayAct /\ Acted /\ conn = "free" /\ r \in Present
  /\ vms' = IF destroy THEN [vms EXCEPT ![r] = None] ELSE vms
  /\ IF r \in Managed THEN UNCHANGED <<rows, used, schedule>>
     ELSE /\ rows' = [q \in Refs |-> IF q = r THEN NoRow
                        ELSE IF q \in Present /\ rows[q].by = r THEN [rows[q] EXCEPT !.by = -1]
                        ELSE rows[q]]
          /\ used' = used \ {r}
          /\ schedule' = IF schedule = r THEN -1 ELSE schedule
  /\ RecordKeeps /\ UNCHANGED <<engine, call, stage, iso, listing, answer, conn, overtaken, cut>>
  /\ found' = IF found = r /\ r \notin Managed THEN -1 ELSE found

\* A deployment from a template references its row.
Deploy(r) ==
  /\ MayAct /\ Acted /\ conn = "free" /\ r \in Present \ used /\ used' = used \union {r}
  /\ RecordKeeps /\ UNCHANGED <<engine, vms, rows, schedule>> /\ AdminKeeps

\* CleanupStaleBuilds fails the rows of builds that went with the process, if it can.
Stale == {b \in Builds : builds[b].status \in Active}

Crash ==
  /\ Crashes
  /\ \/ /\ builds' = [b \in Builds |-> IF b \in Stale
                         THEN [builds[b] EXCEPT !.status = "failed"] ELSE builds[b]]
        /\ unwritten' = unwritten \ Stale
     \/ WriteFaults /\ UNCHANGED builds /\ unwritten' = unwritten \union Stale
  /\ call' = [b \in Builds |-> IF call[b].at = "idle" THEN NoCall ELSE [call[b] EXCEPT !.at = "done"]]
  /\ engine' = Rest /\ stage' = "none" /\ found' = 0
  /\ Done /\ listing' = {} /\ answer' = {} /\ conn' = "free"
  /\ cut' = (cut \/ stage = "supersede")
  /\ UNCHANGED <<vms, rows, used, schedule, iso, overtaken>>

Next ==
  \/ \E b \in Builds : StartBuild(b) \/ RebuildByUser(b) \/ ProcessSchedule(b)
                         \/ CreateTemplateBuild(b) \/ RunBuild(b)
  \/ EngineStep \/ Packer \/ Deadline \/ HypervisorAnswers
  \/ ListTemplates \/ SyncTemplates \/ CreateSchedule \/ DeleteSchedule \/ Publish
  \/ \E b \in Builds : ReadBuild("cancel", b) \/ ReadBuild("delete", b)
  \/ CheckRunning \/ Signal \/ CancelOrphan \/ DeleteBuild
  \/ \E r \in Refs : CleanupSuperseded(r) \/ DeleteTemplate(r, TRUE)
                       \/ DeleteTemplate(r, FALSE) \/ Deploy(r)
  \/ Crash

------------------------------------------------------------------------------
(* Properties *)

Rows == {NoRow} \union [name : Names, build : {0} \union Builds, version : Builds,
          iso : 0..MaxIso, family : BOOLEAN, status : {"active", "superseded"}, by : Refs \union {-1}]
BuildRows == [status : Active \union Ended \union {"deleted"}, version : Builds,
              template : Refs \union {-1}, previous : {0} \union Builds, iso : 0..MaxIso]
               \union {NoBuild}

\* Every variable has its type.
FactoryTypeOK ==
  /\ builds \in [Builds -> BuildRows] /\ rows \in [Refs -> Rows]
  /\ call \in [Builds -> [at : {"idle", "read", "created", "done"}, name : Names, prev : {0} \union Builds]]
  /\ engine \in [build : {0} \union Builds, cancelled : BOOLEAN, attempt : 1..Attempts]
  /\ stage \in Working \union Completing \union {"none"}
  /\ found \in Refs \union {-1} /\ vms \in [Refs -> Names \union {None}]
  /\ used \subseteq Refs /\ schedule \in Refs \union {-1}
  /\ iso \in 0..MaxIso /\ listing \union answer \subseteq Refs /\ conn \in {"free", "held"}
  /\ admin \in [op : {"none", "cancel", "signal", "orphan", "delete"}, build : {0} \union Builds,
               left : 0..MaxActs]
  /\ overtaken \union unwritten \subseteq Builds /\ cut \in BOOLEAN

\* A row that says a build is pending or building has an owner that will end it, the
\* request that made it or the engine, unless its last status could not be written
\* (service/factory.go:173, engine.go:229).
ActiveRowHasOwner ==
  \A b \in Builds \ unwritten : builds[b].status \in Active
    => \/ call[b].at = "created"
       \/ engine.build = b /\ stage \in Working

\* Two templates of a family carry one version only when a version was read before
\* a build that ended in between was linked (factory.go:141, "stays correct").
VersionsDistinct ==
  \A q, r \in Family : q # r /\ rows[q].version = rows[r].version
    => \E b \in overtaken : rows[q].build = b \/ rows[r].build = b

\* Of two active templates of a family one was linked by a build that had read its
\* version before another was linked (sqlite.go:1788), while no completion is about to
\* supersede the others and the last one did not fail to, nor did the server stop just
\* before it (service/factory.go:448).
OneActivePerFamily ==
  stage # "supersede" /\ ~cut
    => \A q, r \in ActiveInFamily :
         q = r \/ {rows[q].build, rows[r].build} \intersect overtaken # {}

\* The engine comes free again, whatever Packer does and whichever write fails, unless
\* the connection is kept by a transaction nobody ends, or the hypervisor never answers
\* the synchronisation that follows a build, which has no deadline (engine.go:171,
\* service/factory.go:390, service/factory.go:429).
EngineComesFree ==
  WF_vars(HypervisorAnswers) => (engine.build # 0 ~> engine.build = 0 \/ conn = "held")

Spec == Init /\ [][Next]_vars

\* The goroutine goes on and the two hours pass; Packer and the hypervisor may take for
\* ever, and so may requests.
Fairness == WF_vars(EngineStep) /\ WF_vars(Deadline)

FairSpec == Spec /\ Fairness
=============================================================================
