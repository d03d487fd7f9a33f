------------------------------- MODULE Schema -------------------------------
(***************************************************************************)
(* The rows of the database, the foreign keys between them and the         *)
(* transactions that delete.  SQLite enforces the keys (_foreign_keys=ON,  *)
(* internal/db/sqlite.go:37): a statement that would leave a reference to  *)
(* nothing is refused and its transaction is rolled back, unless the key   *)
(* says ON DELETE CASCADE.  A row is a table's name and a number; a set    *)
(* reference is a record with its two ends and its column.  Columns that   *)
(* are not references are left out, and of those previous_build_id, which  *)
(* no statement clears.  Rows whose deletion cascades have no cascade of   *)
(* their own, so one step of the cascade is all of it.                     *)
(***************************************************************************)
EXTENDS Naturals, FiniteSets, SequencesExt

CONSTANTS
  MaxRows,      \* bound: rows the database holds at once
  Templates     \* the templates of the target that may have a row, by number

ASSUME SchemaAssumption == MaxRows \in Nat /\ Templates \subseteq Nat

VARIABLE db     \* [rows |-> the rows, keys |-> the references that are set]
schemaVars == <<db>>

Tables == {"users", "user_preferences", "auth_sources", "api_keys", "notifications", "targets",
  "target_ignored_vms", "template_sources", "template_families", "template_builds",
  "template_schedules", "deployments", "deployment_logs", "deployment_actions",
  "bulk_deployments", "managed_vms", "vm_snapshots", "vm_credentials", "actions",
  "action_versions", "action_executions", "blueprints"}
Row(table) == <<table, 1>>
Template(t) == <<"templates", t>>
AllRows == {Row(t) : t \in Tables} \cup {Template(t) : t \in Templates}
Key(from, column, to) == [from |-> from, column |-> column, to |-> to]

\* The columns whose rows go with the row they refer to.
Cascading(k) == \/ k.from[1] = "templates" /\ k.column = "target_id"
                \/ k.from[1] = "action_versions" /\ k.column = "action_id"
                \/ k.from[1] \in {"deployment_logs", "vm_snapshots", "vm_credentials",
                     "notifications", "user_preferences", "target_ignored_vms"}

\* A statement deletes rows and clears references; it is refused when a
\* reference would be left to a row that is gone.
Statement(gone, clears) == [gone |-> gone, clears |-> clears]
DeleteRows(gone) == Statement(gone, {})
Cascade(d, gone) == gone \cup {k.from : k \in {x \in d.keys : x.to \in gone /\ Cascading(x)}}
Effect(d, s) ==
  LET gone == Cascade(d, s.gone) IN
  [rows |-> d.rows \ gone, keys |-> {k \in d.keys \ s.clears : k.from \notin gone}]
Dangling(d) == \E k \in d.keys : k.to \notin d.rows
Execute(d, s) == IF Dangling(d) THEN d ELSE Effect(d, s)
\* A transaction is its statements in order, and stops at the first refusal.
After(statements) == FoldLeft(Execute, db, statements)
Refused(statements) == Dangling(After(statements))

-----------------------------------------------------------------------------
\* ensureAdminUser leaves one account.
SchemaInit == db = [rows |-> {Row("users")}, keys |-> {}]

Insert(row, needs, may) ==
  /\ row \notin db.rows /\ Cardinality(db.rows) < MaxRows
  /\ \A k \in needs : k.to \in db.rows
  /\ \E set \in SUBSET {k \in may : k.to \in db.rows} :
       db' = [rows |-> db.rows \cup {row}, keys |-> db.keys \cup needs \cup set]
Refers(table, column, parent) == Key(Row(table), column, Row(parent))
Target(table) == {Refers(table, "target_id", "targets")}
Creator(table) == {Refers(table, "created_by", "users")}
SomeTemplate(table) == {Key(Row(table), "template_id", Template(t)) : t \in Templates}

\* A user that CreateUser or CreateLDAPUser adds, alone or from a directory.
CreateUserRow ==
  Insert(Row("users"), {}, {Refers("users", "auth_source_id", "auth_sources")})
SetUserPreference ==
  Insert(Row("user_preferences"), {Refers("user_preferences", "user_id", "users")}, {})
CreateAuthSource == Insert(Row("auth_sources"), {}, {})
CreateAPIKey == Insert(Row("api_keys"), {Refers("api_keys", "user_id", "users")}, {})
CreateNotification ==
  Insert(Row("notifications"), {}, {Refers("notifications", "user_id", "users")})
CreateTarget == Insert(Row("targets"), {}, {})
IgnoreVMs == Insert(Row("target_ignored_vms"), Target("target_ignored_vms"), {})
CreateTemplateSource == Insert(Row("template_sources"), {}, Target("template_sources"))
CreateTemplate == \E t \in Templates :
  Insert(Template(t), {Key(Template(t), "target_id", Row("targets"))}, {})
GetOrCreateFamilyByOS == Insert(Row("template_families"), Target("template_families"), {})
CreateBuildRow ==
  Insert(Row("template_builds"), Target("template_builds"), Creator("template_builds"))
CreateTemplateSchedule == \E k \in SomeTemplate("template_schedules") :
  Insert(Row("template_schedules"), {k}, {})
CreateBulkDeployment ==
  Insert(Row("bulk_deployments"), {}, Creator("bulk_deployments"))
CreateDeployment == \E k \in SomeTemplate("deployments") :
  Insert(Row("deployments"), {k} \cup Target("deployments"), Creator("deployments"))
CreateDeploymentWithBulk == \E k \in SomeTemplate("deployments") :
  Insert(Row("deployments"), {k, Refers("deployments", "bulk_deployment_id", "bulk_deployments")}
           \cup Target("deployments"), Creator("deployments"))
AddDeploymentLog == Insert(Row("deployment_logs"),
  {Refers("deployment_logs", "deployment_id", "deployments")}, {})
CreateManagedVM == Insert(Row("managed_vms"), Target("managed_vms"),
  {Refers("managed_vms", "deployment_id", "deployments")})
CreateVMSnapshot == Insert(Row("vm_snapshots"), {Refers("vm_snapshots", "vm_id", "managed_vms")}, {})
SetVMCredentials ==
  Insert(Row("vm_credentials"), {Refers("vm_credentials", "vm_id", "managed_vms")}, {})
CreateBlueprint == Insert(Row("blueprints"), {},
  SomeTemplate("blueprints") \cup Target("blueprints") \cup Creator("blueprints"))
CreateActionRow == Insert(Row("actions"), {}, {})
AddActionVersion == Insert(Row("action_versions"),
  {Refers("action_versions", "action_id", "actions")}, {Refers("action_versions", "changed_by", "users")})
SetDeploymentActions == Insert(Row("deployment_actions"),
  {Refers("deployment_actions", "deployment_id", "deployments"),
   Refers("deployment_actions", "action_id", "actions")}, {})
CreateExecution == Insert(Row("action_executions"),
  {Refers("action_executions", "vm_id", "managed_vms"),
   Refers("action_executions", "created_by", "users")},
  {Refers("action_executions", "action_id", "actions")})

\* References that are set later.
SetKeys(ks) ==
  /\ \A k \in ks : k.from \in db.rows /\ k.to \in db.rows
  /\ db' = [db EXCEPT !.keys = {k \in @ : \A n \in ks : <<k.from, k.column>> # <<n.from, n.column>>}
                                 \cup ks]
LinkBuildToTemplate == \E t \in Templates :
  SetKeys({Key(Template(t), "build_id", Row("template_builds")),
           Key(Row("template_builds"), "template_id", Template(t))})
JoinFamily == \E t \in Templates :
  SetKeys({Key(Template(t), "family_id", Row("template_families"))})
SupersedeTemplate == \E old, new \in Templates :
  old # new /\ SetKeys({Key(Template(old), "superseded_by", Template(new))})

-----------------------------------------------------------------------------
\* The rows of a table that refer to one of a set of rows.
From(table, column, parents) ==
  {k.from : k \in {x \in db.keys : x.from[1] = table /\ x.column = column /\ x.to \in parents}}
Referring(column, parents) == {k \in db.keys : k.column = column /\ k.to \in parents}
OnTarget(table) == From(table, "target_id", {Row("targets")})
\* What a template's deployments have made.
Deployed(t) == From("deployments", "template_id", {Template(t)})
DeployedVMs(t) == From("managed_vms", "deployment_id", Deployed(t))
ExecutionsOn(vms) == From("action_executions", "vm_id", vms)

DeleteTargetTx == LET vms == OnTarget("managed_vms")
                      deployments == OnTarget("deployments")
                      templates == OnTarget("templates") IN
  << DeleteRows(ExecutionsOn(vms)), DeleteRows(vms),
     DeleteRows(From("deployment_actions", "deployment_id", deployments)),
     DeleteRows(deployments),
     DeleteRows(From("template_schedules", "template_id", templates)),
     DeleteRows(templates), DeleteRows(OnTarget("template_builds")),
     DeleteRows({Row("targets")}) >>

DeleteTemplateTx(t, keepVMs) ==
  (IF keepVMs THEN <<>>
     ELSE <<DeleteRows(ExecutionsOn(DeployedVMs(t))), DeleteRows(DeployedVMs(t))>>) \o
  << DeleteRows(From("deployment_actions", "deployment_id", Deployed(t))),
     Statement({}, {k \in Referring("template_id", {Template(t)}) : k.from[1] = "deployments"}),
     DeleteRows(From("template_schedules", "template_id", {Template(t)})),
     DeleteRows(From("template_builds", "template_id", {Template(t)})),
     Statement({}, Referring("superseded_by", {Template(t)})),
     DeleteRows({Template(t)}) >>

ClearDeploymentHistoryTx == LET over == db.rows \cap {Row("deployments")} IN
  << DeleteRows(From("deployment_logs", "deployment_id", over)),
     DeleteRows(From("deployment_actions", "deployment_id", over)), DeleteRows(over) >>

DeleteManagedVMTx == LET vm == {Row("managed_vms")} IN
  <<DeleteRows(ExecutionsOn(vm)), DeleteRows(vm)>>

\* Slip: executions are not unlinked.
DeleteActionLinked == LET action == {Row("actions")} IN
  <<DeleteRows(From("deployment_actions", "action_id", action)), DeleteRows(action)>>

\* An execution keeps a copy of what it ran, and only its reference is cleared.
DeleteActionTx == LET action == {Row("actions")} IN
  << Statement({}, {k \in Referring("action_id", action) : k.from[1] = "action_executions"}),
     DeleteRows(From("deployment_actions", "action_id", action)), DeleteRows(action) >>

DeleteSupersededTx(t) == <<DeleteRows(From("templates", "superseded_by", {Template(t)}))>>
\* What has no transaction of its own.
Leaves == {"users", "auth_sources", "api_keys", "notifications", "target_ignored_vms",
  "template_sources", "template_schedules", "template_builds", "vm_snapshots",
  "vm_credentials", "blueprints"}
DeleteOneTx(table) == <<DeleteRows({Row(table)})>>

-----------------------------------------------------------------------------
\* Slip: the connection does not enforce the keys.
CommitUnchecked(statements) ==
  db' = FoldLeft(LAMBDA d, s : Effect(d, s), db, statements)
\* Run a transaction: a refusal rolls it back, and the request fails.
Commit(statements) ==
  /\ ~Refused(statements)
  /\ db' = After(statements)
DeleteTarget == Row("targets") \in db.rows /\ Commit(DeleteTargetTx)
DeleteTemplate == \E t \in Templates, keepVMs \in BOOLEAN :
  Template(t) \in db.rows /\ Commit(DeleteTemplateTx(t, keepVMs))
ClearDeploymentHistory == Row("deployments") \in db.rows /\ Commit(ClearDeploymentHistoryTx)
DeleteManagedVM == Row("managed_vms") \in db.rows /\ Commit(DeleteManagedVMTx)
RemoveAction == Row("actions") \in db.rows /\ Commit(DeleteActionTx)
DeleteSupersededTemplates == \E t \in Templates : Commit(DeleteSupersededTx(t))
DeleteOne == \E table \in Leaves :
  /\ Row(table) \in db.rows
  /\ Commit(DeleteOneTx(table))

SchemaNext ==
  \/ CreateUserRow \/ SetUserPreference \/ CreateAuthSource \/ CreateAPIKey \/ CreateNotification \/ CreateTarget \/ IgnoreVMs
  \/ CreateTemplateSource \/ CreateTemplate \/ GetOrCreateFamilyByOS \/ CreateBuildRow
  \/ CreateTemplateSchedule \/ CreateBulkDeployment \/ CreateDeployment
  \/ CreateDeploymentWithBulk \/ AddDeploymentLog \/ CreateManagedVM \/ CreateVMSnapshot
  \/ SetVMCredentials \/ CreateBlueprint \/ CreateActionRow \/ AddActionVersion
  \/ SetDeploymentActions \/ CreateExecution
  \/ LinkBuildToTemplate \/ JoinFamily \/ SupersedeTemplate
  \/ DeleteTarget \/ DeleteTemplate \/ ClearDeploymentHistory \/ DeleteManagedVM
  \/ RemoveAction \/ DeleteSupersededTemplates \/ DeleteOne
SchemaSpec == SchemaInit /\ [][SchemaNext]_schemaVars

-----------------------------------------------------------------------------
\* Every reference is between two rows, and a row has what it cannot be without.
SchemaTypeOK ==
  /\ db.rows \subseteq AllRows
  /\ ~Dangling(db)
  /\ \A k \in db.keys : k.from \in db.rows
  /\ \A r \in db.rows : r[1] \in {"templates", "managed_vms", "deployments", "template_builds"}
       => \E k \in db.keys : k.from = r /\ k.column = "target_id"

\* A VM's record and a saved action can always be removed, whatever refers to
\* them: their deletions first clear what the database would refuse for
\* (DeleteManagedVM and DeleteAction).
NeverRefused ==
  /\ Row("managed_vms") \in db.rows => ~Refused(DeleteManagedVMTx)
  /\ Row("actions") \in db.rows => ~Refused(DeleteActionTx)
=============================================================================
