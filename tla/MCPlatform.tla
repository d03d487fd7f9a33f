----------------------------- MODULE MCPlatform -----------------------------
(* The components around deployments and executions.  They share no state: in *)
(* a behaviour one of them moves, and the others stay as they began.          *)
EXTENDS Catalogue, Reminders, Schema, Migrations, Proxmox, VSphere, Bulk,
  Hardware, Notices, TLC

VARIABLE focus
platformVars == <<focus, catalogueVars, remindVars, schemaVars, migrationVars, proxmoxVars,
  vsphereVars, bulkVars, hardwareVars, noticeVars>>

PlatformInit ==
  /\ CatalogueInit /\ RemindInit /\ SchemaInit /\ MigrationsInit /\ ProxmoxInit /\ VSphereInit /\ BulkInit /\ HardwareInit /\ NoticesInit
  /\ focus \in {"catalogue", "reminders", "schema", "migrations", "proxmox", "vsphere", "bulk",
       "hardware", "notices"}
  /\ focus = "hardware" \/ (kind = "proxmox" /\ ~owed)
  /\ focus = "notices" \/ staff.admins = {}
\* All but the component that moves.
Still(rest) == UNCHANGED <<focus, rest>>
PlatformNext ==
  \/ focus = "catalogue" /\ CatalogueNext /\ Still(<<remindVars, schemaVars, migrationVars, proxmoxVars, vsphereVars, bulkVars, hardwareVars, noticeVars>>)
  \/ focus = "reminders" /\ RemindNext /\ Still(<<catalogueVars, schemaVars, migrationVars, proxmoxVars, vsphereVars, bulkVars, hardwareVars, noticeVars>>)
  \/ focus = "schema" /\ SchemaNext /\ Still(<<catalogueVars, remindVars, migrationVars, proxmoxVars, vsphereVars, bulkVars, hardwareVars, noticeVars>>)
  \/ focus = "migrations" /\ MigrationsNext /\ Still(<<catalogueVars, remindVars, schemaVars, proxmoxVars, vsphereVars, bulkVars, hardwareVars, noticeVars>>)
  \/ focus = "proxmox" /\ ProxmoxNext /\ Still(<<catalogueVars, remindVars, schemaVars, migrationVars, vsphereVars, bulkVars, hardwareVars, noticeVars>>)
  \/ focus = "vsphere" /\ VSphereNext /\ Still(<<catalogueVars, remindVars, schemaVars, migrationVars, proxmoxVars, bulkVars, hardwareVars, noticeVars>>)
  \/ focus = "bulk" /\ BulkNext /\ Still(<<catalogueVars, remindVars, schemaVars, migrationVars, proxmoxVars, vsphereVars, hardwareVars, noticeVars>>)
  \/ focus = "hardware" /\ HardwareNext /\ Still(<<catalogueVars, remindVars, schemaVars, migrationVars, proxmoxVars, vsphereVars, bulkVars, noticeVars>>)
  \/ focus = "notices" /\ NoticesNext /\ Still(<<catalogueVars, remindVars, schemaVars, migrationVars, proxmoxVars, vsphereVars, bulkVars, hardwareVars>>)
PlatformSpec == PlatformInit /\ [][PlatformNext]_platformVars

\* Every machine has a name of its own on Proxmox, and the same on vSphere.
OwnName(d) == d
CONSTANT shared
OneName(g) == shared
Alike == Permutations(Scripts) \cup Permutations(Edits) \cup Permutations(Callers)
  \cup Permutations(Visitors)

\* Every variable of the nine components has its type, and no row of the
\* database refers to one that is gone (actions.go, sqlite.go, bulk.go).
PlatformTypeOK ==
  /\ CatalogueTypeOK /\ RemindTypeOK /\ SchemaTypeOK /\ MigrationsTypeOK
  /\ ProxmoxTypeOK /\ VSphereTypeOK /\ BulkTypeOK /\ HardwareTypeOK /\ NoticesTypeOK
=============================================================================
