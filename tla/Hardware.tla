------------------------------ MODULE Hardware ------------------------------
(***************************************************************************)
(* The hardware of one managed VM (VMService.Resize, ExpandDisk, AddDisk,  *)
(* AddNIC and the snapshots, internal/service/vm.go): a request reads the  *)
(* row, changes the VM at the hypervisor and writes what it computed from  *)
(* the row it had read; a sync of all VMs, five seconds after the last     *)
(* change, writes what the hypervisor reports.  Nothing is locked, and any *)
(* step may fail or lose its answer.  Memory goes with the processors, and *)
(* what a request is refused for by the VM's power state is one of its     *)
(* failures.                                                               *)
(***************************************************************************)
EXTENDS Naturals, FiniteSets, FiniteSetsExt

CONSTANTS
  Hypervisors,  \* kinds of provider: some of "vsphere", "proxmox"
  Bays,         \* the places of disks, in the order in which they are listed
  Titles,       \* names of snapshots
  Visitors,     \* requests of users
  Passes,       \* runs of SyncAll
  MaxSize       \* bound: the size of a disk, the number of processors

ASSUME HardwareAssumption ==
  /\ Hypervisors \subseteq {"vsphere", "proxmox"}
  /\ Bays \subseteq Nat /\ IsFiniteSet(Bays) /\ 0 \in Bays /\ MaxSize \in Nat \ {0}

VARIABLES
  kind,       \* the provider of the VM's target
  cpu, disk,  \* the VM: its processors; per bay the size of a disk, 0 for none
  kept,       \* its snapshots: name, the request that took it, processors then
  sizes,      \* the row in managed_vms: cpu and disk_gb
  listed,     \* the rows in vm_snapshots, each the request that inserted it and a name
  visit,      \* per request: where it stands and what it holds
  timer,      \* whether syncTimer is running
  pass,       \* per run of SyncAll: where it stands and what it was told
  owed        \* history: no change since has made up for a failure or an outdated sync
hardwareVars == <<kind, cpu, disk, kept, sizes, listed, visit, timer, pass, owed>>

Used == {b \in Bays : disk[b] > 0}
\* What the provider reports: the sum of the disks, or on Proxmox the first one.
Reported == [cpu |-> cpu,
  disk |-> IF kind = "vsphere" THEN MapThenSumSet(LAMBDA b : disk[b], Used) ELSE disk[0]]
\* The key a disk has in a listing: its own, or its position there.
KeyOf(b) == IF kind = "vsphere" THEN b ELSE Cardinality({c \in Used : c < b})

Blank == [at |-> "none", key |-> 0, bay |-> 0, size |-> 0, row |-> [cpu |-> 0, disk |-> 0],
  snap |-> <<>>]
HardwareInit ==
  /\ kind \in Hypervisors
  /\ cpu = 1 /\ disk = [b \in Bays |-> IF b \in {0, Max(Bays)} THEN 1 ELSE 0]
  /\ kept = {} /\ listed = {}
  /\ sizes \in {Reported, Blank.row} /\ owed = (sizes # Reported)
  /\ visit = [u \in Visitors |-> Blank]
  /\ timer = FALSE
  /\ pass = [p \in Passes |-> [at |-> "none", seen |-> [cpu |-> 0, disk |-> 0]]]

VM == <<cpu, disk, kept>>
Rows == <<sizes, listed>>
Syncs == <<timer, pass>>
Stands(u, at) == visit[u].at = at
VisitTo(u, at) == visit' = [visit EXCEPT ![u].at = at]
Begin(u, at, v) == Stands(u, "none") /\ visit' = [visit EXCEPT ![u] = [v EXCEPT !.at = at]]
\* scheduleSyncAll starts the timer, anew if it was running.
ScheduleSyncAll == timer' = TRUE /\ UNCHANGED pass

-----------------------------------------------------------------------------
(* What a request does at the hypervisor, after GetManagedVM *)

\* The call is refused, or takes effect and its answer is lost.
Declined(u) == VisitTo(u, "done") /\ UNCHANGED <<VM, owed>>
Reports(u, at) == (VisitTo(u, at) /\ UNCHANGED owed) \/ (VisitTo(u, "done") /\ owed' = TRUE)

ResizeAsked(u) ==
  /\ \E n \in 1..MaxSize : Begin(u, "resize", [Blank EXCEPT !.size = n, !.row = sizes])
  /\ UNCHANGED <<kind, VM, Rows, Syncs, owed>>
\* On Proxmox the change of a running VM waits for its next start.
ResizeVM(u) ==
  /\ Stands(u, "resize")
  /\ \/ Declined(u)
     \/ /\ cpu' = visit[u].size \/ (kind = "proxmox" /\ UNCHANGED cpu)
        /\ Reports(u, "resized") /\ UNCHANGED <<disk, kept>>
  /\ UNCHANGED <<kind, Rows, Syncs>>

\* A user looks at the disks and picks one, by its key.
ListDisks(u) ==
  /\ \E b \in Used : Begin(u, "picked", [Blank EXCEPT !.bay = b, !.key = KeyOf(b)])
  /\ UNCHANGED <<kind, VM, Rows, Syncs, owed>>
Keyed(u) == {b \in Used : KeyOf(b) = visit[u].key}
ExpandAsked(u) ==
  /\ Stands(u, "picked")
  /\ visit' = [visit EXCEPT ![u].at = "loaded", ![u].row = sizes]
  /\ UNCHANGED <<kind, VM, Rows, Syncs, owed>>
Grown(row, by, n) == [row EXCEPT !.disk = IF @ = 0 THEN n ELSE @ + by]
\* The disk that has the key now is to become larger than it is.
CheckDiskSize(u) ==
  /\ Stands(u, "loaded")
  /\ \/ \E b \in Keyed(u), n \in 1..MaxSize :
          /\ n > disk[b]
          /\ visit' = [visit EXCEPT ![u] = [@ EXCEPT !.at = "expand", !.size = n,
               !.row = Grown(visit[u].row, n - disk[b], n)]]
     \/ VisitTo(u, "done")
  /\ UNCHANGED <<kind, VM, Rows, Syncs, owed>>
\* The provider looks the key up again; the hypervisor shrinks no disk.
ExpandDisk(u) ==
  /\ Stands(u, "expand")
  /\ \/ Declined(u)
     \/ \E b \in Keyed(u) :
          /\ visit[u].size >= disk[b]
          /\ disk' = [disk EXCEPT ![b] = visit[u].size]
          /\ Reports(u, "expanded") /\ UNCHANGED <<cpu, kept>>
  /\ UNCHANGED <<kind, Rows, Syncs>>

\* A place is chosen from the settings as they are read.
AddDiskAsked(u) ==
  /\ \E b \in Bays \ Used : /\ \A c \in Bays \ Used : b <= c
                            /\ Begin(u, "attach", [Blank EXCEPT !.bay = b])
  /\ UNCHANGED <<kind, VM, Rows, Syncs, owed>>
\* vSphere refuses a place that was taken since.
AddDisk(u) ==
  /\ Stands(u, "attach")
  /\ \/ Declined(u)
     \/ /\ kind = "proxmox" \/ visit[u].bay \notin Used
        /\ disk' = [disk EXCEPT ![visit[u].bay] = 1]
        /\ Reports(u, "attached") /\ UNCHANGED <<cpu, kept>>
  /\ UNCHANGED <<kind, Rows, Syncs>>
\* An adapter is none of the sizes, but the row is synced after it.
PlugAsked(u) ==
  /\ Begin(u, "plug", Blank) /\ UNCHANGED <<kind, VM, Rows, Syncs, owed>>
PlugNIC(u) ==
  /\ Stands(u, "plug") /\ (VisitTo(u, "attached") \/ VisitTo(u, "done"))
  /\ UNCHANGED <<kind, VM, Rows, Syncs, owed>>
\* A VM that is looked at is synced first when its row is a minute old.
Get(u) ==
  /\ Begin(u, "attached", Blank) /\ UNCHANGED <<kind, VM, Rows, Syncs, owed>>
\* SyncState asks at once; an error is logged only.
SyncState(u) ==
  /\ Stands(u, "attached")
  /\ \/ visit' = [visit EXCEPT ![u].at = "status", ![u].row = Reported] /\ UNCHANGED owed
     \/ VisitTo(u, "done") /\ owed' = TRUE
  /\ UNCHANGED <<kind, VM, Rows, Syncs>>

CreateSnapshotAsked(u) ==
  /\ \E t \in Titles : Begin(u, "take", [Blank EXCEPT !.snap = [by |-> u, title |-> t]])
  /\ UNCHANGED <<kind, VM, Rows, Syncs, owed>>
Titled(t) == {s \in kept : s.title = t}
\* vSphere takes two of one name.
CreateSnapshot(u) ==
  /\ Stands(u, "take")
  /\ \/ Declined(u)
     \/ /\ kind = "vsphere" \/ Titled(visit[u].snap.title) = {}
        /\ kept' = kept \cup {[by |-> u, title |-> visit[u].snap.title, cpu |-> cpu]}
        /\ VisitTo(u, "taken") \/ VisitTo(u, "done")
        /\ UNCHANGED <<cpu, disk, owed>>
  /\ UNCHANGED <<kind, Rows, Syncs>>

\* GetVMSnapshot: a row of this VM.
SnapshotAsked(u) ==
  /\ \E s \in listed, at \in {"revert", "remove"} : Begin(u, at, [Blank EXCEPT !.snap = s])
  /\ UNCHANGED <<kind, VM, Rows, Syncs, owed>>
\* The hypervisor finds it by its name, unless two have that name.
Found(u) == {s \in Titled(visit[u].snap.title) : Titled(visit[u].snap.title) = {s}}
RevertSnapshot(u) ==
  /\ Stands(u, "revert")
  /\ \/ Declined(u)
     \/ \E s \in Found(u) : cpu' = s.cpu /\ Reports(u, "reverted") /\ UNCHANGED <<disk, kept>>
  /\ UNCHANGED <<kind, Rows, Syncs>>
\* Slip: an error of the hypervisor is passed over.
DeleteSnapshotAnyway(u) ==
  /\ Stands(u, "remove")
  /\ \/ VisitTo(u, "removed") /\ UNCHANGED <<VM, owed>>
     \/ \E s \in Found(u) : kept' = kept \ {s} /\ VisitTo(u, "removed") /\ UNCHANGED <<cpu, disk, owed>>
  /\ UNCHANGED <<kind, Rows, Syncs>>
DeleteSnapshot(u) ==
  /\ Stands(u, "remove")
  /\ \/ Declined(u)
     \/ \E s \in Found(u) :
          /\ kept' = kept \ {s}
          /\ VisitTo(u, "removed") \/ VisitTo(u, "done")
          /\ UNCHANGED <<cpu, disk, owed>>
  /\ UNCHANGED <<kind, Rows, Syncs>>

-----------------------------------------------------------------------------
(* What it writes then *)

\* Slip: the row is what was asked for, so no sync seems needed.
ResourcesOnly(u, row) ==
  /\ sizes' = row /\ UNCHANGED <<Syncs, owed>>
\* UpdateManagedVMResources from the row of the beginning; an error is logged.
UpdateResources(u, row) ==
  /\ sizes' \in {row, sizes} /\ ScheduleSyncAll /\ UNCHANGED owed
Resized(u) ==
  /\ Stands(u, "resized")
  /\ UpdateResources(u, [cpu |-> visit[u].size, disk |-> visit[u].row.disk])
  /\ VisitTo(u, "done") /\ UNCHANGED <<kind, VM, listed>>
Expanded(u) ==
  /\ Stands(u, "expanded")
  /\ UpdateResources(u, visit[u].row)
  /\ VisitTo(u, "done") /\ UNCHANGED <<kind, VM, listed>>
\* The record now says what was seen, which may be outdated or not written at all.
Writes(seen) ==
  /\ sizes' \in {seen, sizes}
  /\ owed' = (sizes' # Reported)
Attached(u) ==
  /\ Stands(u, "status") /\ Writes(visit[u].row)
  /\ VisitTo(u, "done") /\ UNCHANGED <<kind, VM, listed, Syncs>>
\* The row of a new snapshot, or the error of writing it.
InsertSnapshot(u) ==
  /\ Stands(u, "taken")
  /\ \/ /\ listed' = listed \cup {visit[u].snap}
        /\ VisitTo(u, "listed") /\ ScheduleSyncAll
     \/ VisitTo(u, "done") /\ UNCHANGED <<listed, Syncs>>
  /\ UNCHANGED <<kind, VM, sizes, owed>>
RemoveSnapshot(u) ==
  /\ Stands(u, "removed") /\ VisitTo(u, "done")
  /\ \/ listed' = listed \ {visit[u].snap} /\ ScheduleSyncAll
     \/ UNCHANGED <<listed, Syncs>>
  /\ UNCHANGED <<kind, VM, sizes, owed>>
Reverted(u) ==
  /\ Stands(u, "reverted") /\ VisitTo(u, "done") /\ ScheduleSyncAll
  /\ UNCHANGED <<kind, VM, Rows, owed>>

-----------------------------------------------------------------------------
(* The scheduled sync, and others at the hypervisor *)

TimerFires(p) ==
  /\ timer /\ pass[p].at = "none"
  /\ timer' = FALSE /\ pass' = [pass EXCEPT ![p].at = "begun"]
  /\ UNCHANGED <<kind, VM, Rows, visit, owed>>
\* ListVMs; without an answer the pass leaves the row alone.
ListVMs(p) ==
  /\ pass[p].at = "begun"
  /\ \/ pass' = [pass EXCEPT ![p] = [at |-> "told", seen |-> Reported]] /\ UNCHANGED owed
     \/ pass' = [pass EXCEPT ![p].at = "none"] /\ owed' = TRUE
  /\ UNCHANGED <<kind, VM, Rows, visit, timer>>
SyncResources(p) ==
  /\ pass[p].at = "told" /\ Writes(pass[p].seen)
  /\ pass' = [pass EXCEPT ![p].at = "none"]
  /\ UNCHANGED <<kind, VM, listed, visit, timer>>
\* Somebody else reconfigures the VM, or removes a snapshot.
OthersChange ==
  /\ \/ cpu' \in 1..MaxSize /\ UNCHANGED kept
     \/ \E s \in kept : kept' = kept \ {s} /\ UNCHANGED cpu
  /\ owed' = TRUE /\ UNCHANGED <<kind, disk, Rows, visit, Syncs>>

HardwareNext ==
  \/ \E u \in Visitors :
       \/ ResizeAsked(u) \/ ResizeVM(u) \/ Resized(u)
       \/ ListDisks(u) \/ ExpandAsked(u) \/ CheckDiskSize(u) \/ ExpandDisk(u) \/ Expanded(u)
       \/ AddDiskAsked(u) \/ AddDisk(u) \/ PlugAsked(u) \/ PlugNIC(u) \/ Get(u)
       \/ SyncState(u) \/ Attached(u)
       \/ CreateSnapshotAsked(u) \/ CreateSnapshot(u) \/ InsertSnapshot(u)
       \/ SnapshotAsked(u) \/ RevertSnapshot(u) \/ Reverted(u)
       \/ DeleteSnapshot(u) \/ RemoveSnapshot(u)
  \/ \E p \in Passes : TimerFires(p) \/ ListVMs(p) \/ SyncResources(p)
  \/ OthersChange
HardwareSpec == HardwareInit /\ [][HardwareNext]_hardwareVars

-----------------------------------------------------------------------------
Resources == [cpu : Nat, disk : Nat]
SnapshotRows == [by : Visitors, title : Titles]
\* A disk's own key, or a position in a listing.
Keys == Bays \cup 0..(Cardinality(Bays) - 1)
Visits == [
  at : {"none", "resize", "resized", "picked", "loaded", "expand", "expanded", "attach", "plug",
        "attached", "status", "take", "taken", "listed", "revert", "reverted", "remove",
        "removed", "done"},
  key : Keys, bay : Bays, size : 0..MaxSize, row : Resources, snap : SnapshotRows \cup {<<>>}]
HardwareTypeOK ==
  /\ kind \in Hypervisors /\ cpu \in 1..MaxSize /\ disk \in [Bays -> 0..MaxSize]
  /\ kept \subseteq [by : Visitors, title : Titles, cpu : 1..MaxSize]
  /\ sizes \in Resources /\ listed \subseteq SnapshotRows /\ timer \in BOOLEAN /\ owed \in BOOLEAN
  /\ visit \in [Visitors -> Visits]
  /\ pass \in [Passes -> [at : {"none", "begun", "told"}, seen : Resources]]

\* A snapshot that was taken and listed stays in the list for as long as the
\* hypervisor has it, whatever others remove there and whichever answers are
\* lost (DeleteSnapshot, V3-L6).
SnapshotsStayListed ==
  \A s \in kept : visit[s.by].at = "listed" => visit[s.by].snap \in listed

\* When nothing is under way the row has the sizes the hypervisor reports,
\* although requests write over each other what they computed from older rows,
\* unless a failure, somebody else or an outdated sync is to be made up for
\* (ExpandDisk: the scheduled sync makes it exact).
SizesCatchUp ==
  (/\ ~timer /\ \A p \in Passes : pass[p].at = "none"
   /\ \A u \in Visitors : visit[u].at \in {"none", "picked", "listed", "done"})
  => sizes = Reported \/ owed

\* A disk has one key for as long as it is there: what a user picked is the disk
\* the key leads to (ListDisks, ExpandDisk and AddDisk share it).
KeysAreStable ==
  \A u \in Visitors : visit[u].at \in {"picked", "loaded", "expand"} => Keyed(u) = {visit[u].bay}
=============================================================================
