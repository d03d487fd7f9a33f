------------------------------ MODULE VMInventory ------------------------------
(***************************************************************************)
(* VMService (internal/service/vm.go): the inventory of managed VMs of one *)
(* target, and the observers that keep it in step with the hypervisor.     *)
(*                                                                         *)
(* Each observer reads the VM's row, asks the hypervisor, and writes a row *)
(* that it computed from what it had read: a SyncAll pass for all VMs from *)
(* one listing, a request (PowerAction, SyncState, Delete) for one VM.     *)
(* None of them holds a lock between these steps, and any number of them   *)
(* run side by side.                                                       *)
(*                                                                         *)
(* Of a row only the power state and the bookkeeping of the running time   *)
(* are kept; name, address and sizes are plain copies of what was seen.    *)
(***************************************************************************)
EXTENDS Integers

CONSTANTS Refs,        \* names the hypervisor gives its VMs (VMIDs, MoRefs)
          Syncs,       \* SyncAll passes that may run side by side
          Requests,    \* requests that may be served side by side
          RefsReused,  \* the hypervisor gives a destroyed VM's name to a new one
          ListFails,   \* listing the VMs may fail
          MaxTime,     \* bound: the clock
          MaxId        \* bound: rows inserted

ASSUME TimeIsNatural == MaxTime \in Nat /\ MaxId \in Nat
ASSUME SwitchesAreBoolean == {RefsReused, ListFails} \subseteq BOOLEAN

VARIABLES
  now,      \* time.Now()
  power,    \* power[r]: the hypervisor's VM, "absent" when there is none
  used,     \* the names the hypervisor has given so far
  row,      \* row[r]: the managed_vms row with vm_ref = r, or NoRow
  nextId,   \* managed_vms.id is AUTOINCREMENT
  request,  \* request[q]: what the request is for, has read and was answered
  sync      \* sync[s]: the rows a pass still has to visit, and what it was told;
            \* history: steady, the VMs that have been there since it read its rows

vars == <<now, power, used, row, nextId, request, sync>>

Never  == -1
Powers == {"poweredOn", "poweredOff", "suspended"}
Goals  == Powers \union {"observe", "delete"}

NoRow == [id |-> 0, power |-> "unknown", onSince |-> Never, total |-> 0, born |-> 0]
Idle  == [stage |-> "idle"]
Tracked == {r \in Refs : row[r] # NoRow}

Init == /\ now = 0
        /\ power = [r \in Refs |-> "absent"]
        /\ used = {} /\ nextId = 1
        /\ row = [r \in Refs |-> NoRow]
        /\ request = [q \in Requests |-> Idle]
        /\ sync = [s \in Syncs |-> Idle]

------------------------------------------------------------------------------
(* What the observers share *)

\* Slip: a VM that leaves any state but poweredOff has been running.
RanUntilNowLoosely(old) == old.power # "poweredOff" /\ old.onSince # Never

\* The transition ends a stretch of running.
RanUntilNow(old) == old.power = "poweredOn" /\ old.onSince # Never

\* applyPowerStateTransition: the row after it was seen in state p.
Observed(old, p) ==
  IF p = old.power THEN old
  ELSE [old EXCEPT !.power   = p,
                   !.total   = IF RanUntilNow(old) THEN @ + (now - old.onSince) ELSE @,
                   !.onSince = IF p = "poweredOn" THEN now ELSE @]

\* UPDATE managed_vms ... WHERE id = old.id: the row as it is now may differ
\* from old, or be gone.
WriteState(r, old, p) ==
  row' = IF row[r].id = old.id THEN [row EXCEPT ![r] = Observed(old, p)] ELSE row

\* DELETE FROM managed_vms WHERE id = old.id.
DeleteRow(r, old) ==
  row' = IF row[r].id = old.id THEN [row EXCEPT ![r] = NoRow] ELSE row

------------------------------------------------------------------------------
(* The hypervisor and its other users *)

Tick == /\ now < MaxTime
        /\ now' = now + 1
        /\ UNCHANGED <<power, used, row, nextId, request, sync>>

\* A VM is created, by a clone or by somebody else.
Appear(r) == /\ power[r] = "absent"
             /\ RefsReused \/ r \notin used
             /\ \E p \in Powers : power' = [power EXCEPT ![r] = p]
             /\ used' = used \union {r}
             /\ UNCHANGED <<now, row, nextId, request, sync>>

Switch(r) == /\ power[r] # "absent"
             /\ \E p \in Powers \ {power[r]} : power' = [power EXCEPT ![r] = p]
             /\ UNCHANGED <<now, used, row, nextId, request, sync>>

\* The VM is gone, and no longer one that has been there all along.
Gone(r) == /\ power[r] # "absent"
           /\ power' = [power EXCEPT ![r] = "absent"]
           /\ sync' = [s \in Syncs |->
                IF sync[s] = Idle THEN Idle ELSE [sync[s] EXCEPT !.steady = @ \ {r}]]

Vanish(r) == /\ Gone(r)
             /\ UNCHANGED <<now, used, row, nextId, request>>

------------------------------------------------------------------------------
(* Rows are made *)

\* Slip: the bookkeeping fields are left for the first sync.
SeedEmpty(p) == [NoRow EXCEPT !.power = p]

\* The fields of a new row, computed from an unknown state.
Seed(p) == Observed(NoRow, p)

\* registerDeployedVM: insert, or take over the row that has the name.
Register(r) == /\ r \in used /\ nextId <= MaxId
               /\ row' = [row EXCEPT ![r] =
                    IF @ = NoRow THEN [Seed("poweredOn") EXCEPT !.id = nextId, !.born = now]
                                 ELSE [Seed("poweredOn") EXCEPT !.id = row[r].id, !.born = row[r].born]]
               /\ nextId' = IF row[r] = NoRow THEN nextId + 1 ELSE nextId
               /\ UNCHANGED <<now, power, used, request, sync>>

\* Adopt: a VM from a listing, in the state it had then.
Adopt(r) == /\ r \in used /\ row[r] = NoRow /\ nextId <= MaxId
            /\ \E p \in Powers :
                 row' = [row EXCEPT ![r] = [Seed(p) EXCEPT !.id = nextId, !.born = now]]
            /\ nextId' = nextId + 1
            /\ UNCHANGED <<now, power, used, request, sync>>

\* Create: a name somebody typed in, its state unknown.
Create(r) == /\ row[r] = NoRow /\ nextId <= MaxId
             /\ row' = [row EXCEPT ![r] = [Seed("unknown") EXCEPT !.id = nextId, !.born = now]]
             /\ nextId' = nextId + 1
             /\ UNCHANGED <<now, power, used, request, sync>>

------------------------------------------------------------------------------
(* PowerAction, SyncState and Delete *)

\* GetManagedVM.
Load(q, r) == /\ request[q] = Idle /\ r \in Tracked
              /\ \E goal \in Goals :
                   request' = [request EXCEPT ![q] =
                     [stage |-> "loaded", goal |-> goal, ref |-> r, old |-> row[r]]]
              /\ UNCHANGED <<now, power, used, row, nextId, sync>>

Answer(q, p) == request' = [request EXCEPT ![q] =
  [stage |-> "answered", goal |-> @.goal, ref |-> @.ref, old |-> @.old, seen |-> p]]

\* GetVMStatus.
AskStatus(q) == /\ request[q].stage = "loaded" /\ request[q].goal = "observe"
                /\ power[request[q].ref] # "absent"
                /\ Answer(q, power[request[q].ref])
                /\ UNCHANGED <<now, power, used, row, nextId, sync>>

\* PowerOn, PowerOff, Restart, Suspend.
SetPower(q) == /\ request[q].stage = "loaded" /\ request[q].goal \in Powers
               /\ power[request[q].ref] # "absent"
               /\ power' = [power EXCEPT ![request[q].ref] = request[q].goal]
               /\ Answer(q, request[q].goal)
               /\ UNCHANGED <<now, used, row, nextId, sync>>

\* DeleteVM; with force the hypervisor is left alone.
Destroy(q) == /\ request[q].stage = "loaded" /\ request[q].goal = "delete"
              /\ Gone(request[q].ref) \/ UNCHANGED <<power, sync>>
              /\ Answer(q, "absent")
              /\ UNCHANGED <<now, used, row, nextId>>

\* Any error on the way, that of the last write included: the request ends and
\* the row stays as it is.
GiveUp(q) == /\ request[q] # Idle
             /\ request' = [request EXCEPT ![q] = Idle]
             /\ UNCHANGED <<now, power, used, row, nextId, sync>>

\* updateVMPowerState, from the row that was loaded at the start.
Store(q) == /\ request[q].stage = "answered" /\ request[q].goal # "delete"
            /\ WriteState(request[q].ref, request[q].old, request[q].seen)
            /\ request' = [request EXCEPT ![q] = Idle]
            /\ UNCHANGED <<now, power, used, nextId, sync>>

\* DeleteManagedVM.
Untrack(q) == /\ request[q].stage = "answered" /\ request[q].goal = "delete"
              /\ DeleteRow(request[q].ref, request[q].old)
              /\ request' = [request EXCEPT ![q] = Idle]
              /\ UNCHANGED <<now, power, used, nextId, sync>>

------------------------------------------------------------------------------
(* SyncAll *)

\* ListManagedVMs.
Begin(s) == /\ sync[s] = Idle /\ Tracked # {}
            /\ sync' = [sync EXCEPT ![s] =
                 [stage |-> "read", left |-> Tracked, old |-> row,
                  steady |-> {r \in Refs : power[r] # "absent"}]]
            /\ UNCHANGED <<now, power, used, row, nextId, request>>

\* Slip: a listing that failed is an empty one.
UnlistedIsAbsent == "absent"

\* What the pass knows of each VM when the listing failed.
Unlisted == "unlisted"

\* ListVMs.
List(s) == /\ sync[s].stage = "read"
           /\ \E seen \in {power} \union (IF ListFails THEN {[r \in Refs |-> Unlisted]} ELSE {}) :
                sync' = [sync EXCEPT ![s] =
                  [stage |-> "listed", left |-> @.left, old |-> @.old,
                   steady |-> @.steady, seen |-> seen]]
           /\ UNCHANGED <<now, power, used, row, nextId, request>>

\* The pass is through with r, and over when it was the last one.
Visited(s, r) == sync' = [sync EXCEPT ![s] =
  IF @.left = {r} THEN Idle ELSE [sync[s] EXCEPT !.left = @ \ {r}]]

ToVisit(s, r) == sync[s].stage = "listed" /\ r \in sync[s].left

\* A VM that is not in the listing is an orphan: DeleteManagedVM.
RemoveOrphan(s, r) == /\ ToVisit(s, r) /\ sync[s].seen[r] = "absent"
                      /\ DeleteRow(r, sync[s].old[r])
                      /\ Visited(s, r)
                      /\ UNCHANGED <<now, power, used, nextId, request>>

\* The status is asked for when there is no listing, or it lacks the address.
Ask(s, r) == /\ ToVisit(s, r) /\ sync[s].seen[r] \in {Unlisted, "poweredOn"}
             /\ power[r] # "absent"
             /\ sync' = [sync EXCEPT ![s].seen[r] = power[r]]
             /\ UNCHANGED <<now, power, used, row, nextId, request>>

\* updateVMPowerState, from the row that was read at the start.
Record(s, r) == /\ ToVisit(s, r) /\ sync[s].seen[r] \in Powers
                /\ WriteState(r, sync[s].old[r], sync[s].seen[r])
                /\ Visited(s, r)
                /\ UNCHANGED <<now, power, used, nextId, request>>

\* A dry run keeps the orphan; an error of the status call skips the VM.
Skip(s, r) == /\ ToVisit(s, r)
              /\ Visited(s, r)
              /\ UNCHANGED <<now, power, used, row, nextId, request>>

\* The target cannot be reached.
Abandon(s) == /\ sync[s].stage = "read"
              /\ sync' = [sync EXCEPT ![s] = Idle]
              /\ UNCHANGED <<now, power, used, row, nextId, request>>

------------------------------------------------------------------------------
Hypervisor(r) == Appear(r) \/ Switch(r) \/ Vanish(r)
Insert(r)     == Register(r) \/ Adopt(r) \/ Create(r)
Serve(q)      == \/ \E r \in Refs : Load(q, r)
                 \/ AskStatus(q) \/ SetPower(q) \/ Destroy(q)
                 \/ GiveUp(q) \/ Store(q) \/ Untrack(q)
SyncAll(s)    == \/ Begin(s) \/ List(s) \/ Abandon(s)
                 \/ \E r \in Refs : \/ RemoveOrphan(s, r) \/ Ask(s, r)
                                    \/ Record(s, r) \/ Skip(s, r)

Next == \/ Tick
        \/ \E r \in Refs : Hypervisor(r) \/ Insert(r)
        \/ \E q \in Requests : Serve(q)
        \/ \E s \in Syncs : SyncAll(s)

Spec == Init /\ [][Next]_vars

------------------------------------------------------------------------------
(* Properties *)

Rows == [id : 0..MaxId, power : Powers \union {"unknown"}, onSince : Never..MaxTime,
         total : 0..MaxTime, born : 0..MaxTime]

\* Type invariant.
TypeOK ==
  /\ now \in 0..MaxTime /\ nextId \in 1..(MaxId + 1)
  /\ used \subseteq Refs
  /\ power \in [Refs -> Powers \union {"absent"}]
  /\ row \in [Refs -> Rows]
  /\ request \in [Requests ->
       {Idle} \union [stage : {"loaded"}, goal : Goals, ref : Refs, old : Rows]
              \union [stage : {"answered"}, goal : Goals, ref : Refs, old : Rows,
                      seen : Powers \union {"absent"}]]
  /\ sync \in [Syncs ->
       {Idle} \union [stage : {"read"}, left : SUBSET Refs, old : [Refs -> Rows],
                      steady : SUBSET Refs]
              \union [stage : {"listed"}, left : SUBSET Refs, old : [Refs -> Rows],
                      steady : SUBSET Refs, seen : [Refs -> Powers \union {"absent", Unlisted}]]]

\* However observers with outdated rows overwrite each other, the running time
\* they add up never exceeds the time the row has existed.
RuntimeWithinLifetime ==
  \A r \in Tracked :
    LET stretch == IF row[r].power = "poweredOn" THEN now - row[r].onSince ELSE 0
    IN  row[r].total + stretch <= now - row[r].born

\* A VM that is shown as running has a start its running time is counted from,
\* whichever observer wrote the row last.
RunningIsTimed ==
  \A r \in Tracked : row[r].power = "poweredOn" => row[r].onSince \in row[r].born..now

Deletes(q, r) == request[q].stage = "answered" /\ request[q].goal = "delete" /\ request[q].ref = r

\* A pass of SyncAll never untracks a VM that was there the whole time the pass
\* ran, also when the listing failed, and whatever it read before.
OnlyMissingRemoved ==
  [][\A r \in Refs : row[r] # NoRow /\ row'[r] = NoRow =>
       \/ \E q \in Requests : Deletes(q, r)
       \/ \E s \in Syncs : ToVisit(s, r) /\ r \notin sync[s].steady]_vars
=============================================================================
