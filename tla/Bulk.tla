-------------------------------- MODULE Bulk --------------------------------
(***************************************************************************)
(* Bulk deployments (internal/service/bulk.go): one request for several    *)
(* machines.  Start records the request and hands it to a goroutine, which *)
(* asks DeployService.Start for each machine, one after the other or       *)
(* several at once, and keeps the tally of those that were accepted and    *)
(* refused.  What an accepted deployment comes to is the module            *)
(* Deployment; the tally does not wait for it.  Names and settings are     *)
(* left out, and the rows are written without faults.                      *)
(***************************************************************************)
EXTENDS Naturals, FiniteSets

CONSTANTS
  Bulks,      \* requests
  MaxVMs,     \* bound: the most machines of a request (50 in the code)
  Workers,    \* sub-deployments that are started at once (10 in the code)
  Instances   \* bound: how often the server is started

ASSUME BulkAssumption == MaxVMs \in Nat /\ {Workers, Instances} \subseteq Nat \ {0}

VARIABLES
  bulkRow,    \* per request: its row
  runner,     \* per request: where its goroutine stands
  starter,    \* per request and machine: where its sub-deployment stands
  tally,      \* per request: the goroutine's two counters
  lock,       \* per request: the machine whose goroutine holds the mutex
  making,     \* per request: the machines with a deployment of their own
  instance    \* starts of the server so far
bulkVars == <<bulkRow, runner, starter, tally, lock, making, instance>>

VMs == 1..MaxVMs
Tally == [completed : 0..MaxVMs, failed : 0..MaxVMs]
Zero == [completed |-> 0, failed |-> 0]
Unlocked == 0
NoRow == [status |-> "none", total |-> 0, parallel |-> FALSE, seen |-> Zero]
Of(b) == 1..bulkRow[b].total
InFlight(b) == {v \in Of(b) : starter[b][v].at \notin {"idle", "done"}}
Idle == [at |-> "idle", accepted |-> FALSE, seen |-> Zero]
SubMoves(b, v, at) == starter' = [starter EXCEPT ![b][v].at = at]
SetStatus(b, status) == bulkRow' = [bulkRow EXCEPT ![b].status = status]

BulkInit ==
  /\ bulkRow = [b \in Bulks |-> NoRow]
  /\ runner = [b \in Bulks |-> "none"]
  /\ starter = [b \in Bulks |-> [v \in VMs |-> Idle]]
  /\ tally = [b \in Bulks |-> Zero]
  /\ lock = [b \in Bulks |-> Unlocked]
  /\ making = [b \in Bulks |-> {}]
  /\ instance = 1

-----------------------------------------------------------------------------
\* The row is committed before its goroutine starts.
StartBulk(b) ==
  /\ bulkRow[b].status = "none"
  /\ \E total \in VMs, parallel \in BOOLEAN :
       bulkRow' = [bulkRow EXCEPT ![b] =
         [status |-> "pending", total |-> total, parallel |-> parallel, seen |-> Zero]]
  /\ runner' = [runner EXCEPT ![b] = "spawned"]
  /\ UNCHANGED <<starter, tally, lock, making, instance>>
RunBulk(b) ==
  /\ runner[b] = "spawned"
  /\ runner' = [runner EXCEPT ![b] = "starting"]
  /\ SetStatus(b, "running")
  /\ UNCHANGED <<starter, tally, lock, making, instance>>

\* The next machine is taken when a slot is free, in sequence when the one
\* before it is done.
Room(b) == IF bulkRow[b].parallel THEN Workers ELSE 1
StartSub(b, v) ==
  /\ runner[b] = "starting" /\ v \in Of(b)
  /\ starter[b][v] = Idle /\ \A u \in 1..(v - 1) : starter[b][u] # Idle
  /\ Cardinality(InFlight(b)) < Room(b)
  /\ SubMoves(b, v, "start")
  /\ UNCHANGED <<bulkRow, runner, tally, lock, making, instance>>
\* DeployService.Start: refused without a deployment, or accepted with one.
SubStarted(b, v) ==
  /\ starter[b][v].at = "start"
  /\ \E accepted \in BOOLEAN :
       /\ starter' = [starter EXCEPT ![b][v] = [at |-> "lock", accepted |-> accepted, seen |-> Zero]]
       /\ making' = [making EXCEPT ![b] = IF accepted THEN @ \cup {v} ELSE @]
  /\ UNCHANGED <<bulkRow, runner, tally, lock, instance>>
\* A panic before or after the row is made: in parallel it counts as refused,
\* in sequence it ends the whole request.
SubPanicked(b, v) ==
  /\ starter[b][v].at = "start"
  /\ making' = making \/ making' = [making EXCEPT ![b] = @ \cup {v}]
  /\ IF bulkRow[b].parallel
     THEN starter' = [starter EXCEPT ![b][v] = [at |-> "lock", accepted |-> FALSE, seen |-> Zero]]
          /\ UNCHANGED <<bulkRow, runner>>
     ELSE /\ starter' = [starter EXCEPT ![b][v] = [at |-> "done", accepted |-> FALSE, seen |-> Zero]]
          /\ SetStatus(b, "failed") /\ runner' = [runner EXCEPT ![b] = "over"]
  /\ UNCHANGED <<tally, lock, instance>>

\* Slip: no mutex.
NeverHeld(b) == FALSE
\* The counters and the row are changed under the mutex.
Held(b) == lock[b] # Unlocked
OneOf(t, accepted) == [completed |-> IF accepted THEN t.completed + 1 ELSE t.completed,
                       failed |-> IF accepted THEN t.failed ELSE t.failed + 1]
CountSub(b, v) ==
  LET accepted == starter[b][v].accepted IN
  /\ starter[b][v].at = "lock" /\ ~Held(b)
  /\ lock' = [lock EXCEPT ![b] = v]
  /\ tally' = [tally EXCEPT ![b] = OneOf(tally[b], accepted)]
  /\ starter' = [starter EXCEPT ![b][v] =
       [at |-> "write", accepted |-> accepted, seen |-> tally'[b]]]
  /\ UNCHANGED <<bulkRow, runner, making, instance>>
UpdateBulkDeploymentProgress(b, v) ==
  /\ starter[b][v].at = "write"
  /\ bulkRow' = [bulkRow EXCEPT ![b].seen = starter[b][v].seen]
  /\ lock' = [lock EXCEPT ![b] = Unlocked]
  /\ SubMoves(b, v, "done")
  /\ UNCHANGED <<runner, tally, making, instance>>

\* All are done: the row's own counters decide the status.
Verdict(seen, total) ==
  IF seen.failed = 0 THEN "completed" ELSE IF seen.failed = total THEN "failed" ELSE "partial_failure"
FinishBulk(b) ==
  /\ runner[b] = "starting"
  /\ \A v \in Of(b) : starter[b][v].at = "done"
  /\ runner' = [runner EXCEPT ![b] = "over"]
  /\ SetStatus(b, Verdict(bulkRow[b].seen, bulkRow[b].total))
  /\ UNCHANGED <<starter, tally, lock, making, instance>>

\* A restart takes the goroutines; main does nothing about their rows.
RestartServer ==
  /\ instance < Instances /\ instance' = instance + 1
  /\ runner' = [b \in Bulks |-> IF runner[b] = "none" THEN "none" ELSE "over"]
  /\ starter' = [b \in Bulks |-> [v \in VMs |-> Idle]]
  /\ tally' = [b \in Bulks |-> Zero]
  /\ lock' = [b \in Bulks |-> Unlocked]
  /\ UNCHANGED <<bulkRow, making>>

BulkNext ==
  \/ RestartServer
  \/ \E b \in Bulks :
       \/ StartBulk(b) \/ RunBulk(b) \/ FinishBulk(b)
       \/ \E v \in VMs : \/ StartSub(b, v) \/ SubStarted(b, v) \/ SubPanicked(b, v)
                         \/ CountSub(b, v) \/ UpdateBulkDeploymentProgress(b, v)
BulkSpec == BulkInit /\ [][BulkNext]_bulkVars

-----------------------------------------------------------------------------
BulkTypeOK ==
  /\ bulkRow \in [Bulks -> [status : {"none", "pending", "running", "completed",
       "partial_failure", "failed"}, total : 0..MaxVMs, parallel : BOOLEAN, seen : Tally]]
  /\ runner \in [Bulks -> {"none", "spawned", "starting", "over"}]
  /\ starter \in [Bulks -> [VMs -> [at : {"idle", "start", "lock", "write", "done"},
                                    accepted : BOOLEAN, seen : Tally]]]
  /\ tally \in [Bulks -> Tally] /\ lock \in [Bulks -> 0..MaxVMs]
  /\ making \in [Bulks -> SUBSET VMs] /\ instance \in 1..Instances

\* A bulk deployment that has run to its end counts every machine once: its
\* row says completed only when each has a deployment, counts as completed only
\* machines that have one, and the goroutines of a parallel request never write
\* an older tally over a newer one (runParallel, UpdateBulkDeploymentProgress).
TallyHolds == \A b \in Bulks : LET row == bulkRow[b] IN
  /\ row.seen.completed <= Cardinality(making[b])
  /\ row.status = "completed" => making[b] = Of(b)
  /\ row.status \in {"completed", "partial_failure"}
       => row.seen.completed + row.seen.failed = row.total
=============================================================================
