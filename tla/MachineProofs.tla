------------------------------ MODULE MachineProofs ------------------------------
(***************************************************************************)
(* What becomes of machines, for any number of deployments, machines,      *)
(* workers and visitors: a request for many of them, a deployment on each  *)
(* of the two hypervisors, which keeps the contract the service relies on, *)
(* and the hardware of a VM.                                               *)
(***************************************************************************)
EXTENDS Bulk, Proxmox, VSphere, Hardware, FiniteSetTheorems, WellFoundedInduction, NaturalsInduction, TLAPS

------------------------------------------------------------------------------
(* A bulk deployment counts each of its machines once.  The inductive       *)
(* invariant (Sound) ties the two counters to the machines whose goroutine  *)
(* has passed the mutex, and the row to the counters whenever nobody holds  *)
(* it; in sequence a second machine is never begun before the first is      *)
(* done, so a panic leaves no one behind.                                   *)

Counts == [completed : Nat, failed : Nat]
BulkRows == [status : {"none", "pending", "running", "completed", "partial_failure", "failed"},
         total : 0..MaxVMs, parallel : BOOLEAN, seen : Counts]
Subs == [at : {"idle", "start", "lock", "write", "done"}, accepted : BOOLEAN, seen : Counts]
BulkTyped ==
  /\ bulkRow \in [Bulks -> BulkRows]
  /\ runner \in [Bulks -> {"none", "spawned", "starting", "over"}]
  /\ starter \in [Bulks -> [VMs -> Subs]]
  /\ tally \in [Bulks -> Counts] /\ lock \in [Bulks -> 0..MaxVMs]
  /\ making \in [Bulks -> SUBSET VMs]

\* The machines counted so far.
Tallied(b, v) == starter[b][v].at \in {"write", "done"}
Yes(b) == {v \in Of(b) : Tallied(b, v) /\ starter[b][v].accepted}
No(b) == {v \in Of(b) : Tallied(b, v) /\ ~starter[b][v].accepted}

\* Before the goroutine begins nothing is counted.
Fresh(b) == runner[b] \in {"none", "spawned"} =>
  /\ tally[b] = Zero /\ lock[b] = Unlocked /\ making[b] = {} /\ bulkRow[b].seen = Zero
  /\ \A v \in VMs : starter[b][v] = Idle
\* The row is given a verdict when the goroutine has ended.
Undecided(b) ==
  /\ bulkRow[b].status = "none" => runner[b] = "none"
  /\ runner[b] # "over" => bulkRow[b].status \notin {"completed", "partial_failure"}
\* Only the machines asked for are made.
Own(b) ==
  /\ making[b] \subseteq Of(b)
  /\ \A v \in VMs : v \notin Of(b) => starter[b][v].at = "idle"
\* Nobody is left behind.
AllDone(b) == runner[b] = "over" => \A v \in VMs : starter[b][v].at \in {"idle", "done"}
Accepts(b) == \A v \in VMs : starter[b][v].accepted => /\ v \in making[b]
                                                      /\ starter[b][v].at \notin {"idle", "start"}
Adds(b) == tally[b].completed = Cardinality(Yes(b)) /\ tally[b].failed = Cardinality(No(b))
Mutex(b) ==
  /\ \A v \in VMs : starter[b][v].at = "write" => lock[b] = v /\ starter[b][v].seen = tally[b]
  /\ lock[b] # Unlocked => starter[b][lock[b]].at = "write"
  /\ lock[b] = Unlocked => bulkRow[b].seen = tally[b]
InTurn(b) == ~bulkRow[b].parallel =>
  \A u, v \in VMs : starter[b][u].at \notin {"idle", "done"} /\ starter[b][v].at \notin {"idle", "done"}
                      => u = v
AtWork(b) == runner[b] = "starting" => Accepts(b) /\ Adds(b) /\ Mutex(b) /\ InTurn(b)
Verdicts(b) == LET rec == bulkRow[b] IN
  /\ rec.seen.completed <= Cardinality(making[b])
  /\ rec.status = "completed" => making[b] = Of(b)
  /\ rec.status \in {"completed", "partial_failure"}
       => rec.seen.completed + rec.seen.failed = rec.total
Sound(b) == Fresh(b) /\ Undecided(b) /\ Own(b) /\ AllDone(b) /\ AtWork(b) /\ Verdicts(b)
BulkInv == BulkTyped /\ \A b \in Bulks : Sound(b)

\* Sets of machines are finite.
LEMMA MachinesAreFinite ==
  ASSUME NEW n \in Nat, NEW S \in SUBSET (1..n)
  PROVE  IsFiniteSet(S) /\ Cardinality(S) \in Nat /\ Cardinality(S) <= n
         /\ (Cardinality(S) = n => S = 1..n)
<1>1. IsFiniteSet(1..n) /\ Cardinality(1..n) = n
  BY FS_Interval
<1> QED BY <1>1, FS_Subset, FS_CardinalityType

\* A machine that is added to a set counts one more.
LEMMA OneMore ==
  ASSUME NEW n \in Nat, NEW S \in SUBSET (1..n), NEW v, v \notin S
  PROVE  Cardinality(S \cup {v}) = Cardinality(S) + 1
BY MachinesAreFinite, FS_AddElement

\* Of two sets of machines the larger has no fewer.
LEMMA NoFewer ==
  ASSUME NEW n \in Nat, NEW T \in SUBSET (1..n), NEW S \in SUBSET T
  PROVE  Cardinality(S) \in Nat /\ Cardinality(T) \in Nat /\ Cardinality(S) <= Cardinality(T)
BY MachinesAreFinite, FS_Subset

\* Two parts that leave nothing out add up.
LEMMA PartsAddUp ==
  ASSUME NEW n \in Nat, NEW S \in SUBSET (1..n)
  PROVE  Cardinality(S) + Cardinality((1..n) \ S) = n
<1> DEFINE T == (1..n) \ S
<1>1. IsFiniteSet(S) /\ Cardinality(S) \in Nat
  BY MachinesAreFinite
<1>2. T \in SUBSET (1..n)
  OBVIOUS
<1>3. S \cup T = 1..n /\ S \cap T = {}
  OBVIOUS
<1> HIDE DEF T
<1>4. IsFiniteSet(T) /\ Cardinality(T) \in Nat
  BY <1>2, MachinesAreFinite
<1>5. Cardinality(S \cup T) = Cardinality(S) + Cardinality(T) - Cardinality(S \cap T)
  BY <1>1, <1>4, FS_Union
<1>6. Cardinality(1..n) = n /\ Cardinality({}) = 0
  BY FS_Interval, FS_EmptySet
<1>7. Cardinality(1..n) = Cardinality(S) + Cardinality(T) - Cardinality({})
  BY <1>3, <1>5, Zenon
<1>8. Cardinality(1..n) = n
  BY <1>6, Zenon
<1>9. n = Cardinality(S) + Cardinality(T) - 0
  BY <1>6, <1>7, <1>8, Zenon
<1>10. Cardinality(S) + Cardinality(T) = n
  BY <1>1, <1>4, <1>9
<1> QED BY <1>10 DEF T

\* What concerns one request is untouched by a step of another.
LEMMA Untouched ==
  ASSUME NEW b \in Bulks, Sound(b), bulkRow'[b] = bulkRow[b], runner'[b] = runner[b],
         starter'[b] = starter[b], tally'[b] = tally[b], lock'[b] = lock[b],
         making'[b] = making[b]
  PROVE  Sound(b)'
BY DEF Sound, Fresh, Undecided, Own, AllDone, AtWork, Accepts, Adds, Mutex, InTurn, Verdicts,
       Yes, No, Tallied, Of

LEMMA BulkStarts == BulkInit => BulkInv
<1> SUFFICES ASSUME BulkInit PROVE BulkInv
  OBVIOUS
<1>1. Zero \in Counts /\ NoRow \in BulkRows /\ Idle \in Subs
  BY BulkAssumption DEF Zero, Counts, NoRow, BulkRows, Idle, Subs
<1>2. BulkTyped
  BY <1>1, BulkAssumption DEF BulkInit, BulkTyped, Unlocked
<1>3. ASSUME NEW b \in Bulks PROVE Sound(b)
  <2>1. /\ bulkRow[b] = NoRow /\ runner[b] = "none" /\ tally[b] = Zero /\ lock[b] = Unlocked
        /\ making[b] = {} /\ \A v \in VMs : starter[b][v] = Idle
    BY DEF BulkInit
  <2>2. Cardinality({}) = 0
    BY FS_EmptySet
  <2> QED
    BY <2>1, <2>2 DEF Sound, Fresh, Undecided, Own, AllDone, AtWork, Verdicts, NoRow, Zero, Idle
<1> QED BY <1>2, <1>3 DEF BulkInv

\* The request is recorded, with nothing counted.
LEMMA StartBulkKeeps == ASSUME NEW b \in Bulks, BulkInv, StartBulk(b) PROVE BulkInv'
<1>1. PICK total \in VMs, parallel \in BOOLEAN :
        bulkRow' = [bulkRow EXCEPT ![b] =
          [status |-> "pending", total |-> total, parallel |-> parallel, seen |-> Zero]]
  BY DEF StartBulk
<1>2. /\ runner' = [runner EXCEPT ![b] = "spawned"] /\ UNCHANGED <<starter, tally, lock, making>>
      /\ runner[b] = "none"
  BY DEF StartBulk, BulkInv, Sound, Undecided
<1>3. BulkTyped'
  BY <1>1, <1>2, BulkAssumption DEF BulkInv, BulkTyped, BulkRows, Counts, Zero, VMs
<1>4. Sound(b)'
  <2>1. bulkRow'[b] = [status |-> "pending", total |-> total, parallel |-> parallel, seen |-> Zero]
        /\ runner'[b] = "spawned" /\ starter'[b] = starter[b] /\ tally'[b] = tally[b]
        /\ lock'[b] = lock[b] /\ making'[b] = making[b]
    BY <1>1, <1>2 DEF BulkInv, BulkTyped
  <2>2. Fresh(b)
    BY DEF BulkInv, Sound
  <2>3. Cardinality({}) = 0
    BY FS_EmptySet
  <2>4. bulkRow'[b].seen = Zero /\ bulkRow'[b].status = "pending" /\ bulkRow'[b].total = total
    BY <2>1
  <2>5. /\ tally[b] = Zero /\ lock[b] = Unlocked /\ making[b] = {}
        /\ \A v \in VMs : starter'[b][v].at = "idle" /\ starter'[b][v] = Idle
    <3>1. tally[b] = Zero /\ lock[b] = Unlocked /\ making[b] = {} /\ \A v \in VMs : starter[b][v] = Idle
      BY <1>2, <2>2 DEF Fresh
    <3>2. Idle.at = "idle"
      BY DEF Idle
    <3> QED BY <2>1, <3>1, <3>2
  <2>6. Fresh(b)' /\ Undecided(b)' /\ AllDone(b)' /\ AtWork(b)'
    BY <2>1, <2>4, <2>5 DEF Fresh, Undecided, AllDone, AtWork
  <2>7. Own(b)' /\ Verdicts(b)'
    BY <2>1, <2>3, <2>4, <2>5 DEF Own, Verdicts, Zero
  <2> QED
    BY <2>6, <2>7 DEF Sound
<1>5. ASSUME NEW c \in Bulks, c # b PROVE Sound(c)'
  BY <1>1, <1>2, <1>5, Untouched DEF BulkInv, BulkTyped
<1> QED BY <1>3, <1>4, <1>5 DEF BulkInv

\* The goroutine begins with nothing counted.
LEMMA RunBulkKeeps == ASSUME NEW b \in Bulks, BulkInv, RunBulk(b) PROVE BulkInv'
<1>1. /\ runner' = [runner EXCEPT ![b] = "starting"] /\ UNCHANGED <<starter, tally, lock, making>>
      /\ bulkRow' = [bulkRow EXCEPT ![b].status = "running"] /\ runner[b] = "spawned"
  BY DEF RunBulk, SetStatus
<1>2. /\ bulkRow'[b] = [bulkRow[b] EXCEPT !.status = "running"] /\ runner'[b] = "starting"
      /\ starter'[b] = starter[b] /\ tally'[b] = tally[b]
      /\ lock'[b] = lock[b] /\ making'[b] = making[b] /\ bulkRow[b] \in BulkRows
  BY <1>1 DEF BulkInv, BulkTyped
<1>3. BulkTyped'
  BY <1>1 DEF BulkInv, BulkTyped, BulkRows
<1>4. Sound(b)'
  <2>1. Fresh(b) /\ Own(b) /\ Sound(b) /\ Cardinality({}) = 0
    BY FS_EmptySet DEF BulkInv, Sound
  <2>2. /\ bulkRow'[b].seen = Zero /\ bulkRow'[b].status = "running" /\ tally'[b] = Zero
        /\ lock'[b] = Unlocked /\ making'[b] = {} /\ \A v \in VMs : starter'[b][v] = Idle
        /\ Of(b)' = Of(b)
    BY <1>1, <1>2, <2>1 DEF Fresh, BulkRows, Of
  <2>3. Of(b) \subseteq VMs
    BY <1>2, BulkAssumption DEF Of, VMs, BulkRows
  <2>4. Yes(b)' = {} /\ No(b)' = {}
    BY <2>2, <2>3 DEF Yes, No, Tallied, Idle
  <2>5. AtWork(b)'
    BY <2>1, <2>2, <2>4 DEF AtWork, Accepts, Adds, Mutex, InTurn, Idle, Zero
  <2> QED
    BY <1>2, <2>1, <2>2, <2>5 DEF Sound, Fresh, Undecided, Own, AllDone, Verdicts, Zero, Idle
<1>5. ASSUME NEW c \in Bulks, c # b PROVE Sound(c)'
  BY <1>1, <1>5, Untouched DEF BulkInv, BulkTyped
<1> QED BY <1>3, <1>4, <1>5 DEF BulkInv

\* What a step of one machine's goroutine leaves of the others.
LEMMA OneSubMoves ==
  ASSUME BulkTyped, NEW b \in Bulks, NEW v \in VMs, NEW r \in Subs,
         starter' = [starter EXCEPT ![b][v] = r]
  PROVE  /\ starter' \in [Bulks -> [VMs -> Subs]] /\ starter'[b][v] = r
         /\ \A u \in VMs : u # v => starter'[b][u] = starter[b][u]
         /\ \A c \in Bulks : c # b => starter'[c] = starter[c]
BY DEF BulkTyped

\* In sequence nothing else is in flight when a machine is begun.
LEMMA StartSubKeeps ==
  ASSUME NEW b \in Bulks, NEW v \in VMs, BulkInv, StartSub(b, v) PROVE BulkInv'
<1> DEFINE r == [Idle EXCEPT !.at = "start"]
<1>1. /\ runner[b] = "starting" /\ v \in Of(b) /\ starter[b][v] = Idle
      /\ Cardinality(InFlight(b)) < Room(b) /\ UNCHANGED <<bulkRow, runner, tally, lock, making>>
  BY DEF StartSub
<1>2. r \in Subs /\ r.at = "start" /\ r.accepted = FALSE
  BY DEF Idle, Subs, Zero, Counts
<1>3. starter' = [starter EXCEPT ![b][v] = r]
  BY <1>1 DEF StartSub, SubMoves, BulkInv, BulkTyped
<1> HIDE DEF r
<1>4. /\ starter' \in [Bulks -> [VMs -> Subs]] /\ starter'[b][v] = r
      /\ \A u \in VMs : u # v => starter'[b][u] = starter[b][u]
      /\ \A c \in Bulks : c # b => starter'[c] = starter[c]
  BY <1>2, <1>3, OneSubMoves DEF BulkInv
<1>5. BulkTyped'
  BY <1>1, <1>4 DEF BulkInv, BulkTyped
<1>6. Sound(b) /\ bulkRow[b] \in BulkRows /\ starter[b] \in [VMs -> Subs]
  BY DEF BulkInv, BulkTyped
<1>7. Of(b)' = Of(b) /\ Of(b) \subseteq VMs
  BY <1>1, <1>6, BulkAssumption DEF Of, VMs, BulkRows
<1>8. Yes(b)' = Yes(b) /\ No(b)' = No(b)
  BY <1>1, <1>2, <1>4, <1>7 DEF Yes, No, Tallied, Idle
<1>9. ~bulkRow[b].parallel => \A u \in VMs : starter[b][u].at \in {"idle", "done"}
  <2>1. SUFFICES ASSUME ~bulkRow[b].parallel PROVE InFlight(b) = {}
    BY <1>6 DEF InFlight, Sound, Own
  <2>2. Cardinality(InFlight(b)) < 1
    BY <1>1, <2>1 DEF Room
  <2>3. InFlight(b) \in SUBSET (1..bulkRow[b].total) /\ bulkRow[b].total \in Nat
    BY <1>6, BulkAssumption DEF InFlight, Of, BulkRows
  <2>4. IsFiniteSet(InFlight(b)) /\ Cardinality(InFlight(b)) \in Nat
    BY <2>3, MachinesAreFinite
  <2>5. Cardinality(InFlight(b)) = 0
    BY <2>2, <2>4
  <2> QED BY <2>4, <2>5, FS_EmptySet
<1>10. Accepts(b)' /\ InTurn(b)'
  BY <1>1, <1>2, <1>4, <1>6, <1>9 DEF Sound, AtWork, Accepts, InTurn
<1>11. Adds(b)' /\ Mutex(b)'
  <2>1. Adds(b) /\ Mutex(b)
    BY <1>1, <1>6 DEF Sound, AtWork
  <2>2. Adds(b)'
    BY <1>1, <1>8, <2>1 DEF Adds
  <2>3. lock[b] = Unlocked \/ lock[b] \in VMs
    BY DEF BulkInv, BulkTyped, Unlocked, VMs
  <2>4. starter[b][v].at = "idle"
    BY <1>1 DEF Idle
  <2>5. lock[b] # Unlocked => starter'[b][lock[b]].at = "write"
    BY <1>4, <2>1, <2>3, <2>4 DEF Mutex
  <2>6. \A u \in VMs : starter'[b][u].at = "write" => lock[b] = u /\ starter'[b][u].seen = tally[b]
    BY <1>2, <1>4, <2>1 DEF Mutex
  <2> QED BY <1>1, <2>1, <2>2, <2>5, <2>6 DEF Mutex
<1>12. Sound(b)'
  BY <1>1, <1>2, <1>4, <1>6, <1>7, <1>10, <1>11
  DEF Sound, Fresh, Undecided, Own, AllDone, AtWork, Verdicts
<1>13. ASSUME NEW c \in Bulks, c # b PROVE Sound(c)'
  BY <1>1, <1>4, <1>13, Untouched DEF BulkInv
<1> QED BY <1>5, <1>12, <1>13 DEF BulkInv

\* Whoever is in flight belongs to a goroutine at work.
LEMMA FlightIsWork ==
  ASSUME BulkInv, NEW b \in Bulks, NEW v \in VMs, starter[b][v].at \notin {"idle", "done"}
  PROVE  /\ runner[b] = "starting" /\ v \in Of(b) /\ Sound(b) /\ bulkRow[b] \in BulkRows
         /\ starter[b] \in [VMs -> Subs] /\ Of(b) \subseteq VMs
         /\ bulkRow[b].total \in Nat /\ Accepts(b) /\ Adds(b) /\ Mutex(b) /\ InTurn(b)
<1>1. /\ Sound(b) /\ bulkRow[b] \in BulkRows /\ starter[b] \in [VMs -> Subs]
      /\ runner[b] \in {"none", "spawned", "starting", "over"}
  BY DEF BulkInv, BulkTyped
<1>2. runner[b] = "starting" /\ v \in Of(b)
  BY <1>1 DEF Sound, Fresh, AllDone, Own, Idle
<1>3. bulkRow[b].total \in Nat /\ Of(b) \subseteq VMs
  BY <1>1, BulkAssumption DEF Of, VMs, BulkRows
<1> QED BY <1>1, <1>2, <1>3 DEF Sound, AtWork

\* The outcome of a start, or the panic of a parallel one: the machine has its
\* deployment before it is counted as accepted.
LEMMA StartEnds ==
  ASSUME NEW b \in Bulks, NEW v \in VMs, BulkInv, starter[b][v].at = "start",
         NEW accepted \in BOOLEAN,
         starter' = [starter EXCEPT ![b][v] =
           [at |-> "lock", accepted |-> accepted, seen |-> Zero]],
         NEW STATE made, made \in {making[b], making[b] \cup {v}}, accepted => v \in made,
         making' = [making EXCEPT ![b] = made], UNCHANGED <<bulkRow, runner, tally, lock>>
  PROVE  BulkInv'
<1> DEFINE r == [at |-> "lock", accepted |-> accepted, seen |-> Zero]
<1>1. /\ runner[b] = "starting" /\ v \in Of(b) /\ Sound(b) /\ bulkRow[b] \in BulkRows
      /\ starter[b] \in [VMs -> Subs] /\ Of(b) \subseteq VMs
      /\ bulkRow[b].total \in Nat /\ Accepts(b) /\ Adds(b) /\ Mutex(b) /\ InTurn(b)
  BY FlightIsWork
<1>2. r \in Subs /\ r.at = "lock" /\ r.accepted = accepted
  BY DEF Subs, Zero, Counts
<1>3. starter' = [starter EXCEPT ![b][v] = r]
  OBVIOUS
<1> HIDE DEF r
<1>4. /\ starter' \in [Bulks -> [VMs -> Subs]] /\ starter'[b][v] = r
      /\ \A u \in VMs : u # v => starter'[b][u] = starter[b][u]
      /\ \A c \in Bulks : c # b => starter'[c] = starter[c]
  BY <1>2, <1>3 DEF BulkInv, BulkTyped
<1>5. /\ making' \in [Bulks -> SUBSET VMs] /\ making'[b] = made /\ making[b] \subseteq made
      /\ made \subseteq Of(b) /\ \A c \in Bulks : c # b => making'[c] = making[c]
  BY <1>1 DEF BulkInv, BulkTyped, Sound, Own
<1>6. BulkTyped'
  BY <1>4, <1>5 DEF BulkInv, BulkTyped
<1>7. Of(b)' = Of(b) /\ Yes(b)' = Yes(b) /\ No(b)' = No(b)
  BY <1>1, <1>2, <1>4 DEF Of, Yes, No, Tallied
<1>8. Accepts(b)' /\ InTurn(b)' /\ Adds(b)'
  BY <1>1, <1>2, <1>4, <1>5, <1>7 DEF Accepts, InTurn, Adds
<1>9. Mutex(b)'
  BY <1>1, <1>2, <1>4 DEF Mutex, BulkInv, BulkTyped, Unlocked, VMs
<1>10. Cardinality(making[b]) \in Nat /\ Cardinality(made) \in Nat
       /\ Cardinality(making[b]) <= Cardinality(made)
  <2>1. made \in SUBSET (1..bulkRow[b].total) /\ making[b] \in SUBSET made
    BY <1>5 DEF Of
  <2> QED BY <1>1, <2>1, NoFewer
<1>11. Verdicts(b)'
  <2>1. bulkRow[b].status \notin {"completed", "partial_failure"}
    BY <1>1 DEF Sound, Undecided
  <2>2. bulkRow[b].seen.completed \in Nat
    BY <1>1 DEF BulkRows, Counts
  <2>3. bulkRow[b].seen.completed <= Cardinality(making[b])
    BY <1>1 DEF Sound, Verdicts
  <2> QED BY <1>5, <1>10, <2>1, <2>2, <2>3 DEF Verdicts
<1>12. Sound(b)'
  BY <1>1, <1>2, <1>4, <1>5, <1>7, <1>8, <1>9, <1>11
  DEF Sound, Fresh, Undecided, Own, AllDone, AtWork
<1>13. ASSUME NEW c \in Bulks, c # b PROVE Sound(c)'
  BY <1>4, <1>5, <1>13, Untouched DEF BulkInv
<1> QED BY <1>6, <1>12, <1>13 DEF BulkInv

LEMMA SubStartedKeeps ==
  ASSUME NEW b \in Bulks, NEW v \in VMs, BulkInv, SubStarted(b, v) PROVE BulkInv'
<1>1. PICK accepted \in BOOLEAN :
        /\ starter' = [starter EXCEPT ![b][v] = [at |-> "lock", accepted |-> accepted, seen |-> Zero]]
        /\ making' = [making EXCEPT ![b] = IF accepted THEN making[b] \cup {v} ELSE making[b]]
  BY DEF SubStarted
<1>2. starter[b][v].at = "start" /\ UNCHANGED <<bulkRow, runner, tally, lock>>
  BY DEF SubStarted
<1> QED BY <1>1, <1>2, StartEnds

\* A panic of a parallel start counts as refused; in sequence it ends the request,
\* and nobody else is in flight.
LEMMA SubPanickedKeeps ==
  ASSUME NEW b \in Bulks, NEW v \in VMs, BulkInv, SubPanicked(b, v) PROVE BulkInv'
<1>1. /\ starter[b][v].at = "start" /\ UNCHANGED <<tally, lock>>
      /\ making' = making \/ making' = [making EXCEPT ![b] = making[b] \cup {v}]
  BY DEF SubPanicked
<1>2. PICK made \in {making[b], making[b] \cup {v}} : making' = [making EXCEPT ![b] = made]
  BY <1>1 DEF BulkInv, BulkTyped
<1>3. /\ runner[b] = "starting" /\ v \in Of(b) /\ Sound(b) /\ bulkRow[b] \in BulkRows
      /\ starter[b] \in [VMs -> Subs] /\ Of(b) \subseteq VMs
      /\ bulkRow[b].total \in Nat /\ Accepts(b) /\ Adds(b) /\ Mutex(b) /\ InTurn(b)
  BY <1>1, FlightIsWork
<1>4. CASE bulkRow[b].parallel
  <2>1. UNCHANGED <<bulkRow, runner>>
        /\ starter' = [starter EXCEPT ![b][v] = [at |-> "lock", accepted |-> FALSE, seen |-> Zero]]
    BY <1>4 DEF SubPanicked
  <2> QED BY <1>1, <1>2, <2>1, StartEnds
<1>5. CASE ~bulkRow[b].parallel
  <2> DEFINE r == [at |-> "done", accepted |-> FALSE, seen |-> Zero]
  <2>1. /\ starter' = [starter EXCEPT ![b][v] = r] /\ runner' = [runner EXCEPT ![b] = "over"]
        /\ bulkRow' = [bulkRow EXCEPT ![b].status = "failed"]
    BY <1>5 DEF SubPanicked, SetStatus
  <2>2. r \in Subs /\ r.at = "done"
    BY DEF Subs, Zero, Counts
  <2> HIDE DEF r
  <2>3. /\ starter' \in [Bulks -> [VMs -> Subs]] /\ starter'[b][v] = r
        /\ \A u \in VMs : u # v => starter'[b][u] = starter[b][u]
        /\ \A c \in Bulks : c # b => starter'[c] = starter[c]
    BY <2>1, <2>2 DEF BulkInv, BulkTyped
  <2>4. /\ making' \in [Bulks -> SUBSET VMs] /\ making'[b] = made /\ making[b] \subseteq made
        /\ made \subseteq Of(b) /\ \A c \in Bulks : c # b => making'[c] = making[c]
    BY <1>2, <1>3 DEF BulkInv, BulkTyped, Sound, Own
  <2>5. /\ bulkRow' \in [Bulks -> BulkRows] /\ bulkRow'[b] = [bulkRow[b] EXCEPT !.status = "failed"]
        /\ runner' \in [Bulks -> {"none", "spawned", "starting", "over"}] /\ runner'[b] = "over"
        /\ \A c \in Bulks : c # b => bulkRow'[c] = bulkRow[c] /\ runner'[c] = runner[c]
    BY <2>1 DEF BulkInv, BulkTyped, BulkRows
  <2>6. BulkTyped'
    BY <1>1, <2>3, <2>4, <2>5 DEF BulkInv, BulkTyped
  <2>7. Of(b)' = Of(b) /\ bulkRow'[b].status = "failed" /\ bulkRow'[b].seen = bulkRow[b].seen
    BY <1>3, <2>5 DEF Of, BulkRows
  <2>8. \A u \in VMs : u # v => starter[b][u].at \in {"idle", "done"}
    BY <1>1, <1>3, <1>5 DEF InTurn
  <2>9. AllDone(b)' /\ Own(b)'
    BY <1>3, <2>2, <2>3, <2>4, <2>7, <2>8 DEF AllDone, Own, Sound
  <2>10. Cardinality(making[b]) \in Nat /\ Cardinality(made) \in Nat
         /\ Cardinality(making[b]) <= Cardinality(made)
    <3>1. made \in SUBSET (1..bulkRow[b].total) /\ making[b] \in SUBSET made
      BY <2>4 DEF Of
    <3> QED BY <1>3, <3>1, NoFewer
  <2>11. Verdicts(b)'
    BY <1>3, <2>4, <2>7, <2>10 DEF Verdicts, Sound, BulkRows, Counts
  <2>12. Sound(b)'
    BY <2>5, <2>7, <2>9, <2>11 DEF Sound, Fresh, Undecided, AtWork
  <2>13. ASSUME NEW c \in Bulks, c # b PROVE Sound(c)'
    BY <1>1, <2>3, <2>4, <2>5, <2>13, Untouched DEF BulkInv
  <2> QED BY <2>6, <2>12, <2>13 DEF BulkInv
<1> QED BY <1>4, <1>5

\* A machine is counted by whoever takes the mutex.
LEMMA CountSubKeeps ==
  ASSUME NEW b \in Bulks, NEW v \in VMs, BulkInv, CountSub(b, v) PROVE BulkInv'
<1> DEFINE yes == starter[b][v].accepted
           t == OneOf(tally[b], yes)
           r == [at |-> "write", accepted |-> yes, seen |-> t]
<1>1. /\ starter[b][v].at = "lock" /\ lock[b] = Unlocked /\ lock' = [lock EXCEPT ![b] = v]
      /\ UNCHANGED <<bulkRow, runner, making>>
  BY DEF CountSub, Held
<1>2. /\ runner[b] = "starting" /\ v \in Of(b) /\ Sound(b) /\ bulkRow[b] \in BulkRows
      /\ starter[b] \in [VMs -> Subs] /\ Of(b) \subseteq VMs
      /\ bulkRow[b].total \in Nat /\ Accepts(b) /\ Adds(b) /\ Mutex(b) /\ InTurn(b)
  BY <1>1, FlightIsWork
<1>3. yes \in BOOLEAN /\ tally[b] \in Counts
  BY <1>2 DEF Subs, BulkInv, BulkTyped
<1>4. tally' = [tally EXCEPT ![b] = t]
  BY DEF CountSub
<1>5. t \in Counts /\ r \in Subs /\ r.at = "write" /\ r.seen = t /\ r.accepted = yes
      /\ t.completed = (IF yes THEN tally[b].completed + 1 ELSE tally[b].completed)
      /\ t.failed = (IF yes THEN tally[b].failed ELSE tally[b].failed + 1)
  BY <1>3 DEF Counts, Subs, OneOf
<1>6. tally'[b] = t /\ tally' \in [Bulks -> Counts] /\ \A c \in Bulks : c # b => tally'[c] = tally[c]
  BY <1>4, <1>5 DEF BulkInv, BulkTyped
<1>7. starter' = [starter EXCEPT ![b][v] = r]
  BY <1>6 DEF CountSub
<1> HIDE DEF t, r
<1>8. /\ starter' \in [Bulks -> [VMs -> Subs]] /\ starter'[b][v] = r
      /\ \A u \in VMs : u # v => starter'[b][u] = starter[b][u]
      /\ \A c \in Bulks : c # b => starter'[c] = starter[c]
  BY <1>5, <1>7 DEF BulkInv, BulkTyped
<1>9. /\ lock' \in [Bulks -> 0..MaxVMs] /\ lock'[b] = v
      /\ \A c \in Bulks : c # b => lock'[c] = lock[c]
  BY <1>1, BulkAssumption DEF BulkInv, BulkTyped, VMs
<1>10. BulkTyped'
  BY <1>1, <1>6, <1>8, <1>9 DEF BulkInv, BulkTyped
<1>11. Of(b)' = Of(b) /\ v \notin Yes(b) /\ v \notin No(b)
  BY <1>1 DEF Of, Yes, No, Tallied
<1>12. /\ Yes(b)' = IF yes THEN Yes(b) \cup {v} ELSE Yes(b)
       /\ No(b)' = IF yes THEN No(b) ELSE No(b) \cup {v}
  BY <1>1, <1>2, <1>3, <1>5, <1>8, <1>11 DEF Yes, No, Tallied
<1>13. /\ Cardinality(Yes(b) \cup {v}) = Cardinality(Yes(b)) + 1
       /\ Cardinality(No(b) \cup {v}) = Cardinality(No(b)) + 1
  <2>1. Yes(b) \in SUBSET (1..bulkRow[b].total) /\ No(b) \in SUBSET (1..bulkRow[b].total)
    BY DEF Yes, No, Of
  <2> QED BY <1>2, <1>11, <2>1, OneMore
<1>14. Adds(b)'
  <2>1. tally[b].completed = Cardinality(Yes(b)) /\ tally[b].failed = Cardinality(No(b))
    BY <1>2 DEF Adds
  <2>2. CASE yes
    BY <1>5, <1>6, <1>12, <1>13, <2>1, <2>2 DEF Adds
  <2>3. CASE ~yes
    BY <1>5, <1>6, <1>12, <1>13, <2>1, <2>3 DEF Adds
  <2> QED BY <2>2, <2>3
<1>15. Accepts(b)' /\ InTurn(b)'
  BY <1>1, <1>2, <1>5, <1>8 DEF Accepts, InTurn
<1>16. Mutex(b)'
  <2>1. \A u \in VMs : u # Unlocked
    BY BulkAssumption DEF VMs, Unlocked
  <2>2. \A u \in VMs : u # v => starter'[b][u].at # "write"
    BY <1>1, <1>2, <1>8, <2>1 DEF Mutex
  <2> QED BY <1>5, <1>6, <1>8, <1>9, <2>1, <2>2 DEF Mutex
<1>17. Sound(b)'
  BY <1>1, <1>2, <1>5, <1>8, <1>11, <1>14, <1>15, <1>16
  DEF Sound, Fresh, Undecided, Own, AllDone, AtWork, Verdicts
<1>18. ASSUME NEW c \in Bulks, c # b PROVE Sound(c)'
  BY <1>1, <1>6, <1>8, <1>9, <1>18, Untouched DEF BulkInv
<1> QED BY <1>10, <1>17, <1>18 DEF BulkInv

\* The holder of the mutex writes the tally it has just made.
LEMMA UpdateKeeps ==
  ASSUME NEW b \in Bulks, NEW v \in VMs, BulkInv, UpdateBulkDeploymentProgress(b, v)
  PROVE  BulkInv'
<1> DEFINE r == [starter[b][v] EXCEPT !.at = "done"]
           rec == [bulkRow[b] EXCEPT !.seen = starter[b][v].seen]
<1>1. /\ starter[b][v].at = "write" /\ lock' = [lock EXCEPT ![b] = Unlocked]
      /\ UNCHANGED <<runner, tally, making>>
  BY DEF UpdateBulkDeploymentProgress
<1>2. /\ runner[b] = "starting" /\ v \in Of(b) /\ Sound(b) /\ bulkRow[b] \in BulkRows
      /\ starter[b] \in [VMs -> Subs] /\ Of(b) \subseteq VMs
      /\ bulkRow[b].total \in Nat /\ Accepts(b) /\ Adds(b) /\ Mutex(b) /\ InTurn(b)
  BY <1>1, FlightIsWork
<1>3. starter' = [starter EXCEPT ![b][v] = r] /\ bulkRow' = [bulkRow EXCEPT ![b] = rec]
  BY DEF UpdateBulkDeploymentProgress, SubMoves, BulkInv, BulkTyped
<1>4. r \in Subs /\ r.at = "done" /\ r.accepted = starter[b][v].accepted
  BY <1>2 DEF Subs
<1>5. /\ rec \in BulkRows /\ rec.seen = tally[b] /\ rec.total = bulkRow[b].total
      /\ rec.status = bulkRow[b].status /\ rec.parallel = bulkRow[b].parallel
  BY <1>1, <1>2 DEF BulkRows, Subs, Mutex
<1> HIDE DEF r, rec
<1>6. /\ starter' \in [Bulks -> [VMs -> Subs]] /\ starter'[b][v] = r
      /\ \A u \in VMs : u # v => starter'[b][u] = starter[b][u]
      /\ \A c \in Bulks : c # b => starter'[c] = starter[c]
  BY <1>3, <1>4 DEF BulkInv, BulkTyped
<1>7. /\ bulkRow' \in [Bulks -> BulkRows] /\ bulkRow'[b] = rec
      /\ \A c \in Bulks : c # b => bulkRow'[c] = bulkRow[c]
  BY <1>3, <1>5 DEF BulkInv, BulkTyped
<1>8. /\ lock' \in [Bulks -> 0..MaxVMs] /\ lock'[b] = Unlocked
      /\ \A c \in Bulks : c # b => lock'[c] = lock[c]
  BY <1>1, BulkAssumption DEF BulkInv, BulkTyped, Unlocked
<1>9. BulkTyped'
  BY <1>1, <1>6, <1>7, <1>8 DEF BulkInv, BulkTyped
<1>10. Of(b)' = Of(b) /\ Yes(b)' = Yes(b) /\ No(b)' = No(b)
  <2>1. Of(b)' = Of(b)
    BY <1>5, <1>7 DEF Of
  <2> QED BY <1>1, <1>2, <1>4, <1>6, <2>1 DEF Yes, No, Tallied
<1>11. Adds(b)' /\ Accepts(b)' /\ InTurn(b)'
  BY <1>1, <1>2, <1>4, <1>5, <1>6, <1>7, <1>10 DEF Adds, Accepts, InTurn
<1>12. Mutex(b)'
  <2>1. \A u \in VMs : u # v => starter'[b][u].at # "write"
    BY <1>1, <1>2, <1>6 DEF Mutex
  <2> QED BY <1>1, <1>4, <1>5, <1>6, <1>7, <1>8, <2>1 DEF Mutex
<1>13. Verdicts(b)'
  <2>1. rec.status \notin {"completed", "partial_failure"}
    BY <1>2, <1>5 DEF Sound, Undecided
  <2>2. rec.seen.completed <= Cardinality(making[b])
    <3>1. Yes(b) \in SUBSET making[b] /\ making[b] \in SUBSET (1..bulkRow[b].total)
      BY <1>2 DEF Yes, Accepts, Sound, Own, Of
    <3>2. Cardinality(Yes(b)) <= Cardinality(making[b])
      BY <1>2, <3>1, NoFewer
    <3> QED BY <1>2, <1>5, <3>2 DEF Adds
  <2> QED BY <1>1, <1>7, <2>1, <2>2 DEF Verdicts
<1>14. Sound(b)'
  BY <1>1, <1>2, <1>4, <1>5, <1>6, <1>7, <1>10, <1>11, <1>12, <1>13
  DEF Sound, Fresh, Undecided, Own, AllDone, AtWork
<1>15. ASSUME NEW c \in Bulks, c # b PROVE Sound(c)'
  BY <1>1, <1>6, <1>7, <1>8, <1>15, Untouched DEF BulkInv
<1> QED BY <1>9, <1>14, <1>15 DEF BulkInv

\* When every machine is done nobody holds the mutex, so the row has the whole
\* tally, and what was not refused has its deployment.
LEMMA FinishKeeps == ASSUME NEW b \in Bulks, BulkInv, FinishBulk(b) PROVE BulkInv'
<1> DEFINE noted == bulkRow[b].seen
           total == bulkRow[b].total
           rec == [bulkRow[b] EXCEPT !.status = Verdict(noted, total)]
<1>1. /\ runner[b] = "starting" /\ \A v \in Of(b) : starter[b][v].at = "done"
      /\ runner' = [runner EXCEPT ![b] = "over"] /\ UNCHANGED <<starter, tally, lock, making>>
      /\ bulkRow' = [bulkRow EXCEPT ![b].status = Verdict(noted, total)]
  BY DEF FinishBulk, SetStatus
<1>2. /\ Sound(b) /\ bulkRow[b] \in BulkRows /\ starter[b] \in [VMs -> Subs] /\ lock[b] \in 0..MaxVMs
      /\ Accepts(b) /\ Adds(b) /\ Mutex(b)
  BY <1>1 DEF BulkInv, BulkTyped, Sound, AtWork
<1>3. total \in Nat /\ Of(b) \subseteq VMs /\ noted \in Counts
  BY <1>2, BulkAssumption DEF Of, VMs, BulkRows
<1>4. \A v \in VMs : starter[b][v].at \in {"idle", "done"}
  BY <1>1, <1>2 DEF Sound, Own
<1>5. noted = tally[b]
  BY <1>2, <1>4 DEF Mutex, VMs, Unlocked
<1>6. No(b) = Of(b) \ Yes(b) /\ Yes(b) \in SUBSET (1..total) /\ Of(b) = 1..total
  BY <1>1 DEF Yes, No, Tallied, Of
<1>7. Cardinality(Yes(b)) + Cardinality(No(b)) = total
  <2>1. Cardinality(Yes(b)) + Cardinality((1..total) \ Yes(b)) = total
    BY <1>3, <1>6, PartsAddUp
  <2> QED BY <1>6, <2>1
<1>8. noted.completed = Cardinality(Yes(b)) /\ noted.failed = Cardinality(No(b))
  BY <1>2, <1>5 DEF Adds
<1>9. noted.failed = 0 => making[b] = Of(b)
  <2>1. SUFFICES ASSUME noted.failed = 0 PROVE Of(b) \subseteq making[b]
    BY <1>2 DEF Sound, Own
  <2>2. Cardinality(Yes(b)) = total
    BY <1>3, <1>7, <1>8, <2>1 DEF Counts
  <2>3. Yes(b) = 1..total
    BY <1>3, <1>6, <2>2, MachinesAreFinite
  <2> QED BY <1>2, <1>3, <1>6, <2>3 DEF Yes, Accepts
<1>10. Verdict(noted, total) \in {"completed", "failed", "partial_failure"}
       /\ (Verdict(noted, total) = "completed" => noted.failed = 0)
  BY DEF Verdict
<1>11. /\ rec \in BulkRows /\ rec.seen = noted /\ rec.total = total /\ rec.parallel = bulkRow[b].parallel
       /\ rec.status \in {"completed", "failed", "partial_failure"}
       /\ (rec.status = "completed" => noted.failed = 0)
  BY <1>2, <1>10 DEF BulkRows
<1>12. bulkRow' = [bulkRow EXCEPT ![b] = rec]
  BY <1>1 DEF BulkInv, BulkTyped
<1> HIDE DEF rec
<1>13. /\ bulkRow' \in [Bulks -> BulkRows] /\ bulkRow'[b] = rec
       /\ \A c \in Bulks : c # b => bulkRow'[c] = bulkRow[c]
       /\ runner' \in [Bulks -> {"none", "spawned", "starting", "over"}] /\ runner'[b] = "over"
       /\ \A c \in Bulks : c # b => runner'[c] = runner[c]
  BY <1>1, <1>11, <1>12 DEF BulkInv, BulkTyped
<1>14. BulkTyped'
  BY <1>1, <1>13 DEF BulkInv, BulkTyped
<1>15. Of(b)' = Of(b)
  BY <1>11, <1>13 DEF Of
<1>16. Own(b)' /\ AllDone(b)' /\ Undecided(b)'
  BY <1>1, <1>2, <1>4, <1>11, <1>13, <1>15 DEF Own, AllDone, Undecided, Sound
<1>17. Verdicts(b)'
  <2>1. noted.completed <= Cardinality(making[b]) /\ noted.completed + noted.failed = total
    BY <1>2, <1>7, <1>8 DEF Verdicts, Sound
  <2>2. rec.status = "completed" => making[b] = Of(b)
    BY <1>9, <1>11
  <2>3. making'[b] = making[b] /\ Of(b)' = Of(b) /\ bulkRow'[b] = rec
    BY <1>1, <1>13, <1>15
  <2> QED BY <1>11, <2>1, <2>2, <2>3 DEF Verdicts
<1>18. Sound(b)'
  BY <1>13, <1>16, <1>17 DEF Sound, Fresh, AtWork
<1>19. ASSUME NEW c \in Bulks, c # b PROVE Sound(c)'
  BY <1>1, <1>13, <1>19, Untouched DEF BulkInv
<1> QED BY <1>14, <1>18, <1>19 DEF BulkInv

\* A restart ends the goroutines; the rows stay as they were.
LEMMA RestartKeeps == BulkInv /\ RestartServer => BulkInv'
<1> SUFFICES ASSUME BulkInv, RestartServer PROVE BulkInv'
  OBVIOUS
<1>1. /\ runner' = [b \in Bulks |-> IF runner[b] = "none" THEN "none" ELSE "over"]
      /\ starter' = [b \in Bulks |-> [v \in VMs |-> Idle]] /\ tally' = [b \in Bulks |-> Zero]
      /\ lock' = [b \in Bulks |-> Unlocked] /\ UNCHANGED <<bulkRow, making>>
  BY DEF RestartServer
<1>2. Zero \in Counts /\ Idle \in Subs /\ Unlocked \in 0..MaxVMs
  BY BulkAssumption DEF Zero, Counts, Idle, Subs, Unlocked
<1>3. BulkTyped'
  BY <1>1, <1>2 DEF BulkInv, BulkTyped
<1>4. ASSUME NEW b \in Bulks PROVE Sound(b)'
  <2>1. Sound(b) /\ Of(b)' = Of(b)
    BY <1>1 DEF BulkInv, Of
  <2>2. /\ runner'[b] = (IF runner[b] = "none" THEN "none" ELSE "over")
        /\ starter'[b] = [v \in VMs |-> Idle] /\ tally'[b] = Zero /\ lock'[b] = Unlocked
        /\ bulkRow'[b] = bulkRow[b] /\ making'[b] = making[b]
    BY <1>1
  <2>3. Fresh(b)' /\ Undecided(b)' /\ AllDone(b)' /\ AtWork(b)'
    BY <2>1, <2>2 DEF Sound, Fresh, Undecided, AllDone, AtWork, Idle
  <2>4. Own(b)' /\ Verdicts(b)'
    BY <2>1, <2>2 DEF Sound, Own, Verdicts, Idle
  <2> QED BY <2>3, <2>4 DEF Sound
<1> QED BY <1>3, <1>4 DEF BulkInv

LEMMA BulkStep == BulkInv /\ [BulkNext]_bulkVars => BulkInv'
<1> SUFFICES ASSUME BulkInv, [BulkNext]_bulkVars PROVE BulkInv'
  OBVIOUS
<1>1. CASE UNCHANGED bulkVars
  <2>1. UNCHANGED <<bulkRow, runner, starter, tally, lock, making>>
    BY <1>1 DEF bulkVars
  <2>2. BulkTyped'
    BY <2>1 DEF BulkInv, BulkTyped
  <2>3. ASSUME NEW b \in Bulks PROVE Sound(b)'
    BY <2>1, Untouched DEF BulkInv
  <2> QED BY <2>2, <2>3 DEF BulkInv
<1>2. CASE RestartServer
  BY <1>2, RestartKeeps
<1>3. ASSUME NEW b \in Bulks, StartBulk(b) \/ RunBulk(b) \/ FinishBulk(b) PROVE BulkInv'
  BY <1>3, StartBulkKeeps, RunBulkKeeps, FinishKeeps
<1>4. ASSUME NEW b \in Bulks, NEW v \in VMs,
             \/ StartSub(b, v) \/ SubStarted(b, v) \/ SubPanicked(b, v)
             \/ CountSub(b, v) \/ UpdateBulkDeploymentProgress(b, v)
      PROVE  BulkInv'
  BY <1>4, StartSubKeeps, SubStartedKeeps, SubPanickedKeeps, CountSubKeeps, UpdateKeeps
<1> QED BY <1>1, <1>2, <1>3, <1>4 DEF BulkNext

\* Every machine of a bulk deployment is counted once, under the mutex, and
\* nobody is left in flight when the request is over (runSequential, runParallel).
THEOREM BulkInvariance == BulkSpec => []BulkInv
BY BulkStarts, BulkStep, PTL DEF BulkSpec

\* What a bulk row says of its machines holds for any number of requests,
\* machines and workers (bulk.go, UpdateBulkDeploymentProgress).
THEOREM BulkTallyHolds == BulkSpec => []TallyHolds
<1>1. BulkInv => TallyHolds
  BY DEF BulkInv, Sound, Verdicts, TallyHolds
<1> QED BY <1>1, BulkInvariance, PTL

\* No counter passes the machines of its request.
Counter(t) == t.completed <= MaxVMs /\ t.failed <= MaxVMs
BulkMore ==
  /\ BulkInv /\ instance \in 1..Instances
  /\ \A b \in Bulks : /\ Counter(tally[b]) /\ Counter(bulkRow[b].seen)
                      /\ \A v \in VMs : Counter(starter[b][v].seen)

LEMMA MoreCounts ==
  ASSUME BulkMore, NEW b \in Bulks, NEW v \in VMs, CountSub(b, v)
  PROVE  Counter(tally'[b])
<1>1. BulkInv' /\ BulkInv
  BY CountSubKeeps DEF BulkMore
<1>2. Sound(b) /\ Sound(b)' /\ BulkTyped /\ BulkTyped'
  BY <1>1 DEF BulkInv
<1>3. runner[b] = "starting" /\ runner'[b] = "starting"
  BY <1>2 DEF CountSub, Sound, Fresh, AllDone, BulkTyped, Idle
<1>4. Adds(b)'
  BY <1>2, <1>3 DEF Sound, AtWork
<1>5. Yes(b)' \in SUBSET (1..MaxVMs) /\ No(b)' \in SUBSET (1..MaxVMs)
  <2>1. bulkRow'[b].total \in 0..MaxVMs
    BY <1>2 DEF BulkTyped, BulkRows
  <2>2. Of(b)' \subseteq 1..MaxVMs
    BY <2>1, BulkAssumption DEF Of
  <2> QED BY <2>2 DEF Yes, No
<1>6. Cardinality(Yes(b)') <= MaxVMs /\ Cardinality(No(b)') <= MaxVMs
  BY <1>5, MachinesAreFinite, BulkAssumption
<1> QED BY <1>4, <1>6 DEF Adds, Counter

LEMMA MoreBulkSteps == BulkMore /\ [BulkNext]_bulkVars => BulkMore'
<1> SUFFICES ASSUME BulkMore, [BulkNext]_bulkVars PROVE BulkMore'
  OBVIOUS
<1>0. /\ BulkInv' /\ BulkTyped /\ Counter(Zero)
      /\ bulkRow \in [Bulks -> BulkRows] /\ starter \in [Bulks -> [VMs -> Subs]] /\ tally \in [Bulks -> Counts]
  BY BulkStep, BulkAssumption DEF BulkMore, BulkInv, BulkTyped, Counter, Zero
<1>1. CASE UNCHANGED <<bulkRow, starter, tally, instance>>
  BY <1>0, <1>1 DEF BulkMore
<1>2. CASE RestartServer
  BY <1>0, <1>2, BulkAssumption DEF BulkMore, RestartServer, Idle
<1>3. ASSUME NEW b \in Bulks, UNCHANGED instance,
             \A c \in Bulks : Counter(tally'[c]) /\ Counter(bulkRow'[c].seen) /\ \A v \in VMs : Counter(starter'[c][v].seen)
      PROVE  BulkMore'
  BY <1>0, <1>3 DEF BulkMore
<1>4. ASSUME NEW b \in Bulks, StartBulk(b) \/ RunBulk(b) \/ FinishBulk(b) PROVE BulkMore'
  <2>1. UNCHANGED <<starter, tally, instance>>
    BY <1>4 DEF StartBulk, RunBulk, FinishBulk
  <2>3. \A c \in Bulks : bulkRow'[c].seen \in {bulkRow[c].seen, Zero}
    <3>1. CASE StartBulk(b)
      <4>1. PICK total, parallel : bulkRow' = [bulkRow EXCEPT ![b] =
              [status |-> "pending", total |-> total, parallel |-> parallel, seen |-> Zero]]
        BY <3>1 DEF StartBulk
      <4> QED BY <1>0, <4>1
    <3>2. CASE RunBulk(b) \/ FinishBulk(b)
      <4>1. PICK status : bulkRow' = [bulkRow EXCEPT ![b].status = status]
        BY <3>2 DEF RunBulk, FinishBulk, SetStatus
      <4> QED BY <1>0, <4>1 DEF BulkRows
    <3> QED BY <1>4, <3>1, <3>2
  <2>2. \A c \in Bulks : Counter(bulkRow'[c].seen)
    BY <1>0, <2>3 DEF BulkMore
  <2> QED BY <1>0, <2>1, <2>2 DEF BulkMore
<1>5. ASSUME NEW b \in Bulks, NEW v \in VMs, StartSub(b, v) \/ SubStarted(b, v) \/ SubPanicked(b, v)
      PROVE  BulkMore'
  <2>1. UNCHANGED <<tally, instance>>
    BY <1>5 DEF StartSub, SubStarted, SubPanicked
  <2>4. bulkRow' = bulkRow \/ bulkRow' = [bulkRow EXCEPT ![b].status = "failed"]
    BY <1>5 DEF StartSub, SubStarted, SubPanicked, SetStatus
  <2>5. \A c \in Bulks : bulkRow'[c].seen = bulkRow[c].seen
    BY <1>0, <2>4 DEF BulkRows
  <2>2. \A c \in Bulks : Counter(bulkRow'[c].seen)
    BY <2>5 DEF BulkMore
  <2>6. ASSUME starter' = [starter EXCEPT ![b][v].at = "start"]
        PROVE  \A c \in Bulks : \A u \in VMs : starter'[c][u].seen \in {starter[c][u].seen, Zero}
    BY <1>0, <2>6 DEF Subs
  <2>7. ASSUME NEW at, NEW accepted,
               starter' = [starter EXCEPT ![b][v] = [at |-> at, accepted |-> accepted, seen |-> Zero]]
        PROVE  \A c \in Bulks : \A u \in VMs : starter'[c][u].seen \in {starter[c][u].seen, Zero}
    BY <1>0, <2>7
  <2>3. \A c \in Bulks : \A u \in VMs : Counter(starter'[c][u].seen)
    <3>1. \A c \in Bulks : \A u \in VMs : starter'[c][u].seen \in {starter[c][u].seen, Zero}
      BY <1>5, <2>6, <2>7 DEF StartSub, SubStarted, SubPanicked, SubMoves
    <3> QED BY <1>0, <3>1 DEF BulkMore
  <2> QED BY <1>0, <2>1, <2>2, <2>3 DEF BulkMore
<1>6. ASSUME NEW b \in Bulks, NEW v \in VMs, CountSub(b, v) PROVE BulkMore'
  <2>1. Counter(tally'[b])
    BY <1>6, MoreCounts
  <2>2. UNCHANGED <<bulkRow, instance>> /\ \A c \in Bulks : Counter(tally'[c])
    BY <1>0, <1>6, <2>1 DEF CountSub, BulkMore
  <2>3. \A c \in Bulks : \A u \in VMs : starter'[c][u].seen = starter[c][u].seen \/ starter'[c][u].seen = tally'[b]
    BY <1>0, <1>6 DEF CountSub
  <2> QED BY <1>0, <2>1, <2>2, <2>3 DEF BulkMore
<1>7. ASSUME NEW b \in Bulks, NEW v \in VMs, UpdateBulkDeploymentProgress(b, v) PROVE BulkMore'
  <2>1. UNCHANGED <<tally, instance>>
    BY <1>7 DEF UpdateBulkDeploymentProgress
  <2>2. \A c \in Bulks : bulkRow'[c].seen = bulkRow[c].seen \/ bulkRow'[c].seen = starter[b][v].seen
    BY <1>0, <1>7 DEF UpdateBulkDeploymentProgress, BulkRows
  <2>3. \A c \in Bulks : \A u \in VMs : starter'[c][u].seen = starter[c][u].seen
    BY <1>0, <1>7 DEF UpdateBulkDeploymentProgress, SubMoves, Subs
  <2> QED BY <1>0, <2>1, <2>2, <2>3 DEF BulkMore
<1>8. CASE UNCHANGED bulkVars
  BY <1>1, <1>8 DEF bulkVars
<1> QED BY <1>2, <1>4, <1>5, <1>6, <1>7, <1>8 DEF BulkNext

\* Every variable of the bulk deployments has its type, and no counter passes
\* the machines of its request (runParallel).
THEOREM BulkTypes == BulkSpec => []BulkTypeOK
<1>1. ASSUME BulkInit PROVE BulkMore
  <2>1. BulkInv
    BY <1>1, BulkStarts
  <2>2. Counter(Zero) /\ 1 \in 1..Instances
    BY BulkAssumption DEF Counter, Zero
  <2> QED BY <1>1, <2>1, <2>2 DEF BulkInit, BulkMore, NoRow, Idle
<1>2. ASSUME BulkMore PROVE BulkTypeOK
  <2>1. BulkTyped
    BY <1>2 DEF BulkMore, BulkInv
  <2>2. \A t \in Counts : Counter(t) => t \in Tally
    BY BulkAssumption DEF Counts, Counter, Tally
  <2>3. tally \in [Bulks -> Tally]
    BY <1>2, <2>1, <2>2 DEF BulkTyped, BulkMore
  <2>4. \A b \in Bulks : bulkRow[b].seen \in Tally /\ bulkRow[b] \in BulkRows
    BY <1>2, <2>1, <2>2 DEF BulkTyped, BulkMore, BulkRows
  <2>5. \A b \in Bulks, v \in VMs : starter[b][v].seen \in Tally /\ starter[b][v] \in Subs
    BY <1>2, <2>1, <2>2 DEF BulkTyped, BulkMore, Subs
  <2>6. bulkRow \in [Bulks -> [status : {"none", "pending", "running", "completed",
          "partial_failure", "failed"}, total : 0..MaxVMs, parallel : BOOLEAN, seen : Tally]]
    BY <2>1, <2>4 DEF BulkTyped, BulkRows
  <2>7. starter \in [Bulks -> [VMs -> [at : {"idle", "start", "lock", "write", "done"},
                                       accepted : BOOLEAN, seen : Tally]]]
    BY <2>1, <2>5 DEF BulkTyped, Subs
  <2> QED BY <1>2, <2>1, <2>3, <2>6, <2>7 DEF BulkMore, BulkTypeOK, BulkTyped
<1> QED BY <1>1, <1>2, MoreBulkSteps, PTL DEF BulkSpec

------------------------------------------------------------------------------
(* Deployments on Proxmox *)

\* The file with the user data is named after the machine: the deployments
\* that share the directory have names of their own.
OwnNames == \A d, e \in Deployments : Name(d) = Name(e) => d = e

Working == {"snippet", "hardware", "cloudInit", "rollback", "resize", "start"}
HasHardware == {"cloudInit", "resize", "start", "ok", "partial"}
HasCloudInit == {"resize", "start", "ok", "partial"}
Positions == Over \cup Working \cup {"clone", "await"}
Calls == [at : {"none", "done", "restart", "slot", "added", "unplug"},
          id : Ids \cup {0}, slot : Slots \cup {0}]
Standings == [at : Positions, id : Ids \cup {0}, tries : 1..Attempts, cancelled : BOOLEAN]

\* A machine holds settings of its own deployment only, those its deployment
\* has got to, and the user data they name is the deployment's.
Furnished(m, d, at, data) ==
  /\ m.hardware \in {d, Nobody} /\ m.cloudInit \in {d, Nobody} /\ m.booted \in {d, Nobody}
  /\ at \in HasHardware => m.hardware = d
  /\ at \in HasCloudInit => m.cloudInit = d
  /\ at \in {"start", "ok"} => m.grown
  /\ at = "ok" => m.booted = d
  /\ d \in WithActions /\ m.cloudInit = d => data = d

\* A deployment has one machine at most, the one it cloned, and keeps it while
\* it works on it: nobody else removes it or takes its number.
CloneInv(d) ==
  /\ \A i \in Ids : Made(d, i) => i = Id(d) /\ Step(d) \notin {"none", "clone", "removed"}
  /\ Step(d) \in Working \cup {"clone", "await"} => Id(d) \in Ids
  /\ Step(d) \in Working => Made(d, Id(d)) /\ ~machine[Id(d)].locked
  /\ \A i \in Ids : Made(d, i) => Furnished(machine[i], d, Step(d), snippet[Name(d)])
  /\ d \in WithActions /\ Step(d) \in HasHardware \cup {"hardware"} => snippet[Name(d)] = d
ProxmoxInv == ProxmoxTypeOK /\ \A d \in Deployments : CloneInv(d)

LEMMA ProxmoxTyped ==
  ASSUME ProxmoxTypeOK
  PROVE  /\ machine \in [Ids -> Clones \cup {NoMachine}] /\ deploy \in [Deployments -> Standings]
         /\ snippet \in [Names -> Deployments \cup {Nobody}] /\ call \in [Callers -> Calls]
         /\ Attempts \in 1..Attempts /\ Nobody \notin Deployments /\ WithActions \subseteq Deployments
         /\ \A d \in Deployments : Name(d) \in Names
         /\ \A m \in Clones : m.there /\ m.of \in Deployments
         /\ ~NoMachine.there
<1>1. Attempts \in 1..Attempts /\ Nobody \notin Deployments /\ WithActions \subseteq Deployments
  BY ProxmoxAssumption
<1>2. deploy \in [Deployments -> Standings] /\ call \in [Callers -> Calls]
  BY DEF ProxmoxTypeOK, Standings, Positions, Working, Over, Calls
<1> QED  BY <1>1, <1>2 DEF ProxmoxTypeOK, Names, Clones, NoMachine

LEMMA TypedAgain ==
  ASSUME machine' \in [Ids -> Clones \cup {NoMachine}], deploy' \in [Deployments -> Standings],
         snippet' \in [Names -> Deployments \cup {Nobody}], call' \in [Callers -> Calls]
  PROVE  ProxmoxTypeOK'
BY DEF ProxmoxTypeOK, Standings, Positions, Working, Over, Calls

\* What the service sees of a deployment.
Returned(d) ==
  CASE Step(d) \in {"ok", "partial", "removed"} -> Step(d)
    [] Step(d) \in {"failed", "left"} -> "failed"
    [] OTHER -> "none"
BuiltBy(d) ==
  IF \E i \in Ids : Made(d, i) THEN Stage(machine[CHOOSE i \in Ids : Made(d, i)], d) ELSE "absent"
ContractVars == <<[d \in Deployments |-> Returned(d)], [d \in Deployments |-> BuiltBy(d)]>>

LEMMA ReturnedIs ==
  ASSUME ProxmoxInv, NEW d \in Deployments
  PROVE  /\ Step(d) \in {"ok", "partial", "removed"} => Returned(d) = Step(d)
         /\ Step(d) \in {"failed", "left"} => Returned(d) = "failed"
         /\ Step(d) \notin Over \ {"none"} => Returned(d) = "none"
         /\ Step(d) \in Over \ {"none"} => Returned(d) # "none"
         /\ Returned(d) \in Contract!Outcomes
<1>1. Step(d) \in Positions
  BY ProxmoxTyped DEF ProxmoxInv, Step, Standings
<1> QED  BY <1>1 DEF Returned, Over, Positions, Working, Contract!Outcomes

LEMMA BuiltIs ==
  ASSUME ProxmoxInv, NEW d \in Deployments
  PROVE  /\ \A i \in Ids : Made(d, i) => BuiltBy(d) = Stage(machine[i], d) /\ BuiltBy(d) # "absent"
         /\ (\A i \in Ids : ~Made(d, i)) => BuiltBy(d) = "absent"
         /\ BuiltBy(d) \in Contract!Stages
         /\ Returned(d) # "none" => Contract!Warrants(Returned(d), BuiltBy(d)) \/ BuiltBy(d) = "absent"
         /\ Returned(d) = "removed" => BuiltBy(d) = "absent"
<1>0. CloneInv(d)
  BY DEF ProxmoxInv
<1>1. \A i \in Ids : Made(d, i) => BuiltBy(d) = Stage(machine[i], d)
  BY <1>0 DEF BuiltBy, CloneInv
<1>2. (\A i \in Ids : ~Made(d, i)) => BuiltBy(d) = "absent"
  BY DEF BuiltBy
<1>3. ASSUME NEW i \in Ids, Made(d, i)
      PROVE  /\ Stage(machine[i], d) \in {"raw", "configured", "whole"}
             /\ Step(d) \in {"ok", "partial"} => Stage(machine[i], d) \in {"configured", "whole"}
             /\ Step(d) = "ok" => Stage(machine[i], d) = "whole"
             /\ Step(d) # "removed"
  <2>1. Furnished(machine[i], d, Step(d), snippet[Name(d)]) /\ Step(d) # "removed"
    BY <1>0, <1>3 DEF CloneInv
  <2>2. Nobody # d
    BY ProxmoxTyped DEF ProxmoxInv
  <2> QED  BY <2>1, <2>2 DEF Furnished, Stage, HasHardware, HasCloudInit
<1>4. CASE \A i \in Ids : ~Made(d, i)
  BY <1>2, <1>4 DEF Contract!Stages
<1>5. ASSUME NEW i \in Ids, Made(d, i)
      PROVE  /\ BuiltBy(d) = Stage(machine[i], d) /\ BuiltBy(d) \in Contract!Stages /\ BuiltBy(d) # "absent"
             /\ Returned(d) # "none" => Contract!Warrants(Returned(d), BuiltBy(d))
             /\ Returned(d) # "removed"
  <2>1. BuiltBy(d) = Stage(machine[i], d) /\ BuiltBy(d) \in Contract!Stages /\ BuiltBy(d) # "absent"
    BY <1>1, <1>3, <1>5 DEF Contract!Stages
  <2>2. Step(d) # "removed" /\ Step(d) \in Positions
    BY <1>3, <1>5, ProxmoxTyped DEF ProxmoxInv, Step, Standings
  <2>3. Returned(d) = "ok" => Step(d) = "ok"
    BY <2>2 DEF Returned
  <2>4. Returned(d) = "partial" => Step(d) = "partial"
    BY <2>2 DEF Returned
  <2>5. Returned(d) # "removed"
    BY <2>2 DEF Returned
  <2> QED  BY <1>3, <1>5, <2>1, <2>3, <2>4, <2>5 DEF Contract!Warrants
<1> QED  BY <1>1, <1>2, <1>4, <1>5

\* A step that touches one deployment is one of the contract.
LEMMA ContractStep ==
  ASSUME ProxmoxInv, ProxmoxInv', NEW d \in Deployments,
         \A e \in Deployments : e # d => Returned(e)' = Returned(e) /\ BuiltBy(e)' = BuiltBy(e),
         Returned(d) # "none" => /\ Returned(d)' = Returned(d)
                                 /\ BuiltBy(d) # "absent" \/ BuiltBy(d)' = BuiltBy(d),
         Returned(d) = "none" /\ Returned(d)' \in {"ok", "partial"} => BuiltBy(d)' # "absent"
  PROVE  [Contract!Next]_ContractVars
<1> DEFINE said == [e \in Deployments |-> Returned(e)]
           stage == [e \in Deployments |-> BuiltBy(e)]
<1>1. said' = [said EXCEPT ![d] = Returned(d)'] /\ stage' = [stage EXCEPT ![d] = BuiltBy(d)']
  OBVIOUS
<1>2. said[d] = Returned(d) /\ stage[d] = BuiltBy(d)
  OBVIOUS
<1>3. Returned(d) \in Contract!Outcomes /\ BuiltBy(d) \in Contract!Stages
  BY ReturnedIs, BuiltIs
<1>4. (/\ Returned(d) \in Contract!Outcomes /\ BuiltBy(d) \in Contract!Stages
       /\ Returned(d) # "none" => Contract!Warrants(Returned(d), BuiltBy(d)) \/ BuiltBy(d) = "absent"
       /\ Returned(d) = "removed" => BuiltBy(d) = "absent")'
  BY ReturnedIs, BuiltIs, PTL
<1>5. CASE Returned(d) # "none"
  <2>1. said' = said
    BY <1>1, <1>2, <1>5
  <2>2. CASE BuiltBy(d)' = BuiltBy(d)
    <3>1. stage' = stage
      BY <1>1, <1>2, <2>2
    <3> QED  BY <2>1, <3>1 DEF ContractVars
  <2>3. CASE BuiltBy(d) # "absent"
    <3>1. Contract!Warrants(Returned(d), BuiltBy(d)') \/ BuiltBy(d)' = "absent"
      BY <1>4, <1>5
    <3>2. Contract!Afterwards(d)
      <4> HIDE DEF said, stage
      <4>1. said[d] # "none" /\ stage[d] # "absent"
        BY <1>2, <1>5, <2>3
      <4>2. /\ BuiltBy(d)' \in Contract!Stages
            /\ Contract!Warrants(said[d], BuiltBy(d)') \/ BuiltBy(d)' = "absent"
            /\ stage' = [stage EXCEPT ![d] = BuiltBy(d)']
        BY <1>1, <1>2, <1>4, <3>1
      <4> USE DEF said, stage
      <4> QED  BY <2>1, <4>1, <4>2 DEF Contract!Afterwards, Returned, BuiltBy
    <3> QED  BY <3>2 DEF Contract!Next
  <2> QED  BY <1>5, <2>2, <2>3
<1>6. CASE Returned(d) = "none" /\ Returned(d)' = "none"
  <2>1. said' = said
    BY <1>1, <1>2, <1>6
  <2>2. Contract!Build(d)
    BY <1>1, <1>2, <1>4, <1>6, <2>1 DEF Contract!Build, Returned, BuiltBy
  <2> QED  BY <2>2 DEF Contract!Next
<1>7. CASE Returned(d) = "none" /\ Returned(d)' # "none"
  <2>1. Contract!Warrants(Returned(d)', BuiltBy(d)')
    BY <1>4, <1>7 DEF Contract!Warrants
  <2>2. Contract!Return(d)
    BY <1>1, <1>2, <1>4, <1>7, <2>1 DEF Contract!Return, Returned, BuiltBy
  <2> QED  BY <2>2 DEF Contract!Next
<1> QED  BY <1>5, <1>6, <1>7

\* A deployment that a step leaves alone, with its machine, is as it was.
LEMMA OthersStay ==
  ASSUME ProxmoxInv, ProxmoxTypeOK', NEW e \in Deployments, deploy'[e] = deploy[e],
         snippet'[Name(e)] = snippet[Name(e)],
         \A i \in Ids : machine'[i] = machine[i] \/
           (~Made(e, i) /\ (machine'[i].there => machine'[i].of # e))
  PROVE  CloneInv(e)' /\ Returned(e)' = Returned(e) /\ BuiltBy(e)' = BuiltBy(e)
<1>0. CloneInv(e)
  BY DEF ProxmoxInv
<1>1. Step(e)' = Step(e) /\ Id(e)' = Id(e)
  BY DEF Step, Id
<1>2. \A i \in Ids : Made(e, i)' <=> Made(e, i)
  BY DEF Made, There
<1>3. \A i \in Ids : Made(e, i) => machine'[i] = machine[i]
  OBVIOUS
<1>4. CloneInv(e)'
  BY <1>0, <1>1, <1>2, <1>3 DEF CloneInv
<1>5. Returned(e)' = Returned(e)
  BY <1>1 DEF Returned
<1>6. BuiltBy(e)' = BuiltBy(e)
  <2>1. CASE \A i \in Ids : ~Made(e, i)
    BY <1>2, <2>1 DEF BuiltBy
  <2>2. ASSUME NEW i \in Ids, Made(e, i)
        PROVE  BuiltBy(e)' = BuiltBy(e)
    <3>1. \A j \in Ids : (Made(e, j) => j = i) /\ (Made(e, j)' => j = i)
      BY <1>0, <1>2, <2>2 DEF CloneInv
    <3>2. BuiltBy(e) = Stage(machine[i], e)
      BY <2>2, <3>1 DEF BuiltBy
    <3>3. BuiltBy(e)' = Stage(machine'[i], e)
      BY <1>2, <2>2, <3>1 DEF BuiltBy
    <3> QED  BY <1>3, <2>2, <3>2, <3>3
  <2> QED  BY <2>1, <2>2
<1> QED  BY <1>4, <1>5, <1>6

\* A deployment moves on, and changes its machine and its file, if anything.
LEMMA DeployStep ==
  ASSUME OwnNames, ProxmoxInv, NEW d \in Deployments, ProxmoxTypeOK',
         \A e \in Deployments : e # d => deploy'[e] = deploy[e],
         \A n \in Names : n # Name(d) => snippet'[n] = snippet[n],
         \A i \in Ids : machine'[i] = machine[i] \/
           ((There(i) => machine[i].of = d) /\ (machine'[i].there => machine'[i].of = d)),
         Step(d) \notin Over \ {"none"}, CloneInv(d)',
         Step(d)' \in {"ok", "partial"} => \E i \in Ids : Made(d, i)'
  PROVE  ProxmoxInv' /\ [Contract!Next]_ContractVars
<1>1. ASSUME NEW e \in Deployments, e # d
      PROVE  CloneInv(e)' /\ Returned(e)' = Returned(e) /\ BuiltBy(e)' = BuiltBy(e)
  <2>1. snippet'[Name(e)] = snippet[Name(e)]
    BY <1>1, ProxmoxTyped DEF OwnNames, ProxmoxInv
  <2>2. \A i \in Ids : machine'[i] = machine[i] \/
          (~Made(e, i) /\ (machine'[i].there => machine'[i].of # e))
    BY <1>1 DEF Made
  <2> QED  BY <1>1, <2>1, <2>2, OthersStay
<1>2. ProxmoxInv'
  BY <1>1 DEF ProxmoxInv
<1>3. Returned(d) = "none"
  BY ReturnedIs
<1>4. Returned(d)' \in {"ok", "partial"} => BuiltBy(d)' # "absent"
  <2>1. (/\ Step(d) \in {"ok", "partial", "removed"} => Returned(d) = Step(d)
         /\ Step(d) \in {"failed", "left"} => Returned(d) = "failed"
         /\ Step(d) \notin Over \ {"none"} => Returned(d) = "none"
         /\ Step(d) \in Over \ {"none"} => Returned(d) # "none"
         /\ Returned(d) \in Contract!Outcomes)'
    BY <1>2, ReturnedIs, PTL
  <2>2. (/\ \A i \in Ids : Made(d, i) => BuiltBy(d) = Stage(machine[i], d) /\ BuiltBy(d) # "absent"
         /\ (\A i \in Ids : ~Made(d, i)) => BuiltBy(d) = "absent"
         /\ BuiltBy(d) \in Contract!Stages
         /\ Returned(d) # "none" => Contract!Warrants(Returned(d), BuiltBy(d)) \/ BuiltBy(d) = "absent"
         /\ Returned(d) = "removed" => BuiltBy(d) = "absent")'
    BY <1>2, BuiltIs, PTL
  <2>3. Returned(d)' \in {"ok", "partial"} => Step(d)' \in {"ok", "partial"}
    BY <2>1 DEF Over
  <2> QED  BY <2>2, <2>3
<1> QED  BY <1>1, <1>2, <1>3, <1>4, ContractStep

\* Somebody changes a machine, and its settings stay; one that a deployment
\* works on is not taken away.
LEMMA MachineStep ==
  ASSUME ProxmoxInv, NEW i \in Ids, There(i), NEW m \in Clones \cup {NoMachine}, ProxmoxTypeOK',
         machine' = [machine EXCEPT ![i] = m], UNCHANGED <<snippet, deploy>>,
         m.there => /\ m.of = machine[i].of /\ m.hardware = machine[i].hardware
                    /\ m.cloudInit = machine[i].cloudInit /\ m.grown = machine[i].grown
                    /\ m.booted # machine[i].booted => machine[i].booted = Nobody /\ m.booted = m.of
                    /\ m.locked => machine[i].locked,
         ~m.there => Step(machine[i].of) \notin Working
  PROVE  ProxmoxInv' /\ [Contract!Next]_ContractVars
<1>0. machine \in [Ids -> Clones \cup {NoMachine}] /\ machine[i] \in Clones
  BY ProxmoxTyped DEF ProxmoxInv, There
<1>1. PICK d \in Deployments : d = machine[i].of
  BY <1>0 DEF Clones
<1>2. CloneInv(d) /\ Made(d, i) /\ i = Id(d) /\ Step(d)' = Step(d) /\ Id(d)' = Id(d)
  BY <1>1 DEF ProxmoxInv, CloneInv, Made, Step, Id
<1>3. machine'[i] = m /\ \A j \in Ids : j # i => machine'[j] = machine[j]
  BY <1>0
<1>4. ASSUME NEW e \in Deployments, e # d
      PROVE  CloneInv(e)' /\ Returned(e)' = Returned(e) /\ BuiltBy(e)' = BuiltBy(e)
  <2>1. \A j \in Ids : machine'[j] = machine[j] \/
          (~Made(e, j) /\ (machine'[j].there => machine'[j].of # e))
    BY <1>1, <1>3, <1>4 DEF Made
  <2> QED  BY <2>1, OthersStay
<1>5. Made(d, i)' <=> m.there
  BY <1>1, <1>3 DEF Made, There
<1>6. \A j \in Ids : Made(d, j)' => j = i
  BY <1>2, <1>3 DEF CloneInv, Made, There
<1>7. m.there => Furnished(m, d, Step(d), snippet[Name(d)])
  BY <1>1, <1>2 DEF CloneInv, Furnished
<1>8. CloneInv(d)'
  BY <1>1, <1>2, <1>3, <1>5, <1>6, <1>7 DEF CloneInv
<1>9. ProxmoxInv'
  BY <1>4, <1>8 DEF ProxmoxInv
<1>10. Returned(d)' = Returned(d) /\ BuiltBy(d) # "absent"
  BY <1>2, BuiltIs DEF Returned
<1>11. Returned(d) = "none" => Returned(d)' = "none"
  BY <1>10
<1> QED  BY <1>4, <1>9, <1>10, <1>11, ContractStep

LEMMA DeployToIs ==
  ASSUME ProxmoxTypeOK, NEW d \in Deployments, NEW at \in Positions, DeployTo(d, at)
  PROVE  \E r \in Standings : r.at = at /\ r.id = Id(d) /\ deploy' = [deploy EXCEPT ![d] = r]
<1>0. deploy \in [Deployments -> Standings] /\ Attempts \in 1..Attempts
  BY ProxmoxTyped
<1> DEFINE r == [deploy[d] EXCEPT !.at = at, !.tries = Attempts]
<1>1. r \in Standings /\ r.at = at /\ r.id = Id(d)
  BY <1>0 DEF Standings, Id
<1>2. deploy' = [deploy EXCEPT ![d] = r]
  BY <1>0 DEF DeployTo, Standings
<1> QED  BY <1>1, <1>2

\* A deployment waits, chooses a number or gives up, and changes nothing.
LEMMA Waits ==
  ASSUME OwnNames, ProxmoxInv, NEW d \in Deployments, Step(d) \notin Over \ {"none"},
         NEW r \in Standings, deploy' = [deploy EXCEPT ![d] = r], UNCHANGED <<machine, snippet, call>>,
         \/ r.at = Step(d) /\ r.id = Id(d)
         \/ r.at \in {"failed", "left"} /\ r.id = Id(d)
         \/ Step(d) = "none" /\ r.at = "clone" /\ r.id \in Ids
  PROVE  ProxmoxInv' /\ [Contract!Next]_ContractVars
<1>0. CloneInv(d) /\ deploy \in [Deployments -> Standings]
  BY ProxmoxTyped DEF ProxmoxInv
<1>1. ProxmoxTypeOK'
  BY <1>0, ProxmoxTyped, TypedAgain DEF ProxmoxInv
<1>2. /\ Step(d)' = r.at /\ Id(d)' = r.id
      /\ \A e \in Deployments : e # d => deploy'[e] = deploy[e]
      /\ \A i \in Ids : Made(d, i)' <=> Made(d, i)
  BY <1>0 DEF Step, Id, Made, There
<1>3. CloneInv(d)'
  BY <1>0, <1>2 DEF CloneInv, Furnished, Working, HasHardware, HasCloudInit
<1>4. Step(d)' \notin {"ok", "partial"}
  BY <1>2 DEF Over
<1> QED  BY <1>1, <1>2, <1>3, <1>4, DeployStep

\* A deployment moves on with its machine.
LEMMA Proceeds ==
  ASSUME OwnNames, ProxmoxInv, NEW d \in Deployments, Step(d) \notin Over \ {"none"}, Id(d) \in Ids,
         NEW at \in Positions, DeployTo(d, at), UNCHANGED call,
         NEW m \in Clones \cup {NoMachine}, machine' = [machine EXCEPT ![Id(d)] = m],
         NEW data \in Deployments \cup {Nobody}, snippet' = [snippet EXCEPT ![Name(d)] = data],
         There(Id(d)) => machine[Id(d)].of = d,
         m.there => m.of = d /\ Furnished(m, d, at, data) /\ at \notin {"none", "clone", "removed"},
         at \in Working => m.there /\ ~m.locked,
         d \in WithActions /\ at \in HasHardware \cup {"hardware"} => data = d,
         at \in {"ok", "partial"} => m.there
  PROVE  ProxmoxInv' /\ [Contract!Next]_ContractVars
<1>0. /\ CloneInv(d) /\ deploy \in [Deployments -> Standings] /\ machine \in [Ids -> Clones \cup {NoMachine}]
      /\ snippet \in [Names -> Deployments \cup {Nobody}] /\ call \in [Callers -> Calls] /\ Name(d) \in Names
  BY ProxmoxTyped DEF ProxmoxInv
<1>1. PICK r \in Standings : r.at = at /\ r.id = Id(d) /\ deploy' = [deploy EXCEPT ![d] = r]
  BY DeployToIs DEF ProxmoxInv
<1>2. ProxmoxTypeOK'
  BY <1>0, <1>1, TypedAgain
<1>3. /\ Step(d)' = at /\ Id(d)' = Id(d)
      /\ \A e \in Deployments : e # d => deploy'[e] = deploy[e]
  BY <1>0, <1>1 DEF Step, Id
<1>4. /\ machine'[Id(d)] = m /\ \A i \in Ids : i # Id(d) => machine'[i] = machine[i]
      /\ snippet'[Name(d)] = data /\ \A n \in Names : n # Name(d) => snippet'[n] = snippet[n]
  BY <1>0
<1>5. \A i \in Ids : Made(d, i)' <=> i = Id(d) /\ m.there
  BY <1>0, <1>4 DEF CloneInv, Made, There
<1>6. CloneInv(d)'
  BY <1>3, <1>4, <1>5 DEF CloneInv
<1>7. \A i \in Ids : machine'[i] = machine[i] \/
        ((There(i) => machine[i].of = d) /\ (machine'[i].there => machine'[i].of = d))
  BY <1>4
<1>8. Step(d)' \in {"ok", "partial"} => \E i \in Ids : Made(d, i)'
  BY <1>3, <1>5
<1> QED  BY <1>2, <1>3, <1>4, <1>6, <1>7, <1>8, DeployStep

\* The same, when the machine or the file stays.
LEMMA ProceedsWith ==
  ASSUME OwnNames, ProxmoxInv, NEW d \in Deployments, Step(d) \in Working, NEW at \in Positions,
         DeployTo(d, at), UNCHANGED <<call, snippet>>,
         NEW m \in Clones \cup {NoMachine}, machine' = [machine EXCEPT ![Id(d)] = m],
         m.there => m.of = d /\ Furnished(m, d, at, snippet[Name(d)]) /\ at \notin {"none", "clone", "removed"},
         at \in Working => m.there /\ ~m.locked,
         at \in HasHardware \cup {"hardware"} => Step(d) \in HasHardware \cup {"hardware"} /\ m.there
  PROVE  ProxmoxInv' /\ [Contract!Next]_ContractVars
<1>0. /\ CloneInv(d) /\ snippet \in [Names -> Deployments \cup {Nobody}] /\ Name(d) \in Names
  BY ProxmoxTyped DEF ProxmoxInv
<1>1. Id(d) \in Ids /\ Made(d, Id(d)) /\ Step(d) \notin Over \ {"none"}
  BY <1>0 DEF CloneInv, Working, Over
<1>2. PICK data \in Deployments \cup {Nobody} : data = snippet[Name(d)]
  BY <1>0
<1>3. snippet' = [snippet EXCEPT ![Name(d)] = data]
  BY <1>0, <1>2
<1>4. d \in WithActions /\ at \in HasHardware \cup {"hardware"} => data = d
  BY <1>0, <1>2 DEF CloneInv
<1>5. at \in {"ok", "partial"} => m.there
  BY DEF HasHardware
<1>6. There(Id(d)) => machine[Id(d)].of = d
  BY <1>1 DEF Made
<1>7. m.there => m.of = d /\ Furnished(m, d, at, data) /\ at \notin {"none", "clone", "removed"}
  BY <1>2
<1> QED  BY <1>1, <1>3, <1>4, <1>5, <1>6, <1>7, Proceeds

LEMMA GivesUp ==
  ASSUME OwnNames, ProxmoxInv, NEW d \in Deployments, Step(d) \notin Over \ {"none"},
         UNCHANGED <<machine, snippet, call>>, DeployTo(d, "failed") \/ DeployTo(d, "left")
  PROVE  ProxmoxInv' /\ [Contract!Next]_ContractVars
<1>1. PICK at \in {"failed", "left"} : DeployTo(d, at)
  OBVIOUS
<1>2. at \in Positions
  BY <1>1 DEF Positions, Over
<1>3. PICK r \in Standings : r.at = at /\ r.id = Id(d) /\ deploy' = [deploy EXCEPT ![d] = r]
  BY <1>1, <1>2, DeployToIs DEF ProxmoxInv
<1> QED  BY <1>1, <1>3, Waits

\* From the choice of a number to the user data.
LEMMA CloneSteps ==
  ASSUME OwnNames, ProxmoxInv, NEW d \in Deployments,
         NextVMID(d) \/ CloneVM(d) \/ AwaitTask(d) \/ UploadSnippet(d) \/ ContextEnds(d)
  PROVE  ProxmoxInv' /\ [Contract!Next]_ContractVars
<1>0. /\ CloneInv(d) /\ deploy \in [Deployments -> Standings] /\ machine \in [Ids -> Clones \cup {NoMachine}]
      /\ snippet \in [Names -> Deployments \cup {Nobody}] /\ Name(d) \in Names /\ Nobody \notin Deployments
      /\ deploy[d] \in Standings /\ WithActions \subseteq Deployments
  BY ProxmoxTyped DEF ProxmoxInv
<1>1. CASE NextVMID(d)
  <2>1. CASE DeployTo(d, "failed")
    BY <1>1, <2>1, GivesUp DEF NextVMID, Over
  <2>2. ASSUME NEW i \in Ids, deploy' = [deploy EXCEPT ![d].at = "clone", ![d].id = i]
        PROVE  ProxmoxInv' /\ [Contract!Next]_ContractVars
    <3> DEFINE r == [deploy[d] EXCEPT !.at = "clone", !.id = i]
    <3>1. r \in Standings /\ r.at = "clone" /\ r.id = i
      BY <1>0 DEF Standings, Positions
    <3>2. deploy' = [deploy EXCEPT ![d] = r]
      BY <1>0, <2>2 DEF Standings
    <3> HIDE DEF r
    <3> QED  BY <1>1, <3>1, <3>2, Waits DEF NextVMID, Over
  <2> QED  BY <1>1, <2>1, <2>2 DEF NextVMID
<1>2. CASE CloneVM(d)
  <2>1. Step(d) = "clone" /\ Step(d) \notin Over \ {"none"} /\ Id(d) \in Ids
    BY <1>0, <1>2 DEF CloneVM, Over, CloneInv
  <2>2. CASE DeployTo(d, "failed") /\ UNCHANGED machine
    BY <1>2, <2>1, <2>2, GivesUp DEF CloneVM
  <2>3. ASSUME ~There(Id(d)), machine' = [machine EXCEPT ![Id(d)] = Clone(d)], NEW at \in {"await", "failed"}, DeployTo(d, at)
        PROVE  ProxmoxInv' /\ [Contract!Next]_ContractVars
    <3>1. PICK m : m = Clone(d)
      OBVIOUS
    <3>2. m \in Clones /\ m.there /\ m.of = d /\ m.hardware = Nobody /\ m.cloudInit = Nobody /\ m.booted = Nobody
      BY <3>1 DEF Clone, Clones
    <3>3. at \in Positions /\ at \notin Working /\ at \notin HasHardware /\ at \notin HasCloudInit /\ at # "hardware"
      BY DEF Positions, Working, Over, HasHardware, HasCloudInit
    <3>4. PICK data \in Deployments \cup {Nobody} : data = snippet[Name(d)]
      BY <1>0
    <3>5. Furnished(m, d, at, data)
      BY <1>0, <3>2, <3>3 DEF Furnished
    <3>6. snippet' = [snippet EXCEPT ![Name(d)] = data] /\ UNCHANGED call
      BY <1>0, <1>2, <3>4 DEF CloneVM
    <3>7. machine' = [machine EXCEPT ![Id(d)] = m]
      BY <2>3, <3>1
    <3>8. m \in Clones \cup {NoMachine}
      BY <3>2
    <3> QED  BY <2>1, <2>3, <3>2, <3>3, <3>5, <3>6, <3>7, <3>8, Proceeds
  <2>4. CASE /\ ~There(Id(d)) /\ machine' = [machine EXCEPT ![Id(d)] = Clone(d)]
             /\ DeployTo(d, "await") \/ DeployTo(d, "failed")
    BY <2>3, <2>4
  <2> QED  BY <1>2, <2>2, <2>4 DEF CloneVM
<1>3. CASE AwaitTask(d)
  <2>1. Step(d) = "await" /\ Step(d) \notin Over \ {"none"} /\ Id(d) \in Ids
    BY <1>0, <1>3 DEF AwaitTask, Over, CloneInv
  <2>2. CASE DeployTo(d, "failed")
    BY <1>3, <2>1, <2>2, GivesUp DEF AwaitTask
  <2>3. ASSUME Made(d, Id(d)), ~machine[Id(d)].locked, NEW at \in {"snippet", "hardware"}, DeployTo(d, at),
               at = "hardware" => d \notin WithActions
        PROVE  ProxmoxInv' /\ [Contract!Next]_ContractVars
    <3>1. PICK m \in Clones : m = machine[Id(d)]
      BY <1>0, <2>1, <2>3 DEF Made, There, NoMachine
    <3>2. m.there /\ m.of = d /\ ~m.locked /\ Furnished(m, d, Step(d), snippet[Name(d)])
      BY <1>0, <2>1, <2>3, <3>1 DEF CloneInv, Made, There
    <3>3. at \in Positions /\ at \notin HasHardware /\ at \notin HasCloudInit /\ at \notin {"start", "ok", "none", "clone", "removed", "partial"}
      BY DEF Positions, Working, HasHardware, HasCloudInit
    <3>4. PICK data \in Deployments \cup {Nobody} : data = snippet[Name(d)]
      BY <1>0
    <3>5. Furnished(m, d, at, data)
      BY <3>2, <3>3, <3>4 DEF Furnished
    <3>6. snippet' = [snippet EXCEPT ![Name(d)] = data] /\ UNCHANGED call
      BY <1>0, <1>3, <3>4 DEF AwaitTask
    <3>7. machine' = [machine EXCEPT ![Id(d)] = m]
      BY <1>0, <1>3, <2>1, <3>1 DEF AwaitTask
    <3>8. m \in Clones \cup {NoMachine} /\ (There(Id(d)) => machine[Id(d)].of = d)
      BY <2>3 DEF Made
    <3>9. d \in WithActions /\ at \in HasHardware \cup {"hardware"} => data = d
      BY <2>3, <3>3
    <3> QED  BY <2>1, <2>3, <3>2, <3>3, <3>5, <3>6, <3>7, <3>8, <3>9, Proceeds
  <2>4. CASE /\ Made(d, Id(d)) /\ ~machine[Id(d)].locked
             /\ DeployTo(d, IF d \in WithActions THEN "snippet" ELSE "hardware")
    <3>1. CASE d \in WithActions
      <4>1. DeployTo(d, "snippet")
        BY <2>4, <3>1
      <4> QED  BY <2>3, <2>4, <4>1
    <3>2. CASE d \notin WithActions
      <4>1. DeployTo(d, "hardware")
        BY <2>4, <3>2
      <4> QED  BY <2>3, <2>4, <3>2, <4>1
    <3> QED  BY <3>1, <3>2
  <2> QED  BY <1>3, <2>2, <2>4 DEF AwaitTask
<1>4. CASE UploadSnippet(d)
  <2>1. Step(d) = "snippet" /\ Step(d) \notin Over \ {"none"} /\ Id(d) \in Ids /\ Made(d, Id(d)) /\ ~machine[Id(d)].locked
    BY <1>0, <1>4 DEF UploadSnippet, Over, CloneInv, Working
  <2>2. CASE DeployTo(d, "failed") /\ UNCHANGED snippet
    BY <1>4, <2>1, <2>2, GivesUp DEF UploadSnippet
  <2>3. CASE snippet' = [snippet EXCEPT ![Name(d)] = d] /\ DeployTo(d, "hardware")
    <3>1. PICK m \in Clones : m = machine[Id(d)]
      BY <1>0, <2>1 DEF Made, There, NoMachine
    <3>2. m.there /\ m.of = d /\ ~m.locked /\ Furnished(m, d, Step(d), snippet[Name(d)])
      BY <1>0, <2>1, <3>1 DEF CloneInv, Made, There
    <3>3. Furnished(m, d, "hardware", d)
      BY <2>1, <3>2 DEF Furnished, HasHardware, HasCloudInit
    <3>4. machine' = [machine EXCEPT ![Id(d)] = m] /\ UNCHANGED call
      BY <1>0, <1>4, <2>1, <3>1 DEF UploadSnippet
    <3>5. m \in Clones \cup {NoMachine} /\ (There(Id(d)) => machine[Id(d)].of = d) /\ "hardware" \in Positions
      BY <2>1 DEF Made, Positions, Working
    <3>6. d \in Deployments \cup {Nobody}
      OBVIOUS
    <3> QED  BY <2>1, <2>3, <3>2, <3>3, <3>4, <3>5, <3>6, Proceeds
  <2> QED  BY <1>4, <2>2, <2>3 DEF UploadSnippet
<1>5. CASE ContextEnds(d)
  <2> DEFINE r == [deploy[d] EXCEPT !.cancelled = TRUE]
  <2>1. r \in Standings /\ r.at = Step(d) /\ r.id = Id(d)
    BY <1>0 DEF Standings, Step, Id
  <2>2. deploy' = [deploy EXCEPT ![d] = r]
    BY <1>0, <1>5 DEF ContextEnds
  <2>3. Step(d) \notin Over \ {"none"}
    BY <1>5 DEF ContextEnds
  <2> HIDE DEF r
  <2> QED  BY <1>5, <2>1, <2>2, <2>3, Waits DEF ContextEnds
<1> QED  BY <1>1, <1>2, <1>3, <1>4, <1>5

LEMMA SettingSteps ==
  ASSUME OwnNames, ProxmoxInv, NEW d \in Deployments, HardwareConfig(d) \/ CloudInitConfig(d)
  PROVE  ProxmoxInv' /\ [Contract!Next]_ContractVars
<1>0. /\ CloneInv(d) /\ deploy \in [Deployments -> Standings] /\ machine \in [Ids -> Clones \cup {NoMachine}]
      /\ deploy[d] \in Standings /\ Nobody \notin Deployments /\ Attempts \in Nat
  BY ProxmoxTyped, ProxmoxAssumption DEF ProxmoxInv
<1>1. /\ Step(d) \in {"hardware", "cloudInit"} /\ Step(d) \in Working /\ Step(d) \notin Over \ {"none"}
      /\ Step(d) \in HasHardware \cup {"hardware"} /\ UNCHANGED <<call, snippet>>
  BY DEF HardwareConfig, CloudInitConfig, ApplyVMConfig, Working, Over, HasHardware
<1>2. Id(d) \in Ids /\ Made(d, Id(d)) /\ ~machine[Id(d)].locked
  BY <1>0, <1>1 DEF CloneInv
<1>3. PICK was \in Clones : was = machine[Id(d)]
  BY <1>0, <1>2 DEF Made, There, NoMachine
<1>4. was.there /\ was.of = d /\ ~was.locked /\ Furnished(was, d, Step(d), snippet[Name(d)])
  BY <1>0, <1>2, <1>3 DEF CloneInv, Made, There
<1>5. PICK data : data = snippet[Name(d)]
  OBVIOUS
<1>6. d \in WithActions => data = d
  BY <1>0, <1>1, <1>5 DEF CloneInv
<1>7. CASE DeployTo(d, "rollback") /\ UNCHANGED machine
  <2>1. machine' = [machine EXCEPT ![Id(d)] = was] /\ was \in Clones \cup {NoMachine}
    BY <1>0, <1>2, <1>3, <1>7
  <2>2. "rollback" \in Positions /\ Furnished(was, d, "rollback", snippet[Name(d)])
    BY <1>4 DEF Furnished, HasHardware, HasCloudInit, Positions, Working
  <2>3. "rollback" \notin HasHardware \cup {"hardware"}
    BY DEF HasHardware
  <2> QED  BY <1>1, <1>4, <1>7, <2>1, <2>2, <2>3, ProceedsWith
<1>8. CASE /\ deploy[d].tries > 1 /\ UNCHANGED machine
           /\ deploy' = [deploy EXCEPT ![d].tries = @ - 1]
  <2> DEFINE r == [deploy[d] EXCEPT !.tries = deploy[d].tries - 1]
  <2>1. deploy[d].tries \in 1..Attempts /\ deploy[d].tries - 1 \in 1..Attempts
    BY <1>0, <1>8 DEF Standings
  <2>2. r \in Standings /\ r.at = Step(d) /\ r.id = Id(d)
    BY <1>0, <2>1 DEF Standings, Step, Id
  <2>3. deploy' = [deploy EXCEPT ![d] = r]
    BY <1>0, <1>8
  <2> HIDE DEF r
  <2> QED  BY <1>1, <1>8, <2>2, <2>3, Waits
<1>9. ASSUME Step(d) = "hardware", Change(Id(d), "hardware", d), NEW at \in {"cloudInit", "rollback"}, DeployTo(d, at)
      PROVE  ProxmoxInv' /\ [Contract!Next]_ContractVars
  <2>1. PICK m : m = [was EXCEPT !.hardware = d]
    OBVIOUS
  <2>2. /\ m \in Clones \cup {NoMachine} /\ m.there /\ m.of = d /\ ~m.locked
        /\ m.hardware = d /\ m.cloudInit = was.cloudInit /\ m.booted = was.booted /\ m.grown = was.grown
    BY <1>3, <1>4, <2>1 DEF Clones
  <2>3. machine' = [machine EXCEPT ![Id(d)] = m]
    BY <1>0, <1>2, <1>3, <1>9, <2>1 DEF Change
  <2>4. /\ at \in Positions /\ at \in Working /\ at \notin HasCloudInit /\ at \notin {"start", "ok", "none", "clone", "removed"}
    BY DEF Positions, Working, HasCloudInit
  <2>5. Furnished(m, d, at, snippet[Name(d)])
    BY <1>4, <2>2, <2>4 DEF Furnished
  <2> QED  BY <1>1, <1>9, <2>2, <2>3, <2>4, <2>5, ProceedsWith
<1>10. ASSUME Step(d) = "cloudInit", Change(Id(d), "cloudInit", d), NEW at \in {"resize", "rollback"}, DeployTo(d, at)
      PROVE  ProxmoxInv' /\ [Contract!Next]_ContractVars
  <2>1. PICK m : m = [was EXCEPT !.cloudInit = d]
    OBVIOUS
  <2>2. /\ m \in Clones \cup {NoMachine} /\ m.there /\ m.of = d /\ ~m.locked
        /\ m.hardware = was.hardware /\ m.cloudInit = d /\ m.booted = was.booted /\ m.grown = was.grown
    BY <1>3, <1>4, <2>1 DEF Clones
  <2>3. machine' = [machine EXCEPT ![Id(d)] = m]
    BY <1>0, <1>2, <1>3, <1>10, <2>1 DEF Change
  <2>4. /\ at \in Positions /\ at \in Working /\ at \notin {"start", "ok", "none", "clone", "removed"}
    BY DEF Positions, Working
  <2>5. m.hardware = d
    BY <1>4, <1>10, <2>2 DEF Furnished, HasHardware
  <2>6. Furnished(m, d, at, snippet[Name(d)])
    BY <1>4, <1>5, <1>6, <2>2, <2>4, <2>5 DEF Furnished
  <2> QED  BY <1>1, <1>10, <2>2, <2>3, <2>4, <2>6, ProceedsWith
<1>11. CASE HardwareConfig(d)
  BY <1>7, <1>8, <1>9, <1>11 DEF HardwareConfig, ApplyVMConfig
<1>12. CASE CloudInitConfig(d)
  BY <1>7, <1>8, <1>10, <1>12 DEF CloudInitConfig, ApplyVMConfig
<1> QED  BY <1>11, <1>12

\* A machine that starts keeps its settings and runs the user data they name.
LEMMA BootedIs ==
  ASSUME ProxmoxInv, NEW i \in Ids, There(i)
  PROVE  \E m \in Clones : /\ Booted(i) = [machine EXCEPT ![i] = m] /\ m.there /\ m.of = machine[i].of
                           /\ m.hardware = machine[i].hardware /\ m.cloudInit = machine[i].cloudInit
                           /\ m.grown = machine[i].grown /\ m.locked = machine[i].locked
                           /\ m.booted # machine[i].booted => machine[i].booted = Nobody /\ m.booted = m.of
                           /\ m.cloudInit = m.of => m.booted = m.of
<1>0. /\ machine \in [Ids -> Clones \cup {NoMachine}] /\ machine[i] \in Clones /\ Nobody \notin Deployments
      /\ WithActions \subseteq Deployments /\ machine[i].there
  BY ProxmoxTyped DEF ProxmoxInv, There, NoMachine
<1>1. PICK d \in Deployments : d = machine[i].of
  BY <1>0 DEF Clones
<1>2. Made(d, i) /\ CloneInv(d)
  BY <1>1 DEF Made, ProxmoxInv
<1>3. Furnished(machine[i], d, Step(d), snippet[Name(d)])
  BY <1>2 DEF CloneInv
<1> DEFINE by == machine[i].cloudInit
           ran == IF machine[i].booted # Nobody THEN machine[i].booted
                  ELSE IF by \in WithActions THEN snippet[Name(by)] ELSE by
           m == [machine[i] EXCEPT !.power = "on", !.booted = ran]
<1>4. /\ ran \in Deployments \cup {Nobody}
      /\ ran # machine[i].booted => machine[i].booted = Nobody /\ ran = d
      /\ by = d => ran = d
  BY <1>0, <1>3 DEF Furnished
<1>5. /\ m \in Clones /\ m.there /\ m.of = machine[i].of /\ m.hardware = machine[i].hardware
      /\ m.cloudInit = machine[i].cloudInit /\ m.grown = machine[i].grown /\ m.locked = machine[i].locked
      /\ m.booted = ran
  <2> HIDE DEF ran
  <2> QED  BY <1>0, <1>4 DEF Clones
<1>6. Booted(i) = [machine EXCEPT ![i] = m]
  BY <1>0 DEF Booted, Clones
<1> HIDE DEF m, ran
<1>7. m.booted # machine[i].booted => machine[i].booted = Nobody /\ m.booted = m.of
  BY <1>1, <1>4, <1>5
<1>8. m.cloudInit = m.of => m.booted = m.of
  BY <1>1, <1>4, <1>5
<1> QED  BY <1>5, <1>6, <1>7, <1>8

LEMMA EndSteps ==
  ASSUME OwnNames, ProxmoxInv, NEW d \in Deployments, RollbackClone(d) \/ ResizeDisk(d) \/ StartVM(d)
  PROVE  ProxmoxInv' /\ [Contract!Next]_ContractVars
<1>0. /\ CloneInv(d) /\ machine \in [Ids -> Clones \cup {NoMachine}] /\ Nobody \notin Deployments
      /\ ~NoMachine.there
  BY ProxmoxTyped DEF ProxmoxInv
<1>1. /\ Step(d) \in {"rollback", "resize", "start"} /\ Step(d) \in Working /\ Step(d) \notin Over \ {"none"}
      /\ UNCHANGED <<call, snippet>>
  BY DEF RollbackClone, ResizeDisk, StartVM, Working, Over
<1>2. Id(d) \in Ids /\ Made(d, Id(d)) /\ ~machine[Id(d)].locked
  BY <1>0, <1>1 DEF CloneInv
<1>3. PICK was \in Clones : was = machine[Id(d)]
  BY <1>0, <1>2 DEF Made, There, NoMachine
<1>4. was.there /\ was.of = d /\ ~was.locked /\ Furnished(was, d, Step(d), snippet[Name(d)])
  BY <1>0, <1>2, <1>3 DEF CloneInv, Made, There
<1>5. machine = [machine EXCEPT ![Id(d)] = was]
  BY <1>0, <1>2, <1>3
<1>6. CASE RollbackClone(d)
  <2>1. CASE DeployTo(d, "left") /\ UNCHANGED machine
    BY <1>1, <1>6, <2>1, GivesUp
  <2>2. ASSUME machine' = Destroyed(Id(d)), NEW at \in {"removed", "left"}, DeployTo(d, at)
        PROVE  ProxmoxInv' /\ [Contract!Next]_ContractVars
    <3>1. at \in Positions /\ at \notin Working /\ at \notin HasHardware \cup {"hardware"}
      BY DEF Positions, Over, Working, HasHardware
    <3>2. machine' = [machine EXCEPT ![Id(d)] = NoMachine] /\ NoMachine \in Clones \cup {NoMachine}
      BY <2>2 DEF Destroyed
    <3> QED  BY <1>0, <1>1, <2>2, <3>1, <3>2, ProceedsWith
  <2> QED  BY <1>6, <2>1, <2>2 DEF RollbackClone
<1>7. CASE ResizeDisk(d)
  <2>0. Step(d) = "resize" /\ was.hardware = d /\ was.cloudInit = d /\ Step(d) \in HasHardware
    BY <1>4, <1>7 DEF ResizeDisk, Furnished, HasHardware, HasCloudInit
  <2>1. ASSUME NEW m \in Clones, m.there, m.of = d, ~m.locked, m.hardware = d, m.cloudInit = d, m.booted = was.booted,
               machine' = [machine EXCEPT ![Id(d)] = m], NEW at \in {"start", "partial"}, DeployTo(d, at),
               at = "start" => m.grown
        PROVE  ProxmoxInv' /\ [Contract!Next]_ContractVars
    <3>1. at \in Positions /\ at \notin {"none", "clone", "removed", "ok"}
      BY DEF Positions, Over, Working
    <3>2. Furnished(m, d, at, snippet[Name(d)])
      BY <1>4, <2>0, <2>1, <3>1 DEF Furnished
    <3>3. m \in Clones \cup {NoMachine}
      OBVIOUS
    <3> QED  BY <1>1, <2>0, <2>1, <3>1, <3>2, <3>3, ProceedsWith
  <2>2. CASE DeployTo(d, "partial") /\ UNCHANGED machine
    <3>1. machine' = [machine EXCEPT ![Id(d)] = was]
      BY <1>5, <2>2
    <3> QED  BY <1>4, <2>0, <2>1, <2>2, <3>1
  <2>3. CASE Change(Id(d), "grown", TRUE) /\ (DeployTo(d, "start") \/ DeployTo(d, "partial"))
    <3>1. PICK m : m = [was EXCEPT !.grown = TRUE]
      OBVIOUS
    <3>2. /\ m \in Clones /\ m.there /\ m.of = d /\ ~m.locked /\ m.hardware = d /\ m.cloudInit = d
          /\ m.booted = was.booted /\ m.grown
      BY <1>3, <1>4, <2>0, <3>1 DEF Clones
    <3>3. machine' = [machine EXCEPT ![Id(d)] = m]
      BY <1>0, <1>2, <1>3, <2>3, <3>1 DEF Change
    <3> QED  BY <2>1, <2>3, <3>2, <3>3
  <2> QED  BY <1>7, <2>2, <2>3 DEF ResizeDisk
<1>8. CASE StartVM(d)
  <2>0. /\ Step(d) = "start" /\ was.hardware = d /\ was.cloudInit = d /\ was.grown /\ Step(d) \in HasHardware
    BY <1>4, <1>8 DEF StartVM, Furnished, HasHardware, HasCloudInit
  <2>1. ASSUME NEW m \in Clones, m.there, m.of = d, ~m.locked, m.hardware = d, m.cloudInit = d, m.grown,
               m.booted \in {d, Nobody},
               machine' = [machine EXCEPT ![Id(d)] = m], NEW at \in {"ok", "partial"}, DeployTo(d, at),
               at = "ok" => m.booted = d
        PROVE  ProxmoxInv' /\ [Contract!Next]_ContractVars
    <3>1. at \in Positions /\ at \notin {"none", "clone", "removed"} /\ at \notin Working
      BY DEF Positions, Over, Working
    <3>2. Furnished(m, d, at, snippet[Name(d)])
      BY <1>4, <2>0, <2>1, <3>1 DEF Furnished
    <3>3. m \in Clones \cup {NoMachine}
      OBVIOUS
    <3> QED  BY <1>1, <2>0, <2>1, <3>1, <3>2, <3>3, ProceedsWith
  <2>2. CASE DeployTo(d, "partial") /\ UNCHANGED machine
    <3>1. machine' = [machine EXCEPT ![Id(d)] = was] /\ was.booted \in {d, Nobody}
      BY <1>4, <1>5, <2>2 DEF Furnished
    <3> QED  BY <1>4, <2>0, <2>1, <2>2, <3>1
  <2>3. CASE machine' = Booted(Id(d)) /\ (DeployTo(d, "ok") \/ DeployTo(d, "partial"))
    <3>1. PICK m \in Clones :
            /\ Booted(Id(d)) = [machine EXCEPT ![Id(d)] = m] /\ m.there /\ m.of = machine[Id(d)].of
            /\ m.hardware = machine[Id(d)].hardware /\ m.cloudInit = machine[Id(d)].cloudInit
            /\ m.grown = machine[Id(d)].grown /\ m.locked = machine[Id(d)].locked
            /\ m.cloudInit = m.of => m.booted = m.of
      BY <1>2, BootedIs DEF Made
    <3>2. /\ m.of = d /\ ~m.locked /\ m.hardware = d /\ m.cloudInit = d /\ m.grown /\ m.booted = d
      BY <1>3, <1>4, <2>0, <3>1
    <3>3. machine' = [machine EXCEPT ![Id(d)] = m]
      BY <2>3, <3>1
    <3> QED  BY <2>1, <2>3, <3>1, <3>2, <3>3
  <2> QED  BY <1>8, <2>2, <2>3 DEF StartVM
<1> QED  BY <1>6, <1>7, <1>8

\* Every step of a user and of Proxmox itself.
LEMMA CallStep ==
  ASSUME ProxmoxInv, UNCHANGED <<machine, snippet, deploy>>, call' \in [Callers -> Calls]
  PROVE  ProxmoxInv' /\ [Contract!Next]_ContractVars
<1>1. ProxmoxTypeOK'
  BY ProxmoxTyped, TypedAgain DEF ProxmoxInv
<1>2. \A d \in Deployments : CloneInv(d)'
  BY DEF ProxmoxInv, CloneInv, Made, There, Step, Id
<1>3. UNCHANGED ContractVars
  BY DEF ContractVars, Returned, BuiltBy, Made, There, Step
<1> QED  BY <1>1, <1>2, <1>3 DEF ProxmoxInv

LEMMA Bootable ==
  ASSUME ProxmoxInv, NEW i \in Ids, There(i), machine' = Booted(i), UNCHANGED <<snippet, deploy>>,
         call' \in [Callers -> Calls]
  PROVE  ProxmoxInv' /\ [Contract!Next]_ContractVars
<1>1. PICK m \in Clones :
        /\ Booted(i) = [machine EXCEPT ![i] = m] /\ m.there /\ m.of = machine[i].of
        /\ m.hardware = machine[i].hardware /\ m.cloudInit = machine[i].cloudInit
        /\ m.grown = machine[i].grown /\ m.locked = machine[i].locked
        /\ m.booted # machine[i].booted => machine[i].booted = Nobody /\ m.booted = m.of
  BY BootedIs
<1>2. machine' = [machine EXCEPT ![i] = m] /\ m \in Clones \cup {NoMachine}
  BY <1>1
<1>3. ProxmoxTypeOK'
  BY <1>2, ProxmoxTyped, TypedAgain DEF ProxmoxInv
<1> QED  BY <1>1, <1>2, <1>3, MachineStep

\* A machine changes its power, its adapters or its lock.
LEMMA Touched ==
  ASSUME ProxmoxInv, NEW i \in Ids, There(i), UNCHANGED <<snippet, deploy>>, call' \in [Callers -> Calls],
         NEW power \in {"off", "on", "paused"}, NEW adapters \in [Slots -> Callers \cup {Nobody}],
         NEW locked \in BOOLEAN, locked => machine[i].locked,
         machine' = [machine EXCEPT ![i] =
           [machine[i] EXCEPT !.power = power, !.adapters = adapters, !.locked = locked]]
  PROVE  ProxmoxInv' /\ [Contract!Next]_ContractVars
<1>0. machine[i] \in Clones
  BY ProxmoxTyped DEF ProxmoxInv, There
<1>1. PICK m : m = [machine[i] EXCEPT !.power = power, !.adapters = adapters, !.locked = locked]
  OBVIOUS
<1>2. /\ m \in Clones \cup {NoMachine} /\ m.of = machine[i].of
      /\ m.hardware = machine[i].hardware /\ m.cloudInit = machine[i].cloudInit
      /\ m.grown = machine[i].grown /\ m.locked = locked /\ m.booted = machine[i].booted /\ m.there
  BY <1>0, <1>1 DEF Clones
<1>3. machine' = [machine EXCEPT ![i] = m]
  BY <1>1
<1>4. ProxmoxTypeOK'
  BY <1>2, <1>3, ProxmoxTyped, TypedAgain DEF ProxmoxInv
<1> QED  BY <1>2, <1>3, <1>4, MachineStep

LEMMA Gone ==
  ASSUME ProxmoxInv, NEW i \in Ids, There(i), UNCHANGED <<snippet, deploy>>, call' \in [Callers -> Calls],
         machine' = [machine EXCEPT ![i] = NoMachine], Step(machine[i].of) \notin Working
  PROVE  ProxmoxInv' /\ [Contract!Next]_ContractVars
<1>1. ProxmoxTypeOK' /\ ~NoMachine.there /\ NoMachine \in Clones \cup {NoMachine}
  BY ProxmoxTyped, TypedAgain DEF ProxmoxInv
<1> QED  BY <1>1, MachineStep

\* The lowest slot that is free is one of the machine's.
LEMMA LowestIsFree ==
  ASSUME NEW i \in Ids, Free(i) # {}
  PROVE  Lowest(i) \in Slots
<1>1. PICK F : F = Free(i)
  OBVIOUS
<1>2. F \subseteq Nat /\ F \subseteq Slots /\ F # {}
  BY <1>1, ProxmoxAssumption DEF Free
<1>3. PICK s \in F : \A t \in F : <<t, s>> \notin OpToRel(<, Nat)
  BY <1>2, NatLessThanWellFounded, WFMin
<1>4. \A t \in F : s <= t
  <2>1. \A t \in F : ~(t < s)
    BY <1>2, <1>3 DEF OpToRel
  <2> QED  BY <1>2, <2>1
<1>5. Lowest(i) \in F
  BY <1>1, <1>4 DEF Lowest
<1> QED  BY <1>2, <1>5

LEMMA UserSteps ==
  ASSUME ProxmoxInv, NEW c \in Callers,
         \/ PowerOn(c) \/ PowerOff(c) \/ Suspend(c) \/ Restart(c) \/ DeleteVM(c)
         \/ NextFreeNetSlot(c) \/ AddNIC(c) \/ RemovePending(c)
  PROVE  ProxmoxInv' /\ [Contract!Next]_ContractVars
<1>0. /\ machine \in [Ids -> Clones \cup {NoMachine}] /\ call \in [Callers -> Calls] /\ call[c] \in Calls
      /\ Nobody \notin Deployments /\ ~NoMachine.there /\ UNCHANGED <<snippet, deploy>>
  BY ProxmoxTyped DEF ProxmoxInv, PowerOn, PowerOff, Suspend, Restart, DeleteVM, NextFreeNetSlot, AddNIC, RemovePending
<1>1. \A i \in Ids : There(i) => /\ machine[i] \in Clones /\ machine[i].of \in Deployments
                                 /\ machine[i].adapters \in [Slots -> Callers \cup {Nobody}]
                                 /\ machine[i].power \in {"off", "on", "paused"} /\ machine[i].locked \in BOOLEAN
  BY <1>0 DEF There, Clones
<1>2. ASSUME NEW i \in Ids, Tracked(i)
      PROVE  There(i) /\ Step(machine[i].of) \notin Working
  BY <1>2 DEF Tracked, Made, Working
<1>3. ASSUME NEW i \in Ids, NEW at \in {"done", "restart"}, Begins(c, i, at)
      PROVE  There(i) /\ Step(machine[i].of) \notin Working /\ call' \in [Callers -> Calls]
  BY <1>0, <1>2, <1>3 DEF Begins, Calls
<1>4. ASSUME NEW at \in {"none", "done", "restart", "slot", "added", "unplug"}, CallTo(c, at)
      PROVE  call' \in [Callers -> Calls]
  BY <1>0, <1>4 DEF CallTo, Calls
<1>5. ASSUME NEW i \in Ids, There(i), NEW power \in {"off", "on", "paused"}, call' \in [Callers -> Calls],
             machine' = [machine EXCEPT ![i]["power"] = power]
      PROVE  ProxmoxInv' /\ [Contract!Next]_ContractVars
  <2>1. PICK adapters \in [Slots -> Callers \cup {Nobody}], locked \in BOOLEAN :
          adapters = machine[i].adapters /\ locked = machine[i].locked
    BY <1>1, <1>5
  <2>2. machine[i] \in Clones
    BY <1>1, <1>5
  <2>3. machine' = [machine EXCEPT ![i] =
          [machine[i] EXCEPT !.power = power, !.adapters = adapters, !.locked = locked]]
    BY <1>0, <1>5, <2>1, <2>2 DEF Clones
  <2>4. There(i) /\ call' \in [Callers -> Calls] /\ UNCHANGED <<snippet, deploy>> /\ (locked => machine[i].locked)
    BY <1>0, <1>5, <2>1
  <2> QED  BY <2>3, <2>4, Touched
<1>6. ASSUME NEW what \in Callers \cup {Nobody}, There(Called(c)), Plug(c, what), call' \in [Callers -> Calls]
      PROVE  ProxmoxInv' /\ [Contract!Next]_ContractVars
  <2>1. CASE Called(c) \notin Ids
    <3>1. machine' = machine
      BY <1>0, <1>6, <2>1 DEF Plug
    <3> QED  BY <1>0, <1>6, <3>1, CallStep
  <2>2. CASE Called(c) \in Ids
    <3>1. PICK i \in Ids : i = Called(c)
      BY <2>2
    <3>2. PICK power \in {"off", "on", "paused"}, locked \in BOOLEAN :
            power = machine[i].power /\ locked = machine[i].locked
      BY <1>1, <1>6, <3>1
    <3>3. PICK adapters \in [Slots -> Callers \cup {Nobody}] :
            adapters = [machine[i].adapters EXCEPT ![call[c].slot] = what]
      BY <1>1, <1>6, <3>1
    <3>4. machine' = [machine EXCEPT ![i] =
            [machine[i] EXCEPT !.power = power, !.adapters = adapters, !.locked = locked]]
      BY <1>0, <1>1, <1>6, <3>1, <3>2, <3>3 DEF Plug, Clones
    <3> QED  BY <1>0, <1>6, <3>1, <3>2, <3>4, Touched
  <2> QED  BY <2>1, <2>2
<1>7. CASE PowerOn(c)
  <2>1. PICK i \in Ids : Begins(c, i, "done") /\ (machine' = [machine EXCEPT ![i].power = "on"] \/ machine' = Booted(i))
    BY <1>7 DEF PowerOn
  <2>2. There(i) /\ call' \in [Callers -> Calls]
    BY <1>3, <2>1
  <2>3. CASE machine' = [machine EXCEPT ![i].power = "on"]
    BY <1>5, <2>2, <2>3
  <2>4. CASE machine' = Booted(i)
    BY <1>0, <2>2, <2>4, Bootable
  <2> QED  BY <2>1, <2>3, <2>4
<1>8. CASE PowerOff(c) \/ Suspend(c)
  <2>1. PICK i \in Ids, power \in {"off", "on", "paused"} : Begins(c, i, "done") /\ Change(i, "power", power)
    BY <1>8 DEF PowerOff, Suspend
  <2>2. There(i) /\ call' \in [Callers -> Calls]
    BY <1>3, <2>1
  <2> QED  BY <1>5, <2>1, <2>2 DEF Change
<1>9. CASE Restart(c)
  <2>1. ASSUME NEW i \in Ids, NEW at \in {"done", "restart"}, Begins(c, i, at),
               machine' = machine \/ Change(i, "power", "off")
        PROVE  ProxmoxInv' /\ [Contract!Next]_ContractVars
    <3>1. There(i) /\ call' \in [Callers -> Calls]
      BY <1>3, <2>1
    <3>2. CASE machine' = machine
      BY <1>0, <3>1, <3>2, CallStep
    <3>3. CASE Change(i, "power", "off")
      BY <1>5, <3>1, <3>3 DEF Change
    <3> QED  BY <2>1, <3>2, <3>3
  <2>2. ASSUME CallTo(c, "done"), machine' = machine \/ (There(Called(c)) /\ machine' = Booted(Called(c)))
        PROVE  ProxmoxInv' /\ [Contract!Next]_ContractVars
    <3>1. call' \in [Callers -> Calls]
      BY <1>4, <2>2
    <3>2. CASE machine' = machine
      BY <1>0, <3>1, <3>2, CallStep
    <3>3. CASE Called(c) \in Ids /\ There(Called(c)) /\ machine' = Booted(Called(c))
      BY <1>0, <3>1, <3>3, Bootable
    <3>4. CASE Called(c) \notin Ids /\ machine' = Booted(Called(c))
      <4>1. machine' = machine
        BY <1>0, <3>4 DEF Booted
      <4> QED  BY <3>2, <4>1
    <3> QED  BY <2>2, <3>2, <3>3, <3>4
  <2> QED  BY <1>9, <2>1, <2>2 DEF Restart
<1>10. CASE DeleteVM(c)
  <2>1. PICK i \in Ids : Begins(c, i, "done") /\ machine' = [machine EXCEPT ![i] = NoMachine]
    BY <1>10 DEF DeleteVM, Destroyed
  <2>2. There(i) /\ Step(machine[i].of) \notin Working /\ call' \in [Callers -> Calls]
    BY <1>3, <2>1
  <2> QED  BY <1>0, <2>1, <2>2, Gone
<1>11. CASE NextFreeNetSlot(c)
  <2>1. PICK i \in Ids : Free(i) # {} /\ call' = [call EXCEPT ![c] = [at |-> "slot", id |-> i, slot |-> Lowest(i)]]
    BY <1>11 DEF NextFreeNetSlot
  <2>2. Lowest(i) \in Slots
    BY <2>1, LowestIsFree
  <2>3. call' \in [Callers -> Calls]
    BY <1>0, <2>1, <2>2 DEF Calls
  <2> QED  BY <1>0, <1>11, <2>3, CallStep DEF NextFreeNetSlot
<1>12. CASE AddNIC(c)
  <2>1. PICK at \in {"added", "unplug", "done"} : CallTo(c, at)
    BY <1>12 DEF AddNIC
  <2>2. call' \in [Callers -> Calls]
    BY <1>4, <2>1
  <2>3. CASE UNCHANGED machine
    BY <1>0, <2>2, <2>3, CallStep
  <2>4. CASE There(Called(c)) /\ Plug(c, c)
    BY <1>6, <2>2, <2>4
  <2> QED  BY <1>12, <2>3, <2>4 DEF AddNIC
<1>13. CASE RemovePending(c)
  <2>1. call' \in [Callers -> Calls]
    BY <1>4, <1>13 DEF RemovePending
  <2>2. CASE UNCHANGED machine
    BY <1>0, <2>1, <2>2, CallStep
  <2>3. CASE There(Called(c)) /\ Plug(c, Nobody)
    BY <1>6, <2>1, <2>3
  <2> QED  BY <1>13, <2>2, <2>3 DEF RemovePending
<1> QED  BY <1>7, <1>8, <1>9, <1>10, <1>11, <1>12, <1>13

LEMMA CopyEnds ==
  ASSUME ProxmoxInv, NEW i \in Ids, TaskEnds(i)
  PROVE  ProxmoxInv' /\ [Contract!Next]_ContractVars
<1>0. /\ machine \in [Ids -> Clones \cup {NoMachine}] /\ machine[i] \in Clones /\ There(i) /\ machine[i].locked
      /\ call' \in [Callers -> Calls] /\ UNCHANGED <<snippet, deploy>>
  BY ProxmoxTyped DEF ProxmoxInv, TaskEnds, There
<1>1. Step(machine[i].of) \notin Working
  <2>1. PICK d \in Deployments : d = machine[i].of
    BY <1>0 DEF Clones
  <2>2. CloneInv(d) /\ Made(d, i)
    BY <1>0, <2>1 DEF ProxmoxInv, Made
  <2>3. Id(d) = i
    BY <2>2 DEF CloneInv
  <2> QED  BY <1>0, <2>1, <2>2, <2>3 DEF CloneInv
<1>2. CASE machine' = [machine EXCEPT ![i] = NoMachine]
  BY <1>0, <1>1, <1>2, Gone
<1>3. CASE Cloned(i)
  <2>1. PICK adapters \in [Slots -> Callers \cup {Nobody}], power \in {"off", "on", "paused"} :
          adapters = machine[i].adapters /\ power = machine[i].power
    BY <1>0 DEF Clones
  <2>2. machine' = [machine EXCEPT ![i] =
          [machine[i] EXCEPT !.power = power, !.adapters = adapters, !.locked = FALSE]]
    BY <1>0, <1>3, <2>1 DEF Cloned, Change, Clones
  <2> QED  BY <1>0, <2>1, <2>2, Touched
<1> QED  BY <1>2, <1>3 DEF TaskEnds

LEMMA ProxmoxStarts ==
  ASSUME ProxmoxInit
  PROVE  ProxmoxInv /\ Contract!Init
<1>0. ~NoMachine.there
  BY DEF NoMachine
<1>1. \A d \in Deployments : Step(d) = "none" /\ \A i \in Ids : ~Made(d, i)
  BY <1>0 DEF ProxmoxInit, Step, Made, There
<1>2. ProxmoxTypeOK
  <2>1. Attempts \in 1..Attempts
    BY ProxmoxAssumption
  <2> QED  BY <2>1 DEF ProxmoxInit, ProxmoxTypeOK, Over
<1>3. \A d \in Deployments : CloneInv(d)
  BY <1>1 DEF CloneInv, Working, HasHardware
<1>4. Contract!Init
  BY <1>1 DEF Contract!Init
<1> QED  BY <1>2, <1>3, <1>4 DEF ProxmoxInv

LEMMA ProxmoxSteps ==
  ASSUME OwnNames, ProxmoxInv, [ProxmoxNext]_proxmoxVars
  PROVE  ProxmoxInv' /\ [Contract!Next]_ContractVars
<1>1. CASE UNCHANGED proxmoxVars
  <2>1. UNCHANGED <<machine, snippet, deploy, call>> /\ call \in [Callers -> Calls]
    BY <1>1, ProxmoxTyped DEF proxmoxVars, ProxmoxInv
  <2> QED  BY <2>1, CallStep
<1>2. ASSUME NEW d \in Deployments,
             \/ NextVMID(d) \/ CloneVM(d) \/ AwaitTask(d) \/ UploadSnippet(d) \/ HardwareConfig(d)
             \/ CloudInitConfig(d) \/ RollbackClone(d) \/ ResizeDisk(d) \/ StartVM(d) \/ ContextEnds(d)
      PROVE  ProxmoxInv' /\ [Contract!Next]_ContractVars
  BY <1>2, CloneSteps, SettingSteps, EndSteps
<1>3. ASSUME NEW i \in Ids, TaskEnds(i)
      PROVE  ProxmoxInv' /\ [Contract!Next]_ContractVars
  BY <1>3, CopyEnds
<1>4. ASSUME NEW c \in Callers,
             \/ PowerOn(c) \/ PowerOff(c) \/ Suspend(c) \/ Restart(c) \/ DeleteVM(c)
             \/ NextFreeNetSlot(c) \/ AddNIC(c) \/ RemovePending(c)
      PROVE  ProxmoxInv' /\ [Contract!Next]_ContractVars
  BY <1>4, UserSteps
<1>5. CASE ProxmoxNext
  BY <1>2, <1>3, <1>4, <1>5 DEF ProxmoxNext
<1> QED  BY <1>1, <1>5

\* The inductive invariant of the Proxmox provider.
THEOREM ProxmoxInvariant == ASSUME OwnNames PROVE ProxmoxSpec => []ProxmoxInv
<1>1. ProxmoxInit => ProxmoxInv
  BY ProxmoxStarts
<1>2. ProxmoxInv /\ [ProxmoxNext]_proxmoxVars => ProxmoxInv'
  BY ProxmoxSteps
<1> QED  BY <1>1, <1>2, PTL DEF ProxmoxSpec

\* The types hold whatever the names.
LEMMA BootTypes ==
  ASSUME ProxmoxTypeOK, NEW i, There(i)
  PROVE  Booted(i) \in [Ids -> Clones \cup {NoMachine}]
<1>0. /\ machine \in [Ids -> Clones \cup {NoMachine}] /\ snippet \in [Names -> Deployments \cup {Nobody}]
      /\ \A d \in Deployments : Name(d) \in Names
      /\ WithActions \subseteq Deployments
  BY ProxmoxTyped
<1>1. CASE i \notin Ids
  BY <1>0, <1>1 DEF Booted
<1>2. CASE i \in Ids
  <2>1. machine[i] \in Clones
    BY <1>0, <1>2 DEF There, NoMachine
  <2> DEFINE ran == IF machine[i].booted # Nobody THEN machine[i].booted
                    ELSE IF machine[i].cloudInit \in WithActions THEN snippet[Name(machine[i].cloudInit)]
                         ELSE machine[i].cloudInit
             m == [machine[i] EXCEPT !.power = "on", !.booted = ran]
  <2>2. ran \in Deployments \cup {Nobody}
    BY <1>0, <2>1 DEF Clones
  <2>3. m \in Clones
    <3> HIDE DEF ran
    <3> QED  BY <2>1, <2>2 DEF Clones
  <2>4. Booted(i) = [machine EXCEPT ![i] = m]
    BY <1>0, <1>2, <2>1 DEF Booted, Clones
  <2> HIDE DEF m
  <2> QED  BY <1>0, <2>3, <2>4
<1> QED  BY <1>1, <1>2

LEMMA FieldTypes ==
  ASSUME ProxmoxTypeOK, NEW i, NEW m, machine' = [machine EXCEPT ![i] = m], i \in Ids => m \in Clones
  PROVE  machine' \in [Ids -> Clones \cup {NoMachine}]
BY DEF ProxmoxTypeOK

LEMMA DeployTypes ==
  ASSUME ProxmoxTypeOK, NEW d \in Deployments,
         \/ NextVMID(d) \/ CloneVM(d) \/ AwaitTask(d) \/ UploadSnippet(d) \/ HardwareConfig(d)
         \/ CloudInitConfig(d) \/ RollbackClone(d) \/ ResizeDisk(d) \/ StartVM(d) \/ ContextEnds(d)
  PROVE  ProxmoxTypeOK'
<1>0. /\ machine \in [Ids -> Clones \cup {NoMachine}] /\ deploy \in [Deployments -> Standings]
      /\ snippet \in [Names -> Deployments \cup {Nobody}] /\ call \in [Callers -> Calls]
      /\ Attempts \in 1..Attempts /\ Name(d) \in Names /\ Attempts \in Nat
  BY ProxmoxTyped, ProxmoxAssumption
<1>1. UNCHANGED call
  BY DEF NextVMID, CloneVM, AwaitTask, UploadSnippet, HardwareConfig, CloudInitConfig, ApplyVMConfig,
    RollbackClone, ResizeDisk, StartVM, ContextEnds
<1>2. deploy' \in [Deployments -> Standings]
  <2>1. ASSUME NEW at \in Positions, DeployTo(d, at)
        PROVE  deploy' \in [Deployments -> Standings]
    BY <1>0, <2>1, DeployToIs
  <2>2. CASE \E at \in Positions : DeployTo(d, at)
    BY <2>1, <2>2
  <2>3. ASSUME NEW i \in Ids, deploy' = [deploy EXCEPT ![d].at = "clone", ![d].id = i]
        PROVE  deploy' \in [Deployments -> Standings]
    BY <1>0, <2>3 DEF Standings, Positions
  <2>4. CASE deploy[d].tries > 1 /\ deploy' = [deploy EXCEPT ![d].tries = @ - 1]
    <3>1. deploy[d].tries - 1 \in 1..Attempts
      BY <1>0, <2>4 DEF Standings
    <3> QED  BY <1>0, <2>4, <3>1 DEF Standings
  <2>5. CASE deploy' = [deploy EXCEPT ![d].cancelled = TRUE]
    BY <1>0, <2>5 DEF Standings
  <2>6. /\ \A at \in {"failed", "await", "snippet", "hardware", "rollback", "cloudInit", "resize", "removed",
                      "left", "start", "partial", "ok"} : at \in Positions
        /\ (IF d \in WithActions THEN "snippet" ELSE "hardware") \in {"snippet", "hardware"}
    BY DEF Positions, Over, Working
  <2>7. CASE NextVMID(d)
    BY <2>2, <2>3, <2>6, <2>7 DEF NextVMID
  <2>8. CASE CloneVM(d) \/ AwaitTask(d) \/ UploadSnippet(d)
    BY <2>2, <2>6, <2>8 DEF CloneVM, AwaitTask, UploadSnippet
  <2>9. CASE HardwareConfig(d) \/ CloudInitConfig(d)
    BY <2>2, <2>4, <2>6, <2>9 DEF HardwareConfig, CloudInitConfig, ApplyVMConfig
  <2>10. CASE RollbackClone(d) \/ ResizeDisk(d) \/ StartVM(d)
    BY <2>2, <2>6, <2>10 DEF RollbackClone, ResizeDisk, StartVM
  <2>11. CASE ContextEnds(d)
    BY <2>5, <2>11 DEF ContextEnds
  <2> QED  BY <2>7, <2>8, <2>9, <2>10, <2>11
<1>3. snippet' \in [Names -> Deployments \cup {Nobody}]
  <2>1. snippet' = snippet \/ snippet' = [snippet EXCEPT ![Name(d)] = d]
    BY DEF NextVMID, CloneVM, AwaitTask, UploadSnippet, HardwareConfig, CloudInitConfig, ApplyVMConfig,
      RollbackClone, ResizeDisk, StartVM, ContextEnds
  <2> QED  BY <1>0, <2>1
<1>4. machine' \in [Ids -> Clones \cup {NoMachine}]
  <2>1. \A i \in Ids : There(i) => machine[i] \in Clones
    BY <1>0 DEF There, NoMachine
  <2>2. CASE machine' = machine
    BY <1>0, <2>2
  <2>3. CASE machine' = [machine EXCEPT ![Id(d)] = Clone(d)]
    <3>1. Clone(d) \in Clones
      BY DEF Clone, Clones
    <3> QED  BY <1>0, <2>3, <3>1
  <2>4. CASE machine' = Destroyed(Id(d))
    BY <1>0, <2>4 DEF Destroyed
  <2>5. CASE There(Id(d)) /\ Change(Id(d), "hardware", d)
    <3>1. Id(d) \in Ids => [machine[Id(d)] EXCEPT !["hardware"] = d] \in Clones
      BY <2>1, <2>5 DEF Clones
    <3> QED  BY <2>5, <3>1, FieldTypes DEF Change
  <2>12. CASE There(Id(d)) /\ Change(Id(d), "cloudInit", d)
    <3>1. Id(d) \in Ids => [machine[Id(d)] EXCEPT !["cloudInit"] = d] \in Clones
      BY <2>1, <2>12 DEF Clones
    <3> QED  BY <2>12, <3>1, FieldTypes DEF Change
  <2>6. CASE There(Id(d)) /\ Change(Id(d), "grown", TRUE)
    <3>1. Id(d) \in Ids => [machine[Id(d)] EXCEPT !["grown"] = TRUE] \in Clones
      BY <2>1, <2>6 DEF Clones
    <3> QED  BY <2>6, <3>1, FieldTypes DEF Change
  <2>7. CASE There(Id(d)) /\ machine' = Booted(Id(d))
    BY <2>7, BootTypes
  <2>8. CASE HardwareConfig(d) \/ CloudInitConfig(d)
    BY <2>2, <2>5, <2>8, <2>12 DEF HardwareConfig, CloudInitConfig, ApplyVMConfig
  <2>9. CASE CloneVM(d) \/ RollbackClone(d)
    BY <2>2, <2>3, <2>4, <2>9 DEF CloneVM, RollbackClone
  <2>10. CASE ResizeDisk(d) \/ StartVM(d)
    BY <2>2, <2>6, <2>7, <2>10 DEF ResizeDisk, StartVM
  <2>11. CASE NextVMID(d) \/ AwaitTask(d) \/ UploadSnippet(d) \/ ContextEnds(d)
    BY <2>2, <2>11 DEF NextVMID, AwaitTask, UploadSnippet, ContextEnds
  <2> QED  BY <2>8, <2>9, <2>10, <2>11
<1> QED  BY <1>0, <1>1, <1>2, <1>3, <1>4, TypedAgain

LEMMA UserTypes ==
  ASSUME ProxmoxTypeOK, NEW c \in Callers,
         \/ PowerOn(c) \/ PowerOff(c) \/ Suspend(c) \/ Restart(c) \/ DeleteVM(c)
         \/ NextFreeNetSlot(c) \/ AddNIC(c) \/ RemovePending(c)
  PROVE  ProxmoxTypeOK'
<1>0. /\ machine \in [Ids -> Clones \cup {NoMachine}] /\ call \in [Callers -> Calls] /\ deploy \in [Deployments -> Standings]
      /\ snippet \in [Names -> Deployments \cup {Nobody}]
      /\ UNCHANGED <<snippet, deploy>>
  BY ProxmoxTyped DEF PowerOn, PowerOff, Suspend, Restart, DeleteVM, NextFreeNetSlot, AddNIC, RemovePending
<1>1. \A i \in Ids : There(i) => machine[i] \in Clones
  BY <1>0 DEF There, NoMachine
<1>2. call' \in [Callers -> Calls]
  <2>1. ASSUME NEW i \in Ids, NEW at \in {"done", "restart"}, Begins(c, i, at)
        PROVE  call' \in [Callers -> Calls]
    BY <1>0, <2>1 DEF Begins, Calls
  <2>2. ASSUME NEW at \in {"none", "done", "restart", "slot", "added", "unplug"}, CallTo(c, at)
        PROVE  call' \in [Callers -> Calls]
    BY <1>0, <2>2 DEF CallTo, Calls
  <2>3. CASE NextFreeNetSlot(c)
    <3>1. PICK i \in Ids : Free(i) # {} /\ call' = [call EXCEPT ![c] = [at |-> "slot", id |-> i, slot |-> Lowest(i)]]
      BY <2>3 DEF NextFreeNetSlot
    <3>2. Lowest(i) \in Slots
      BY <3>1, LowestIsFree
    <3> QED  BY <1>0, <3>1, <3>2 DEF Calls
  <2>4. CASE PowerOn(c) \/ PowerOff(c) \/ Suspend(c) \/ DeleteVM(c)
    BY <2>1, <2>4 DEF PowerOn, PowerOff, Suspend, DeleteVM
  <2>5. CASE Restart(c)
    BY <2>1, <2>2, <2>5 DEF Restart
  <2>6. CASE AddNIC(c) \/ RemovePending(c)
    BY <2>2, <2>6 DEF AddNIC, RemovePending
  <2> QED  BY <2>3, <2>4, <2>5, <2>6
<1>3. machine' \in [Ids -> Clones \cup {NoMachine}]
  <2>1. CASE UNCHANGED machine
    BY <1>0, <2>1
  <2>2. ASSUME NEW i \in Ids, There(i), NEW power \in {"off", "on", "paused"},
               machine' = [machine EXCEPT ![i]["power"] = power]
        PROVE  machine' \in [Ids -> Clones \cup {NoMachine}]
    <3>1. [machine[i] EXCEPT !["power"] = power] \in Clones
      BY <1>1, <2>2 DEF Clones
    <3> QED  BY <2>2, <3>1, FieldTypes
  <2>3. ASSUME NEW i, There(i), machine' = Booted(i)
        PROVE  machine' \in [Ids -> Clones \cup {NoMachine}]
    BY <2>3, BootTypes
  <2>4. ASSUME NEW what \in Callers \cup {Nobody}, There(Called(c)), Plug(c, what)
        PROVE  machine' \in [Ids -> Clones \cup {NoMachine}]
    <3>1. ASSUME Called(c) \in Ids
          PROVE  [machine[Called(c)] EXCEPT !["adapters"] =
                   [machine[Called(c)].adapters EXCEPT ![call[c].slot] = what]] \in Clones
      <4>1. machine[Called(c)] \in Clones
        BY <1>1, <2>4, <3>1
      <4>2. [machine[Called(c)].adapters EXCEPT ![call[c].slot] = what] \in [Slots -> Callers \cup {Nobody}]
        BY <4>1 DEF Clones
      <4> QED  BY <4>1, <4>2 DEF Clones
    <3>2. machine' = [machine EXCEPT ![Called(c)] =
            [machine[Called(c)] EXCEPT !["adapters"] =
              [machine[Called(c)].adapters EXCEPT ![call[c].slot] = what]]]
      BY <2>4 DEF Plug
    <3> QED  BY <3>1, <3>2, FieldTypes
  <2>5. \A i \in Ids : Tracked(i) => There(i)
    BY DEF Tracked, Made
  <2>6. CASE PowerOn(c)
    <3>1. PICK i \in Ids : There(i) /\ (machine' = [machine EXCEPT ![i].power = "on"] \/ machine' = Booted(i))
      BY <2>5, <2>6 DEF PowerOn, Begins
    <3> QED  BY <2>2, <2>3, <3>1
  <2>7. CASE PowerOff(c) \/ Suspend(c)
    BY <2>2, <2>5, <2>7 DEF PowerOff, Suspend, Begins, Change
  <2>8. CASE Restart(c)
    BY <2>1, <2>2, <2>3, <2>5, <2>8 DEF Restart, Begins, Change
  <2>9. CASE DeleteVM(c)
    BY <1>0, <2>9 DEF DeleteVM, Destroyed
  <2>10. CASE NextFreeNetSlot(c)
    BY <2>1, <2>10 DEF NextFreeNetSlot
  <2>11. CASE AddNIC(c) \/ RemovePending(c)
    BY <2>1, <2>4, <2>11 DEF AddNIC, RemovePending
  <2> QED  BY <2>6, <2>7, <2>8, <2>9, <2>10, <2>11
<1> QED  BY <1>0, <1>2, <1>3, TypedAgain

\* Every variable of the Proxmox provider has its type.
THEOREM ProxmoxTypes == ProxmoxSpec => []ProxmoxTypeOK
<1>1. ProxmoxInit => ProxmoxTypeOK
  BY ProxmoxStarts DEF ProxmoxInv
<1>2. ASSUME ProxmoxTypeOK, [ProxmoxNext]_proxmoxVars
      PROVE  ProxmoxTypeOK'
  <2>1. CASE UNCHANGED proxmoxVars
    BY <1>2, <2>1 DEF ProxmoxTypeOK, proxmoxVars
  <2>2. ASSUME NEW i \in Ids, TaskEnds(i)
        PROVE  ProxmoxTypeOK'
    <3>1. machine' \in [Ids -> Clones \cup {NoMachine}]
      <4>1. machine[i] \in Clones
        BY <1>2, <2>2, ProxmoxTyped DEF TaskEnds, There
      <4>2. [machine[i] EXCEPT !["locked"] = FALSE] \in Clones
        BY <4>1 DEF Clones
      <4>3. CASE Cloned(i)
        BY <1>2, <4>2, <4>3, FieldTypes DEF Cloned, Change
      <4>4. CASE machine' = [machine EXCEPT ![i] = NoMachine]
        BY <1>2, <4>4, ProxmoxTyped
      <4> QED  BY <2>2, <4>3, <4>4 DEF TaskEnds
    <3> QED  BY <1>2, <2>2, <3>1, ProxmoxTyped, TypedAgain DEF TaskEnds
  <2>3. CASE ProxmoxNext
    BY <1>2, <2>2, <2>3, DeployTypes, UserTypes DEF ProxmoxNext
  <2> QED  BY <1>2, <2>1, <2>3
<1> QED  BY <1>1, <1>2, PTL DEF ProxmoxSpec

\* DeployVM keeps its word on Proxmox: provided that no two deployments share a
\* name, the provider implements the contract of the deployment service.
THEOREM ProxmoxImplements == ASSUME OwnNames PROVE ProxmoxSpec => ProxmoxKeepsContract
<1>1. ProxmoxInit => Contract!Init
  BY ProxmoxStarts
<1>2. ProxmoxInv /\ [ProxmoxNext]_proxmoxVars => [Contract!Next]_ContractVars
  BY ProxmoxSteps
<1>3. [Contract!Next]_ContractVars =>
        [Contract!Next]_<<[d \in Deployments |->
                             CASE Step(d) \in {"ok", "partial", "removed"} -> Step(d)
                               [] Step(d) \in {"failed", "left"} -> "failed"
                               [] OTHER -> "none"],
                          [d \in Deployments |->
                             IF \E i \in Ids : Made(d, i) THEN Stage(machine[CHOOSE i \in Ids : Made(d, i)], d)
                                                          ELSE "absent"]>>
  BY DEF ContractVars, Returned, BuiltBy
<1> QED  BY <1>1, <1>2, <1>3, ProxmoxInvariant, PTL DEF ProxmoxSpec, ProxmoxKeepsContract, Contract!Spec

------------------------------------------------------------------------------
(* Deployments on VMware *)

Flows == {"place", "clone", "connectNICs", "copy", "extend", "register", "power", "ok", "partial", "failed"}
Machines == [power : {"none", "on", "off", "paused"}, disk : SUBSET Guests, grown : BOOLEAN, booted : BOOLEAN]

\* A copy belongs to the call that made it until its machine is destroyed, and a
\* machine is registered on its own copy.
GuestInv(g) ==
  /\ flow[g] \in {"place", "copy", "extend", "register", "clone"} => ~Exists(g)
  /\ Exists(g) => guest[g].disk = {g}
  /\ flow[g] \in {"extend", "register"} => File(g).of = {g}
  /\ flow[g] = "register" => File(g).grown
  /\ flow[g] \in {"power", "connectNICs"} => Exists(g) /\ guest[g].grown
  /\ flow[g] = "connectNICs" => guest[g].booted
  /\ flow[g] = "ok" /\ Exists(g) => guest[g].grown /\ guest[g].booted
VSphereInv == VSphereTypeOK /\ \A g \in Guests : GuestInv(g)

LEMMA VSphereTyped ==
  ASSUME VSphereTypeOK, NEW g \in Guests
  PROVE  /\ guest \in [Guests -> Machines] /\ guest[g] \in Machines
         /\ flow \in [Guests -> Flows] /\ flow[g] \in Flows
         /\ disks \in [GuestNames -> [of : SUBSET Guests, grown : BOOLEAN]] /\ GuestName(g) \in GuestNames
         /\ \A h \in Guests : GuestName(h) \in GuestNames
         /\ NoGuest \in Machines /\ NoDisk \in [of : SUBSET Guests, grown : BOOLEAN]
         /\ uses \in 0..MaxUses /\ MaxUses \in Nat
BY VSphereAssumption DEF VSphereTypeOK, Machines, Flows, GuestNames, NoGuest, NoDisk

\* What the service sees of the calls.
Ended == {"ok", "partial", "failed"}
Said(g) == IF flow[g] \in Ended THEN flow[g] ELSE "none"
PromiseVars == <<[g \in Guests |-> Said(g)], [g \in Guests |-> GuestStage(g)]>>

\* A step of one call is one of the contract.
LEMMA PromiseStep ==
  ASSUME VSphereInv, VSphereInv', NEW g \in Guests,
         \A h \in Guests : h # g => flow'[h] = flow[h] /\ guest'[h] = guest[h],
         flow[g] \in Ended => flow'[g] = flow[g] /\ (Exists(g) \/ guest'[g] = guest[g]),
         flow[g] \notin Ended /\ flow'[g] \in {"ok", "partial"} => Exists(g)'
  PROVE  [Promise!Next]_PromiseVars
<1> DEFINE said == [h \in Guests |-> Said(h)]
           stage == [h \in Guests |-> GuestStage(h)]
<1>1. \A h \in Guests : h # g => Said(h)' = Said(h) /\ GuestStage(h)' = GuestStage(h)
  BY DEF Said, GuestStage, Exists
<1>2. said' = [said EXCEPT ![g] = Said(g)'] /\ stage' = [stage EXCEPT ![g] = GuestStage(g)']
  BY <1>1
<1>3. said[g] = Said(g) /\ stage[g] = GuestStage(g)
  OBVIOUS
<1>4. /\ GuestStage(g)' = IF ~Exists(g)' THEN "absent"
                          ELSE IF guest'[g].grown /\ guest'[g].booted THEN "whole" ELSE "configured"
      /\ GuestStage(g)' \in Promise!Stages
  <2>1. (GuestStage(g) \in Promise!Stages)'
    BY DEF VSphereInv, GuestInv, GuestStage, Promise!Stages
  <2> QED  BY <2>1 DEF VSphereInv, GuestInv, GuestStage
<1>5. CASE flow[g] \notin Ended /\ flow'[g] \notin Ended
  <2>1. said' = said /\ said[g] = "none"
    BY <1>2, <1>3, <1>5 DEF Said
  <2>2. Promise!Build(g)
    BY <1>2, <1>4, <2>1 DEF Promise!Build, Said, Ended
  <2> QED  BY <2>2 DEF Promise!Next
<1>6. CASE flow[g] \notin Ended /\ flow'[g] \in Ended
  <2>1. Said(g) = "none" /\ Said(g)' = flow'[g] /\ Said(g)' \in Promise!Outcomes \ {"none"}
    BY <1>6 DEF Said, Ended, Promise!Outcomes
  <2>2. Promise!Warrants(Said(g)', GuestStage(g)')
    BY <1>4, <1>6, <2>1 DEF Promise!Warrants, Ended, VSphereInv, GuestInv
  <2>3. Promise!Return(g)
    BY <1>2, <1>3, <1>4, <2>1, <2>2 DEF Promise!Return, Said, Ended
  <2> QED  BY <2>3 DEF Promise!Next
<1>7. CASE flow[g] \in Ended
  <2>1. Said(g)' = Said(g) /\ Said(g) = flow[g] /\ said' = said /\ flow'[g] = flow[g]
    BY <1>2, <1>3, <1>7 DEF Said
  <2>2. CASE guest'[g] = guest[g]
    <3>1. stage' = stage
      BY <1>2, <1>3, <2>2 DEF GuestStage, Exists
    <3> QED  BY <2>1, <3>1 DEF PromiseVars
  <2>3. CASE Exists(g)
    <3>1. GuestStage(g) # "absent"
      BY <2>3 DEF GuestStage
    <3>2. Promise!Warrants(Said(g), GuestStage(g)') \/ GuestStage(g)' = "absent"
      BY <1>4, <2>1, <1>7 DEF Promise!Warrants, Ended, VSphereInv, GuestInv
    <3>3. Promise!Afterwards(g)
      BY <1>2, <1>3, <1>4, <1>7, <2>1, <3>1, <3>2 DEF Promise!Afterwards, Said, Ended
    <3> QED  BY <3>3 DEF Promise!Next
  <2> QED  BY <1>7, <2>2, <2>3
<1> QED  BY <1>5, <1>6, <1>7

\* A call moves on and changes its machine, if anything.
LEMMA FlowStep ==
  ASSUME VSphereInv, NEW g \in Guests, NEW at \in Flows, flow' = [flow EXCEPT ![g] = at],
         NEW m \in Machines, guest' = [guest EXCEPT ![g] = m],
         UNCHANGED disks, uses' \in 0..MaxUses,
         at \in {"place", "copy", "extend", "register", "clone"} => m.power = "none",
         m.power # "none" => m.disk = {g},
         at \in {"extend", "register"} => File(g).of = {g},
         at = "register" => File(g).grown,
         at \in {"power", "connectNICs"} => m.power # "none" /\ m.grown,
         at = "connectNICs" => m.booted,
         at = "ok" /\ m.power # "none" => m.grown /\ m.booted,
         flow[g] \in Ended => at = flow[g] /\ (Exists(g) \/ m = guest[g]),
         flow[g] \notin Ended /\ at \in {"ok", "partial"} => m.power # "none"
  PROVE  VSphereInv' /\ [Promise!Next]_PromiseVars
<1>0. /\ guest \in [Guests -> Machines] /\ flow \in [Guests -> Flows]
      /\ VSphereTypeOK /\ \A h \in Guests : GuestInv(h)
  BY VSphereTyped DEF VSphereInv
<1>1. /\ flow'[g] = at /\ guest'[g] = m
      /\ \A h \in Guests : h # g => flow'[h] = flow[h] /\ guest'[h] = guest[h]
  BY <1>0
<1>2. VSphereTypeOK'
  BY <1>0 DEF VSphereTypeOK, Machines, Flows
<1>3. GuestInv(g)'
  BY <1>1 DEF GuestInv, Exists, File
<1>4. \A h \in Guests : h # g => GuestInv(h)'
  BY <1>0, <1>1 DEF GuestInv, Exists, File
<1>5. VSphereInv'
  BY <1>2, <1>3, <1>4 DEF VSphereInv
<1>6. Exists(g)' <=> m.power # "none"
  BY <1>1 DEF Exists
<1> QED  BY <1>1, <1>5, <1>6, PromiseStep

\* Requests that leave the directories alone.
LEMMA MachineRequests ==
  ASSUME VSphereInv, NEW g \in Guests,
         \/ ResolvePlacement(g) \/ CloneTask(g) \/ EnsureClonedNICsConnected(g)
         \/ CreateVM(g) \/ PowerOnCreated(g) \/ (Fails(g) /\ flow[g] \notin Ended)
  PROVE  VSphereInv' /\ [Promise!Next]_PromiseVars
<1>0. /\ guest \in [Guests -> Machines] /\ guest[g] \in Machines /\ flow \in [Guests -> Flows]
      /\ disks \in [GuestNames -> [of : SUBSET Guests, grown : BOOLEAN]] /\ GuestName(g) \in GuestNames
      /\ uses \in 0..MaxUses /\ GuestInv(g)
  BY VSphereTyped DEF VSphereInv
<1>1. CASE UNCHANGED <<guest, disks, uses>> /\ flow[g] \in {"place", "connectNICs", "copy", "extend", "clone", "register", "power"}
           /\ \/ FlowTo(g, "failed")
              \/ FlowTo(g, "copy") /\ flow[g] = "place"
              \/ FlowTo(g, "clone") /\ flow[g] = "place"
              \/ FlowTo(g, "ok") /\ flow[g] = "connectNICs"
              \/ FlowTo(g, "partial") /\ flow[g] = "power"
  <2>1. PICK at \in {"failed", "copy", "clone", "ok", "partial"} : FlowTo(g, at) /\ (at \in {"copy", "clone"} => flow[g] = "place")
                /\ (at = "ok" => flow[g] = "connectNICs") /\ (at = "partial" => flow[g] = "power")
    BY <1>1
  <2>2. guest' = [guest EXCEPT ![g] = guest[g]] /\ flow' = [flow EXCEPT ![g] = at]
    BY <1>0, <1>1, <2>1 DEF FlowTo
  <2>3. PICK m \in Machines : m = guest[g]
    BY <1>0
  <2>4. at \in Flows /\ flow[g] \notin Ended
    BY <1>1, <2>1 DEF Flows, Ended
  <2>5. /\ (at \in {"copy", "clone"} => m.power = "none") /\ (m.power # "none" => m.disk = {g})
        /\ (at = "ok" => m.power # "none" /\ m.grown /\ m.booted) /\ (at = "partial" => m.power # "none")
    BY <1>0, <2>1, <2>3 DEF GuestInv, Exists
  <2>6. guest' = [guest EXCEPT ![g] = m]
    BY <2>2, <2>3
  <2> QED  BY <1>0, <1>1, <2>1, <2>2, <2>4, <2>5, <2>6, FlowStep
<1>2. CASE ResolvePlacement(g)
  BY <1>1, <1>2 DEF ResolvePlacement
<1>3. CASE Fails(g) /\ flow[g] \notin Ended
  BY <1>0, <1>1, <1>3 DEF Fails, Flows, Ended
<1>4. CASE EnsureClonedNICsConnected(g)
  BY <1>1, <1>4 DEF EnsureClonedNICsConnected
<1>5. ASSUME NEW m \in Machines, m.power # "none", m.disk = {g}, guest' = [guest EXCEPT ![g] = m],
             NEW at \in Flows, FlowTo(g, at), UNCHANGED <<disks, uses>>, flow[g] \notin Ended,
             at \in {"failed", "partial"} \/ (at = "connectNICs" /\ m.grown /\ m.booted)
               \/ (at = "power" /\ m.grown) \/ (at = "ok" /\ m.grown /\ m.booted)
      PROVE  VSphereInv' /\ [Promise!Next]_PromiseVars
  <2>1. flow' = [flow EXCEPT ![g] = at] /\ at \notin {"place", "copy", "extend", "register", "clone"}
    BY <1>5 DEF FlowTo
  <2> QED  BY <1>0, <1>5, <2>1, FlowStep
<1>6. CASE CloneTask(g)
  <2>0. flow[g] = "clone" /\ flow[g] \notin Ended
    BY <1>6 DEF CloneTask, Ended
  <2>1. CASE Fails(g)
    BY <1>3, <2>0, <2>1
  <2>2. CASE guest' = [guest EXCEPT ![g] = Running({g}, TRUE)]
             /\ (FlowTo(g, "connectNICs") \/ FlowTo(g, "failed")) /\ UNCHANGED <<disks, uses>>
    <3>1. Running({g}, TRUE) \in Machines /\ Running({g}, TRUE).power # "none" /\ Running({g}, TRUE).disk = {g}
          /\ Running({g}, TRUE).grown /\ Running({g}, TRUE).booted
      BY DEF Running, Machines
    <3>2. {"connectNICs", "failed"} \subseteq Flows
      BY DEF Flows
    <3> QED  BY <1>5, <2>0, <2>2, <3>1, <3>2
  <2>3. CASE guest' = [guest EXCEPT ![g] = [Running({g}, TRUE) EXCEPT !.power = "off", !.booted = FALSE]]
             /\ FlowTo(g, "failed") /\ UNCHANGED <<disks, uses>>
    <3> DEFINE off == [Running({g}, TRUE) EXCEPT !.power = "off", !.booted = FALSE]
    <3>1. off \in Machines /\ off.power # "none" /\ off.disk = {g}
      BY DEF Running, Machines
    <3>2. "failed" \in Flows
      BY DEF Flows
    <3>3. guest' = [guest EXCEPT ![g] = off]
      BY <2>3
    <3> HIDE DEF off
    <3> QED  BY <1>5, <2>0, <2>3, <3>1, <3>2, <3>3
  <2> QED  BY <1>6, <2>1, <2>2, <2>3 DEF CloneTask
<1>7. CASE CreateVM(g)
  <2>0. flow[g] = "register" /\ flow[g] \notin Ended
    BY <1>7 DEF CreateVM, Ended
  <2>1. CASE Fails(g)
    BY <1>3, <2>0, <2>1
  <2>2. CASE ~Fails(g)
    <3> DEFINE made == [power |-> "off", disk |-> File(g).of, grown |-> File(g).grown, booted |-> FALSE]
    <3>1. guest' = [guest EXCEPT ![g] = made] /\ UNCHANGED <<disks, uses>>
          /\ (FlowTo(g, "power") \/ FlowTo(g, "failed"))
      BY <1>7, <2>2 DEF CreateVM
    <3>2. File(g).of = {g} /\ File(g).grown /\ File(g).grown \in BOOLEAN
      BY <1>0, <2>0 DEF GuestInv, File
    <3>3. made \in Machines /\ made.power # "none" /\ made.disk = {g} /\ made.grown
      BY <3>2 DEF Machines
    <3>4. {"power", "failed"} \subseteq Flows
      BY DEF Flows
    <3> HIDE DEF made
    <3> QED  BY <1>5, <2>0, <3>1, <3>3, <3>4
  <2> QED  BY <2>1, <2>2
<1>8. CASE PowerOnCreated(g)
  <2>0. flow[g] = "power" /\ flow[g] \notin Ended /\ UNCHANGED <<disks, uses>>
    BY <1>8 DEF PowerOnCreated, Ended
  <2>1. CASE UNCHANGED guest /\ FlowTo(g, "partial")
    BY <1>1, <2>0, <2>1
  <2>2. CASE guest' = Powered(g) /\ (FlowTo(g, "ok") \/ FlowTo(g, "partial"))
    <3> DEFINE on == [guest[g] EXCEPT !.power = "on", !.booted = TRUE]
    <3>1. guest' = [guest EXCEPT ![g] = on]
      BY <1>0, <2>2 DEF Powered
    <3>2. on \in Machines /\ on.power # "none" /\ on.disk = {g} /\ on.grown /\ on.booted
      BY <1>0, <2>0 DEF Machines, GuestInv
    <3>3. {"ok", "partial"} \subseteq Flows
      BY DEF Flows
    <3> HIDE DEF on
    <3> QED  BY <1>5, <2>0, <2>2, <3>1, <3>2, <3>3
  <2> QED  BY <1>8, <2>1, <2>2 DEF PowerOnCreated
<1> QED  BY <1>2, <1>3, <1>4, <1>6, <1>7, <1>8

\* A copy goes into an empty directory, and only the call that made it has it grown.
LEMMA DiskSteps ==
  ASSUME VSphereInv, NEW g \in Guests, CopyVirtualDisk(g) \/ ExtendVirtualDisk(g)
  PROVE  VSphereInv' /\ [Promise!Next]_PromiseVars
<1>0. /\ guest \in [Guests -> Machines] /\ flow \in [Guests -> Flows] /\ flow[g] \notin Ended
      /\ disks \in [GuestNames -> [of : SUBSET Guests, grown : BOOLEAN]]
      /\ \A h \in Guests : GuestName(h) \in GuestNames /\ GuestInv(h)
      /\ VSphereTypeOK
  BY VSphereTyped DEF VSphereInv, CopyVirtualDisk, ExtendVirtualDisk, Ended
<1>1. CASE Fails(g)
  BY <1>0, <1>1, MachineRequests
<1>2. ASSUME NEW at \in {"extend", "register", "failed"}, FlowTo(g, at), UNCHANGED <<guest, uses>>,
             NEW file \in [of : SUBSET Guests, grown : BOOLEAN], disks' = [disks EXCEPT ![GuestName(g)] = file],
             \A h \in Guests : GuestName(h) = GuestName(g) /\ File(h).of = {h} => File(h).of = file.of /\ file.grown,
             ~Exists(g), at \in {"extend", "register"} => file.of = {g}, at = "register" => file.grown
      PROVE  VSphereInv' /\ [Promise!Next]_PromiseVars
  <2>1. /\ flow'[g] = at /\ flow' \in [Guests -> Flows] /\ guest' = guest
        /\ \A h \in Guests : h # g => flow'[h] = flow[h]
    BY <1>0, <1>2 DEF FlowTo, Flows
  <2>2. /\ disks' \in [GuestNames -> [of : SUBSET Guests, grown : BOOLEAN]] /\ File(g)' = file
        /\ \A h \in Guests : File(h)' = IF GuestName(h) = GuestName(g) THEN file ELSE File(h)
    BY <1>0, <1>2 DEF File
  <2>3. VSphereTypeOK'
    BY <1>0, <1>2, <2>1, <2>2 DEF VSphereTypeOK, Flows
  <2>4. GuestInv(g)'
    BY <1>0, <1>2, <2>1, <2>2 DEF GuestInv, Exists
  <2>5. \A h \in Guests : h # g => GuestInv(h)'
    <3> SUFFICES ASSUME NEW h \in Guests, h # g PROVE GuestInv(h)'
      OBVIOUS
    <3>1. flow'[h] = flow[h] /\ guest'[h] = guest[h] /\ GuestInv(h) /\ (Exists(h)' <=> Exists(h))
      BY <1>0, <2>1 DEF Exists
    <3>2. flow[h] \in {"extend", "register"} => File(h)'.of = {h}
      BY <1>2, <2>2, <3>1 DEF GuestInv
    <3>3. flow[h] = "register" => File(h)'.grown
      BY <1>2, <2>2, <3>1 DEF GuestInv
    <3> QED  BY <3>1, <3>2, <3>3 DEF GuestInv
  <2>6. VSphereInv'
    BY <2>3, <2>4, <2>5 DEF VSphereInv
  <2> QED  BY <1>0, <1>2, <2>1, <2>6, PromiseStep
<1>3. CASE CopyVirtualDisk(g) /\ ~Fails(g)
  <2> DEFINE file == [of |-> File(g).of \cup {g}, grown |-> FALSE]
  <2>1. /\ File(g) = NoDisk /\ disks' = [disks EXCEPT ![GuestName(g)] = file] /\ flow[g] = "copy"
        /\ (FlowTo(g, "extend") \/ FlowTo(g, "failed")) /\ UNCHANGED <<guest, uses>>
    BY <1>3 DEF CopyVirtualDisk, Overwrites
  <2>2. file \in [of : SUBSET Guests, grown : BOOLEAN] /\ file.of = {g}
    BY <2>1 DEF NoDisk
  <2>3. \A h \in Guests : GuestName(h) = GuestName(g) => File(h).of = {}
    BY <2>1 DEF File, NoDisk
  <2>4. ~Exists(g)
    BY <1>0, <2>1 DEF GuestInv
  <2> HIDE DEF file
  <2>5. \A h \in Guests : ~(GuestName(h) = GuestName(g) /\ File(h).of = {h})
    BY <2>3
  <2> QED  BY <1>2, <2>1, <2>2, <2>4, <2>5
<1>4. CASE ExtendVirtualDisk(g) /\ ~Fails(g)
  <2> DEFINE file == [File(g) EXCEPT !.grown = TRUE]
  <2>1. /\ disks' = [disks EXCEPT ![GuestName(g)].grown = TRUE] /\ flow[g] = "extend"
        /\ (FlowTo(g, "register") \/ FlowTo(g, "failed")) /\ UNCHANGED <<guest, uses>>
    BY <1>4 DEF ExtendVirtualDisk
  <2>2. File(g) \in [of : SUBSET Guests, grown : BOOLEAN] /\ File(g).of = {g} /\ ~Exists(g)
    BY <1>0, <2>1 DEF File, GuestInv
  <2>3. disks' = [disks EXCEPT ![GuestName(g)] = file]
    BY <1>0, <2>1 DEF File
  <2>4. file \in [of : SUBSET Guests, grown : BOOLEAN] /\ file.of = {g} /\ file.grown
    BY <2>2
  <2>5. \A h \in Guests : GuestName(h) = GuestName(g) => File(h).of = {g}
    BY <2>2 DEF File
  <2> HIDE DEF file
  <2> QED  BY <1>2, <2>1, <2>2, <2>3, <2>4, <2>5
<1> QED  BY <1>1, <1>3, <1>4

\* Users work on machines of calls that have returned, and destroy their own.
LEMMA UseSteps ==
  ASSUME VSphereInv, NEW g \in Guests,
         PowerOnGuest(g) \/ PowerOffGuest(g) \/ SuspendGuest(g) \/ DestroyGuest(g)
  PROVE  VSphereInv' /\ [Promise!Next]_PromiseVars
<1>0. /\ guest \in [Guests -> Machines] /\ guest[g] \in Machines /\ flow \in [Guests -> Flows]
      /\ disks \in [GuestNames -> [of : SUBSET Guests, grown : BOOLEAN]]
      /\ \A h \in Guests : GuestName(h) \in GuestNames /\ GuestInv(h)
      /\ VSphereTypeOK /\ NoGuest \in Machines /\ NoDisk \in [of : SUBSET Guests, grown : BOOLEAN]
  BY VSphereTyped DEF VSphereInv
<1>1. /\ UNCHANGED flow /\ flow[g] \in {"ok", "partial"} /\ flow[g] \in Flows /\ flow[g] \in Ended /\ Exists(g) /\ uses' \in 0..MaxUses
  <2>1. uses \in 0..MaxUses /\ MaxUses \in Nat /\ uses < MaxUses /\ uses' = uses + 1
    BY VSphereTyped DEF VSphereInv, PowerOnGuest, PowerOffGuest, SuspendGuest, DestroyGuest, Use
  <2> QED  BY <1>0, <2>1 DEF PowerOnGuest, PowerOffGuest, SuspendGuest, DestroyGuest, Use, Ended
<1>2. ASSUME NEW m \in Machines, guest' = [guest EXCEPT ![g] = m], UNCHANGED disks,
             m.power # "none", m.disk = guest[g].disk, m.grown = guest[g].grown, m.booted \/ m.booted = guest[g].booted
      PROVE  VSphereInv' /\ [Promise!Next]_PromiseVars
  <2>1. PICK at \in Flows : at = flow[g]
    BY <1>1
  <2>2. flow' = [flow EXCEPT ![g] = at] /\ at \in {"ok", "partial"}
    BY <1>0, <1>1, <2>1
  <2>3. m.disk = {g} /\ (at = "ok" => m.grown /\ m.booted)
    BY <1>0, <1>1, <1>2, <2>1 DEF GuestInv
  <2> QED  BY <1>1, <1>2, <2>1, <2>2, <2>3, FlowStep
<1>3. ASSUME NEW state \in {"on", "off", "paused"}, Power(g, state), UNCHANGED disks
      PROVE  VSphereInv' /\ [Promise!Next]_PromiseVars
  <2> DEFINE m == [guest[g] EXCEPT !.power = state]
  <2>1. guest' = [guest EXCEPT ![g] = m] /\ m \in Machines /\ m.power # "none" /\ m.disk = guest[g].disk
        /\ m.grown = guest[g].grown /\ m.booted = guest[g].booted
    BY <1>0, <1>3 DEF Power, Machines
  <2> HIDE DEF m
  <2> QED  BY <1>2, <1>3, <2>1
<1>4. CASE PowerOnGuest(g)
  <2> DEFINE m == [guest[g] EXCEPT !.power = "on", !.booted = TRUE]
  <2>1. guest' = [guest EXCEPT ![g] = m] /\ m \in Machines /\ m.power # "none" /\ m.disk = guest[g].disk
        /\ m.grown = guest[g].grown /\ m.booted /\ UNCHANGED disks
    BY <1>0, <1>4 DEF PowerOnGuest, Powered, Machines
  <2> HIDE DEF m
  <2> QED  BY <1>2, <2>1
<1>5. CASE PowerOffGuest(g) \/ SuspendGuest(g)
  BY <1>3, <1>5 DEF PowerOffGuest, SuspendGuest
<1>6. CASE DestroyGuest(g)
  <2>1. CASE Power(g, "off") /\ UNCHANGED disks
    BY <1>3, <2>1
  <2>2. CASE /\ guest' = [guest EXCEPT ![g] = NoGuest]
             /\ disks' = [n \in GuestNames |-> IF g \in disks[n].of THEN NoDisk ELSE disks[n]]
    <3>1. /\ guest'[g] = NoGuest /\ guest' \in [Guests -> Machines] /\ ~Exists(g)'
          /\ \A h \in Guests : h # g => guest'[h] = guest[h]
      BY <1>0, <2>2 DEF Exists, NoGuest
    <3>2. /\ disks' \in [GuestNames -> [of : SUBSET Guests, grown : BOOLEAN]]
          /\ \A h \in Guests : File(h)' = IF g \in File(h).of THEN NoDisk ELSE File(h)
      BY <1>0, <2>2 DEF File
    <3>3. VSphereTypeOK'
      BY <1>0, <1>1, <3>1, <3>2 DEF VSphereTypeOK, Machines
    <3>4. GuestInv(g)'
      BY <1>1, <3>1 DEF GuestInv
    <3>5. \A h \in Guests : h # g => GuestInv(h)'
      <4> SUFFICES ASSUME NEW h \in Guests, h # g PROVE GuestInv(h)'
        OBVIOUS
      <4>1. flow'[h] = flow[h] /\ guest'[h] = guest[h] /\ GuestInv(h) /\ (Exists(h)' <=> Exists(h))
        BY <1>0, <1>1, <3>1 DEF Exists
      <4>2. flow[h] \in {"extend", "register"} => File(h)' = File(h)
        BY <3>2, <4>1 DEF GuestInv
      <4> QED  BY <4>1, <4>2 DEF GuestInv
    <3>6. VSphereInv'
      BY <3>3, <3>4, <3>5 DEF VSphereInv
    <3> QED  BY <1>1, <3>1, <3>6, PromiseStep
  <2> QED  BY <1>6, <2>1, <2>2 DEF DestroyGuest
<1> QED  BY <1>4, <1>5, <1>6

LEMMA VSphereStarts ==
  ASSUME VSphereInit
  PROVE  VSphereInv /\ Promise!Init
<1>1. \A g \in Guests : flow[g] = "place" /\ guest[g] = NoGuest /\ NoGuest.power = "none" /\ ~Exists(g)
  BY DEF VSphereInit, NoGuest, Exists
<1>2. VSphereTypeOK
  <2>1. uses \in 0..MaxUses
    BY VSphereAssumption DEF VSphereInit
  <2> QED  BY <2>1 DEF VSphereInit, VSphereTypeOK, NoGuest, NoDisk
<1>3. \A g \in Guests : GuestInv(g)
  BY <1>1 DEF GuestInv
<1>4. Promise!Init
  BY <1>1 DEF Promise!Init, GuestStage
<1> QED  BY <1>2, <1>3, <1>4 DEF VSphereInv

LEMMA VSphereSteps ==
  ASSUME VSphereInv, [VSphereNext]_vsphereVars
  PROVE  VSphereInv' /\ [Promise!Next]_PromiseVars
<1>1. CASE UNCHANGED vsphereVars
  <2>1. UNCHANGED <<guest, disks, flow, uses>>
    BY <1>1 DEF vsphereVars
  <2> QED  BY <2>1 DEF VSphereInv, VSphereTypeOK, GuestInv, Exists, File, PromiseVars, Said, GuestStage
<1>2. CASE VSphereNext
  <2>1. PICK g \in Guests :
          \/ ResolvePlacement(g) \/ CloneTask(g) \/ EnsureClonedNICsConnected(g)
          \/ CreateVM(g) \/ PowerOnCreated(g)
          \/ CopyVirtualDisk(g) \/ ExtendVirtualDisk(g)
          \/ PowerOnGuest(g) \/ PowerOffGuest(g) \/ SuspendGuest(g) \/ DestroyGuest(g)
    BY <1>2 DEF VSphereNext
  <2> QED  BY <2>1, MachineRequests, DiskSteps, UseSteps
<1> QED  BY <1>1, <1>2

\* The inductive invariant of the VMware provider.
THEOREM VSphereInvariant == VSphereSpec => []VSphereInv
<1>1. VSphereInit => VSphereInv
  BY VSphereStarts
<1>2. VSphereInv /\ [VSphereNext]_vsphereVars => VSphereInv'
  BY VSphereSteps
<1> QED  BY <1>1, <1>2, PTL DEF VSphereSpec

\* Every variable of the VMware provider has its type.
THEOREM VSphereTypes == VSphereSpec => []VSphereTypeOK
<1>1. VSphereInv => VSphereTypeOK
  BY DEF VSphereInv
<1> QED  BY <1>1, VSphereInvariant, PTL

\* DeployVM keeps its word on vCenter and on a standalone host: the VMware provider
\* implements the contract of the deployment service.
THEOREM VSphereImplements == VSphereSpec => VSphereKeepsContract
<1>1. VSphereInit => Promise!Init
  BY VSphereStarts
<1>2. VSphereInv /\ [VSphereNext]_vsphereVars => [Promise!Next]_PromiseVars
  BY VSphereSteps
<1>3. [Promise!Next]_PromiseVars =>
        [Promise!Next]_<<[g \in Guests |-> IF flow[g] \in {"ok", "partial", "failed"} THEN flow[g] ELSE "none"],
                         [g \in Guests |-> GuestStage(g)]>>
  BY DEF PromiseVars, Said, Ended
<1> QED  BY <1>1, <1>2, <1>3, VSphereInvariant, PTL DEF VSphereSpec, VSphereKeepsContract, Promise!Spec

------------------------------------------------------------------------------
(* The sizes of a VM's disks, summed *)

Summed(d, S) == MapThenSumSet(LAMBDA b : d[b], S)
\* One step of the sum: some element's value and the sum of the others.
Chosen(s) == CHOOSE x \in s : TRUE
SumOf(d, f, s) == IF s = {} THEN 0 ELSE d[Chosen(s)] + f[s \ {Chosen(s)}]
UpTo(S, n) == {s \in SUBSET S : Cardinality(s) <= n}
IsSum(d, f, D) == f \in [D -> Nat] /\ \A s \in D : f[s] = SumOf(d, f, s)

LEMMA SummedIs ==
  ASSUME NEW d, NEW S
  PROVE  Summed(d, S) = (CHOOSE f : f = [s \in SUBSET S |-> SumOf(d, f, s)])[S]
BY DEF Summed, MapThenSumSet, MapThenFoldSet, SumOf, Chosen

LEMMA OneLess ==
  ASSUME NEW S, IsFiniteSet(S), NEW s \in SUBSET S, s # {}
  PROVE  /\ Chosen(s) \in s /\ s \ {Chosen(s)} \in SUBSET S
         /\ Cardinality(s) \in Nat /\ Cardinality(s \ {Chosen(s)}) = Cardinality(s) - 1
<1>1. Chosen(s) \in s
  BY DEF Chosen
<1>2. IsFiniteSet(s)
  BY FS_Subset
<1>3. Cardinality(s) \in Nat
  BY <1>2, FS_CardinalityType
<1>4. Cardinality(s \ {Chosen(s)}) = Cardinality(s) - 1
  BY <1>1, <1>2, FS_RemoveElement
<1> QED  BY <1>1, <1>3, <1>4

\* The sum can be built from the sets of few elements to those of many.
LEMMA SumsExist ==
  ASSUME NEW S, IsFiniteSet(S), NEW d, \A x \in S : d[x] \in Nat
  PROVE  \A n \in Nat : \E f : IsSum(d, f, UpTo(S, n))
<1> DEFINE Has(n) == \E f : IsSum(d, f, UpTo(S, n))
           None == {n \in Nat : ~Has(n)}
<1>0. \A s \in SUBSET S : Cardinality(s) \in Nat /\ (Cardinality(s) = 0 <=> s = {})
  <2> TAKE s \in SUBSET S
  <2>1. IsFiniteSet(s)
    BY FS_Subset
  <2> QED  BY <2>1, FS_CardinalityType, FS_EmptySet
<1>1. Has(0)
  <2> DEFINE f == [s \in UpTo(S, 0) |-> 0]
  <2>1. \A s \in UpTo(S, 0) : s = {}
    BY <1>0 DEF UpTo
  <2>2. IsSum(d, f, UpTo(S, 0))
    BY <2>1 DEF IsSum, SumOf
  <2> QED  BY <2>2
<1>2. ASSUME NEW n \in Nat, Has(n) PROVE Has(n + 1)
  <2>1. PICK f : IsSum(d, f, UpTo(S, n))
    BY <1>2
  <2> DEFINE g == [s \in UpTo(S, n + 1) |-> SumOf(d, f, s)]
  <2>2. ASSUME NEW s \in UpTo(S, n + 1), s # {}
        PROVE  /\ s \ {Chosen(s)} \in UpTo(S, n) /\ s \ {Chosen(s)} \in UpTo(S, n + 1)
               /\ Chosen(s) \in S
    BY <2>2, OneLess DEF UpTo
  <2>3. \A s \in UpTo(S, n + 1) : SumOf(d, f, s) \in Nat
    <3> SUFFICES ASSUME NEW s \in UpTo(S, n + 1), s # {} PROVE SumOf(d, f, s) \in Nat
      BY DEF SumOf
    <3>1. d[Chosen(s)] \in Nat /\ f[s \ {Chosen(s)}] \in Nat
      BY <2>1, <2>2 DEF IsSum
    <3> QED  BY <3>1 DEF SumOf
  <2>4. \A s \in UpTo(S, n) : s \in UpTo(S, n + 1) /\ g[s] = f[s]
    BY <2>1, <1>0 DEF UpTo, IsSum
  <2>5. \A s \in UpTo(S, n + 1) : SumOf(d, g, s) = SumOf(d, f, s)
    BY <2>2, <2>4 DEF SumOf
  <2>6. IsSum(d, g, UpTo(S, n + 1))
    BY <2>3, <2>5 DEF IsSum
  <2> QED  BY <2>6
<1> HIDE DEF Has
<1>3. SUFFICES ASSUME None # {} PROVE FALSE
  BY DEF Has
<1>4. PICK n \in None : \A m \in None : <<m, n>> \notin OpToRel(<, Nat)
  BY <1>3, NatLessThanWellFounded, WFMin, None \subseteq Nat
<1>5. \A m \in None : ~(m < n)
  BY <1>4 DEF OpToRel
<1>6. n # 0
  BY <1>1
<1>7. n - 1 \in Nat /\ n - 1 \notin None
  BY <1>5, <1>6
<1>8. Has(n)
  BY <1>2, <1>7
<1> QED  BY <1>8

\* A sum of natural numbers is one.
LEMMA SumIsNat ==
  ASSUME NEW S, IsFiniteSet(S), NEW d, \A x \in S : d[x] \in Nat
  PROVE  Summed(d, S) \in Nat
<1> DEFINE n == Cardinality(S)
<1>1. n \in Nat
  BY FS_CardinalityType
<1>2. UpTo(S, n) = SUBSET S
  BY FS_Subset DEF UpTo
<1> HIDE DEF n
<1>3. PICK f : IsSum(d, f, SUBSET S)
  <2>1. \A m \in Nat : \E f : IsSum(d, f, UpTo(S, m))
    BY SumsExist
  <2>2. \E f : IsSum(d, f, UpTo(S, n))
    BY <1>1, <2>1
  <2> QED  BY <1>2, <2>2
<1>4. f = [s \in SUBSET S |-> SumOf(d, f, s)]
  BY <1>3 DEF IsSum
<1> DEFINE h == CHOOSE g : g = [s \in SUBSET S |-> SumOf(d, g, s)]
<1>5. h = [s \in SUBSET S |-> SumOf(d, h, s)]
  BY <1>4
<1>6. Summed(d, S) = h[S]
  BY SummedIs
<1> HIDE DEF h
<1> DEFINE Wrong == {s \in SUBSET S : h[s] \notin Nat}
<1>7. SUFFICES ASSUME Wrong # {} PROVE FALSE
  BY <1>6
<1>8. PICK s \in Wrong : \A t \in Wrong : <<t, s>> \notin StrictSubsetOrdering(S)
  <2>1. IsWellFoundedOn(StrictSubsetOrdering(S), SUBSET S)
    BY FS_StrictSubsetOrderingWellFounded, FS_FiniteSubsetsOfFinite
  <2>2. Wrong \subseteq SUBSET S
    OBVIOUS
  <2> HIDE DEF Wrong
  <2> QED  BY <1>7, <2>1, <2>2, WFMin
<1>9. h[s] = SumOf(d, h, s)
  BY <1>5
<1>10. s # {}
  BY <1>9 DEF SumOf
<1> DEFINE r == s \ {Chosen(s)}
<1>11. r \in SUBSET S /\ r # s /\ Chosen(s) \in S
  BY <1>10, OneLess
<1>12. <<r, s>> \in StrictSubsetOrdering(S)
  BY <1>11 DEF StrictSubsetOrdering
<1>13. h[r] \in Nat
  BY <1>8, <1>11, <1>12
<1> QED  BY <1>9, <1>10, <1>11, <1>13 DEF SumOf

------------------------------------------------------------------------------
(* Hardware and snapshots of a VM *)

\* Requests that changed the VM and have not made up for it in the row.
Busy == {"resized", "expanded", "attached", "status", "reverted"}

\* The row is right, or something is about to correct it.
SizesFollow ==
  \/ sizes = Reported \/ owed \/ timer
  \/ \E p \in Passes : pass[p].at # "none"
  \/ \E u \in Visitors : visit[u].at \in Busy

\* Whose snapshots there are, and what those who revert or delete one have read.
KeptTraced ==
  /\ \A s \in kept : /\ visit[s.by].at \in {"taken", "listed", "done"}
                     /\ visit[s.by].snap = [by |-> s.by, title |-> s.title]
  /\ \A s \in kept, r \in kept : s.by = r.by => s = r
ListedTraced ==
  \A s \in listed : visit[s.by].at = "listed" /\ visit[s.by].snap = s
RequestsTraced ==
  \A u \in Visitors :
       /\ visit[u].at \in {"take", "taken"} => visit[u].snap \in SnapshotRows /\ visit[u].snap.by = u
       /\ visit[u].at \in {"revert", "remove", "removed"} =>
            /\ visit[u].snap \in SnapshotRows /\ visit[visit[u].snap.by].snap = visit[u].snap
            /\ visit[visit[u].snap.by].at = "listed"
       /\ visit[u].at = "removed" => \A s \in kept : s.by # visit[u].snap.by
SnapshotsTraced == KeptTraced /\ ListedTraced /\ RequestsTraced

HardwareInv ==
  /\ HardwareTypeOK /\ SizesFollow /\ SnapshotsTraced /\ SnapshotsStayListed
  /\ \A u \in Visitors : visit[u].at = "resize" => visit[u].size \in 1..MaxSize

LEMMA ReportedIs ==
  Reported = [cpu |-> cpu, disk |-> IF kind = "vsphere" THEN Summed(disk, Used) ELSE disk[0]]
BY DEF Reported, Summed

LEMMA ReportedType ==
  ASSUME HardwareTypeOK
  PROVE  Reported \in Resources
<1>1. Reported = [cpu |-> cpu, disk |-> IF kind = "vsphere" THEN Summed(disk, Used) ELSE disk[0]]
  BY ReportedIs
<1>2. Used \subseteq Bays /\ IsFiniteSet(Used) /\ \A b \in Bays : disk[b] \in Nat
  BY HardwareAssumption, FS_Subset DEF HardwareTypeOK, Used
<1>3. Summed(disk, Used) \in Nat
  BY <1>2, SumIsNat
<1> QED  BY <1>1, <1>2, <1>3, HardwareAssumption DEF HardwareTypeOK, Resources

LEMMA ReportedStays ==
  ASSUME UNCHANGED <<kind, cpu, disk>>
  PROVE  Reported' = Reported
<1>1. Reported = [cpu |-> cpu, disk |-> IF kind = "vsphere" THEN Summed(disk, Used) ELSE disk[0]]
  BY ReportedIs
<1>2. (Reported = [cpu |-> cpu, disk |-> IF kind = "vsphere" THEN Summed(disk, Used) ELSE disk[0]])'
  BY ReportedIs, PTL
<1>3. Used' = Used
  BY DEF Used
<1> HIDE DEF Used
<1> QED  BY <1>1, <1>2, <1>3

LEMMA KeysAre ==
  ASSUME HardwareTypeOK, NEW b \in Used
  PROVE  KeyOf(b) \in Keys
<1> DEFINE Before == {c \in Used : c < b}
<1>1. Used \subseteq Bays /\ b \in Bays /\ Before \subseteq Bays \ {b} /\ Bays \subseteq Nat /\ IsFiniteSet(Bays)
  BY HardwareAssumption DEF Used
<1> HIDE DEF Before
<1>2. Cardinality(Bays \ {b}) = Cardinality(Bays) - 1 /\ IsFiniteSet(Bays \ {b})
  BY <1>1, FS_RemoveElement
<1>3. Cardinality(Before) <= Cardinality(Bays \ {b}) /\ IsFiniteSet(Before)
  BY <1>1, <1>2, FS_Subset
<1>4. Cardinality(Before) \in Nat /\ Cardinality(Bays) \in Nat
  BY <1>1, <1>3, FS_CardinalityType
<1> QED  BY <1>1, <1>2, <1>3, <1>4 DEF KeyOf, Keys, Before

\* A request that changes nothing at the hypervisor and nothing in the database.
LEMMA QuietStep ==
  ASSUME HardwareInv, NEW u \in Visitors, NEW v \in Visits, visit' = [visit EXCEPT ![u] = v],
         UNCHANGED <<kind, VM, Rows, Syncs>>, owed' = owed \/ owed' = TRUE,
         visit[u].at \notin {"taken", "listed", "done"}, v.at \notin {"taken", "listed", "removed"},
         visit[u].at \in Busy => v.at \in Busy \/ owed',
         v.at = "take" => v.snap \in SnapshotRows /\ v.snap.by = u,
         v.at \in {"revert", "remove"} => v.snap \in listed,
         v.at = "resize" => v.size \in 1..MaxSize
  PROVE  HardwareInv'
<1>0. UNCHANGED <<kind, cpu, disk, kept, sizes, listed, timer, pass>>
  BY DEF VM, Rows, Syncs
<1>1. /\ visit \in [Visitors -> Visits] /\ visit' \in [Visitors -> Visits]
      /\ visit'[u] = v /\ \A w \in Visitors : w # u => visit'[w] = visit[w]
      /\ kept \subseteq [by : Visitors, title : Titles, cpu : 1..MaxSize] /\ listed \subseteq SnapshotRows
  BY DEF HardwareInv, HardwareTypeOK
<1>2. HardwareTypeOK'
  BY <1>0, <1>1 DEF HardwareInv, HardwareTypeOK
<1>3. SizesFollow'
  <2>1. Reported' = Reported
    BY <1>0, ReportedStays
  <2> QED  BY <1>0, <1>1, <2>1 DEF HardwareInv, SizesFollow, HardwareTypeOK
<1>4. SnapshotsTraced'
  BY <1>0, <1>1 DEF HardwareInv, SnapshotsTraced, KeptTraced, ListedTraced, RequestsTraced, SnapshotRows
<1>5. SnapshotsStayListed'
  BY <1>0, <1>1 DEF HardwareInv, SnapshotsTraced, KeptTraced, ListedTraced, RequestsTraced, SnapshotsStayListed
<1> QED  BY <1>0, <1>1, <1>2, <1>3, <1>4, <1>5 DEF HardwareInv

\* A request that changes the VM, or does but loses its answer.
LEMMA ChangeStep ==
  ASSUME HardwareInv, NEW u \in Visitors, visit[u].at \in {"resize", "expand", "attach", "revert"},
         UNCHANGED <<kind, kept, Rows, Syncs>>,
         cpu' \in 1..MaxSize, disk' \in [Bays -> 0..MaxSize],
         NEW to \in Busy, Reports(u, to)
  PROVE  HardwareInv'
<1>0. UNCHANGED <<kind, kept, sizes, listed, timer, pass>>
  BY DEF Rows, Syncs
<1>1. visit \in [Visitors -> Visits] /\ visit[u] \in Visits
  BY DEF HardwareInv, HardwareTypeOK
<1>2. PICK at \in Busy \cup {"done"} :
        visit' = [visit EXCEPT ![u].at = at] /\ (at = "done" \/ UNCHANGED owed) /\ (at = "done" => owed' = TRUE)
  BY DEF Reports, VisitTo, Busy
<1>3. [visit[u] EXCEPT !.at = at] \in Visits /\ at \in {"resized", "expanded", "attached", "status", "reverted", "done"}
  BY <1>1, <1>2 DEF Visits, Busy
<1>4. /\ visit' \in [Visitors -> Visits]
      /\ visit'[u].at = at /\ \A w \in Visitors : w # u => visit'[w] = visit[w]
      /\ kept \subseteq [by : Visitors, title : Titles, cpu : 1..MaxSize] /\ listed \subseteq SnapshotRows
  BY <1>1, <1>2, <1>3 DEF HardwareInv, HardwareTypeOK, Visits
<1>5. owed' \in BOOLEAN
  BY <1>2 DEF HardwareInv, HardwareTypeOK, Busy
<1>6. HardwareTypeOK'
  BY <1>0, <1>4, <1>5 DEF HardwareInv, HardwareTypeOK
<1>7. SizesFollow'
  BY <1>2, <1>4 DEF SizesFollow
<1>8. SnapshotsTraced'
  BY <1>0, <1>3, <1>4 DEF HardwareInv, SnapshotsTraced, KeptTraced, ListedTraced, RequestsTraced, SnapshotRows
<1>9. SnapshotsStayListed'
  BY <1>0, <1>3, <1>4 DEF HardwareInv, SnapshotsTraced, KeptTraced, ListedTraced, RequestsTraced, SnapshotsStayListed
<1> QED  BY <1>3, <1>4, <1>6, <1>7, <1>8, <1>9 DEF HardwareInv

\* A request that writes the row, or asks for a sync, and is done.
LEMMA WriteStep ==
  ASSUME HardwareInv, NEW u \in Visitors, visit[u].at \in Busy, VisitTo(u, "done"),
         UNCHANGED <<kind, VM, listed>>, sizes' \in Resources,
         \/ ScheduleSyncAll /\ UNCHANGED owed
         \/ owed' = (sizes' # Reported) /\ UNCHANGED Syncs
  PROVE  HardwareInv'
<1>0. UNCHANGED <<kind, cpu, disk, kept, listed, pass>> /\ timer' \in BOOLEAN /\ owed' \in BOOLEAN
  BY DEF VM, Syncs, ScheduleSyncAll, HardwareInv, HardwareTypeOK
<1>1. visit \in [Visitors -> Visits] /\ visit[u] \in Visits /\ visit' = [visit EXCEPT ![u].at = "done"]
  BY DEF HardwareInv, HardwareTypeOK, VisitTo
<1>2. [visit[u] EXCEPT !.at = "done"] \in Visits
  BY <1>1 DEF Visits
<1>3. /\ visit' \in [Visitors -> Visits] /\ visit[u].at \notin {"taken", "listed", "done"}
      /\ visit'[u].at = "done" /\ \A w \in Visitors : w # u => visit'[w] = visit[w]
      /\ kept \subseteq [by : Visitors, title : Titles, cpu : 1..MaxSize] /\ listed \subseteq SnapshotRows
  BY <1>1, <1>2 DEF HardwareInv, HardwareTypeOK, Visits, Busy
<1>4. HardwareTypeOK'
  BY <1>0, <1>3 DEF HardwareInv, HardwareTypeOK
<1>5. SizesFollow'
  <2>1. Reported' = Reported
    BY <1>0, ReportedStays
  <2> QED  BY <2>1 DEF SizesFollow, ScheduleSyncAll
<1>6. SnapshotsTraced'
  BY <1>0, <1>3 DEF HardwareInv, SnapshotsTraced, KeptTraced, ListedTraced, RequestsTraced, SnapshotRows
<1>7. SnapshotsStayListed'
  BY <1>0, <1>3 DEF HardwareInv, SnapshotsTraced, KeptTraced, ListedTraced, RequestsTraced, SnapshotsStayListed
<1> QED  BY <1>3, <1>4, <1>5, <1>6, <1>7 DEF HardwareInv

\* No request moves.
LEMMA OtherStep ==
  ASSUME HardwareInv, UNCHANGED <<kind, disk, listed, visit>>, cpu' \in 1..MaxSize,
         kept' \subseteq kept, sizes' \in Resources, timer' \in BOOLEAN, owed' \in BOOLEAN,
         pass' \in [Passes -> [at : {"none", "begun", "told"}, seen : Resources]], SizesFollow'
  PROVE  HardwareInv'
<1>1. HardwareTypeOK'
  BY DEF HardwareInv, HardwareTypeOK
<1>2. kept \subseteq [by : Visitors, title : Titles, cpu : 1..MaxSize] /\ listed \subseteq SnapshotRows
  BY DEF HardwareInv, HardwareTypeOK
<1>3. SnapshotsTraced'
  BY DEF HardwareInv, SnapshotsTraced, KeptTraced, ListedTraced, RequestsTraced
<1>4. SnapshotsStayListed'
  BY DEF HardwareInv, SnapshotsStayListed
<1> QED  BY <1>1, <1>3, <1>4 DEF HardwareInv

\* The row of a request whose place alone moves.
LEMMA MovedTo ==
  ASSUME HardwareTypeOK, NEW u \in Visitors, NEW at, VisitTo(u, at), [visit[u] EXCEPT !.at = at] \in Visits
  PROVE  /\ visit' \in [Visitors -> Visits] /\ visit'[u].at = at
         /\ visit'[u].snap = visit[u].snap /\ visit'[u].size = visit[u].size
         /\ \A w \in Visitors : w # u => visit'[w] = visit[w]
<1>1. visit \in [Visitors -> Visits] /\ visit[u] \in Visits /\ visit' = [visit EXCEPT ![u].at = at]
  BY DEF HardwareTypeOK, VisitTo
<1> QED  BY <1>1 DEF Visits

LEMMA MoveStep ==
  ASSUME HardwareInv, NEW u \in Visitors, VisitTo(u, "done"),
         UNCHANGED <<kind, VM, Rows, Syncs>>, owed' = owed \/ owed' = TRUE,
         visit[u].at \notin {"taken", "listed", "done"}, visit[u].at \in Busy => owed'
  PROVE  HardwareInv'
<1> DEFINE v == [visit[u] EXCEPT !.at = "done"]
<1>1. visit \in [Visitors -> Visits] /\ visit[u] \in Visits /\ visit' = [visit EXCEPT ![u].at = "done"]
  BY DEF HardwareInv, HardwareTypeOK, VisitTo
<1>2. v \in Visits /\ v.at = "done" /\ visit' = [visit EXCEPT ![u] = v]
  BY <1>1 DEF Visits
<1> HIDE DEF v
<1> QED  BY <1>2, QuietStep

\* Snapshots at the hypervisor and their rows.
LEMMA CreateStep ==
  ASSUME HardwareInv, NEW u \in Visitors, CreateSnapshot(u)
  PROVE  HardwareInv'
<1>0. visit[u].at = "take" /\ UNCHANGED <<kind, Rows, Syncs>>
  BY DEF CreateSnapshot, Stands
<1>1. CASE Declined(u)
  BY <1>0, <1>1, MoveStep DEF Declined, Busy
<1>2. CASE ~Declined(u)
  <2> DEFINE new == [by |-> u, title |-> visit[u].snap.title, cpu |-> cpu]
  <2>1. kept' = kept \cup {new} /\ UNCHANGED <<kind, cpu, disk, owed, sizes, listed, timer, pass>>
    BY <1>0, <1>2 DEF CreateSnapshot, Rows, Syncs
  <2>2. visit \in [Visitors -> Visits] /\ visit[u] \in Visits
        /\ visit[u].snap \in SnapshotRows /\ visit[u].snap.by = u /\ cpu \in 1..MaxSize
    BY <1>0 DEF HardwareInv, HardwareTypeOK, SnapshotsTraced, KeptTraced, ListedTraced, RequestsTraced
  <2>3. PICK at \in {"taken", "done"} : VisitTo(u, at)
    BY <1>2 DEF CreateSnapshot
  <2>4. [visit[u] EXCEPT !.at = at] \in Visits
    BY <2>2, <2>3 DEF Visits
  <2>5. /\ visit' \in [Visitors -> Visits] /\ visit'[u].at = at /\ visit'[u].snap = visit[u].snap
        /\ \A w \in Visitors : w # u => visit'[w] = visit[w]
    BY <2>3, <2>4, MovedTo DEF HardwareInv
  <2>6. /\ new \in [by : Visitors, title : Titles, cpu : 1..MaxSize]
        /\ new.by = u /\ visit[u].snap = [by |-> new.by, title |-> new.title]
    BY <2>2 DEF SnapshotRows
  <2>7. kept \subseteq [by : Visitors, title : Titles, cpu : 1..MaxSize] /\ listed \subseteq SnapshotRows
    BY DEF HardwareInv, HardwareTypeOK
  <2> HIDE DEF new
  <2>8. HardwareTypeOK'
    BY <2>1, <2>5, <2>6, <2>7 DEF HardwareInv, HardwareTypeOK
  <2>9. SizesFollow'
    <3>1. Reported' = Reported
      BY <2>1, ReportedStays
    <3> QED  BY <1>0, <2>1, <2>5, <3>1 DEF HardwareInv, SizesFollow, Busy
  <2>10. SnapshotsTraced'
    <3>1. \A s \in kept : s.by # u
      BY <1>0, <2>7 DEF HardwareInv, SnapshotsTraced, KeptTraced, ListedTraced, RequestsTraced
    <3>2. \A s \in listed : s.by # u
      BY <1>0, <2>7 DEF HardwareInv, SnapshotsTraced, KeptTraced, ListedTraced, RequestsTraced
    <3>3. \A w \in Visitors : visit[w].at \in {"revert", "remove", "removed"} =>
                               visit[w].snap.by # u /\ visit[w].snap.by \in Visitors /\ w # u
      BY <1>0 DEF HardwareInv, SnapshotsTraced, KeptTraced, ListedTraced, RequestsTraced, SnapshotRows
    <3>4. \A s \in kept' : s \in kept \/ s = new
      BY <2>1
    <3>5. \A s \in kept' : s.by \in Visitors
      BY <2>6, <2>7, <3>4
    <3>6. KeptTraced'
      BY <1>0, <2>3, <2>5, <2>6, <2>7, <3>1, <3>4, <3>5 DEF HardwareInv, SnapshotsTraced, KeptTraced, ListedTraced, RequestsTraced
    <3>7. ListedTraced'
      BY <2>1, <2>5, <2>7, <3>2 DEF HardwareInv, SnapshotsTraced, KeptTraced, ListedTraced, RequestsTraced, SnapshotRows
    <3>8. RequestsTraced'
      BY <1>0, <2>3, <2>5, <2>6, <3>3, <3>4 DEF HardwareInv, SnapshotsTraced, KeptTraced, ListedTraced, RequestsTraced
    <3> QED  BY <3>6, <3>7, <3>8 DEF SnapshotsTraced
  <2>11. SnapshotsStayListed'
    BY <1>0, <2>1, <2>3, <2>5, <2>6, <2>7 DEF HardwareInv, SnapshotsTraced, KeptTraced, ListedTraced, RequestsTraced, SnapshotsStayListed
  <2> QED  BY <2>3, <2>5, <2>8, <2>9, <2>10, <2>11 DEF HardwareInv
<1> QED  BY <1>1, <1>2

LEMMA InsertStep ==
  ASSUME HardwareInv, NEW u \in Visitors, InsertSnapshot(u)
  PROVE  HardwareInv'
<1>0. visit[u].at = "taken" /\ UNCHANGED <<kind, cpu, disk, kept, sizes, owed>>
  BY DEF InsertSnapshot, Stands, VM
<1>1. visit \in [Visitors -> Visits] /\ visit[u] \in Visits
      /\ visit[u].snap \in SnapshotRows /\ visit[u].snap.by = u
  BY <1>0 DEF HardwareInv, HardwareTypeOK, SnapshotsTraced, KeptTraced, ListedTraced, RequestsTraced
<1>2. PICK at \in {"listed", "done"} : VisitTo(u, at) /\ pass' = pass /\ (timer' = TRUE \/ timer' = timer)
        /\ (at = "listed" => listed' = listed \cup {visit[u].snap})
        /\ (at = "done" => listed' = listed)
  BY DEF InsertSnapshot, ScheduleSyncAll, Syncs
<1>3. [visit[u] EXCEPT !.at = at] \in Visits
  BY <1>1, <1>2 DEF Visits
<1>4. /\ visit' \in [Visitors -> Visits] /\ visit'[u].at = at /\ visit'[u].snap = visit[u].snap
      /\ \A w \in Visitors : w # u => visit'[w] = visit[w]
  BY <1>2, <1>3, MovedTo DEF HardwareInv
<1>5. kept \subseteq [by : Visitors, title : Titles, cpu : 1..MaxSize] /\ listed \subseteq SnapshotRows
      /\ listed' \subseteq SnapshotRows
  BY <1>1, <1>2 DEF HardwareInv, HardwareTypeOK
<1>6. HardwareTypeOK'
  BY <1>0, <1>2, <1>4, <1>5 DEF HardwareInv, HardwareTypeOK
<1>7. SizesFollow'
  <2>1. Reported' = Reported
    BY <1>0, ReportedStays
  <2> QED  BY <1>0, <1>2, <1>4, <2>1 DEF HardwareInv, SizesFollow, Busy
<1>8. SnapshotsTraced'
  BY <1>0, <1>1, <1>2, <1>4, <1>5 DEF HardwareInv, SnapshotsTraced, KeptTraced, ListedTraced, RequestsTraced, SnapshotRows
<1>9. SnapshotsStayListed'
  BY <1>0, <1>1, <1>2, <1>4, <1>5 DEF HardwareInv, SnapshotsTraced, KeptTraced, ListedTraced, RequestsTraced, SnapshotsStayListed
<1> QED  BY <1>2, <1>4, <1>6, <1>7, <1>8, <1>9 DEF HardwareInv

\* The snapshot found by the name on the row is the one the row was made for, if that
\* is still there.
LEMMA DeleteStep ==
  ASSUME HardwareInv, NEW u \in Visitors, DeleteSnapshot(u)
  PROVE  HardwareInv'
<1>0. visit[u].at = "remove" /\ UNCHANGED <<kind, Rows, Syncs>>
  BY DEF DeleteSnapshot, Stands
<1>1. CASE Declined(u)
  BY <1>0, <1>1, MoveStep DEF Declined, Busy
<1>2. CASE ~Declined(u)
  <2>1. PICK s \in Found(u) : /\ kept' = kept \ {s}
                              /\ VisitTo(u, "removed") \/ VisitTo(u, "done")
                              /\ UNCHANGED <<cpu, disk, owed>>
    BY <1>2 DEF DeleteSnapshot
  <2>2. visit \in [Visitors -> Visits] /\ visit[u] \in Visits /\ visit[u].snap \in SnapshotRows
        /\ visit[visit[u].snap.by].snap = visit[u].snap /\ visit[visit[u].snap.by].at = "listed"
        /\ kept \subseteq [by : Visitors, title : Titles, cpu : 1..MaxSize] /\ listed \subseteq SnapshotRows
    BY <1>0 DEF HardwareInv, HardwareTypeOK, SnapshotsTraced, KeptTraced, ListedTraced, RequestsTraced
  <2>3. \A r \in kept' : r \in kept /\ r.by # visit[u].snap.by
    <3> SUFFICES ASSUME NEW r \in kept, r # s, r.by = visit[u].snap.by PROVE FALSE
      BY <2>1
    <3>1. visit[r.by].snap = [by |-> r.by, title |-> r.title]
      BY DEF HardwareInv, SnapshotsTraced, KeptTraced, ListedTraced, RequestsTraced
    <3>2. r.title = visit[u].snap.title
      BY <2>2, <3>1
    <3> QED  BY <2>1, <3>2 DEF Found, Titled
  <2>4. PICK at \in {"removed", "done"} : VisitTo(u, at)
    BY <2>1
  <2>5. [visit[u] EXCEPT !.at = at] \in Visits
    BY <2>2, <2>4 DEF Visits
  <2>6. /\ visit' \in [Visitors -> Visits] /\ visit'[u].at = at /\ visit'[u].snap = visit[u].snap
        /\ \A w \in Visitors : w # u => visit'[w] = visit[w]
    BY <2>4, <2>5, MovedTo DEF HardwareInv
  <2>7. UNCHANGED <<kind, cpu, disk, owed, sizes, listed, timer, pass>>
    BY <1>0, <2>1 DEF Rows, Syncs
  <2>8. HardwareTypeOK'
    BY <2>2, <2>3, <2>6, <2>7 DEF HardwareInv, HardwareTypeOK
  <2>9. SizesFollow'
    <3>1. Reported' = Reported
      BY <2>7, ReportedStays
    <3> QED  BY <1>0, <2>6, <2>7, <3>1 DEF HardwareInv, SizesFollow, Busy
  <2>10. SnapshotsTraced'
    BY <1>0, <2>2, <2>3, <2>4, <2>6, <2>7 DEF HardwareInv, SnapshotsTraced, KeptTraced, ListedTraced, RequestsTraced, SnapshotRows
  <2>11. SnapshotsStayListed'
    BY <1>0, <2>2, <2>3, <2>4, <2>6, <2>7 DEF HardwareInv, SnapshotsTraced, KeptTraced, ListedTraced, RequestsTraced, SnapshotsStayListed
  <2> QED  BY <2>4, <2>6, <2>8, <2>9, <2>10, <2>11 DEF HardwareInv
<1> QED  BY <1>1, <1>2

LEMMA RemoveStep ==
  ASSUME HardwareInv, NEW u \in Visitors, RemoveSnapshot(u)
  PROVE  HardwareInv'
<1>0. visit[u].at = "removed" /\ UNCHANGED <<kind, cpu, disk, kept, sizes, owed, pass>> /\ VisitTo(u, "done")
      /\ (timer' = TRUE \/ timer' = timer) /\ listed' \in {listed, listed \ {visit[u].snap}}
      /\ \A s \in listed' : s \in listed
  BY DEF RemoveSnapshot, Stands, VM, ScheduleSyncAll, Syncs
<1>1. visit \in [Visitors -> Visits] /\ visit[u] \in Visits /\ visit[u].snap \in SnapshotRows
      /\ \A s \in kept : s.by # visit[u].snap.by
      /\ kept \subseteq [by : Visitors, title : Titles, cpu : 1..MaxSize] /\ listed \subseteq SnapshotRows
  BY <1>0 DEF HardwareInv, HardwareTypeOK, SnapshotsTraced, KeptTraced, ListedTraced, RequestsTraced
<1>2. [visit[u] EXCEPT !.at = "done"] \in Visits
  BY <1>1 DEF Visits
<1>3. /\ visit' \in [Visitors -> Visits] /\ visit'[u].at = "done" /\ visit'[u].snap = visit[u].snap
      /\ \A w \in Visitors : w # u => visit'[w] = visit[w]
  BY <1>0, <1>2, MovedTo DEF HardwareInv
<1>4. HardwareTypeOK'
  BY <1>0, <1>1, <1>3 DEF HardwareInv, HardwareTypeOK
<1>5. SizesFollow'
  <2>1. Reported' = Reported
    BY <1>0, ReportedStays
  <2> QED  BY <1>0, <1>3, <2>1 DEF HardwareInv, SizesFollow, Busy
<1>6. SnapshotsTraced'
  <2>1. \A s \in kept : s.by # u
    BY <1>0, <1>1 DEF HardwareInv, SnapshotsTraced, KeptTraced, ListedTraced, RequestsTraced
  <2>2. \A s \in listed : s.by # u
    BY <1>0, <1>1 DEF HardwareInv, SnapshotsTraced, KeptTraced, ListedTraced, RequestsTraced
  <2>3. \A w \in Visitors : visit[w].at \in {"revert", "remove", "removed"} => visit[w].snap.by # u
    BY <1>0 DEF HardwareInv, SnapshotsTraced, KeptTraced, ListedTraced, RequestsTraced
  <2>4. KeptTraced'
    BY <1>0, <1>1, <1>3, <2>1 DEF HardwareInv, SnapshotsTraced, KeptTraced, ListedTraced, RequestsTraced
  <2>5. ListedTraced'
    <3>0. \A s \in listed : s.by \in Visitors
      <4>1. \A s \in SnapshotRows : s.by \in Visitors
        BY DEF SnapshotRows
      <4>2. listed \subseteq SnapshotRows
        BY DEF HardwareInv, HardwareTypeOK
      <4> QED  BY <4>1, <4>2
    <3>1. \A s \in listed' : s \in listed /\ s.by \in Visitors /\ s.by # u
      BY <1>0, <2>2, <3>0
    <3>2. \A s \in listed' : visit'[s.by] = visit[s.by]
      BY <1>3, <3>1
    <3> QED  BY <3>1, <3>2 DEF HardwareInv, SnapshotsTraced, KeptTraced, ListedTraced, RequestsTraced
  <2>6. RequestsTraced'
    BY <1>0, <1>1, <1>3, <2>3 DEF HardwareInv, SnapshotsTraced, KeptTraced, ListedTraced, RequestsTraced, SnapshotRows
  <2> QED  BY <2>4, <2>5, <2>6 DEF SnapshotsTraced
<1>7. SnapshotsStayListed'
  <2> SUFFICES ASSUME NEW s \in kept, visit'[s.by].at = "listed"
               PROVE  visit'[s.by].snap \in listed'
    BY <1>0 DEF SnapshotsStayListed
  <2>1. s.by \in Visitors /\ s.by # u /\ visit'[s.by] = visit[s.by]
    BY <1>1, <1>3
  <2>2. visit[s.by].snap \in listed /\ visit[s.by].snap = [by |-> s.by, title |-> s.title]
    BY <2>1 DEF HardwareInv, SnapshotsTraced, KeptTraced, ListedTraced, RequestsTraced, SnapshotsStayListed
  <2>3. visit[s.by].snap # visit[u].snap
    BY <1>1, <2>2
  <2> QED  BY <1>0, <2>1, <2>2, <2>3
<1> QED  BY <1>3, <1>4, <1>5, <1>6, <1>7 DEF HardwareInv

LEMMA BeginStep ==
  ASSUME HardwareInv, NEW u \in Visitors, UNCHANGED <<kind, VM, Rows, Syncs, owed>>,
         NEW at, NEW v, Begin(u, at, v), [v EXCEPT !.at = at] \in Visits,
         [v EXCEPT !.at = at].at \notin {"taken", "listed", "removed"},
         [v EXCEPT !.at = at].at = "take" => v.snap \in SnapshotRows /\ v.snap.by = u,
         [v EXCEPT !.at = at].at \in {"revert", "remove"} => v.snap \in listed,
         [v EXCEPT !.at = at].at = "resize" => v.size \in 1..MaxSize,
         [v EXCEPT !.at = at].snap = v.snap, [v EXCEPT !.at = at].size = v.size
  PROVE  HardwareInv'
<1> DEFINE w == [v EXCEPT !.at = at]
<1>1. visit[u].at = "none" /\ visit' = [visit EXCEPT ![u] = w]
  BY DEF Begin, Stands
<1>2. /\ w \in Visits /\ w.at \notin {"taken", "listed", "removed"}
      /\ (w.at = "take" => w.snap \in SnapshotRows /\ w.snap.by = u)
      /\ (w.at \in {"revert", "remove"} => w.snap \in listed)
      /\ (w.at = "resize" => w.size \in 1..MaxSize)
  OBVIOUS
<1> HIDE DEF w
<1> QED  BY <1>1, <1>2, QuietStep DEF Busy

LEMMA BlankIs ==
  Blank \in Visits
BY HardwareAssumption DEF Blank, Visits, Keys, Resources

\* Requests begin.
LEMMA AskedSteps ==
  ASSUME HardwareInv, NEW u \in Visitors,
         \/ ResizeAsked(u) \/ ListDisks(u) \/ AddDiskAsked(u) \/ PlugAsked(u) \/ Get(u)
         \/ CreateSnapshotAsked(u) \/ SnapshotAsked(u)
  PROVE  HardwareInv'
<1>0. /\ UNCHANGED <<kind, VM, Rows, Syncs, owed>>
      /\ sizes \in Resources /\ listed \subseteq SnapshotRows /\ HardwareTypeOK
  BY DEF ResizeAsked, ListDisks, AddDiskAsked, PlugAsked, Get, CreateSnapshotAsked, SnapshotAsked,
         HardwareInv, HardwareTypeOK
<1>1. CASE ResizeAsked(u)
  <2>1. PICK n \in 1..MaxSize : Begin(u, "resize", [Blank EXCEPT !.size = n, !.row = sizes])
    BY <1>1 DEF ResizeAsked
  <2> DEFINE v == [Blank EXCEPT !.size = n, !.row = sizes]
  <2>2. v.size = n /\ v \in Visits
    <3>1. n \in 0..MaxSize
      BY HardwareAssumption
    <3> QED  BY <1>0, <3>1, BlankIs DEF Visits
  <2> HIDE DEF v
  <2>3. [v EXCEPT !.at = "resize"] \in Visits /\ [v EXCEPT !.at = "resize"].at = "resize"
        /\ [v EXCEPT !.at = "resize"].snap = v.snap /\ [v EXCEPT !.at = "resize"].size = v.size
    BY <2>2 DEF Visits
  <2>4. Begin(u, "resize", v)
    BY <2>1 DEF v
  <2> QED  BY <1>0, <2>2, <2>3, <2>4, BeginStep
<1>2. CASE ListDisks(u)
  <2>1. PICK b \in Used : Begin(u, "picked", [Blank EXCEPT !.bay = b, !.key = KeyOf(b)])
    BY <1>2 DEF ListDisks
  <2> DEFINE v == [Blank EXCEPT !.bay = b, !.key = KeyOf(b)]
  <2>2. v \in Visits
    BY <1>0, KeysAre, BlankIs DEF Visits, Used
  <2> HIDE DEF v
  <2>3. [v EXCEPT !.at = "picked"] \in Visits /\ [v EXCEPT !.at = "picked"].at = "picked"
        /\ [v EXCEPT !.at = "picked"].snap = v.snap /\ [v EXCEPT !.at = "picked"].size = v.size
    BY <2>2 DEF Visits
  <2>4. Begin(u, "picked", v)
    BY <2>1 DEF v
  <2> QED  BY <1>0, <2>2, <2>3, <2>4, BeginStep
<1>3. CASE AddDiskAsked(u)
  <2>1. PICK b \in Bays : Begin(u, "attach", [Blank EXCEPT !.bay = b])
    BY <1>3 DEF AddDiskAsked
  <2> DEFINE v == [Blank EXCEPT !.bay = b]
  <2>2. v \in Visits
    BY BlankIs DEF Visits
  <2> HIDE DEF v
  <2>3. [v EXCEPT !.at = "attach"] \in Visits /\ [v EXCEPT !.at = "attach"].at = "attach"
        /\ [v EXCEPT !.at = "attach"].snap = v.snap /\ [v EXCEPT !.at = "attach"].size = v.size
    BY <2>2 DEF Visits
  <2>4. Begin(u, "attach", v)
    BY <2>1 DEF v
  <2> QED  BY <1>0, <2>2, <2>3, <2>4, BeginStep
<1>4. CASE PlugAsked(u) \/ Get(u)
  <2>1. PICK at \in {"plug", "attached"} : Begin(u, at, Blank)
    BY <1>4 DEF PlugAsked, Get
  <2>2. [Blank EXCEPT !.at = at] \in Visits /\ [Blank EXCEPT !.at = at].at = at
        /\ [Blank EXCEPT !.at = at].snap = Blank.snap /\ [Blank EXCEPT !.at = at].size = Blank.size
    BY BlankIs DEF Visits
  <2> QED  BY <1>0, <2>1, <2>2, BeginStep
<1>5. CASE CreateSnapshotAsked(u)
  <2>1. PICK t \in Titles : Begin(u, "take", [Blank EXCEPT !.snap = [by |-> u, title |-> t]])
    BY <1>5 DEF CreateSnapshotAsked
  <2> DEFINE s == [by |-> u, title |-> t]
  <2>2. s \in SnapshotRows /\ s.by = u
    BY DEF SnapshotRows
  <2> HIDE DEF s
  <2> DEFINE v == [Blank EXCEPT !.snap = s]
  <2>3. v \in Visits /\ v.snap = s
    BY <2>2, BlankIs DEF Visits
  <2> HIDE DEF v
  <2>4. [v EXCEPT !.at = "take"] \in Visits /\ [v EXCEPT !.at = "take"].at = "take"
        /\ [v EXCEPT !.at = "take"].snap = v.snap /\ [v EXCEPT !.at = "take"].size = v.size
    BY <2>3 DEF Visits
  <2>5. Begin(u, "take", v)
    BY <2>1 DEF v, s
  <2> QED  BY <1>0, <2>2, <2>3, <2>4, <2>5, BeginStep
<1>6. CASE SnapshotAsked(u)
  <2>1. PICK s \in listed, at \in {"revert", "remove"} : Begin(u, at, [Blank EXCEPT !.snap = s])
    BY <1>6 DEF SnapshotAsked
  <2> DEFINE v == [Blank EXCEPT !.snap = s]
  <2>2. v \in Visits /\ v.snap = s
    BY <1>0, BlankIs DEF Visits
  <2> HIDE DEF v
  <2>3. [v EXCEPT !.at = at] \in Visits /\ [v EXCEPT !.at = at].at = at
        /\ [v EXCEPT !.at = at].snap = v.snap /\ [v EXCEPT !.at = at].size = v.size
    BY <2>2 DEF Visits
  <2>4. Begin(u, at, v)
    BY <2>1 DEF v
  <2> QED  BY <1>0, <2>2, <2>3, <2>4, BeginStep
<1> QED  BY <1>1, <1>2, <1>3, <1>4, <1>5, <1>6

\* A request changes the VM.
LEMMA ChangeSteps ==
  ASSUME HardwareInv, NEW u \in Visitors,
         ResizeVM(u) \/ ExpandDisk(u) \/ AddDisk(u) \/ RevertSnapshot(u)
  PROVE  HardwareInv'
<1>0. /\ UNCHANGED <<kind, Rows, Syncs>> /\ visit[u].at \in {"resize", "expand", "attach", "revert"}
      /\ cpu \in 1..MaxSize /\ disk \in [Bays -> 0..MaxSize] /\ visit[u] \in Visits
      /\ kept \subseteq [by : Visitors, title : Titles, cpu : 1..MaxSize]
  BY DEF ResizeVM, ExpandDisk, AddDisk, RevertSnapshot, Stands, HardwareInv, HardwareTypeOK
<1>1. CASE Declined(u)
  BY <1>0, <1>1, MoveStep DEF Declined, Busy
<1>2. CASE ResizeVM(u) /\ ~Declined(u)
  <2>1. cpu' \in 1..MaxSize /\ Reports(u, "resized") /\ UNCHANGED <<disk, kept>>
    BY <1>0, <1>2 DEF ResizeVM, Stands, HardwareInv
  <2> QED  BY <1>0, <2>1, ChangeStep DEF Busy
<1>3. CASE ExpandDisk(u) /\ ~Declined(u)
  <2>1. PICK b \in Keyed(u) : disk' = [disk EXCEPT ![b] = visit[u].size]
                              /\ Reports(u, "expanded") /\ UNCHANGED <<cpu, kept>>
    BY <1>3 DEF ExpandDisk
  <2>2. disk' \in [Bays -> 0..MaxSize]
    BY <1>0, <2>1 DEF Visits
  <2> QED  BY <1>0, <2>1, <2>2, ChangeStep DEF Busy
<1>4. CASE AddDisk(u) /\ ~Declined(u)
  <2>1. disk' = [disk EXCEPT ![visit[u].bay] = 1]
        /\ Reports(u, "attached") /\ UNCHANGED <<cpu, kept>>
    BY <1>4 DEF AddDisk
  <2>2. disk' \in [Bays -> 0..MaxSize]
    <3>1. 1 \in 0..MaxSize /\ visit[u].bay \in Bays
      BY <1>0, HardwareAssumption DEF Visits
    <3> QED  BY <1>0, <2>1, <3>1
  <2> QED  BY <1>0, <2>1, <2>2, ChangeStep DEF Busy
<1>5. CASE RevertSnapshot(u) /\ ~Declined(u)
  <2>1. PICK s \in Found(u) : cpu' = s.cpu /\ Reports(u, "reverted") /\ UNCHANGED <<disk, kept>>
    BY <1>5 DEF RevertSnapshot
  <2>2. cpu' \in 1..MaxSize
    BY <1>0, <2>1 DEF Found, Titled
  <2> QED  BY <1>0, <2>1, <2>2, ChangeStep DEF Busy
<1> QED  BY <1>1, <1>2, <1>3, <1>4, <1>5

\* A request looks something up, or writes what it has.
LEMMA LookSteps ==
  ASSUME HardwareInv, NEW u \in Visitors,
         ExpandAsked(u) \/ CheckDiskSize(u) \/ PlugNIC(u) \/ SyncState(u)
  PROVE  HardwareInv'
<1>0. /\ UNCHANGED <<kind, VM, Rows, Syncs>> /\ visit[u].at \in {"picked", "loaded", "plug", "attached"}
      /\ visit \in [Visitors -> Visits] /\ visit[u] \in Visits /\ sizes \in Resources
      /\ disk \in [Bays -> 0..MaxSize] /\ HardwareTypeOK
  BY DEF ExpandAsked, CheckDiskSize, PlugNIC, SyncState, Stands, HardwareInv, HardwareTypeOK
<1>1. CASE VisitTo(u, "done") /\ (visit[u].at = "attached" => owed') /\ (owed' = owed \/ owed' = TRUE)
  BY <1>0, <1>1, MoveStep DEF Busy
<1>2. CASE ExpandAsked(u)
  <2> DEFINE v == [visit[u] EXCEPT !.at = "loaded", !.row = sizes]
  <2>1. visit' = [visit EXCEPT ![u] = v] /\ v \in Visits /\ v.at = "loaded" /\ UNCHANGED owed
        /\ visit[u].at = "picked"
    BY <1>0, <1>2 DEF ExpandAsked, Visits, Stands
  <2> HIDE DEF v
  <2> QED  BY <1>0, <2>1, QuietStep DEF Busy
<1>3. CASE CheckDiskSize(u) /\ ~VisitTo(u, "done")
  <2>1. PICK b \in Keyed(u), n \in 1..MaxSize :
          /\ n > disk[b]
          /\ visit' = [visit EXCEPT ![u] = [@ EXCEPT !.at = "expand", !.size = n,
                         !.row = Grown(visit[u].row, n - disk[b], n)]]
    BY <1>3 DEF CheckDiskSize
  <2>2. visit[u].row \in Resources /\ b \in Bays /\ disk[b] \in Nat /\ n \in Nat
    BY <1>0, <2>1 DEF Visits, Keyed, Used
  <2> DEFINE grown == Grown(visit[u].row, n - disk[b], n)
  <2>3. grown \in Resources
    BY <2>1, <2>2 DEF Grown, Resources
  <2> HIDE DEF grown
  <2> DEFINE v == [visit[u] EXCEPT !.at = "expand", !.size = n, !.row = grown]
  <2>4. visit' = [visit EXCEPT ![u] = v]
    BY <1>0, <2>1 DEF grown
  <2>5. v \in Visits /\ v.at = "expand"
    <3>1. n \in 0..MaxSize
      BY HardwareAssumption
    <3> QED  BY <1>0, <2>3, <3>1 DEF Visits
  <2>6. UNCHANGED owed /\ visit[u].at = "loaded"
    BY <1>3 DEF CheckDiskSize, Stands
  <2> HIDE DEF v
  <2> QED  BY <1>0, <2>4, <2>5, <2>6, QuietStep DEF Busy
<1>4. CASE PlugNIC(u)
  <2>1. UNCHANGED owed /\ visit[u].at = "plug" /\ (VisitTo(u, "attached") \/ VisitTo(u, "done"))
    BY <1>4 DEF PlugNIC, Stands
  <2> DEFINE v == [visit[u] EXCEPT !.at = "attached"]
  <2>2. VisitTo(u, "attached") => visit' = [visit EXCEPT ![u] = v]
    BY <1>0 DEF VisitTo
  <2>3. v \in Visits /\ v.at = "attached"
    BY <1>0 DEF Visits
  <2> HIDE DEF v
  <2> QED  BY <1>0, <1>1, <2>1, <2>2, <2>3, QuietStep DEF Busy
<1>5. CASE SyncState(u) /\ ~VisitTo(u, "done")
  <2>1. visit' = [visit EXCEPT ![u].at = "status", ![u].row = Reported] /\ UNCHANGED owed
        /\ visit[u].at = "attached"
    BY <1>5 DEF SyncState, Stands
  <2>2. PICK noted \in Resources : noted = Reported
    BY <1>0, ReportedType
  <2> DEFINE v == [visit[u] EXCEPT !.at = "status", !.row = noted]
  <2>3. visit' = [visit EXCEPT ![u] = v] /\ v \in Visits /\ v.at = "status"
    BY <1>0, <2>1, <2>2 DEF Visits
  <2> HIDE DEF v
  <2> QED  BY <1>0, <2>1, <2>3, QuietStep DEF Busy
<1>6. CASE CheckDiskSize(u) /\ VisitTo(u, "done")
  BY <1>1, <1>6 DEF CheckDiskSize, Stands
<1>7. CASE SyncState(u) /\ VisitTo(u, "done")
  <2>1. owed' = TRUE \/ visit' = [visit EXCEPT ![u].at = "status", ![u].row = Reported]
    BY <1>7 DEF SyncState
  <2>2. CASE owed' = TRUE
    BY <1>1, <1>7, <2>2
  <2>3. CASE visit' = [visit EXCEPT ![u].at = "status", ![u].row = Reported]
    BY <1>0, <1>7, <2>3 DEF VisitTo, Visits
  <2> QED  BY <2>1, <2>2, <2>3
<1> QED  BY <1>2, <1>3, <1>4, <1>5, <1>6, <1>7

LEMMA WriteSteps ==
  ASSUME HardwareInv, NEW u \in Visitors,
         Resized(u) \/ Expanded(u) \/ Attached(u) \/ Reverted(u)
  PROVE  HardwareInv'
<1>0. /\ visit[u].at \in Busy /\ VisitTo(u, "done") /\ UNCHANGED <<kind, VM, listed>>
      /\ visit[u] \in Visits /\ sizes \in Resources
  BY DEF Resized, Expanded, Attached, Reverted, Stands, Busy, Rows, HardwareInv, HardwareTypeOK
<1>1. visit[u].row \in Resources /\ visit[u].size \in Nat /\ visit[u].row.disk \in Nat
  BY <1>0, HardwareAssumption DEF Visits, Resources
<1>2. [cpu |-> visit[u].size, disk |-> visit[u].row.disk] \in Resources
  BY <1>1 DEF Resources
<1>3. sizes' \in Resources
  BY <1>0, <1>1, <1>2 DEF Resized, Expanded, Attached, Reverted, UpdateResources, Writes, Rows
<1>4. \/ ScheduleSyncAll /\ UNCHANGED owed
      \/ owed' = (sizes' # Reported) /\ UNCHANGED Syncs
  BY DEF Resized, Expanded, Attached, Reverted, UpdateResources, Writes
<1> QED  BY <1>0, <1>3, <1>4, WriteStep

\* The scheduled sync, and what others do.
LEMMA SyncSteps ==
  ASSUME HardwareInv,
         OthersChange \/ \E p \in Passes : TimerFires(p) \/ ListVMs(p) \/ SyncResources(p)
  PROVE  HardwareInv'
<1>0. /\ pass \in [Passes -> [at : {"none", "begun", "told"}, seen : Resources]]
      /\ sizes \in Resources /\ timer \in BOOLEAN /\ owed \in BOOLEAN /\ cpu \in 1..MaxSize
      /\ HardwareTypeOK /\ SizesFollow
  BY DEF HardwareInv, HardwareTypeOK
<1>1. CASE OthersChange
  <2>1. /\ UNCHANGED <<kind, disk, listed, sizes, visit, timer, pass>> /\ owed' = TRUE
        /\ kept' \subseteq kept /\ cpu' \in 1..MaxSize
    BY <1>0, <1>1 DEF OthersChange, Rows, Syncs
  <2> QED  BY <1>0, <2>1, OtherStep DEF SizesFollow
<1>2. ASSUME NEW p \in Passes, TimerFires(p) PROVE HardwareInv'
  <2>1. /\ UNCHANGED <<kind, cpu, disk, kept, listed, sizes, visit, owed>> /\ timer' = FALSE
        /\ pass' = [pass EXCEPT ![p].at = "begun"]
    BY <1>2 DEF TimerFires, VM, Rows
  <2>2. pass' \in [Passes -> [at : {"none", "begun", "told"}, seen : Resources]] /\ pass'[p].at = "begun"
    BY <1>0, <2>1
  <2> QED  BY <1>0, <2>1, <2>2, OtherStep DEF SizesFollow
<1>3. ASSUME NEW p \in Passes, ListVMs(p) PROVE HardwareInv'
  <2>1. UNCHANGED <<kind, cpu, disk, kept, listed, sizes, visit, timer>>
    BY <1>3 DEF ListVMs, VM, Rows
  <2>2. CASE pass' = [pass EXCEPT ![p] = [at |-> "told", seen |-> Reported]] /\ UNCHANGED owed
    <3>1. [at |-> "told", seen |-> Reported] \in [at : {"none", "begun", "told"}, seen : Resources]
      BY <1>0, ReportedType
    <3>2. pass' \in [Passes -> [at : {"none", "begun", "told"}, seen : Resources]] /\ pass'[p].at = "told"
      BY <1>0, <2>2, <3>1
    <3> QED  BY <1>0, <2>1, <2>2, <3>2, OtherStep DEF SizesFollow
  <2>3. CASE pass' = [pass EXCEPT ![p].at = "none"] /\ owed' = TRUE
    <3>1. pass' \in [Passes -> [at : {"none", "begun", "told"}, seen : Resources]]
      BY <1>0, <2>3
    <3> QED  BY <1>0, <2>1, <2>3, <3>1, OtherStep DEF SizesFollow
  <2> QED  BY <1>3, <2>2, <2>3 DEF ListVMs
<1>4. ASSUME NEW p \in Passes, SyncResources(p) PROVE HardwareInv'
  <2>1. /\ UNCHANGED <<kind, cpu, disk, kept, listed, visit, timer>>
        /\ sizes' \in {pass[p].seen, sizes} /\ owed' = (sizes' # Reported)
        /\ pass' = [pass EXCEPT ![p].at = "none"]
    BY <1>4 DEF SyncResources, VM, Writes
  <2>2. pass' \in [Passes -> [at : {"none", "begun", "told"}, seen : Resources]] /\ sizes' \in Resources
        /\ owed' \in BOOLEAN
    BY <1>0, <2>1
  <2>3. SizesFollow'
    <3>1. Reported' = Reported
      BY <2>1, ReportedStays
    <3> QED  BY <2>1, <3>1 DEF SizesFollow
  <2> QED  BY <1>0, <2>1, <2>2, <2>3, OtherStep
<1> QED  BY <1>1, <1>2, <1>3, <1>4

\* The inductive invariant of the hardware holds.
THEOREM HardwareInvariant == HardwareSpec => []HardwareInv
<1>1. HardwareInit => HardwareInv
  <2> SUFFICES ASSUME HardwareInit PROVE HardwareInv
    OBVIOUS
  <2>1. /\ kind \in Hypervisors /\ cpu = 1 /\ kept = {} /\ listed = {} /\ timer = FALSE
        /\ sizes \in {Reported, Blank.row} /\ owed = (sizes # Reported)
        /\ visit = [u \in Visitors |-> Blank]
    BY DEF HardwareInit
  <2>2. disk \in [Bays -> 0..MaxSize]
    BY HardwareAssumption DEF HardwareInit
  <2>3. pass \in [Passes -> [at : {"none", "begun", "told"}, seen : Resources]]
    BY DEF HardwareInit, Resources
  <2>4. visit \in [Visitors -> Visits] /\ \A u \in Visitors : visit[u].at = "none"
    <3>1. Blank.at = "none"
      BY DEF Blank
    <3> QED  BY <2>1, <3>1, BlankIs
  <2>5. Blank.row \in Resources
    BY BlankIs DEF Visits
  <2>6. Reported \in Resources
    <3>1. IsFiniteSet(Used) /\ \A b \in Used : disk[b] \in Nat
      BY <2>2, HardwareAssumption, FS_Subset DEF Used
    <3>2. Summed(disk, Used) \in Nat /\ disk[0] \in Nat
      BY <2>2, <3>1, SumIsNat, HardwareAssumption
    <3> QED  BY <2>1, <3>2, ReportedIs DEF Resources
  <2>7. HardwareTypeOK
    <3>1. cpu \in 1..MaxSize
      BY <2>1, HardwareAssumption
    <3>2. sizes \in Resources
      BY <2>1, <2>5, <2>6
    <3>3. /\ kept \subseteq [by : Visitors, title : Titles, cpu : 1..MaxSize]
          /\ listed \subseteq SnapshotRows /\ timer \in BOOLEAN
      BY <2>1
    <3>4. owed \in BOOLEAN
      BY <2>1
    <3> QED  BY <2>1, <2>2, <2>3, <2>4, <3>1, <3>2, <3>3, <3>4 DEF HardwareTypeOK
  <2> QED  BY <2>1, <2>4, <2>7 DEF HardwareInv, SizesFollow, SnapshotsTraced, KeptTraced, ListedTraced,
                                   RequestsTraced, SnapshotsStayListed
<1>2. HardwareInv /\ [HardwareNext]_hardwareVars => HardwareInv'
  <2> SUFFICES ASSUME HardwareInv, [HardwareNext]_hardwareVars PROVE HardwareInv'
    OBVIOUS
  <2>1. CASE UNCHANGED hardwareVars
    <3>1. UNCHANGED <<kind, cpu, disk, kept, sizes, listed, visit, timer, pass, owed>>
      BY <2>1 DEF hardwareVars
    <3>2. Reported' = Reported
      BY <3>1, ReportedStays
    <3>3. SizesFollow'
      BY <3>1, <3>2 DEF HardwareInv, SizesFollow
    <3>4. HardwareTypeOK' /\ SnapshotsTraced' /\ SnapshotsStayListed'
      BY <3>1 DEF HardwareInv, HardwareTypeOK, SnapshotsTraced, KeptTraced, ListedTraced, RequestsTraced,
                  SnapshotsStayListed
    <3> QED  BY <3>1, <3>3, <3>4 DEF HardwareInv
  <2>2. CASE HardwareNext
    <3>1. ASSUME NEW u \in Visitors, CreateSnapshot(u) \/ InsertSnapshot(u) \/ DeleteSnapshot(u) \/ RemoveSnapshot(u)
          PROVE HardwareInv'
      BY <3>1, CreateStep, InsertStep, DeleteStep, RemoveStep
    <3> QED  BY <2>2, <3>1, AskedSteps, ChangeSteps, LookSteps, WriteSteps, SyncSteps DEF HardwareNext
  <2> QED  BY <2>1, <2>2
<1> QED  BY <1>1, <1>2, PTL DEF HardwareSpec

\* Every variable of the hardware has its type.
THEOREM HardwareTypes == HardwareSpec => []HardwareTypeOK
BY HardwareInvariant, PTL DEF HardwareInv

\* A snapshot that was taken and listed is in the list while the hypervisor has it.
THEOREM SnapshotsInTheList == HardwareSpec => []SnapshotsStayListed
BY HardwareInvariant, PTL DEF HardwareInv

\* When nothing is under way the row has the sizes the hypervisor reports, or a failure
\* or somebody else is to be made up for.
THEOREM SizesAreRight == HardwareSpec => []SizesCatchUp
<1>1. HardwareInv => SizesCatchUp
  BY DEF HardwareInv, SizesFollow, SizesCatchUp, Busy
<1> QED  BY <1>1, HardwareInvariant, PTL
=============================================================================
