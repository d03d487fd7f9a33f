--------------------------- MODULE VMInventoryProofs ---------------------------
(***************************************************************************)
(* Theorems about VMInventory, for any number of names, passes and         *)
(* requests, any bounds, with names reused and listings that fail.         *)
(*                                                                         *)
(* The argument: every copy of a row that is about, in the table or in the *)
(* hands of an observer, was right when it was made (Sound), and what is   *)
(* sound stays sound as time goes by; so does what an observer computes    *)
(* from it.  That a VM is only untracked when it was missing follows from  *)
(* what a pass knows of the VMs that have been there all along.            *)
(***************************************************************************)
EXTENDS VMInventory, TLAPS

Copies == [id : 0..MaxId, power : Powers \union {"unknown"},
           onSince : Int, total : Int, born : Int]

\* The bookkeeping of a row, or of a copy of one, makes sense at time t.
Sound(x, t) ==
  /\ x \in Copies
  /\ 0 <= x.born /\ x.born <= t
  /\ Never <= x.onSince /\ x.onSince <= t
  /\ 0 <= x.total
  /\ x.power = "poweredOn" => x.born <= x.onSince /\ x.total <= x.onSince - x.born
  /\ x.power # "poweredOn" => x.total <= t - x.born
  /\ x.id = 0 => x = NoRow

Loaded   == [stage : {"loaded"}, goal : Goals, ref : Refs, old : Copies]
Answered == [stage : {"answered"}, goal : Goals, ref : Refs, old : Copies,
             seen : Powers \union {"absent"}]

\* What a request has in hand.
SoundRequest(x, t) ==
  \/ x = Idle
  \/ /\ x \in Loaded \union Answered
     /\ Sound(x.old, t) /\ x.old # NoRow
     /\ x \in Answered /\ x.goal # "delete" => x.seen \in Powers

Read   == [stage : {"read"}, left : SUBSET Refs, old : [Refs -> Copies],
           steady : SUBSET Refs]
Listed == [stage : {"listed"}, left : SUBSET Refs, old : [Refs -> Copies],
           steady : SUBSET Refs, seen : [Refs -> Powers \union {"absent", Unlisted}]]

\* What a pass has in hand: rows that were there, and a listing in which the VMs
\* that have been there all along are not missing.
SoundSync(x, t, there) ==
  \/ x = Idle
  \/ /\ x \in Read \union Listed
     /\ \A r \in Refs : Sound(x.old[r], t)
     /\ \A r \in x.left : x.old[r] # NoRow
     /\ x.steady \subseteq there
     /\ x \in Listed => \A r \in x.steady : x.seen[r] # "absent"

There == {r \in Refs : power[r] # "absent"}

ClockInv   == now \in 0..MaxTime /\ nextId \in 1..(MaxId + 1)
VMInv      == used \subseteq Refs /\ power \in [Refs -> Powers \union {"absent"}]
RowInv     == row \in [Refs -> Copies] /\ \A r \in Refs : Sound(row[r], now)
RequestInv == /\ request = [q \in Requests |-> request[q]]
              /\ \A q \in Requests : SoundRequest(request[q], now)
SyncInv    == /\ sync = [s \in Syncs |-> sync[s]]
              /\ \A s \in Syncs : SoundSync(sync[s], now, There)

\* The inductive invariant.
IInv == ClockInv /\ VMInv /\ RowInv /\ RequestInv /\ SyncInv

------------------------------------------------------------------------------
(* Copies of rows *)

\* What is sound stays sound as time goes by.
LEMMA SoundLater ==
  ASSUME NEW x, NEW t \in Int, NEW u \in Int, t <= u, Sound(x, t)
  PROVE  Sound(x, u)
BY SMTT(30) DEF Sound, Copies, Never

\* There is no row that has no id.
LEMMA NoRowSound ==
  ASSUME NEW t \in Nat
  PROVE  NoRow \in Copies /\ Sound(NoRow, t) /\ NoRow.id = 0
BY TimeIsNatural DEF NoRow, Sound, Copies, Never, Powers

\* applyPowerStateTransition keeps the bookkeeping sound, and the row's identity.
LEMMA ObservedSound ==
  ASSUME now \in Nat, NEW old, Sound(old, now), old # NoRow, NEW p \in Powers \union {"unknown"}
  PROVE  /\ Observed(old, p) \in Copies /\ Sound(Observed(old, p), now)
         /\ Observed(old, p).id = old.id /\ Observed(old, p) # NoRow
<1> DEFINE new == Observed(old, p)
<1>1. CASE p = old.power
  BY <1>1 DEF Observed, Sound
<1>2. CASE p # old.power
  <2> DEFINE total   == IF RanUntilNow(old) THEN old.total + (now - old.onSince) ELSE old.total
             onSince == IF p = "poweredOn" THEN now ELSE old.onSince
  <2>1. new = [[[old EXCEPT !.power = p] EXCEPT !.total = total] EXCEPT !.onSince = onSince]
    BY <1>2 DEF Observed
  <2>2. total \in Int /\ 0 <= total /\ total <= now - old.born
    BY DEF RanUntilNow, Sound, Copies, Never
  <2>3. onSince \in Int /\ Never <= onSince /\ onSince <= now
    BY DEF Sound, Copies, Never
  <2>4. old.id # 0 /\ NoRow.id = 0
    BY DEF Sound, NoRow
  <2> HIDE DEF total, onSince, new
  <2>5. /\ new.id = old.id /\ new.power = p /\ new.onSince = onSince /\ new.total = total
        /\ new.born = old.born
    BY <2>1 DEF Sound, Copies
  <2>6. new \in Copies
    BY <2>1, <2>2, <2>3 DEF Sound, Copies
  <2>7. p = "poweredOn" => onSince = now
    BY DEF onSince
  <2>8. Sound(new, now)
    BY <2>2, <2>3, <2>4, <2>5, <2>6, <2>7 DEF Sound, Copies
  <2> QED BY <2>4, <2>5, <2>6, <2>8 DEF new
<1> QED BY <1>1, <1>2

------------------------------------------------------------------------------
(* What a step may do to a part of the invariant *)

LEMMA RowsKept ==
  ASSUME IInv, ClockInv', now <= now', UNCHANGED row
  PROVE  RowInv'
BY SoundLater DEF IInv, ClockInv, RowInv

LEMMA RowChanges ==
  ASSUME IInv, now' = now, NEW r \in Refs, NEW x, Sound(x, now),
         row' = [row EXCEPT ![r] = x]
  PROVE  RowInv'
<1>1. x \in Copies
  BY DEF Sound
<1> QED BY <1>1 DEF IInv, RowInv

LEMMA RequestsKept ==
  ASSUME IInv, ClockInv', now <= now', UNCHANGED request
  PROVE  RequestInv'
<1> SUFFICES ASSUME NEW q \in Requests PROVE SoundRequest(request[q], now')
  BY DEF IInv, RequestInv
<1>1. SoundRequest(request[q], now)
  BY DEF IInv, RequestInv
<1> QED BY <1>1, SoundLater DEF SoundRequest, IInv, ClockInv

LEMMA RequestChanges ==
  ASSUME IInv, now' = now, NEW q \in Requests, NEW x, SoundRequest(x, now),
         request' = [request EXCEPT ![q] = x]
  PROVE  RequestInv'
BY DEF IInv, RequestInv

\* A VM that appears or is switched makes no pass wrong.
LEMMA SyncsKept ==
  ASSUME IInv, ClockInv', now <= now', There \subseteq There', UNCHANGED sync
  PROVE  SyncInv'
<1> SUFFICES ASSUME NEW s \in Syncs PROVE SoundSync(sync[s], now', There')
  BY DEF IInv, SyncInv
<1>1. SoundSync(sync[s], now, There)
  BY DEF IInv, SyncInv
<1> QED BY <1>1, SoundLater DEF SoundSync, IInv, ClockInv

LEMMA SyncChanges ==
  ASSUME IInv, UNCHANGED <<now, power>>, NEW s \in Syncs, NEW x, SoundSync(x, now, There),
         sync' = [sync EXCEPT ![s] = x]
  PROVE  SyncInv'
<1>1. There' = There
  BY DEF There
<1> QED BY <1>1 DEF IInv, SyncInv

LEMMA Unmoved ==
  ASSUME IInv, UNCHANGED <<now, nextId>>
  PROVE  ClockInv' /\ now <= now'
BY DEF IInv, ClockInv

------------------------------------------------------------------------------
(* What the observers write *)

\* WriteState writes a sound row, or none.
LEMMA WriteStateSound ==
  ASSUME IInv, now' = now, NEW r \in Refs, NEW old, Sound(old, now), old # NoRow,
         NEW p \in Powers, WriteState(r, old, p)
  PROVE  RowInv'
<1>1. now \in Nat
  BY TimeIsNatural DEF IInv, ClockInv
<1>2. Sound(Observed(old, p), now)
  BY <1>1, ObservedSound
<1>3. CASE row[r].id = old.id
  BY <1>2, <1>3, RowChanges DEF WriteState
<1>4. CASE row[r].id # old.id
  BY <1>4 DEF WriteState, IInv, RowInv
<1> QED BY <1>3, <1>4

LEMMA DeleteRowSound ==
  ASSUME IInv, now' = now, NEW r \in Refs, NEW old, DeleteRow(r, old)
  PROVE  RowInv'
<1>1. now \in Nat
  BY TimeIsNatural DEF IInv, ClockInv
<1>2. CASE row[r].id = old.id
  BY <1>1, <1>2, NoRowSound, RowChanges DEF DeleteRow
<1>3. CASE row[r].id # old.id
  BY <1>3 DEF DeleteRow, IInv, RowInv
<1> QED BY <1>2, <1>3

\* A new row is sound, whatever state the VM is in.
LEMMA SeedSound ==
  ASSUME IInv, NEW p \in Powers \union {"unknown"}, NEW i \in 1..MaxId,
         NEW b \in 0..now
  PROVE  /\ Sound([Seed(p) EXCEPT !.id = i, !.born = now], now)
         /\ p = "poweredOn" => Sound([Seed(p) EXCEPT !.id = i, !.born = b], now)
         /\ [Seed(p) EXCEPT !.id = i, !.born = now] # NoRow
<1>1. now \in Nat
  BY TimeIsNatural DEF IInv, ClockInv
<1>2. ~RanUntilNow(NoRow)
  BY DEF RanUntilNow, NoRow
<1>3. /\ Seed(p) = [id |-> 0, power |-> p, onSince |-> IF p = "poweredOn" THEN now ELSE Never,
                    total |-> 0, born |-> 0]
  BY <1>2 DEF Seed, Observed, NoRow
<1>4. now \in 0..now
  BY <1>1
<1> DEFINE new(c) == [Seed(p) EXCEPT !.id = i, !.born = c]
<1>5. ASSUME NEW c \in 0..now
      PROVE  /\ new(c) \in Copies /\ new(c) # NoRow
             /\ new(c).id = i /\ new(c).power = p /\ new(c).total = 0 /\ new(c).born = c
             /\ new(c).onSince = IF p = "poweredOn" THEN now ELSE Never
  <2> DEFINE seed == Seed(p)
  <2>1. /\ seed \in [id : {0}, power : {p}, onSince : Int, total : {0}, born : {0}]
        /\ seed.onSince = IF p = "poweredOn" THEN now ELSE Never
    BY <1>1, <1>3 DEF Never
  <2> HIDE DEF seed
  <2> DEFINE one == [seed EXCEPT !.id = i]
  <2>2. /\ one \in [id : {i}, power : {p}, onSince : Int, total : {0}, born : {0}]
        /\ one.onSince = seed.onSince
    BY <2>1
  <2> HIDE DEF one
  <2> DEFINE two == [one EXCEPT !.born = c]
  <2>3. /\ two \in [id : {i}, power : {p}, onSince : Int, total : {0}, born : {c}]
        /\ two.onSince = seed.onSince
    BY <2>2
  <2>4. two = new(c)
    BY DEF one, two, seed
  <2> HIDE DEF two, new
  <2>5. two \in Copies
    BY <1>1, <2>3, TimeIsNatural DEF Copies
  <2>6. two.id # 0 /\ NoRow.id = 0
    BY <2>3 DEF NoRow
  <2>7. /\ two.id = i /\ two.power = p /\ two.total = 0 /\ two.born = c
        /\ two.onSince = IF p = "poweredOn" THEN now ELSE Never
    BY <2>1, <2>3
  <2> QED BY <2>4, <2>5, <2>6, <2>7
<1> HIDE DEF new
<1>6. ASSUME NEW c \in 0..now, p = "poweredOn" \/ c = now
      PROVE  Sound(new(c), now)
  <2>1. i # 0
    OBVIOUS
  <2> QED BY <1>1, <1>5, <1>6, <2>1 DEF Sound, Never
<1> QED BY <1>4, <1>5, <1>6 DEF new

------------------------------------------------------------------------------
(* Every step keeps the invariant *)

LEMMA TickStep ==
  ASSUME IInv, Tick
  PROVE  IInv'
<1>1. ClockInv' /\ now <= now'
  BY TimeIsNatural DEF IInv, ClockInv, Tick
<1>2. There' = There /\ VMInv'
  BY DEF Tick, There, IInv, VMInv
<1> QED BY <1>1, <1>2, RowsKept, RequestsKept, SyncsKept DEF Tick, IInv

\* A VM that is gone is no longer one that has been there all along.
LEMMA GoneSound ==
  ASSUME IInv, NEW r \in Refs, Gone(r), UNCHANGED now
  PROVE  SyncInv' /\ power' \in [Refs -> Powers \union {"absent"}]
<1>1. power' \in [Refs -> Powers \union {"absent"}] /\ There' = There \ {r}
  BY DEF IInv, VMInv, Gone, There
<1>2. sync' = [s \in Syncs |-> sync'[s]]
  BY DEF Gone
<1> SUFFICES ASSUME NEW s \in Syncs PROVE SoundSync(sync'[s], now, There')
  BY <1>1, <1>2 DEF SyncInv
<1>3. SoundSync(sync[s], now, There)
  BY DEF IInv, SyncInv
<1>4. CASE sync[s] = Idle
  BY <1>4 DEF Gone, SoundSync
<1>5. CASE sync[s] # Idle /\ sync[s] \in Read
  <2>1. sync'[s] = [sync[s] EXCEPT !.steady = @ \ {r}]
    BY <1>5 DEF Gone
  <2>2. /\ sync'[s] \in Read
        /\ sync'[s].old = sync[s].old /\ sync'[s].left = sync[s].left
        /\ sync'[s].steady = sync[s].steady \ {r}
    BY <1>5, <2>1 DEF Read
  <2>3. sync'[s] \notin Listed
    BY <2>2 DEF Read, Listed
  <2> QED BY <1>1, <1>3, <1>5, <2>2, <2>3 DEF SoundSync
<1>6. CASE sync[s] # Idle /\ sync[s] \in Listed
  <2>1. sync'[s] = [sync[s] EXCEPT !.steady = @ \ {r}]
    BY <1>6 DEF Gone
  <2>2. /\ sync'[s] \in Listed
        /\ sync'[s].old = sync[s].old /\ sync'[s].left = sync[s].left
        /\ sync'[s].steady = sync[s].steady \ {r} /\ sync'[s].seen = sync[s].seen
    BY <1>6, <2>1 DEF Listed
  <2> QED BY <1>1, <1>3, <1>6, <2>2 DEF SoundSync
<1> QED BY <1>3, <1>4, <1>5, <1>6 DEF SoundSync

LEMMA HypervisorStep ==
  ASSUME IInv, NEW r \in Refs, Hypervisor(r)
  PROVE  IInv'
<1>1. UNCHANGED <<now, row, nextId, request>>
  BY DEF Hypervisor, Appear, Switch, Vanish
<1>2. ClockInv' /\ RowInv' /\ RequestInv'
  BY <1>1, Unmoved, RowsKept, RequestsKept
<1>3. CASE Appear(r) \/ Switch(r)
  <2>1. VMInv'
    BY <1>3 DEF Appear, Switch, IInv, VMInv
  <2>2. There \subseteq There' /\ UNCHANGED sync
    BY <1>3 DEF Appear, Switch, There, IInv, VMInv, Powers
  <2> QED BY <1>1, <1>2, <2>1, <2>2, Unmoved, SyncsKept DEF IInv
<1>4. CASE Vanish(r)
  BY <1>1, <1>2, <1>4, GoneSound DEF Vanish, IInv, VMInv
<1> QED BY <1>3, <1>4 DEF Hypervisor

LEMMA InsertStep ==
  ASSUME IInv, NEW r \in Refs, Insert(r)
  PROVE  IInv'
<1>1. UNCHANGED <<now, power, used, request, sync>>
  BY DEF Insert, Register, Adopt, Create
<1>2. ClockInv' /\ now <= now'
  <2>1. nextId' = nextId \/ (nextId <= MaxId /\ nextId' = nextId + 1)
    BY DEF Insert, Register, Adopt, Create
  <2> QED BY <1>1, <2>1, TimeIsNatural DEF IInv, ClockInv
<1>3. VMInv' /\ There' = There
  BY <1>1 DEF IInv, VMInv, There
<1>4. RequestInv' /\ SyncInv'
  BY <1>1, <1>2, <1>3, RequestsKept, SyncsKept
<1>5. now \in 0..now /\ (nextId <= MaxId => nextId \in 1..MaxId)
  BY TimeIsNatural DEF IInv, ClockInv
<1>6. ASSUME NEW p \in Powers \union {"unknown"}, nextId <= MaxId,
             row' = [row EXCEPT ![r] = [Seed(p) EXCEPT !.id = nextId, !.born = now]]
      PROVE  RowInv'
  <2>1. Sound([Seed(p) EXCEPT !.id = nextId, !.born = now], now)
    BY <1>5, <1>6, SeedSound
  <2> QED BY <1>1, <1>6, <2>1, RowChanges
<1>7. RowInv'
  <2>1. CASE Register(r)
    <3>1. CASE row[r] = NoRow
      <4>1. row' = [row EXCEPT ![r] = [Seed("poweredOn") EXCEPT !.id = nextId, !.born = now]]
        BY <2>1, <3>1 DEF Register, IInv, RowInv
      <4> QED BY <1>6, <2>1, <4>1 DEF Register, Powers
    <3>2. CASE row[r] # NoRow
      <4>1. row' = [row EXCEPT ![r] = [Seed("poweredOn") EXCEPT !.id = row[r].id,
                                                               !.born = row[r].born]]
        BY <2>1, <3>2 DEF Register, IInv, RowInv
      <4>2. row[r].id \in 1..MaxId /\ row[r].born \in 0..now
        BY <3>2, TimeIsNatural DEF IInv, ClockInv, RowInv, Sound, Copies
      <4>3. Sound([Seed("poweredOn") EXCEPT !.id = row[r].id, !.born = row[r].born], now)
        BY <4>2, SeedSound DEF Powers
      <4> QED BY <1>1, <4>1, <4>3, RowChanges
    <3> QED BY <3>1, <3>2
  <2>2. CASE Adopt(r)
    BY <1>6, <2>2 DEF Adopt
  <2>3. CASE Create(r)
    BY <1>6, <2>3 DEF Create
  <2> QED BY <2>1, <2>2, <2>3 DEF Insert
<1> QED BY <1>2, <1>3, <1>4, <1>7 DEF IInv

\* Load to Untrack: what a request has in hand stays sound, and so does what it
\* writes.
LEMMA RequestStep ==
  ASSUME IInv, NEW q \in Requests, Serve(q)
  PROVE  IInv'
<1>1. UNCHANGED <<now, used, nextId>>
  BY DEF Serve, Load, AskStatus, SetPower, Destroy, GiveUp, Store, Untrack
<1>2. ClockInv' /\ now <= now'
  BY <1>1, Unmoved
<1>3. SoundRequest(request[q], now) /\ VMInv /\ SyncInv
  BY DEF IInv, RequestInv
<1>4. SoundRequest(Idle, now)
  BY DEF SoundRequest
<1>5. ASSUME request[q].stage \in {"loaded", "answered"}
      PROVE  /\ request[q] \in Loaded \union Answered
             /\ request[q].stage = "answered" /\ request[q].goal # "delete" =>
                  request[q].seen \in Powers
             /\ Sound(request[q].old, now) /\ request[q].old # NoRow
             /\ request[q].old \in Copies /\ request[q].ref \in Refs /\ request[q].goal \in Goals
  <2>1. request[q] # Idle
    BY <1>5 DEF Idle
  <2>2. /\ request[q] \in Loaded \union Answered
        /\ Sound(request[q].old, now) /\ request[q].old # NoRow
    BY <1>3, <2>1 DEF SoundRequest
  <2>3. request[q].stage = "answered" => request[q] \in Answered
    BY <2>2 DEF Loaded
  <2>4. /\ request[q].old \in Copies /\ request[q].ref \in Refs /\ request[q].goal \in Goals
    BY <2>2 DEF Loaded, Answered
  <2>5. request[q] \in Answered /\ request[q].goal # "delete" => request[q].seen \in Powers
    BY <1>3, <2>1 DEF SoundRequest
  <2> QED BY <2>2, <2>3, <2>4, <2>5
<1>6. ASSUME NEW p \in Powers \union {"absent"}, request[q].stage = "loaded",
             request[q].goal # "delete" => p \in Powers, Answer(q, p)
      PROVE  RequestInv'
  <2> DEFINE x == [stage |-> "answered", goal |-> request[q].goal, ref |-> request[q].ref,
                   old |-> request[q].old, seen |-> p]
  <2>1. x \in Answered /\ Sound(x.old, now) /\ x.old # NoRow
    BY <1>5, <1>6 DEF Answered
  <2>2. SoundRequest(x, now)
    BY <1>6, <2>1 DEF SoundRequest
  <2>3. request' = [request EXCEPT ![q] = x]
    BY <1>6 DEF Answer
  <2> HIDE DEF x
  <2> QED BY <1>1, <2>2, <2>3, RequestChanges
<1>7. ASSUME request' = [request EXCEPT ![q] = Idle]
      PROVE  RequestInv'
  BY <1>1, <1>4, <1>7, RequestChanges
<1>8. ASSUME UNCHANGED <<power, sync>>
      PROVE  VMInv' /\ SyncInv'
  <2>1. VMInv' /\ There' = There
    BY <1>1, <1>3, <1>8 DEF VMInv, There
  <2> QED BY <1>2, <1>8, <2>1, SyncsKept
<1>9. ASSUME NEW r \in Refs, Load(q, r)
      PROVE  IInv'
  <2>1. PICK goal \in Goals : request' = [request EXCEPT ![q] =
          [stage |-> "loaded", goal |-> goal, ref |-> r, old |-> row[r]]]
    BY <1>9 DEF Load
  <2>2. Sound(row[r], now) /\ row[r] # NoRow /\ row[r] \in Copies
    BY <1>9 DEF Load, Tracked, IInv, RowInv
  <2> DEFINE x == [stage |-> "loaded", goal |-> goal, ref |-> r, old |-> row[r]]
  <2>3. x \in Loaded /\ x \notin Answered /\ x.old = row[r]
    BY <2>2 DEF Loaded, Answered
  <2>4. SoundRequest(x, now)
    BY <2>2, <2>3 DEF SoundRequest
  <2>5. request' = [request EXCEPT ![q] = x]
    BY <2>1
  <2> HIDE DEF x
  <2>6. RequestInv'
    BY <1>1, <2>4, <2>5, RequestChanges
  <2> QED BY <1>2, <1>8, <1>9, <2>6, RowsKept DEF Load, IInv
<1>10. CASE AskStatus(q)
  <2>1. power[request[q].ref] \in Powers
    BY <1>3, <1>5, <1>10 DEF AskStatus, VMInv
  <2>2. RequestInv'
    BY <1>6, <1>10, <2>1 DEF AskStatus
  <2> QED BY <1>2, <1>8, <1>10, <2>2, RowsKept DEF AskStatus, IInv
<1>11. CASE SetPower(q)
  <2>1. request[q].ref \in Refs /\ request[q].goal \in Powers
    BY <1>5, <1>11 DEF SetPower
  <2>2. VMInv' /\ There \subseteq There'
    BY <1>1, <1>3, <1>11, <2>1 DEF SetPower, VMInv, There, Powers
  <2>3. RequestInv'
    BY <1>6, <1>11, <2>1 DEF SetPower
  <2> QED BY <1>2, <1>11, <2>2, <2>3, RowsKept, SyncsKept DEF SetPower, IInv
<1>12. CASE Destroy(q)
  <2>1. VMInv' /\ SyncInv'
    BY <1>1, <1>3, <1>5, <1>8, <1>12, GoneSound DEF Destroy, VMInv
  <2>2. RequestInv'
    BY <1>6, <1>12 DEF Destroy
  <2> QED BY <1>2, <1>12, <2>1, <2>2, RowsKept DEF Destroy, IInv
<1>13. CASE GiveUp(q)
  BY <1>2, <1>7, <1>8, <1>13, RowsKept DEF GiveUp, IInv
<1>14. CASE Store(q)
  <2>1. request[q].seen \in Powers /\ request[q].ref \in Refs
    BY <1>5, <1>14 DEF Store
  <2>2. RowInv'
    BY <1>1, <1>5, <1>14, <2>1, WriteStateSound DEF Store
  <2> QED BY <1>2, <1>7, <1>8, <1>14, <2>2 DEF Store, IInv
<1>15. CASE Untrack(q)
  <2>1. RowInv'
    BY <1>1, <1>5, <1>15, DeleteRowSound DEF Untrack
  <2> QED BY <1>2, <1>7, <1>8, <1>15, <2>1 DEF Untrack, IInv
<1> QED BY <1>9, <1>10, <1>11, <1>12, <1>13, <1>14, <1>15 DEF Serve

\* A pass that has its listing.
LEMMA ListedPass ==
  ASSUME IInv, NEW s \in Syncs, sync[s].stage = "listed"
  PROVE  /\ sync[s] \in Listed /\ SoundSync(sync[s], now, There)
         /\ \A r \in Refs : Sound(sync[s].old[r], now)
         /\ \A r \in sync[s].left : sync[s].old[r] # NoRow
         /\ \A r \in sync[s].steady : sync[s].seen[r] # "absent"
         /\ sync[s].steady \subseteq There
<1>1. SoundSync(sync[s], now, There)
  BY DEF IInv, SyncInv
<1>2. sync[s] # Idle /\ sync[s] \notin Read
  BY DEF Idle, Read
<1> QED BY <1>1, <1>2 DEF SoundSync

\* Going on to the next VM keeps what the pass has in hand.
LEMMA VisitedSound ==
  ASSUME IInv, NEW s \in Syncs, NEW r \in Refs, ToVisit(s, r), Visited(s, r),
         UNCHANGED <<now, power>>
  PROVE  SyncInv'
<1> DEFINE new == [sync[s] EXCEPT !.left = @ \ {r}]
<1>1. sync[s].stage = "listed"
  BY DEF ToVisit
<1>2. /\ new \in Listed
      /\ new.old = sync[s].old /\ new.left = sync[s].left \ {r}
      /\ new.steady = sync[s].steady /\ new.seen = sync[s].seen
  BY <1>1, ListedPass DEF Listed
<1>3. SoundSync(Idle, now, There)
  BY DEF SoundSync
<1> HIDE DEF new
<1>4. SoundSync(new, now, There)
  BY <1>1, <1>2, ListedPass DEF SoundSync
<1>5. sync' = [sync EXCEPT ![s] = Idle] \/ sync' = [sync EXCEPT ![s] = new]
  BY DEF Visited, new
<1> QED BY <1>3, <1>4, <1>5, SyncChanges

\* Begin to Abandon: the same for a pass.
LEMMA PassStep ==
  ASSUME IInv, NEW s \in Syncs, SyncAll(s)
  PROVE  IInv'
<1>1. UNCHANGED <<now, power, used, nextId, request>>
  BY DEF SyncAll, Begin, List, Abandon, RemoveOrphan, Ask, Record, Skip
<1>2. ClockInv' /\ now <= now' /\ VMInv' /\ RequestInv'
  BY <1>1, Unmoved, RequestsKept DEF IInv, VMInv
<1>3. CASE Begin(s)
  <2> DEFINE new == [stage |-> "read", left |-> Tracked, old |-> row, steady |-> There]
  <2>1. sync' = [sync EXCEPT ![s] = new] /\ UNCHANGED row
    BY <1>3 DEF Begin, There
  <2>2. /\ new \in Read /\ new \notin Listed
        /\ new.old = row /\ new.left = Tracked /\ new.steady = There
    BY DEF IInv, RowInv, Read, Listed, Tracked, There
  <2> HIDE DEF new
  <2>3. SoundSync(new, now, There)
    BY <2>2 DEF SoundSync, IInv, RowInv, Tracked
  <2> QED BY <1>1, <1>2, <2>1, <2>3, SyncChanges, RowsKept DEF IInv
<1>4. CASE List(s)
  <2>1. PICK seen \in {power} \union (IF ListFails THEN {[r \in Refs |-> Unlisted]} ELSE {}) :
          sync' = [sync EXCEPT ![s] =
            [stage |-> "listed", left |-> sync[s].left, old |-> sync[s].old,
             steady |-> sync[s].steady, seen |-> seen]]
    BY <1>4 DEF List
  <2>2. sync[s] # Idle /\ sync[s] \notin Listed
    BY <1>4 DEF List, Idle, Listed
  <2>3. SoundSync(sync[s], now, There)
    BY DEF IInv, SyncInv
  <2>4. sync[s] \in Read
    BY <2>2, <2>3 DEF SoundSync
  <2>5. /\ seen \in [Refs -> Powers \union {"absent", Unlisted}]
        /\ \A r \in There : seen[r] # "absent"
    BY DEF IInv, VMInv, There, Unlisted
  <2> DEFINE new == [stage |-> "listed", left |-> sync[s].left, old |-> sync[s].old,
                     steady |-> sync[s].steady, seen |-> seen]
  <2>6. /\ new \in Listed
        /\ new.old = sync[s].old /\ new.left = sync[s].left
        /\ new.steady = sync[s].steady /\ new.seen = seen
    BY <2>4, <2>5 DEF Read, Listed
  <2>7. sync' = [sync EXCEPT ![s] = new] /\ UNCHANGED row
    BY <1>4, <2>1 DEF List
  <2> HIDE DEF new
  <2>8. SoundSync(new, now, There)
    BY <2>2, <2>3, <2>5, <2>6 DEF SoundSync
  <2> QED BY <1>1, <1>2, <2>7, <2>8, SyncChanges, RowsKept DEF IInv
<1>5. CASE Abandon(s)
  <2>1. SoundSync(Idle, now, There)
    BY DEF SoundSync
  <2> QED BY <1>1, <1>2, <1>5, <2>1, SyncChanges, RowsKept DEF Abandon, IInv
<1>6. ASSUME NEW r \in Refs, RemoveOrphan(s, r)
      PROVE  IInv'
  BY <1>1, <1>2, <1>6, VisitedSound, DeleteRowSound DEF RemoveOrphan, IInv
<1>7. ASSUME NEW r \in Refs, Ask(s, r)
      PROVE  IInv'
  <2>1. sync[s].stage = "listed" /\ UNCHANGED row
    BY <1>7 DEF Ask, ToVisit
  <2> DEFINE new == [sync[s] EXCEPT !.seen = [sync[s].seen EXCEPT ![r] = power[r]]]
  <2>2. sync' = [sync EXCEPT ![s] = new]
    BY <1>7 DEF Ask
  <2>3. sync[s].seen \in [Refs -> Powers \union {"absent", Unlisted}]
    BY <2>1, ListedPass DEF Listed
  <2>4. /\ new \in Listed
        /\ new.old = sync[s].old /\ new.left = sync[s].left
        /\ new.steady = sync[s].steady
        /\ new.seen = [sync[s].seen EXCEPT ![r] = power[r]]
    BY <2>1, <2>3, ListedPass DEF Listed, IInv, VMInv
  <2>5. \A v \in sync[s].steady : new.seen[v] # "absent"
    <3>1. power[r] # "absent" /\ sync[s].steady \subseteq Refs
      BY <1>7, <2>1, ListedPass DEF Ask, There
    <3> QED BY <2>1, <2>3, <2>4, <3>1, ListedPass
  <2> HIDE DEF new
  <2>6. SoundSync(new, now, There)
    BY <2>1, <2>4, <2>5, ListedPass DEF SoundSync
  <2> QED BY <1>1, <1>2, <2>1, <2>2, <2>6, SyncChanges, RowsKept DEF IInv
<1>8. ASSUME NEW r \in Refs, Record(s, r)
      PROVE  IInv'
  <2>1. sync[s].stage = "listed" /\ r \in sync[s].left
    BY <1>8 DEF Record, ToVisit
  <2>2. Sound(sync[s].old[r], now) /\ sync[s].old[r] # NoRow
    BY <2>1, ListedPass
  <2>3. RowInv'
    BY <1>1, <1>8, <2>2, WriteStateSound DEF Record
  <2> QED BY <1>1, <1>2, <1>8, <2>3, VisitedSound DEF Record, IInv
<1>9. ASSUME NEW r \in Refs, Skip(s, r)
      PROVE  IInv'
  BY <1>1, <1>2, <1>9, VisitedSound, RowsKept DEF Skip, IInv
<1> QED BY <1>3, <1>4, <1>5, <1>6, <1>7, <1>8, <1>9 DEF SyncAll

LEMMA InitSound ==
  ASSUME Init
  PROVE  IInv
<1>1. ClockInv /\ VMInv
  BY TimeIsNatural DEF Init, ClockInv, VMInv
<1>2. RowInv
  BY NoRowSound DEF Init, RowInv
<1>3. RequestInv /\ SyncInv
  BY DEF Init, RequestInv, SyncInv, SoundRequest, SoundSync
<1> QED BY <1>1, <1>2, <1>3 DEF IInv

LEMMA SoundStep ==
  ASSUME IInv, [Next]_vars
  PROVE  IInv'
<1>1. CASE UNCHANGED vars
  <2>1. UNCHANGED <<now, power, used, row, nextId, request, sync>>
    BY <1>1 DEF vars
  <2>2. There' = There /\ VMInv'
    BY <2>1 DEF There, IInv, VMInv
  <2> QED BY <2>1, <2>2, Unmoved, RowsKept, RequestsKept, SyncsKept DEF IInv
<1> QED BY <1>1, TickStep, HypervisorStep, InsertStep, RequestStep, PassStep DEF Next

\* Whatever copies of rows the observers hold and in whatever order they write
\* them, the table and the copies stay sound.
THEOREM InventorySound == Spec => []IInv
BY InitSound, SoundStep, PTL DEF Spec

------------------------------------------------------------------------------
(* What follows *)

\* A sound copy has the type of a row.
LEMMA SoundTyped ==
  ASSUME ClockInv, NEW x, Sound(x, now)
  PROVE  x \in Rows
<1>1. now \in Nat /\ now <= MaxTime
  BY TimeIsNatural DEF ClockInv
<1>2. x.born \in 0..MaxTime /\ x.onSince \in Never..MaxTime /\ x.total \in 0..MaxTime
  BY <1>1, TimeIsNatural DEF Sound, Copies, Never
<1>3. x \in Copies
  BY DEF Sound
<1> QED BY <1>2, <1>3 DEF Copies, Rows

LEMMA InvTyped ==
  ASSUME IInv
  PROVE  TypeOK
<1>1. row \in [Refs -> Rows]
  BY SoundTyped DEF IInv, RowInv
<1>2. ASSUME NEW q \in Requests, request[q] # Idle
      PROVE  request[q] \in [stage : {"loaded"}, goal : Goals, ref : Refs, old : Rows]
                \union [stage : {"answered"}, goal : Goals, ref : Refs, old : Rows,
                        seen : Powers \union {"absent"}]
  <2>1. request[q] \in Loaded \union Answered /\ Sound(request[q].old, now)
    BY <1>2 DEF IInv, RequestInv, SoundRequest
  <2>2. request[q].old \in Rows
    BY <2>1, SoundTyped DEF IInv
  <2> QED BY <2>1, <2>2 DEF Loaded, Answered
<1>3. ASSUME NEW s \in Syncs, sync[s] # Idle
      PROVE  sync[s] \in
               [stage : {"read"}, left : SUBSET Refs, old : [Refs -> Rows], steady : SUBSET Refs]
                 \union [stage : {"listed"}, left : SUBSET Refs, old : [Refs -> Rows],
                         steady : SUBSET Refs, seen : [Refs -> Powers \union {"absent", Unlisted}]]
  <2>1. sync[s] \in Read \union Listed /\ \A r \in Refs : Sound(sync[s].old[r], now)
    BY <1>3 DEF IInv, SyncInv, SoundSync
  <2>2. sync[s].old \in [Refs -> Copies]
    BY <2>1 DEF Read, Listed
  <2>3. sync[s].old \in [Refs -> Rows]
    BY <2>1, <2>2, SoundTyped DEF IInv
  <2>4. CASE sync[s] \in Read
    BY <2>3, <2>4 DEF Read
  <2>5. CASE sync[s] \in Listed
    BY <2>3, <2>5 DEF Listed
  <2> QED BY <2>1, <2>4, <2>5
<1> QED BY <1>1, <1>2, <1>3 DEF TypeOK, IInv, ClockInv, VMInv, RequestInv, SyncInv

\* The variables keep their types: in particular ids and times stay within the
\* bounds that the counters are given.
THEOREM InventoryTypeCorrect == Spec => []TypeOK
BY InventorySound, InvTyped, PTL

\* The running time of a row never exceeds the time the row has existed, however
\* many observers overwrite each other with what they read earlier.
THEOREM RuntimeIsBounded == Spec => []RuntimeWithinLifetime
<1>1. IInv => RuntimeWithinLifetime
  <2> SUFFICES ASSUME IInv, NEW r \in Tracked
               PROVE  row[r].total + (IF row[r].power = "poweredOn" THEN now - row[r].onSince ELSE 0)
                        <= now - row[r].born
    BY DEF RuntimeWithinLifetime
  <2>1. Sound(row[r], now) /\ now \in Nat
    BY TimeIsNatural DEF IInv, RowInv, ClockInv, Tracked
  <2> QED BY <2>1 DEF Sound, Copies
<1> QED BY <1>1, InventorySound, PTL

\* A row that shows its VM running has a start within its lifetime.
THEOREM RunningHasStart == Spec => []RunningIsTimed
<1>1. IInv => RunningIsTimed
  <2> SUFFICES ASSUME IInv, NEW r \in Tracked, row[r].power = "poweredOn"
               PROVE  row[r].onSince \in row[r].born..now
    BY DEF RunningIsTimed
  <2>1. Sound(row[r], now) /\ now \in Nat
    BY TimeIsNatural DEF IInv, RowInv, ClockInv, Tracked
  <2> QED BY <2>1 DEF Sound, Copies
<1> QED BY <1>1, InventorySound, PTL

\* A write of an observer never takes a row away.
LEMMA WriteKeepsRows ==
  ASSUME IInv, NEW r \in Refs, NEW old, Sound(old, now), old # NoRow, NEW p \in Powers,
         WriteState(r, old, p)
  PROVE  \A v \in Refs : row[v] # NoRow => row'[v] # NoRow
<1>1. Observed(old, p) # NoRow
  BY ObservedSound, TimeIsNatural DEF IInv, ClockInv
<1> QED BY <1>1 DEF WriteState, IInv, RowInv

\* Who takes a row away: a request to delete that VM, or a pass that has not seen
\* the VM there all along.
LEMMA UntrackedStep ==
  ASSUME IInv, [Next]_vars, NEW v \in Refs, row[v] # NoRow, row'[v] = NoRow
  PROVE  \/ \E q \in Requests : Deletes(q, v)
         \/ \E s \in Syncs : ToVisit(s, v) /\ v \notin sync[s].steady
<1>1. ~UNCHANGED row
  OBVIOUS
<1>2. CASE UNCHANGED vars
  BY <1>1, <1>2 DEF vars
<1>3. CASE Tick
  BY <1>1, <1>3 DEF Tick
<1>4. ASSUME NEW r \in Refs, Hypervisor(r)
      PROVE  FALSE
  BY <1>1, <1>4 DEF Hypervisor, Appear, Switch, Vanish
<1>5. ASSUME NEW r \in Refs, Insert(r)
      PROVE  FALSE
  <2>1. r = v
    BY <1>5 DEF Insert, Register, Adopt, Create, IInv, RowInv
  <2>2. row'[v] = [Seed("poweredOn") EXCEPT !.id = row[v].id, !.born = row[v].born]
    BY <1>5, <2>1 DEF Insert, Register, Adopt, Create, IInv, RowInv
  <2>3. row[v].id # 0
    BY DEF IInv, RowInv, Sound
  <2>4. Seed("poweredOn") \in Copies
    <3>1. NoRow.power = "unknown" /\ ~RanUntilNow(NoRow) /\ NoRow \in Copies /\ now \in Int
      BY NoRowSound, TimeIsNatural DEF RanUntilNow, NoRow, IInv, ClockInv
    <3>2. Seed("poweredOn") = [[[NoRow EXCEPT !.power = "poweredOn"]
                                  EXCEPT !.total = NoRow.total] EXCEPT !.onSince = now]
      BY <3>1 DEF Seed, Observed
    <3> QED BY <3>1, <3>2 DEF Copies, Powers
  <2>5. row'[v].id = row[v].id /\ NoRow.id = 0
    BY <2>2, <2>4 DEF Copies, NoRow
  <2> QED BY <2>3, <2>5
<1>6. ASSUME NEW q \in Requests, Serve(q)
      PROVE  Deletes(q, v)
  <2>1. CASE Store(q)
    <3>1. /\ request[q].seen \in Powers /\ request[q].ref \in Refs
          /\ Sound(request[q].old, now) /\ request[q].old # NoRow
      BY <2>1 DEF IInv, RequestInv, SoundRequest, Store, Idle, Loaded, Answered
    <3> QED BY <2>1, <3>1, WriteKeepsRows DEF Store
  <2>2. CASE Untrack(q)
    BY <2>2 DEF Untrack, DeleteRow, Deletes, IInv, RowInv
  <2> QED BY <1>1, <1>6, <2>1, <2>2 DEF Serve, Load, AskStatus, SetPower, Destroy, GiveUp
<1>7. ASSUME NEW s \in Syncs, SyncAll(s)
      PROVE  ToVisit(s, v) /\ v \notin sync[s].steady
  <2>1. PICK r \in Refs : RemoveOrphan(s, r) \/ Record(s, r)
    BY <1>1, <1>7 DEF SyncAll, Begin, List, Abandon, Ask, Skip
  <2>2. sync[s].stage = "listed" /\ r \in sync[s].left /\ ToVisit(s, r)
    BY <2>1 DEF RemoveOrphan, Record, ToVisit
  <2>3. CASE Record(s, r)
    <3>1. sync[s].seen[r] \in Powers /\ Sound(sync[s].old[r], now) /\ sync[s].old[r] # NoRow
      BY <2>2, <2>3, ListedPass DEF Record
    <3> QED BY <2>3, <3>1, WriteKeepsRows DEF Record
  <2>4. CASE RemoveOrphan(s, r)
    <3>1. v = r
      BY <2>4 DEF RemoveOrphan, DeleteRow, IInv, RowInv
    <3>2. r \notin sync[s].steady
      BY <2>2, <2>4, ListedPass DEF RemoveOrphan
    <3> QED BY <2>2, <3>1, <3>2
  <2> QED BY <2>1, <2>3, <2>4
<1> QED BY <1>2, <1>3, <1>4, <1>5, <1>6, <1>7 DEF Next

\* A pass never untracks a VM that was there the whole time it ran, also when the
\* listing failed.
THEOREM OrphansWereMissing == Spec => OnlyMissingRemoved
<1>1. IInv /\ [Next]_vars =>
        [\A r \in Refs : row[r] # NoRow /\ row'[r] = NoRow =>
           \/ \E q \in Requests : Deletes(q, r)
           \/ \E s \in Syncs : ToVisit(s, r) /\ r \notin sync[s].steady]_vars
  BY UntrackedStep
<1> QED BY <1>1, InventorySound, PTL DEF Spec, OnlyMissingRemoved
=============================================================================
