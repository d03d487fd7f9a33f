---------------------------------- MODULE Vault ----------------------------------
(***************************************************************************)
(* The logins of virtual machines (internal/service/credentials.go,        *)
(* internal/db/vm_credentials.go), their export                            *)
(* (internal/service/credential_export.go,                                 *)
(* internal/api/handlers/credential_export.go) and the audit log           *)
(* (internal/service/audit.go): a bounded queue with one writer, and       *)
(* entries that are stored before the request goes on.                     *)
(*                                                                         *)
(* One administrator exports, in several requests at once.  An export      *)
(* reads one VM after another while users set and clear logins.            *)
(***************************************************************************)
EXTENDS Naturals, Sequences, FiniteSets

CONSTANTS VMs,
          Deployed,     \* VMs with a login from their deployment
          Exports,      \* slots for export requests
          QueueCap,     \* entries the queue holds (1000 in the code)
          MaxExport,    \* VMs one export may have (5000 in the code)
          MaxFailures,  \* wrong passwords before the lockout (5 in the code)
          MaxCalls      \* bound: requests

ASSUME VaultAssumption ==
  /\ Deployed \subseteq VMs /\ IsFiniteSet(VMs)
  /\ {QueueCap, MaxExport, MaxFailures, MaxCalls} \subseteq Nat

VARIABLES
  logins,   \* logins[v]: the login set for the VM
  setting,  \* the login a user is trying before it is stored
  exports,  \* exports[x]: where the request stands and what it has read
  recent,   \* wrong passwords in the window: those of its older and its newer half
  queue,    \* audit entries waiting for the writer
  record,   \* the audit table: entries, and whether retention is over
  filed,    \* history: <<request, VMs>> of export entries that were stored
  sent,     \* files that left the server: <<request, VMs>>
  calls     \* requests so far

vaultVars == <<logins, setting, exports, recent, queue, record, filed, sent, calls>>

NoLogin  == [kind |-> "none"]
Logins   == [kind : {"none", "password", "private_key"}]
NoExport == [at |-> "idle", number |-> 0, format |-> "1pux", inherited |-> TRUE,
             scope |-> {}, left |-> {}, items |-> {}]

VaultInit ==
  /\ logins = [v \in VMs |-> NoLogin] /\ setting = <<>>
  /\ exports = [x \in Exports |-> NoExport] /\ recent = [older |-> 0, newer |-> 0]
  /\ queue = <<>> /\ record = {} /\ filed = {} /\ sent = {} /\ calls = 0

VaultCall == calls < MaxCalls /\ calls' = calls + 1

------------------------------------------------------------------------------
(* The audit log *)

NoFile == <<0, {}>>

Entry(what, file) == [what |-> what, file |-> file]

\* Fire and forget: with a full queue the entry is dropped.
Queued(entry) == IF Len(queue) < QueueCap THEN Append(queue, entry) ELSE queue

\* An entry is stored, or its statement fails.
Recorded(entry) ==
  /\ record' = record \union {[entry |-> entry, old |-> FALSE]}
  /\ filed' = IF entry.what = "export" THEN filed \union {entry.file} ELSE filed
NotRecorded == UNCHANGED <<record, filed>>

\* A request that is audited and changes nothing else here.
OtherRequest ==
  /\ VaultCall /\ queue' = Queued(Entry("other", NoFile))
  /\ UNCHANGED <<logins, setting, exports, recent, record, filed, sent>>

\* An entry that cannot be stored is lost.
WriteEntry ==
  /\ queue # <<>> /\ queue' = Tail(queue)
  /\ Recorded(Head(queue)) \/ NotRecorded
  /\ UNCHANGED <<logins, setting, exports, recent, sent, calls>>

\* A request does not last until its entry is too old.
Ages ==
  /\ \E r \in record : ~r.old
  /\ \A x \in Exports : exports[x].at # "send"
  /\ record' = {[r EXCEPT !.old = TRUE] : r \in record}
  /\ UNCHANGED <<logins, setting, exports, recent, queue, filed, sent, calls>>

RunCleanup ==
  /\ \E r \in record : r.old
  /\ record' = {r \in record : ~r.old}
  /\ UNCHANGED <<logins, setting, exports, recent, queue, filed, sent, calls>>

------------------------------------------------------------------------------
(* Logins *)

\* The login the server uses: the VM's own, else the deployment's.
Resolve(v) ==
  IF logins[v] # NoLogin THEN [kind |-> logins[v].kind, source |-> "vm"]
  ELSE IF v \in Deployed THEN [kind |-> "password", source |-> "deployment"]
  ELSE [kind |-> "none", source |-> "none"]

\* The login is tried on the VM, unless it is off, has no address or force is set;
\* a login that fails is not stored.
TestCredentials(v) ==
  /\ setting = <<>> /\ VaultCall
  /\ \/ \E login \in Logins \ {NoLogin} : setting' = <<v, login>>
     \/ UNCHANGED setting
  /\ UNCHANGED <<logins, exports, recent, queue, record, filed, sent>>

SetVMCredential ==
  /\ setting # <<>> /\ setting' = <<>>
  /\ \/ logins' = [logins EXCEPT ![setting[1]] = setting[2]] /\ queue' = Queued(Entry("other", NoFile))
     \/ UNCHANGED <<logins, queue>>
  /\ UNCHANGED <<exports, recent, record, filed, sent, calls>>

ClearCredentials(v) ==
  /\ VaultCall
  /\ \/ logins' = [logins EXCEPT ![v] = NoLogin] /\ queue' = Queued(Entry("other", NoFile))
     \/ UNCHANGED <<logins, queue>>
  /\ UNCHANGED <<setting, exports, recent, record, filed, sent>>

------------------------------------------------------------------------------
(* What an export takes *)

\* A key does not go into a CSV file; a deployment's login only if asked for.
Takes(v, format, inherited) ==
  LET r == Resolve(v)
  IN  /\ r.source = "vm" \/ (r.source = "deployment" /\ inherited)
      /\ r.kind = "private_key" => format = "1pux"

------------------------------------------------------------------------------
(* The export request *)

Failures == recent.older + recent.newer

\* A request that the lockout refuses is over; otherwise the password is checked next.
BeginExport(x) ==
  /\ exports[x].at = "idle" /\ VaultCall
  /\ \E scope \in SUBSET VMs, format \in {"1pux", "csv"}, inherited \in BOOLEAN :
       IF Failures < MaxFailures
       THEN /\ exports' = [exports EXCEPT ![x] = [at |-> "password", number |-> calls + 1,
                 format |-> format, inherited |-> inherited, scope |-> scope,
                 left |-> scope, items |-> {}]]
            /\ NotRecorded
       ELSE /\ Recorded(Entry("denied", NoFile)) \/ NotRecorded
            /\ UNCHANGED exports
  /\ UNCHANGED <<logins, setting, recent, queue, sent>>

EndsExport(x) == exports' = [exports EXCEPT ![x] = NoExport]
StepsTo(x, at) == exports' = [exports EXCEPT ![x].at = at]

WrongPassword(x) ==
  /\ exports[x].at = "password" /\ EndsExport(x)
  /\ recent' = [recent EXCEPT !.newer = recent.newer + 1]
  /\ Recorded(Entry("denied", NoFile)) \/ NotRecorded
  /\ UNCHANGED <<logins, setting, queue, sent, calls>>

RightPassword(x) ==
  /\ exports[x].at = "password" /\ StepsTo(x, "read")
  /\ recent' = [older |-> 0, newer |-> 0]
  /\ UNCHANGED <<logins, setting, queue, record, filed, sent, calls>>

\* Half of the fifteen minutes have passed.
Prune ==
  /\ Failures > 0 /\ recent' = [older |-> recent.newer, newer |-> 0]
  /\ UNCHANGED <<logins, setting, exports, queue, record, filed, sent, calls>>

\* One VM after the other, in one order; a login that cannot be decrypted ends the request.
ReadLogin(x) ==
  /\ exports[x].at = "read"
  /\ LET r == exports[x] IN
       \/ Cardinality(r.scope) > MaxExport /\ EndsExport(x)
       \/ /\ Cardinality(r.scope) <= MaxExport
          /\ r.left # {}
          /\ LET v == CHOOSE v \in r.left : TRUE IN
               exports' = [exports EXCEPT ![x].left = r.left \ {v},
                 ![x].items = IF Takes(v, r.format, r.inherited) THEN r.items \union {v} ELSE r.items]
       \/ EndsExport(x)
  /\ UNCHANGED <<logins, setting, recent, queue, record, filed, sent, calls>>

WriteFile(x) ==
  /\ exports[x].at = "read" /\ exports[x].left = {} /\ Cardinality(exports[x].scope) <= MaxExport
  /\ IF exports[x].items = {} THEN EndsExport(x) ELSE StepsTo(x, "record")
  /\ UNCHANGED <<logins, setting, recent, queue, record, filed, sent, calls>>

File(x) == <<exports[x].number, exports[x].items>>

\* Slip: the entry of an export goes the way of all others.
LogLater(x) == queue' = Queued(Entry("export", File(x))) /\ NotRecorded

LogSync(x) == Recorded(Entry("export", File(x))) /\ UNCHANGED queue

LogExport(x) ==
  /\ exports[x].at = "record"
  /\ \/ LogSync(x) /\ StepsTo(x, "send")
     \/ EndsExport(x) /\ UNCHANGED <<queue, record, filed>>
  /\ UNCHANGED <<logins, setting, recent, sent, calls>>

\* Administrators and subscribers are told, then the file leaves.
SendFile(x) ==
  /\ exports[x].at = "send" /\ EndsExport(x) /\ sent' = sent \union {File(x)}
  /\ UNCHANGED <<logins, setting, recent, queue, record, filed, calls>>

\* What waits in the queue is lost: nobody asks the writer to drain it.
VaultRestart ==
  /\ (queue # <<>> \/ setting # <<>> \/ \E x \in Exports : exports[x] # NoExport)
  /\ queue' = <<>> /\ setting' = <<>> /\ exports' = [x \in Exports |-> NoExport]
  /\ recent' = [older |-> 0, newer |-> 0]
  /\ UNCHANGED <<logins, record, filed, sent, calls>>

VaultNext ==
  \/ OtherRequest \/ WriteEntry \/ Ages \/ RunCleanup \/ Prune \/ SetVMCredential \/ VaultRestart
  \/ \E v \in VMs : TestCredentials(v) \/ ClearCredentials(v)
  \/ \E x \in Exports : \/ BeginExport(x) \/ WrongPassword(x) \/ RightPassword(x) \/ ReadLogin(x)
                        \/ WriteFile(x) \/ LogExport(x) \/ SendFile(x)

VaultSpec == VaultInit /\ [][VaultNext]_vaultVars

------------------------------------------------------------------------------
(* Properties *)

Entries == [what : {"other", "denied", "export"},
            file : (0..MaxCalls) \X SUBSET VMs]

\* Every variable has its type.
VaultTypeOK ==
  /\ logins \in [VMs -> Logins] /\ calls \in 0..MaxCalls
  /\ setting = <<>> \/ setting \in VMs \X Logins
  /\ \A x \in Exports : /\ exports[x].at \in {"idle", "password", "read", "record", "send"}
                        /\ exports[x].items \subseteq exports[x].scope
  /\ recent \in [older : Nat, newer : Nat] /\ Len(queue) <= QueueCap
  /\ \A i \in DOMAIN queue : queue[i] \in Entries
  /\ \A r \in record : r.entry \in Entries /\ r.old \in BOOLEAN

\* A file leaves only when an entry that names exactly its VMs is on record, also when
\* statements fail and the server stops (handlers/credential_export.go:258, "An export that
\* cannot be recorded does not happen").
NoExportOffRecord == sent \subseteq filed
=============================================================================
