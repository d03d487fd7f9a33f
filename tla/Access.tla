--------------------------------- MODULE Access ---------------------------------
(***************************************************************************)
(* Who may use the server (internal/api/middleware/auth.go,                *)
(* internal/api/handlers/auth.go, settings.go and api_keys.go,             *)
(* internal/service/ldap.go): accounts, the sessions and API keys issued   *)
(* for them, and the requests of administrators that change them.          *)
(*                                                                         *)
(* A request is authenticated once, when it enters.  Its handler then      *)
(* reads, checks and writes in separate statements, so the accounts it     *)
(* checked may have changed when it writes, and any statement may fail.     *)
(***************************************************************************)
EXTENDS Integers, FiniteSets

CONSTANTS Users,        \* row ids of users; 1 is the administrator made at startup
          Directory,    \* those who come from the LDAP directory
          Keys,         \* row ids of api_keys
          KeyLimit,     \* keys a user may have (20 in the code)
          Requests,     \* slots for requests in flight
          MaxRequests,  \* bound: requests that change something
          NoOne         \* no user

ASSUME AccessAssumption ==
  /\ 1 \in Users /\ Directory \subseteq Users \ {1} /\ NoOne \notin Users
  /\ KeyLimit \in Nat \ {0} /\ MaxRequests \in Nat /\ IsFiniteSet(Users)

RoleLevel  == [viewer |-> 0, user |-> 1, admin |-> 2]
Roles      == DOMAIN RoleLevel
ScopeLevel == [read |-> 0, execute |-> 1, deploy |-> 2, full |-> 3]
Scopes     == DOMAIN ScopeLevel

VARIABLES
  users,     \* users[u]: the row
  sessions,  \* JWTs handed out: <<user, token version>>
  keys,      \* keys[k]: the row of api_keys
  requests,  \* requests[q]: where the handler stands and what it knows
  asked,     \* requests entered so far
  revoked,   \* history: sessions a finished request was to end
  spared,    \* history: those of them whose account's version could not be written
  overtaken  \* history: an administrator was changed while requests overlapped

accessVars == <<users, sessions, keys, requests, asked, revoked, spared, overtaken>>

NoKey     == [owner |-> NoOne, role |-> "inherit", scope |-> "full"]
NoRequest == [at |-> "idle", op |-> "none", actor |-> NoOne, target |-> NoOne, role |-> "viewer",
              version |-> 0]

Row(state, role) == [state |-> state, role |-> role, version |-> 0]

AccessInit ==
  /\ users = [u \in Users |-> IF u = 1 THEN Row("active", "admin") ELSE Row("unused", "viewer")]
  /\ sessions = {} /\ keys = [k \in Keys |-> NoKey]
  /\ requests = [q \in Requests |-> NoRequest] /\ asked = 0
  /\ revoked = {} /\ spared = {} /\ overtaken = FALSE

------------------------------------------------------------------------------
(* Authentication *)

IsActive(u) == users[u].state = "active"
Known(u)    == users[u].state \in {"active", "disabled"}
Admins      == {u \in Users : Known(u) /\ users[u].role = "admin"}
ActiveAdmins == {u \in Admins : IsActive(u)}

\* A session is good for the version it was issued at.
Accepted(s) == IsActive(s[1]) /\ s[2] = users[s[1]].version

\* A key acts with the lower of its own role and its owner's.
EffectiveRole(k) ==
  LET mine == keys[k].role  owners == users[keys[k].owner].role
  IN  IF mine # "inherit" /\ RoleLevel[mine] < RoleLevel[owners] THEN mine ELSE owners

Allowed(u, role, scope) ==
  /\ IsActive(u)
  /\ \/ <<u, users[u].version>> \in sessions /\ RoleLevel[users[u].role] >= RoleLevel[role]
     \/ \E k \in Keys : /\ keys[k].owner = u /\ RoleLevel[EffectiveRole(k)] >= RoleLevel[role]
                        /\ ScopeLevel[keys[k].scope] >= ScopeLevel[scope]

------------------------------------------------------------------------------
(* Requests enter, and end *)

Enter(q, op, u, t, role, at) ==
  /\ requests[q].at = "idle" /\ asked < MaxRequests /\ asked' = asked + 1
  /\ requests' = [requests EXCEPT ![q] = [at |-> at, op |-> op, actor |-> u,
                                          target |-> t, role |-> role, version |-> users[t].version]]
  /\ UNCHANGED <<users, sessions, keys, revoked, spared, overtaken>>

Ends(q) == requests' = [requests EXCEPT ![q] = NoRequest]

\* Another handler is about to change an account.
Overlaps(q) == \E p \in Requests \ {q} : requests[p].at \in {"check", "write"}

\* Slip: an administrator may change his own account.
MayTargetAny(u, t, op) == Known(t)

\* Nobody changes his own role, state or existence; signing out is different.
MayTarget(u, t, op) == Known(t) /\ (u = t => op = "logout")

AdminOps == {"role", "disable", "enable", "delete", "logout"}

\* Routes under RequireRole("admin") and RequireScope("full").
AdminRequest(q) ==
  \E u \in Users : Allowed(u, "admin", "full") /\
    \E t \in Users, op \in AdminOps, role \in Roles :
      /\ MayTarget(u, t, op) /\ (op # "role" => role = "viewer")
      /\ Enter(q, op, u, t, role, "check")

CreateUser(q) ==
  \E u \in Users : Allowed(u, "admin", "full") /\
    \E t \in Users \ Directory, role \in Roles :
      users[t].state = "unused" /\ Enter(q, "create", u, t, role, "write")

\* Any user ends his own sessions.
Logout(q) == \E u \in Users : Allowed(u, "viewer", "read") /\ Enter(q, "signout", u, u, "viewer", "bump")

------------------------------------------------------------------------------
(* Handlers of accounts *)

\* Deleting counts administrators, disabled ones too; disabling counts active ones.
LastAdmin(op, t) ==
  /\ t \in Admins
  /\ \/ op = "delete" /\ Cardinality(Admins) = 1
     \/ op = "disable" /\ Cardinality(ActiveAdmins) <= 1

CheckAccount(q) ==
  /\ requests[q].at = "check"
  /\ LET r == requests[q] IN
       IF LastAdmin(r.op, r.target) \/ ~Known(r.target) THEN Ends(q)
       ELSE requests' = [requests EXCEPT ![q].at = IF r.op = "logout" THEN "bump" ELSE "write"]
  /\ UNCHANGED <<users, sessions, keys, asked, revoked, spared, overtaken>>

\* Keys, deployments and executions refer to their user: such a row cannot go.
Refers(t) == \E k \in Keys : keys[k].owner = t

Written(r) ==
  CASE r.op = "role"    -> [users EXCEPT ![r.target].role = r.role]
    [] r.op = "disable" -> [users EXCEPT ![r.target].state = "disabled"]
    [] r.op = "enable"  -> [users EXCEPT ![r.target].state = "active"]
    [] r.op = "delete"  -> [users EXCEPT ![r.target] = Row("deleted", "viewer")]
    [] r.op = "create"  -> [users EXCEPT ![r.target] = Row("active", r.role)]

\* A row that is gone is no error; a name that is taken meanwhile is one.
WriteAccount(q) ==
  /\ requests[q].at = "write"
  /\ LET r == requests[q]
         refused == \/ r.op = "create" /\ users[r.target].state # "unused"
                    \/ r.op = "delete" /\ Refers(r.target)
                    \/ r.op # "create" /\ ~Known(r.target)
     IN  /\ users' = IF refused THEN users ELSE Written(r)
         /\ overtaken' = (overtaken \/ (Overlaps(q) /\ r.target \in Admins))
         /\ IF r.op = "disable" THEN requests' = [requests EXCEPT ![q].at = "bump"] ELSE Ends(q)
  /\ UNCHANGED <<sessions, keys, asked, revoked, spared>>

\* Slip: only a sign-out ends the sessions of an account.
BumpOnLogout(r) == IF r.op \in {"logout", "signout"} THEN 1 ELSE 0

IncrementTokenVersion(r) == 1

SessionsOf(u) == {s \in sessions : s[1] = u}
Bump(q) ==
  /\ requests[q].at = "bump"
  /\ LET r == requests[q] IN
       /\ users' = IF Known(r.target)
                   THEN [users EXCEPT ![r.target].version = @ + IncrementTokenVersion(r)] ELSE users
       /\ revoked' = revoked \union SessionsOf(r.target) /\ spared' = spared \ SessionsOf(r.target)
  /\ Ends(q) /\ UNCHANGED <<sessions, keys, asked, overtaken>>

\* The user's own sign-out and a disable only log that the version could not be
\* written, and answer success; the administrator's sign-out answers an error.
Unreported == {"signout", "disable"}
BumpFails(q) ==
  /\ requests[q].at = "bump"
  /\ LET r == requests[q]
         theirs == IF r.op \in Unreported THEN SessionsOf(r.target) ELSE {}
     IN  revoked' = revoked \union theirs /\ spared' = spared \union (theirs \ revoked)
  /\ Ends(q) /\ UNCHANGED <<users, sessions, keys, asked, overtaken>>

\* Any other statement that fails ends its request with an error, except the write
\* of a directory user's role, whose failure is dropped.
StatementFails(q) ==
  /\ requests[q].at \in {"check", "write", "groups", "issue", "count", "insert"}
  /\ IF requests[q].at = "groups" /\ users[requests[q].target].state # "unused"
     THEN requests' = [requests EXCEPT ![q].at = "issue"] ELSE Ends(q)
  /\ UNCHANGED <<users, sessions, keys, asked, revoked, spared, overtaken>>

------------------------------------------------------------------------------
(* Signing in: the token carries the version of the row that was read. *)

Login(q) ==
  \E u \in Users \ Directory : IsActive(u)
    /\ Enter(q, "login", u, u, users[u].role, "issue")

\* The role follows the groups of the directory at every sign-in.
DirectoryLogin(q) ==
  \E u \in Directory, role \in Roles : users[u].state \in {"active", "unused"}
    /\ Enter(q, "login", u, u, role, "groups")

FollowGroups(q) ==
  /\ requests[q].at = "groups"
  /\ LET r == requests[q] IN
       /\ users' = IF users[r.target].state = "unused" THEN [users EXCEPT ![r.target] = Row("active", r.role)]
                   ELSE IF Known(r.target) THEN [users EXCEPT ![r.target].role = r.role] ELSE users
       /\ overtaken' = (overtaken \/ (r.target \in Admins /\ r.role # "admin"))
  /\ requests' = [requests EXCEPT ![q].at = "issue"]
  /\ UNCHANGED <<sessions, keys, asked, revoked, spared>>

Issue(q) ==
  /\ requests[q].at = "issue"
  /\ sessions' = sessions \union {<<requests[q].target, requests[q].version>>}
  /\ Ends(q) /\ UNCHANGED <<users, keys, asked, revoked, spared, overtaken>>

------------------------------------------------------------------------------
(* API keys *)

CountAPIKeysByUser(u) == Cardinality({k \in Keys : keys[k].owner = u})

\* A key never has a role above the one its owner has now.
CreateKey(q) ==
  \E u \in Users, role \in {"inherit"} \union Roles :
    /\ Allowed(u, "user", "full")
    /\ role # "inherit" => RoleLevel[role] <= RoleLevel[users[u].role]
    /\ Enter(q, "key", u, u, role, "count")

BelowLimit(u) == CountAPIKeysByUser(u) < KeyLimit

CountKeys(q) ==
  /\ requests[q].at = "count"
  /\ IF BelowLimit(requests[q].actor) THEN requests' = [requests EXCEPT ![q].at = "insert"] ELSE Ends(q)
  /\ UNCHANGED <<users, sessions, keys, asked, revoked, spared, overtaken>>

InsertKey(q) ==
  /\ requests[q].at = "insert" /\ Ends(q)
  /\ \/ \E k \in Keys, scope \in Scopes :
          /\ Known(requests[q].actor) /\ keys[k] = NoKey
          /\ keys' = [keys EXCEPT ![k] = [owner |-> requests[q].actor, role |-> requests[q].role,
                                          scope |-> scope]]
     \/ ~Known(requests[q].actor) /\ UNCHANGED keys
  /\ UNCHANGED <<users, sessions, asked, revoked, spared, overtaken>>

DeleteKey(k) ==
  /\ keys[k] # NoKey
  /\ \E u \in Users : Allowed(u, "user", "full") /\ (keys[k].owner = u \/ users[u].role = "admin")
  /\ asked < MaxRequests /\ asked' = asked + 1
  /\ keys' = [keys EXCEPT ![k] = NoKey]
  /\ UNCHANGED <<users, sessions, requests, revoked, spared, overtaken>>

AccessNext ==
  \/ \E q \in Requests : \/ AdminRequest(q) \/ CreateUser(q) \/ Logout(q) \/ CheckAccount(q) \/ WriteAccount(q)
                         \/ Bump(q) \/ BumpFails(q) \/ StatementFails(q)
                         \/ Login(q) \/ DirectoryLogin(q) \/ FollowGroups(q) \/ Issue(q)
                         \/ CreateKey(q) \/ CountKeys(q) \/ InsertKey(q)
  \/ \E k \in Keys : DeleteKey(k)

AccessSpec == AccessInit /\ [][AccessNext]_accessVars

------------------------------------------------------------------------------
(* Properties *)

\* Every variable has its type.
AccessTypeOK ==
  /\ users \in [Users -> [state : {"unused", "active", "disabled", "deleted"}, role : Roles, version : Nat]]
  /\ sessions \subseteq Users \X Nat /\ spared \subseteq revoked /\ revoked \subseteq sessions
  /\ keys \in [Keys -> [owner : Users \union {NoOne}, role : {"inherit"} \union Roles, scope : Scopes]]
  /\ requests \in [Requests -> [at : {"idle", "check", "write", "bump", "groups", "issue", "count", "insert"},
                     op : AdminOps \union {"none", "signout", "create", "key", "login"}, version : Nat,
                     actor : Users \union {NoOne}, target : Users \union {NoOne},
                     role : {"inherit"} \union Roles]]
  /\ asked \in 0..MaxRequests /\ overtaken \in BOOLEAN

\* Somebody can administer the server (settings.go:450, "the last active admin
\* cannot be disabled"), unless requests overlapped or the directory took a role.
AdminRemains == ActiveAdmins # {} \/ overtaken

\* A session that a finished sign-out or disable was to end is refused for ever,
\* also when the account is enabled again, unless the write that ends it failed, which
\* neither the user's sign-out nor a disable reports (settings.go:504, auth.go:130).
RevokedStayOut == \A s \in revoked \ spared : ~Accepted(s)
=============================================================================
