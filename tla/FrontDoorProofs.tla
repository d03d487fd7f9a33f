----------------------------- MODULE FrontDoorProofs -----------------------------
(***************************************************************************)
(* What holds of the components at the front door, for any number of       *)
(* users, addresses, exports and pages: accounts and their sessions, the   *)
(* rate limiter, logins and their export, and the pages that watch work.   *)
(* Each component has an inductive invariant of its own; the last section  *)
(* puts them together for the specification the runs check.                *)
(***************************************************************************)
EXTENDS MCFrontDoor, FiniteSetTheorems, TLAPS

------------------------------------------------------------------------------
(* Who may use the server *)

\* What a request knows when it enters still holds, or somebody overtook it.
RequestOK(q) ==
  LET r == requests[q]
  IN  /\ r.at # "idle" => r.actor \in Users /\ r.target \in Users
      /\ r.at \in {"check", "write", "groups"} => r.role \in Roles
      /\ r.at \in {"check", "write"} => r.op \in AdminOps \union {"create"}
      /\ r.at = "write" => r.op # "logout"
      /\ r.at \in {"check", "write"} /\ r.op # "logout"
           => overtaken \/ (r.actor \in ActiveAdmins /\ r.actor # r.target)
      /\ r.at \in {"issue", "bump"} \/ (r.at \in {"check", "write"} /\ r.op # "create")
           => users[r.target].state # "unused"
      /\ r.at \in {"groups", "issue"}
           => users[r.target].state = "deleted" \/ r.version <= users[r.target].version

\* A session is at most at its account's version, one that was revoked below it,
\* unless the write that was to end it failed.
SessionsOK ==
  /\ \A s \in sessions : /\ users[s[1]].state # "unused"
                         /\ users[s[1]].state = "deleted" \/ s[2] <= users[s[1]].version
  /\ \A s \in revoked \ spared : users[s[1]].state = "deleted" \/ s[2] < users[s[1]].version
  /\ \A u \in Users : users[u].state = "unused" => users[u].version = 0

AccessInv ==
  AccessTypeOK /\ AdminRemains /\ SessionsOK /\ \A q \in Requests : RequestOK(q)

Stages == {"idle", "check", "write", "bump", "groups", "issue", "count", "insert"}
RequestRows == [at : Stages, op : AdminOps \union {"none", "signout", "create", "key", "login"}, version : Nat,
                actor : Users \union {NoOne}, target : Users \union {NoOne},
                role : {"inherit"} \union Roles]

LEMMA RolesAre ==
  /\ Roles = {"viewer", "user", "admin"}
  /\ RoleLevel["viewer"] = 0 /\ RoleLevel["user"] = 1 /\ RoleLevel["admin"] = 2
BY DEF Roles, RoleLevel

LEMMA RequestsMade ==
  /\ AccessTypeOK => requests \in [Requests -> RequestRows]
  /\ AccessTypeOK' => requests' \in [Requests -> RequestRows]
  /\ NoRequest \in RequestRows
  /\ \A r \in RequestRows, at \in Stages : [r EXCEPT !.at = at] \in RequestRows
<1>1. NoRequest \in RequestRows
  BY RolesAre DEF NoRequest, RequestRows, Stages
<1>2. \A r \in RequestRows, at \in Stages : [r EXCEPT !.at = at] \in RequestRows
  BY DEF RequestRows
<1> QED  BY <1>1, <1>2 DEF AccessTypeOK, RequestRows, Stages

\* Only an active administrator passes RequireRole("admin"), by a session or a key.
LEMMA AdminsPass ==
  ASSUME AccessTypeOK, NEW u \in Users, NEW scope \in Scopes, Allowed(u, "admin", scope)
  PROVE  u \in ActiveAdmins
<1>1. users[u].state = "active" /\ users[u].role \in Roles
  BY DEF Allowed, IsActive, AccessTypeOK
<1>2. RoleLevel[users[u].role] >= 2
  <2>1. CASE RoleLevel[users[u].role] >= RoleLevel["admin"]
    BY <2>1, RolesAre
  <2>2. CASE \E k \in Keys : keys[k].owner = u /\ RoleLevel[EffectiveRole(k)] >= RoleLevel["admin"]
    <3> PICK k \in Keys : keys[k].owner = u /\ RoleLevel[EffectiveRole(k)] >= RoleLevel["admin"]
      BY <2>2
    <3>1. EffectiveRole(k) = users[u].role
          \/ (RoleLevel[EffectiveRole(k)] < RoleLevel[users[u].role] /\ EffectiveRole(k) \in Roles)
      BY DEF EffectiveRole, AccessTypeOK
    <3> QED  BY <1>1, <3>1, RolesAre
  <2> QED  BY <2>1, <2>2 DEF Allowed
<1>3. users[u].role = "admin"
  BY <1>1, <1>2, RolesAre
<1> QED  BY <1>1, <1>3 DEF ActiveAdmins, Admins, Known, IsActive

\* Accounts stay as they are: what requests and sessions rest on stays too.
LEMMA EnterStep ==
  ASSUME AccessInv, NEW q \in Requests, NEW u \in Users, NEW t \in Users,
         NEW op \in AdminOps \union {"signout", "create", "key", "login"},
         NEW role \in {"inherit"} \union Roles,
         NEW at \in {"check", "write", "bump", "groups", "issue", "count"},
         Enter(q, op, u, t, role, at),
         at \in {"check", "write", "groups"} => role \in Roles,
         at \in {"check", "write"} => op \in AdminOps \union {"create"},
         at = "write" => op # "logout",
         at \in {"check", "write"} /\ op # "logout" => u \in ActiveAdmins /\ u # t,
         at \in {"issue", "bump"} \/ (at \in {"check", "write"} /\ op # "create")
           => users[t].state # "unused"
  PROVE  AccessInv'
<1> USE DEF AccessInv
<1> DEFINE r == [at |-> at, op |-> op, actor |-> u, target |-> t, role |-> role, version |-> users[t].version]
<1>1. /\ requests' = [requests EXCEPT ![q] = r] /\ asked' = asked + 1 /\ asked < MaxRequests
      /\ UNCHANGED <<users, sessions, keys, revoked, spared, overtaken>>
  BY DEF Enter
<1>2. users[t].version \in Nat
  BY DEF AccessTypeOK
<1>3. AccessTypeOK'
  BY <1>1, <1>2, AccessAssumption DEF AccessTypeOK
<1>4. AdminRemains' /\ SessionsOK'
  BY <1>1 DEF AdminRemains, SessionsOK, ActiveAdmins, Admins, Known, IsActive
<1>5. ASSUME NEW p \in Requests PROVE RequestOK(p)'
  <2>1. CASE p = q
    <3>1. requests'[p] = r
      BY <1>1, <2>1 DEF AccessTypeOK
    <3> QED  BY <1>1, <1>2, <3>1 DEF RequestOK, ActiveAdmins, Admins, Known, IsActive
  <2>2. CASE p # q
    <3>1. requests'[p] = requests[p] /\ RequestOK(p)
      BY <1>1, <2>2 DEF AccessTypeOK
    <3> QED  BY <1>1, <3>1 DEF RequestOK, ActiveAdmins, Admins, Known, IsActive
  <2> QED  BY <2>1, <2>2
<1> QED  BY <1>3, <1>4, <1>5

\* A request that ends, or goes on without touching an account, disturbs no other.
LEMMA AdvanceStep ==
  ASSUME AccessInv, NEW q \in Requests, UNCHANGED <<users, sessions, asked, revoked, spared, overtaken>>,
         keys' \in [Keys -> [owner : Users \union {NoOne}, role : {"inherit"} \union Roles, scope : Scopes]],
         \/ UNCHANGED requests
         \/ Ends(q)
         \/ \E at \in {"write", "bump", "insert", "issue"} :
              /\ requests' = [requests EXCEPT ![q].at = at]
              /\ at = "write" => requests[q].at = "check" /\ requests[q].op # "logout"
              /\ at = "bump" => requests[q].at = "check" /\ Known(requests[q].target)
              /\ at = "insert" => requests[q].at # "idle"
              /\ at = "issue" => requests[q].at = "groups" /\ users[requests[q].target].state # "unused"
  PROVE  AccessInv'
<1> USE DEF AccessInv
<1>1. requests' \in [Requests -> RequestRows]
  <2>1. CASE UNCHANGED requests \/ Ends(q)
    BY <2>1, RequestsMade DEF Ends
  <2>2. CASE \E at \in {"write", "bump", "insert", "issue"} : requests' = [requests EXCEPT ![q].at = at]
    <3> PICK at \in Stages : requests' = [requests EXCEPT ![q].at = at]
      BY <2>2 DEF Stages
    <3> QED  BY RequestsMade
  <2> QED  BY <2>1, <2>2
<1>2. AccessTypeOK'
  BY <1>1 DEF AccessTypeOK, RequestRows, Stages
<1>3. AdminRemains' /\ SessionsOK'
  BY DEF AdminRemains, SessionsOK, ActiveAdmins, Admins, Known, IsActive
<1>4. ASSUME NEW p \in Requests PROVE RequestOK(p)'
  <2>1. CASE requests'[p] = requests[p]
    <3>1. RequestOK(p)
      OBVIOUS
    <3> QED  BY <2>1, <3>1 DEF RequestOK, ActiveAdmins, Admins, Known, IsActive
  <2>2. CASE requests'[p] = NoRequest
    BY <2>2 DEF RequestOK, NoRequest
  <2>3. CASE \E at \in {"write", "bump", "insert", "issue"} :
               /\ requests'[p] = [requests[p] EXCEPT !.at = at]
               /\ at = "write" => requests[p].at = "check" /\ requests[p].op # "logout"
               /\ at = "bump" => requests[p].at = "check" /\ Known(requests[p].target)
               /\ at = "insert" => requests[p].at # "idle"
               /\ at = "issue" => requests[p].at = "groups" /\ users[requests[p].target].state # "unused"
    <3> PICK at \in {"write", "bump", "insert", "issue"} :
               /\ requests'[p] = [requests[p] EXCEPT !.at = at]
               /\ at = "write" => requests[p].at = "check" /\ requests[p].op # "logout"
               /\ at = "bump" => requests[p].at = "check" /\ Known(requests[p].target)
               /\ at = "insert" => requests[p].at # "idle"
               /\ at = "issue" => requests[p].at = "groups" /\ users[requests[p].target].state # "unused"
      BY <2>3
    <3>1. /\ requests'[p].at = at /\ requests'[p].op = requests[p].op
          /\ requests'[p].actor = requests[p].actor /\ requests'[p].target = requests[p].target
          /\ requests'[p].role = requests[p].role /\ requests'[p].version = requests[p].version
      BY DEF AccessTypeOK
    <3>2. RequestOK(p)
      OBVIOUS
    <3> QED  BY <3>1, <3>2 DEF RequestOK, ActiveAdmins, Admins, Known, IsActive
  <2> QED  BY <2>1, <2>2, <2>3 DEF AccessTypeOK, Ends
<1> QED  BY <1>2, <1>3, <1>4

\* A change of one account, while the request that makes it ends or goes on.
LEMMA AccountStep ==
  ASSUME AccessInv, NEW q \in Requests, NEW t \in Users, requests[q].at # "idle",
         UNCHANGED <<keys, asked>>, sessions' = sessions,
         NEW row \in [state : {"active", "disabled", "deleted"}, role : Roles, version : Nat],
         users' = [users EXCEPT ![t] = row],
         users[t].state = "deleted" => row.state = "deleted",
         users[t].version <= row.version \/ row.state = "deleted",
         revoked' \subseteq sessions, spared' \subseteq revoked',
         \A s \in (revoked' \ spared') \ (revoked \ spared) : s[1] = t /\ users[t].version < row.version,
         overtaken' \in BOOLEAN, overtaken => overtaken',
         \/ overtaken'
         \/ t \in ActiveAdmins => row.state = "active" /\ row.role = "admin"
         \/ /\ \E u \in ActiveAdmins : u # t
            /\ \A p \in Requests \ {q} : requests[p].at \notin {"check", "write"},
         \/ Ends(q)
         \/ requests' = [requests EXCEPT ![q].at = "bump"]
         \/ requests' = [requests EXCEPT ![q].at = "issue"] /\ requests[q].at = "groups",
         requests[q].target = t, requests[q].at \in {"groups", "write", "bump"},
         requests[q].at = "bump" => Ends(q)
  PROVE  AccessInv'
<1> USE DEF AccessInv
<1> DEFINE known == users[t].state
<1>1. AccessTypeOK'
  <2>1. requests' \in [Requests -> RequestRows]
    <3>1. CASE Ends(q)
      BY <3>1, RequestsMade DEF Ends
    <3>2. CASE \E at \in {"bump", "issue"} : requests' = [requests EXCEPT ![q].at = at]
      <4> PICK at \in Stages : requests' = [requests EXCEPT ![q].at = at]
        BY <3>2 DEF Stages
      <4> QED  BY RequestsMade
    <3> QED  BY <3>1, <3>2
  <2>2. users' \in [Users -> [state : {"unused", "active", "disabled", "deleted"}, role : Roles, version : Nat]]
    BY DEF AccessTypeOK
  <2> QED  BY <2>1, <2>2 DEF AccessTypeOK, RequestRows, Stages
<1>2. /\ users'[t] = row /\ \A u \in Users \ {t} : users'[u] = users[u]
      /\ users[t].state \in {"unused", "active", "disabled", "deleted"} /\ users[t].version \in Nat
  BY DEF AccessTypeOK
<1>3. AdminRemains'
  BY <1>2 DEF AdminRemains, ActiveAdmins, Admins, Known, IsActive
<1>4. SessionsOK'
  <2>1. \A s \in sessions : s[1] \in Users /\ s[2] \in Nat
    BY DEF AccessTypeOK
  <2>2. \A s \in sessions : /\ users'[s[1]].state # "unused"
                            /\ users'[s[1]].state = "deleted" \/ s[2] <= users'[s[1]].version
    BY <1>2, <2>1 DEF SessionsOK
  <2>3. \A s \in revoked' \ spared' : users'[s[1]].state = "deleted" \/ s[2] < users'[s[1]].version
    <3> SUFFICES ASSUME NEW s \in revoked' \ spared'
                 PROVE  users'[s[1]].state = "deleted" \/ s[2] < users'[s[1]].version
      OBVIOUS
    <3>1. s \in sessions /\ s[1] \in Users /\ s[2] \in Nat
      BY <2>1
    <3>2. users[s[1]].state = "deleted" \/ s[2] <= users[s[1]].version
      BY <3>1 DEF SessionsOK
    <3>3. CASE s \in revoked \ spared
      BY <1>2, <3>1, <3>3 DEF SessionsOK
    <3>4. CASE s \notin revoked \ spared
      BY <1>2, <3>1, <3>2, <3>4
    <3> QED  BY <3>3, <3>4
  <2>4. \A u \in Users : users'[u].state = "unused" => users'[u].version = 0
    BY <1>2 DEF SessionsOK
  <2> QED  BY <2>2, <2>3, <2>4 DEF SessionsOK
<1>5. ASSUME NEW p \in Requests PROVE RequestOK(p)'
  <2>1. CASE p # q
    <3>1. requests'[p] = requests[p] /\ RequestOK(p) /\ requests[p].version \in Nat
      BY <2>1 DEF AccessTypeOK, Ends
    <3>2. CASE requests[p].at \in {"issue", "bump", "groups"}
      BY <1>2, <3>1, <3>2 DEF RequestOK
    <3>3. CASE requests[p].at \in {"check", "write"}
      BY <1>2, <2>1, <3>1, <3>3 DEF RequestOK, ActiveAdmins, Admins, Known, IsActive
    <3> QED  BY <1>2, <3>1, <3>2, <3>3 DEF RequestOK
  <2>2. CASE p = q /\ Ends(q)
    <3>1. requests'[p] = NoRequest
      BY <2>2 DEF AccessTypeOK, Ends
    <3> QED  BY <3>1 DEF RequestOK, NoRequest
  <2>3. CASE p = q /\ ~Ends(q)
    <3>1. PICK at \in {"bump", "issue"} :
            /\ requests' = [requests EXCEPT ![q].at = at]
            /\ at = "issue" => requests[q].at = "groups"
      BY <2>3
    <3>2. /\ requests'[q].at = at /\ requests'[q].actor = requests[q].actor
          /\ requests'[q].target = t /\ requests'[q].version = requests[q].version
          /\ RequestOK(q) /\ requests[q].version \in Nat
      BY <3>1 DEF AccessTypeOK
    <3>3. requests[q].actor \in Users
      BY <3>2 DEF RequestOK
    <3>4. CASE at = "bump"
      BY <1>2, <2>3, <3>2, <3>3, <3>4 DEF RequestOK
    <3>5. CASE at = "issue"
      <4>1. users[t].state = "deleted" \/ requests[q].version <= users[t].version
        BY <3>1, <3>2, <3>5 DEF RequestOK
      <4>2. row.state = "deleted" \/ requests[q].version <= row.version
        BY <1>2, <3>2, <4>1
      <4> QED  BY <1>2, <2>3, <3>2, <3>3, <3>5, <4>2 DEF RequestOK
    <3> QED  BY <3>4, <3>5
  <2> QED  BY <2>1, <2>2, <2>3
<1> QED  BY <1>1, <1>3, <1>4, <1>5

LEMMA AdminRequestStep ==
  ASSUME AccessInv, NEW q \in Requests, AdminRequest(q)
  PROVE  AccessInv'
<1>1. PICK u \in Users, t \in Users, op \in AdminOps, role \in Roles :
        /\ Allowed(u, "admin", "full") /\ MayTarget(u, t, op)
        /\ Enter(q, op, u, t, role, "check")
  BY DEF AdminRequest
<1>2. u \in ActiveAdmins
  BY <1>1, AdminsPass DEF AccessInv, Scopes, ScopeLevel
<1>3. (op # "logout" => u # t) /\ users[t].state # "unused"
  BY <1>1 DEF MayTarget, Known
<1> QED  BY <1>1, <1>2, <1>3, EnterStep

LEMMA CreateUserStep ==
  ASSUME AccessInv, NEW q \in Requests, CreateUser(q)
  PROVE  AccessInv'
<1>1. PICK u \in Users, t \in Users, role \in Roles :
        /\ Allowed(u, "admin", "full") /\ users[t].state = "unused"
        /\ Enter(q, "create", u, t, role, "write")
  BY DEF CreateUser
<1>2. u \in ActiveAdmins
  BY <1>1, AdminsPass DEF AccessInv, Scopes, ScopeLevel
<1>3. u # t
  BY <1>1, <1>2 DEF ActiveAdmins, IsActive
<1> QED  BY <1>1, <1>2, <1>3, EnterStep

LEMMA OwnRequestStep ==
  ASSUME AccessInv, NEW q \in Requests, Logout(q) \/ Login(q) \/ DirectoryLogin(q) \/ CreateKey(q)
  PROVE  AccessInv'
<1> USE DEF AccessInv
<1>1. CASE Logout(q)
  <2>1. PICK u \in Users : Allowed(u, "viewer", "read") /\ Enter(q, "signout", u, u, "viewer", "bump")
    BY <1>1 DEF Logout
  <2>2. users[u].state # "unused" /\ "viewer" \in Roles
    BY <2>1, RolesAre DEF Allowed, IsActive, AdminOps
  <2> QED  BY <2>1, <2>2, EnterStep
<1>2. CASE Login(q)
  <2>1. PICK u \in Users : IsActive(u) /\ Enter(q, "login", u, u, users[u].role, "issue")
    BY <1>2 DEF Login
  <2>2. users[u].state # "unused" /\ users[u].role \in Roles
    BY <2>1 DEF IsActive, AccessTypeOK
  <2> QED  BY <2>1, <2>2, EnterStep
<1>3. CASE DirectoryLogin(q)
  <2>1. PICK u \in Users, role \in Roles : Enter(q, "login", u, u, role, "groups")
    BY <1>3, AccessAssumption DEF DirectoryLogin
  <2> QED  BY <2>1, EnterStep
<1>4. CASE CreateKey(q)
  <2>1. PICK u \in Users, role \in {"inherit"} \union Roles : Enter(q, "key", u, u, role, "count")
    BY <1>4 DEF CreateKey
  <2> QED  BY <2>1, EnterStep
<1> QED  BY <1>1, <1>2, <1>3, <1>4

LEMMA ReadingStep ==
  ASSUME AccessInv, NEW q \in Requests, CheckAccount(q) \/ CountKeys(q) \/ InsertKey(q)
  PROVE  AccessInv'
<1> USE DEF AccessInv
<1>1. CASE CheckAccount(q)
  <2>2. CASE Ends(q)
    BY <1>1, <2>2, AdvanceStep DEF CheckAccount, AccessTypeOK
  <2>3. CASE ~Ends(q)
    <3>1. /\ Known(requests[q].target) /\ requests[q].at = "check"
          /\ requests' = [requests EXCEPT ![q].at = IF requests[q].op = "logout" THEN "bump" ELSE "write"]
          /\ UNCHANGED <<users, sessions, keys, asked, revoked, spared, overtaken>>
      BY <1>1, <2>3 DEF CheckAccount
    <3>2. requests[q].target \in Users
      BY <3>1 DEF RequestOK
    <3> QED  BY <3>1, <3>2, AdvanceStep DEF AccessTypeOK
  <2> QED  BY <2>2, <2>3
<1>2. CASE CountKeys(q)
  BY <1>2, AdvanceStep DEF CountKeys, AccessTypeOK
<1>3. CASE InsertKey(q)
  <2>1. requests[q].actor \in Users /\ requests[q].role \in {"inherit"} \union Roles
    BY <1>3 DEF InsertKey, RequestOK, AccessTypeOK
  <2>2. keys' \in [Keys -> [owner : Users \union {NoOne}, role : {"inherit"} \union Roles, scope : Scopes]]
    BY <1>3, <2>1 DEF InsertKey, AccessTypeOK
  <2> QED  BY <1>3, <2>2, AdvanceStep DEF InsertKey
<1> QED  BY <1>1, <1>2, <1>3

LEMMA DeleteKeyStep ==
  ASSUME AccessInv, NEW k \in Keys, DeleteKey(k)
  PROVE  AccessInv'
<1> USE DEF AccessInv
<1>1. AccessTypeOK'
  <2>1. NoKey \in [owner : Users \union {NoOne}, role : {"inherit"} \union Roles, scope : Scopes]
    BY DEF NoKey, Scopes, ScopeLevel
  <2> QED  BY <2>1, AccessAssumption DEF DeleteKey, AccessTypeOK
<1>2. AdminRemains' /\ SessionsOK'
  BY DEF DeleteKey, AdminRemains, SessionsOK, ActiveAdmins, Admins, Known, IsActive
<1>3. \A p \in Requests : RequestOK(p)'
  BY DEF DeleteKey, RequestOK, ActiveAdmins, Admins, Known, IsActive
<1> QED  BY <1>1, <1>2, <1>3

\* A refused write, or a second step that finds the row gone, leaves the accounts.
LEMMA NothingWritten ==
  ASSUME AccessInv, NEW q \in Requests, requests[q].at \in {"write", "bump"},
         UNCHANGED <<users, sessions, keys, asked>>,
         overtaken' \in BOOLEAN, overtaken => overtaken',
         revoked' \subseteq sessions, spared' \subseteq revoked',
         \A s \in (revoked' \ spared') \ (revoked \ spared) : users[s[1]].state = "deleted",
         \/ Ends(q)
         \/ requests' = [requests EXCEPT ![q].at = "bump"] /\ requests[q].op = "disable"
  PROVE  AccessInv'
<1> USE DEF AccessInv
<1>1. requests' \in [Requests -> RequestRows]
  <2>1. CASE Ends(q)
    BY <2>1, RequestsMade DEF Ends
  <2>2. CASE requests' = [requests EXCEPT ![q].at = "bump"]
    BY <2>2, RequestsMade DEF Stages
  <2> QED  BY <2>1, <2>2
<1>2. AccessTypeOK'
  BY <1>1 DEF AccessTypeOK, RequestRows, Stages
<1>3. AdminRemains' /\ SessionsOK'
  BY DEF AdminRemains, SessionsOK, ActiveAdmins, Admins, Known, IsActive
<1>4. ASSUME NEW p \in Requests PROVE RequestOK(p)'
  <2>1. CASE requests'[p] = requests[p]
    <3>1. RequestOK(p)
      OBVIOUS
    <3> QED  BY <2>1, <3>1 DEF RequestOK, ActiveAdmins, Admins, Known, IsActive
  <2>2. CASE requests'[p] = NoRequest
    BY <2>2 DEF RequestOK, NoRequest
  <2>3. CASE p = q /\ requests' = [requests EXCEPT ![q].at = "bump"] /\ ~Ends(q)
    <3>1. /\ requests'[p].at = "bump" /\ requests'[p].target = requests[p].target
          /\ requests'[p].actor = requests[p].actor
      BY <2>3 DEF AccessTypeOK
    <3>2. RequestOK(p)
      OBVIOUS
    <3> QED  BY <2>3, <3>1, <3>2 DEF RequestOK
  <2> QED  BY <2>1, <2>2, <2>3 DEF AccessTypeOK, Ends
<1> QED  BY <1>2, <1>3, <1>4

LEMMA WriteStep ==
  ASSUME AccessInv, NEW q \in Requests, WriteAccount(q)
  PROVE  AccessInv'
<1> USE DEF AccessInv
<1> DEFINE r == requests[q]  t == r.target
           refused == \/ r.op = "create" /\ users[t].state # "unused"
                      \/ r.op = "delete" /\ Refers(t)
                      \/ r.op # "create" /\ ~Known(t)
<1>1. /\ r.at = "write" /\ RequestOK(q) /\ t \in Users /\ r.role \in Roles
      /\ r.op \in {"role", "disable", "enable", "delete", "create"}
  BY DEF WriteAccount, RequestOK, AdminOps
<1>2. /\ users' = IF refused THEN users ELSE Written(r)
      /\ overtaken' = (overtaken \/ (Overlaps(q) /\ t \in Admins))
      /\ IF r.op = "disable" THEN requests' = [requests EXCEPT ![q].at = "bump"] ELSE Ends(q)
      /\ UNCHANGED <<sessions, keys, asked, revoked, spared>>
  BY DEF WriteAccount
<1>3. overtaken' \in BOOLEAN /\ (overtaken => overtaken') /\ revoked' \subseteq sessions
      /\ spared' \subseteq revoked' /\ (revoked' \ spared') \ (revoked \ spared) = {}
  BY <1>2 DEF AccessTypeOK
<1>4. \/ overtaken'
      \/ t \notin ActiveAdmins
      \/ /\ \E u \in ActiveAdmins : u # t
         /\ \A p \in Requests \ {q} : requests[p].at \notin {"check", "write"}
  BY <1>1, <1>2 DEF RequestOK, Overlaps, ActiveAdmins
<1>5. CASE refused
  <2>1. users' = users
    BY <1>2, <1>5
  <2>2. CASE Ends(q)
    BY <1>1, <1>2, <1>3, <2>1, <2>2, NothingWritten
  <2>3. CASE ~Ends(q)
    <3>1. r.op = "disable" /\ requests' = [requests EXCEPT ![q].at = "bump"]
      BY <1>2, <2>3
    <3> QED  BY <1>1, <1>2, <1>3, <2>1, <3>1, NothingWritten
  <2> QED  BY <2>2, <2>3
<1>6. CASE ~refused
  <2>1. users' = Written(r)
    BY <1>2, <1>6
  <2>2. /\ users[t].state \in {"unused", "active", "disabled"}
        /\ users[t] \in [state : {"unused", "active", "disabled", "deleted"}, role : Roles, version : Nat]
        /\ users[t].version \in Nat /\ users[t].role \in Roles
        /\ r.op = "create" => users[t].version = 0
        /\ r.op # "create" => users[t].state # "unused"
    BY <1>1, <1>6 DEF Known, AccessTypeOK, SessionsOK
  <2>3. \E row \in [state : {"active", "disabled", "deleted"}, role : Roles, version : Nat] :
          /\ users' = [users EXCEPT ![t] = row]
          /\ users[t].version <= row.version \/ row.state = "deleted"
    <3>1. CASE r.op = "role"
      <4> DEFINE row == [users[t] EXCEPT !.role = r.role]
      <4>1. row \in [state : {"active", "disabled", "deleted"}, role : Roles, version : Nat]
        BY <1>1, <2>1, <2>2, <3>1 DEF Row, Known
      <4>2. users' = [users EXCEPT ![t] = row] /\ (users[t].version <= row.version \/ row.state = "deleted")
        BY <1>1, <2>1, <2>2, <3>1 DEF Written, AccessTypeOK
      <4> QED  BY <4>1, <4>2
    <3>2. CASE r.op = "disable"
      <4> DEFINE row == [users[t] EXCEPT !.state = "disabled"]
      <4>1. row \in [state : {"active", "disabled", "deleted"}, role : Roles, version : Nat]
        BY <1>1, <2>1, <2>2, <3>2 DEF Row, Known
      <4>2. users' = [users EXCEPT ![t] = row] /\ (users[t].version <= row.version \/ row.state = "deleted")
        BY <1>1, <2>1, <2>2, <3>2 DEF Written, AccessTypeOK
      <4> QED  BY <4>1, <4>2
    <3>3. CASE r.op = "enable"
      <4> DEFINE row == [users[t] EXCEPT !.state = "active"]
      <4>1. row \in [state : {"active", "disabled", "deleted"}, role : Roles, version : Nat]
        BY <1>1, <2>1, <2>2, <3>3 DEF Row, Known
      <4>2. users' = [users EXCEPT ![t] = row] /\ (users[t].version <= row.version \/ row.state = "deleted")
        BY <1>1, <2>1, <2>2, <3>3 DEF Written, AccessTypeOK
      <4> QED  BY <4>1, <4>2
    <3>4. CASE r.op = "delete"
      <4> DEFINE row == Row("deleted", "viewer")
      <4>1. row \in [state : {"active", "disabled", "deleted"}, role : Roles, version : Nat]
        BY <1>1, <2>1, <2>2, <3>4, RolesAre DEF Row, Known
      <4>2. users' = [users EXCEPT ![t] = row] /\ (users[t].version <= row.version \/ row.state = "deleted")
        BY <1>1, <2>1, <2>2, <3>4, RolesAre DEF Written, Row, AccessTypeOK
      <4> QED  BY <4>1, <4>2
    <3>5. CASE r.op = "create"
      <4> DEFINE row == Row("active", r.role)
      <4>1. row \in [state : {"active", "disabled", "deleted"}, role : Roles, version : Nat]
        BY <1>1, <2>1, <2>2, <3>5 DEF Row, Known
      <4>2. users' = [users EXCEPT ![t] = row] /\ (users[t].version <= row.version \/ row.state = "deleted")
        BY <1>1, <2>1, <2>2, <3>5 DEF Written, Row, AccessTypeOK
      <4> QED  BY <4>1, <4>2
    <3> QED  BY <1>1, <3>1, <3>2, <3>3, <3>4, <3>5
  <2>4. PICK row \in [state : {"active", "disabled", "deleted"}, role : Roles, version : Nat] :
          /\ users' = [users EXCEPT ![t] = row]
          /\ users[t].version <= row.version \/ row.state = "deleted"
    BY <2>3
  <2>5. Ends(q) \/ requests' = [requests EXCEPT ![q].at = "bump"]
    BY <1>2
  <2> QED  BY <1>1, <1>2, <1>3, <1>4, <2>2, <2>4, <2>5, AccountStep
<1> QED  BY <1>5, <1>6

LEMMA BumpStep ==
  ASSUME AccessInv, NEW q \in Requests, Bump(q)
  PROVE  AccessInv'
<1> USE DEF AccessInv
<1> DEFINE t == requests[q].target
<1>1. requests[q].at = "bump" /\ t \in Users /\ Ends(q) /\ UNCHANGED <<sessions, keys, asked, overtaken>>
  BY DEF Bump, RequestOK
<1>2. revoked' = revoked \union SessionsOf(t) /\ spared' = spared \ SessionsOf(t)
  BY DEF Bump
<1>3. /\ revoked' \subseteq sessions /\ spared' \subseteq revoked'
      /\ \A s \in (revoked' \ spared') \ (revoked \ spared) : s[1] = t
  BY <1>2 DEF AccessTypeOK, SessionsOf
<1>4. overtaken' \in BOOLEAN /\ (overtaken => overtaken')
  BY <1>1 DEF AccessTypeOK
<1>5. users[t].state \in {"unused", "active", "disabled", "deleted"} /\ users[t].state # "unused"
      /\ users[t] \in [state : {"unused", "active", "disabled", "deleted"}, role : Roles, version : Nat]
  <2>1. RequestOK(q)
    OBVIOUS
  <2> QED  BY <1>1, <2>1 DEF AccessTypeOK, RequestOK
<1>6. CASE Known(t)
  <2> DEFINE row == [users[t] EXCEPT !.version = @ + 1]
  <2>1. users' = [users EXCEPT ![t] = row]
    BY <1>6 DEF Bump, IncrementTokenVersion, AccessTypeOK
  <2>2. /\ row \in [state : {"active", "disabled", "deleted"}, role : Roles, version : Nat]
        /\ row.state = users[t].state /\ row.role = users[t].role
        /\ users[t].version < row.version /\ users[t].version <= row.version
    BY <1>5
  <2>3. t \in ActiveAdmins => row.state = "active" /\ row.role = "admin"
    BY <2>2 DEF ActiveAdmins, Admins, IsActive
  <2> QED  BY <1>1, <1>3, <1>4, <2>1, <2>2, <2>3, AccountStep
<1>7. CASE ~Known(t)
  <2>1. users' = users /\ users[t].state = "deleted"
    BY <1>5, <1>7 DEF Bump, Known
  <2> QED  BY <1>1, <1>3, <1>4, <2>1, NothingWritten
<1> QED  BY <1>6, <1>7

\* A version that could not be written ends no session, and says so to nobody.
LEMMA FailureStep ==
  ASSUME AccessInv, NEW q \in Requests, BumpFails(q) \/ StatementFails(q)
  PROVE  AccessInv'
<1> USE DEF AccessInv
<1>1. CASE BumpFails(q)
  <2>1. revoked' \subseteq sessions /\ spared' \subseteq revoked' /\ revoked' \ spared' \subseteq revoked \ spared
    BY <1>1 DEF BumpFails, SessionsOf, AccessTypeOK
  <2>2. requests[q].at = "bump" /\ Ends(q) /\ UNCHANGED <<users, sessions, keys, asked, overtaken>>
    BY <1>1 DEF BumpFails
  <2>3. overtaken' \in BOOLEAN /\ (overtaken => overtaken')
    BY <2>2 DEF AccessTypeOK
  <2> QED  BY <2>1, <2>2, <2>3, NothingWritten
<1>2. CASE StatementFails(q)
  <2>1. UNCHANGED <<users, sessions, keys, asked, revoked, spared, overtaken>>
    BY <1>2 DEF StatementFails
  <2>2. Ends(q) \/ (/\ requests' = [requests EXCEPT ![q].at = "issue"] /\ requests[q].at = "groups"
                    /\ users[requests[q].target].state # "unused")
    BY <1>2 DEF StatementFails
  <2> QED  BY <2>1, <2>2, AdvanceStep DEF AccessTypeOK
<1> QED  BY <1>1, <1>2

LEMMA FollowGroupsStep ==
  ASSUME AccessInv, NEW q \in Requests, FollowGroups(q)
  PROVE  AccessInv'
<1> USE DEF AccessInv
<1> DEFINE t == requests[q].target  role == requests[q].role
<1>1. /\ requests[q].at = "groups" /\ t \in Users /\ role \in Roles
      /\ requests' = [requests EXCEPT ![q].at = "issue"]
      /\ UNCHANGED <<sessions, keys, asked, revoked, spared>>
      /\ overtaken' = (overtaken \/ (t \in Admins /\ role # "admin"))
  BY DEF FollowGroups, RequestOK
<1>2. overtaken' \in BOOLEAN /\ (overtaken => overtaken')
      /\ revoked' \subseteq sessions /\ spared' \subseteq revoked'
      /\ (revoked' \ spared') \ (revoked \ spared) = {}
  BY <1>1 DEF AccessTypeOK
<1>3. users[t] \in [state : {"unused", "active", "disabled", "deleted"}, role : Roles, version : Nat]
      /\ (users[t].state = "unused" => users[t].version = 0)
  BY <1>1 DEF AccessTypeOK, SessionsOK
<1>4. \E row \in [state : {"active", "disabled", "deleted"}, role : Roles, version : Nat] :
        /\ users' = [users EXCEPT ![t] = row]
        /\ users[t].version <= row.version \/ row.state = "deleted"
        /\ users[t].state = "deleted" => row.state = "deleted"
        /\ Known(t) => row.state = users[t].state /\ row.role = role
  <2>0. /\ users' = IF users[t].state = "unused" THEN [users EXCEPT ![t] = Row("active", role)]
                     ELSE IF Known(t) THEN [users EXCEPT ![t].role = role] ELSE users
        /\ users[t].version \in Nat
    BY <1>3 DEF FollowGroups
  <2>1. CASE users[t].state = "unused"
    <3> DEFINE row == Row("active", role)
    <3>1. row \in [state : {"active", "disabled", "deleted"}, role : Roles, version : Nat]
      BY <1>1, <1>3, <2>1 DEF Row, Known
    <3>2. /\ users' = [users EXCEPT ![t] = row]
          /\ users[t].version <= row.version \/ row.state = "deleted"
          /\ users[t].state = "deleted" => row.state = "deleted"
          /\ Known(t) => row.state = users[t].state /\ row.role = role
      BY <1>1, <1>3, <2>0, <2>1 DEF Row, Known
    <3> QED  BY <3>1, <3>2
  <2>2. CASE Known(t)
    <3> DEFINE row == [users[t] EXCEPT !.role = role]
    <3>1. row \in [state : {"active", "disabled", "deleted"}, role : Roles, version : Nat]
      BY <1>1, <1>3, <2>2 DEF Row, Known
    <3>2. /\ users' = [users EXCEPT ![t] = row]
          /\ users[t].version <= row.version \/ row.state = "deleted"
          /\ users[t].state = "deleted" => row.state = "deleted"
          /\ Known(t) => row.state = users[t].state /\ row.role = role
      BY <1>1, <1>3, <2>0, <2>2 DEF Known, AccessTypeOK
    <3> QED  BY <3>1, <3>2
  <2>3. CASE users[t].state = "deleted"
    <3> DEFINE row == users[t]
    <3>1. row \in [state : {"active", "disabled", "deleted"}, role : Roles, version : Nat]
      BY <1>1, <1>3, <2>3 DEF Row, Known
    <3> QED  BY <1>1, <1>3, <2>3, <3>1 DEF FollowGroups, Known, AccessTypeOK
  <2> QED  BY <1>3, <2>1, <2>2, <2>3 DEF Known
<1>5. PICK row \in [state : {"active", "disabled", "deleted"}, role : Roles, version : Nat] :
        /\ users' = [users EXCEPT ![t] = row]
        /\ users[t].version <= row.version \/ row.state = "deleted"
        /\ users[t].state = "deleted" => row.state = "deleted"
        /\ Known(t) => row.state = users[t].state /\ row.role = role
  BY <1>4
<1>6. overtaken' \/ (t \in ActiveAdmins => row.state = "active" /\ row.role = "admin")
  BY <1>1, <1>5 DEF ActiveAdmins, Admins, IsActive
<1> QED  BY <1>1, <1>2, <1>5, <1>6, AccountStep

LEMMA IssueStep ==
  ASSUME AccessInv, NEW q \in Requests, Issue(q)
  PROVE  AccessInv'
<1> USE DEF AccessInv
<1> DEFINE s == <<requests[q].target, requests[q].version>>
<1>1. /\ requests[q].at = "issue" /\ requests[q].target \in Users /\ requests[q].version \in Nat
      /\ sessions' = sessions \union {s} /\ Ends(q)
      /\ UNCHANGED <<users, keys, asked, revoked, spared, overtaken>>
  BY DEF Issue, RequestOK, AccessTypeOK
<1>2. /\ users[s[1]].state # "unused"
      /\ users[s[1]].state = "deleted" \/ s[2] <= users[s[1]].version
  BY <1>1 DEF RequestOK
<1>3. AccessTypeOK'
  <2>1. requests' \in [Requests -> RequestRows]
    BY <1>1, RequestsMade DEF Ends
  <2> QED  BY <1>1, <2>1 DEF AccessTypeOK, RequestRows, Stages
<1>4. AdminRemains' /\ SessionsOK'
  BY <1>1, <1>2 DEF AdminRemains, SessionsOK, ActiveAdmins, Admins, Known, IsActive
<1>5. ASSUME NEW p \in Requests PROVE RequestOK(p)'
  <2>1. RequestOK(p) /\ (requests'[p] = requests[p] \/ requests'[p] = NoRequest)
    BY <1>1 DEF Ends, AccessTypeOK
  <2> QED  BY <1>1, <2>1 DEF RequestOK, NoRequest, ActiveAdmins, Admins, Known, IsActive
<1> QED  BY <1>3, <1>4, <1>5

------------------------------------------------------------------------------
(* Theorems *)

\* Every reachable state satisfies the inductive invariant of accounts and requests.
THEOREM AccessInvariant == AccessSpec => []AccessInv
<1>1. AccessInit => AccessInv
  <2> SUFFICES ASSUME AccessInit PROVE AccessInv
    OBVIOUS
  <2> USE DEF AccessInit
  <2>1. AccessTypeOK
    <3>1. users \in [Users -> [state : {"unused", "active", "disabled", "deleted"}, role : Roles, version : Nat]]
      BY RolesAre DEF Row
    <3>2. keys \in [Keys -> [owner : Users \union {NoOne}, role : {"inherit"} \union Roles, scope : Scopes]]
      BY DEF NoKey, Scopes, ScopeLevel
    <3>3. requests \in [Requests -> RequestRows]
      BY RequestsMade
    <3>4. requests \in [Requests -> [at : {"idle", "check", "write", "bump", "groups", "issue", "count", "insert"},
                     op : AdminOps \union {"none", "signout", "create", "key", "login"}, version : Nat,
                     actor : Users \union {NoOne}, target : Users \union {NoOne},
                     role : {"inherit"} \union Roles]]
      BY <3>3 DEF RequestRows, Stages
    <3>5. asked \in 0..MaxRequests
      <4>1. MaxRequests \in Nat
        BY AccessAssumption
      <4> QED  BY <4>1
    <3> QED  BY <3>1, <3>2, <3>4, <3>5 DEF AccessTypeOK
  <2>2. AdminRemains /\ SessionsOK
    BY AccessAssumption DEF AdminRemains, SessionsOK, ActiveAdmins, Admins, Known, IsActive, Row
  <2>3. \A q \in Requests : RequestOK(q)
    BY DEF RequestOK, NoRequest
  <2> QED  BY <2>1, <2>2, <2>3 DEF AccessInv
<1>2. AccessInv /\ [AccessNext]_accessVars => AccessInv'
  <2> SUFFICES ASSUME AccessInv, [AccessNext]_accessVars PROVE AccessInv'
    OBVIOUS
  <2>1. CASE UNCHANGED accessVars
    BY <2>1 DEF accessVars, AccessInv, AccessTypeOK, AdminRemains, SessionsOK, RequestOK,
                ActiveAdmins, Admins, Known, IsActive
  <2>2. CASE \E k \in Keys : DeleteKey(k)
    BY <2>2, DeleteKeyStep
  <2>3. CASE \E q \in Requests : \/ AdminRequest(q) \/ CreateUser(q) \/ Logout(q) \/ CheckAccount(q)
                               \/ WriteAccount(q) \/ Bump(q) \/ BumpFails(q)
                               \/ StatementFails(q) \/ Login(q) \/ DirectoryLogin(q)
                               \/ FollowGroups(q) \/ Issue(q) \/ CreateKey(q) \/ CountKeys(q)
                               \/ InsertKey(q)
    BY <2>3, AdminRequestStep, CreateUserStep, OwnRequestStep, ReadingStep, WriteStep, BumpStep,
       FailureStep, FollowGroupsStep, IssueStep
  <2> QED  BY <2>1, <2>2, <2>3 DEF AccessNext
<1> QED  BY <1>1, <1>2, PTL DEF AccessSpec

\* Every variable of accounts, sessions and requests has its type.
THEOREM AccessTypes == AccessSpec => []AccessTypeOK
BY AccessInvariant, PTL DEF AccessInv

\* Somebody can always administer the server, unless requests of administrators overlapped.
THEOREM ServerKeepsAnAdmin == AccessSpec => []AdminRemains
BY AccessInvariant, PTL DEF AccessInv

\* What a sign-out or a disable was to end is refused for ever, unless the write
\* that ends it failed.
THEOREM RevokedSessionsStayOut == AccessSpec => []RevokedStayOut
<1>1. AccessInv => RevokedStayOut
  <2> SUFFICES ASSUME AccessInv, NEW s \in revoked \ spared, Accepted(s) PROVE FALSE
    BY DEF RevokedStayOut
  <2>1. s[1] \in Users /\ s[2] \in Nat
    BY DEF AccessInv, AccessTypeOK
  <2>2. s[2] < users[s[1]].version
    BY DEF AccessInv, SessionsOK, Accepted, IsActive
  <2> QED  BY <2>1, <2>2 DEF Accepted, AccessInv, AccessTypeOK
<1> QED  BY <1>1, AccessInvariant, PTL

------------------------------------------------------------------------------
(* The rate limiter implements one bucket per address.  A bucket holds a token *)
(* for every tick since it was used, up to a full one: three minutes give back *)
(* more than a burst, so what is forgotten is full.                            *)

\* A bucket is full, or holds what came back since it was used.
CameBack(v) == v.tokens = Burst \/ (v.listed /\ v.since <= v.tokens)

\* The buckets as TokenBucket sees them.
Tokens == [a \in Addresses |-> visitors[a].tokens]

LimitInv == LimitTypeOK /\ \A a \in Addresses : CameBack(visitors[a])

\* An expired entry is full: forgetting it changes no bucket.
LEMMA ExpiredIsFull ==
  ASSUME LimitInv, NEW a \in Addresses, Expired(a)
  PROVE  visitors[a].tokens = Burst
BY RateLimitAssumption DEF LimitInv, LimitTypeOK, CameBack, Expired, Visitors

\* Forgetting the expired entries keeps the invariant and every bucket.
LEMMA SweptKeeps ==
  ASSUME LimitInv
  PROVE  /\ Swept \in [Addresses -> Visitors]
         /\ \A a \in Addresses : CameBack(Swept[a]) /\ Swept[a].tokens = visitors[a].tokens
<1>1. Unseen \in Visitors /\ CameBack(Unseen) /\ Unseen.tokens = Burst
  BY RateLimitAssumption DEF Unseen, Visitors, CameBack
<1>2. ASSUME NEW a \in Addresses
      PROVE  /\ Swept[a] \in Visitors /\ CameBack(Swept[a])
             /\ Swept[a].tokens = visitors[a].tokens
  BY <1>1, <1>2, ExpiredIsFull DEF LimitInv, LimitTypeOK, Swept
<1> QED BY <1>2 DEF Swept

\* So does making room for an address.
LEMMA RoomKeeps ==
  ASSUME LimitInv, NEW a \in Addresses
  PROVE  /\ MakesRoom(a) \in [Addresses -> Visitors]
         /\ \A x \in Addresses : /\ CameBack(MakesRoom(a)[x])
                                 /\ MakesRoom(a)[x].tokens = visitors[x].tokens
BY SweptKeeps DEF LimitInv, LimitTypeOK, MakesRoom

\* A request counts for a client address.
LEMMA ClientIsAddress ==
  ASSUME NEW peer \in Addresses, NEW headers \in Headers
  PROVE  ClientIP(peer, headers) \in Addresses
BY DEF ClientIP

\* A request takes one token of its address, or changes no bucket.
LEMMA LimitStep ==
  ASSUME LimitInv, NEW peer \in Addresses, NEW headers \in Headers, Limit(peer, headers)
  PROVE  LimitInv' /\ [Bucket!BucketNext]_Tokens
<1> DEFINE a == ClientIP(peer, headers)
           held == MakesRoom(a)
           left == IF held[a].listed THEN held[a].tokens ELSE Burst
           taken == [tokens |-> IF left > 0 THEN left - 1 ELSE left, since |-> 0, listed |-> TRUE]
<1>1. a \in Addresses
  BY ClientIsAddress
<1>2. /\ held \in [Addresses -> Visitors]
      /\ \A x \in Addresses : CameBack(held[x]) /\ held[x].tokens = visitors[x].tokens
  BY <1>1, RoomKeeps
<1>3. /\ visitors' = IF ~Room(a, held) THEN held ELSE [held EXCEPT ![a] = taken]
      /\ sweep' = sweep
  BY DEF Limit
<1>4. left = visitors[a].tokens /\ left \in 0..Burst
  BY <1>1, <1>2 DEF CameBack, Visitors
<1> HIDE DEF a, held, left
<1>5. CASE ~Room(a, held)
  <2>1. LimitInv'
    BY <1>2, <1>3, <1>5 DEF LimitInv, LimitTypeOK, CameBack
  <2>2. Tokens' = Tokens
    BY <1>2, <1>3, <1>5 DEF Tokens
  <2> QED BY <2>1, <2>2
<1>6. CASE Room(a, held)
  <2>1. visitors' = [held EXCEPT ![a] = taken]
    BY <1>3, <1>6
  <2>2. taken \in Visitors /\ CameBack(taken)
    BY <1>4, RateLimitAssumption DEF Visitors, CameBack
  <2>3. LimitInv'
    BY <1>1, <1>2, <1>3, <2>1, <2>2 DEF LimitInv, LimitTypeOK, CameBack
  <2>4. CASE left > 0
    <3>1. \A x \in Addresses :
            visitors'[x].tokens = IF x = a THEN visitors[x].tokens - 1 ELSE visitors[x].tokens
      BY <1>1, <1>2, <1>4, <2>1, <2>4
    <3>2. Bucket!Pass(a)
      BY <1>1, <1>4, <2>4, <3>1 DEF Bucket!Pass
    <3> QED BY <1>1, <2>3, <3>2 DEF Bucket!BucketNext
  <2>5. CASE ~(left > 0)
    <3>1. \A x \in Addresses : visitors'[x].tokens = visitors[x].tokens
      BY <1>1, <1>2, <1>4, <2>1, <2>5
    <3> QED BY <2>3, <3>1 DEF Tokens
  <2> QED BY <2>4, <2>5
<1> QED BY <1>5, <1>6

\* A tick puts a token into every bucket that is not full, those that are
\* forgotten included.
LEMMA TickStep ==
  ASSUME LimitInv, Tick
  PROVE  LimitInv' /\ Bucket!Refill
<1>1. ASSUME NEW a \in Addresses
      PROVE  /\ visitors'[a] \in Visitors /\ CameBack(visitors'[a])
             /\ visitors'[a].tokens = IF visitors[a].tokens < Burst
                                      THEN visitors[a].tokens + 1 ELSE Burst
  <2> DEFINE v == visitors[a]
             ticks == Waited(v.since)
  <2>1. v \in Visitors /\ CameBack(v)
    BY DEF LimitInv, LimitTypeOK
  <2>2. visitors'[a] = IF v.listed
                       THEN [tokens |-> Refilled(v.tokens), since |-> ticks, listed |-> TRUE] ELSE v
    BY <2>1 DEF Tick, Visitors
  <2> HIDE DEF v
  <2>3. v.tokens \in 0..Burst /\ v.since \in 0..(Idle + 1) /\ v.listed \in BOOLEAN
    BY <2>1 DEF Visitors
  <2>4. CASE v.listed
    <3>1. Refilled(v.tokens) \in 0..Burst /\ ticks \in 0..(Idle + 1)
      BY <2>3, RateLimitAssumption DEF Refilled, Waited
    <3>2. Refilled(v.tokens) = Burst \/ ticks <= Refilled(v.tokens)
      BY <2>1, <2>3, RateLimitAssumption DEF Refilled, Waited, CameBack
    <3>3. Refilled(v.tokens) = IF v.tokens < Burst THEN v.tokens + 1 ELSE Burst
      BY <2>3, RateLimitAssumption DEF Refilled
    <3> QED BY <2>2, <2>4, <3>1, <3>2, <3>3 DEF CameBack, Visitors, v
  <2>5. CASE ~v.listed
    <3>1. visitors'[a] = v /\ v.tokens = Burst
      BY <2>1, <2>2, <2>5 DEF CameBack
    <3> QED BY <2>1, <3>1, RateLimitAssumption DEF v
  <2> QED BY <2>3, <2>4, <2>5
<1>2. visitors' \in [Addresses -> Visitors] /\ sweep' \in 0..Idle
  <2>1. visitors' = [a \in Addresses |-> visitors'[a]]
    BY DEF Tick
  <2>2. visitors' \in [Addresses -> Visitors]
    BY <1>1, <2>1
  <2>3. sweep' \in 0..Idle
    BY RateLimitAssumption DEF Tick, LimitInv, LimitTypeOK
  <2> QED BY <2>2, <2>3
<1> QED BY <1>1, <1>2 DEF LimitInv, LimitTypeOK, CameBack, Bucket!Refill

\* Every step of the limiter keeps the invariant, and is one of the buckets.
LEMMA LimitNextStep ==
  ASSUME LimitInv, [LimitNext]_limitVars
  PROVE  LimitInv' /\ [Bucket!BucketNext]_Tokens
<1>1. CASE \E peer \in Addresses, headers \in Headers : Limit(peer, headers)
  BY <1>1, LimitStep
<1>2. CASE Tick
  BY <1>2, TickStep DEF Bucket!BucketNext
<1>3. CASE CleanUp
  <2>1. visitors' = Swept /\ sweep' = 0
    BY <1>3 DEF CleanUp
  <2> QED BY <2>1, SweptKeeps, RateLimitAssumption DEF LimitInv, LimitTypeOK, CameBack, Tokens
<1>4. CASE UNCHANGED limitVars
  BY <1>4 DEF limitVars, LimitInv, LimitTypeOK, CameBack, Tokens
<1> QED BY <1>1, <1>2, <1>3, <1>4 DEF LimitNext

LEMMA LimitStarts == LimitInit => LimitInv /\ Bucket!BucketInit
BY RateLimitAssumption
   DEF LimitInit, LimitInv, LimitTypeOK, CameBack, Unseen, Visitors, Bucket!BucketInit

\* A bucket is full or holds a token for every tick since it was used.
THEOREM LimitInvariance == LimitSpec => []LimitInv
BY LimitStarts, LimitNextStep, PTL DEF LimitSpec

\* Forgetting an address is never noticed: the limiter implements one bucket
\* for every address (ratelimit.go:46).
THEOREM ForgettingIsFree == LimitSpec => OneBucketForEver
BY LimitStarts, LimitNextStep, LimitInvariance, PTL
   DEF LimitSpec, OneBucketForEver, Bucket!BucketSpec, Tokens

------------------------------------------------------------------------------
(* Logins, their export and the audit log *)

\* An export as a row: it takes only VMs it was asked for.
ExportStages == {"idle", "password", "read", "record", "send"}
ExportRows ==
  {r \in [at : ExportStages, number : 0..MaxCalls, format : {"1pux", "csv"}, inherited : BOOLEAN,
          scope : SUBSET VMs, left : SUBSET VMs, items : SUBSET VMs] :
     r.items \subseteq r.scope /\ r.left \subseteq r.scope}

\* What waits in the queue is an entry, and an export past its record is on record.
VaultInv ==
  /\ VaultTypeOK /\ NoExportOffRecord
  /\ exports \in [Exports -> ExportRows] /\ queue \in Seq(Entries)
  /\ \A x \in Exports : exports[x].at = "send" => File(x) \in filed

LEMMA ExportsMade ==
  /\ NoExport \in ExportRows
  /\ \A r \in ExportRows, at \in ExportStages : [r EXCEPT !.at = at] \in ExportRows
  /\ \A r \in ExportRows : <<r.number, r.items>> \in (0..MaxCalls) \X SUBSET VMs
  /\ \A r \in ExportRows : r.at \in ExportStages /\ r.items \subseteq r.scope
<1>1. MaxCalls \in Nat
  BY VaultAssumption
<1>2. NoExport \in ExportRows
  BY <1>1 DEF NoExport, ExportRows, ExportStages
<1>3. \A r \in ExportRows, at \in ExportStages : [r EXCEPT !.at = at] \in ExportRows
  BY DEF ExportRows
<1> QED  BY <1>2, <1>3 DEF ExportRows

LEMMA EntriesMade ==
  /\ \A what \in {"other", "denied"} : Entry(what, NoFile) \in Entries
  /\ \A file \in (0..MaxCalls) \X SUBSET VMs : Entry("export", file) \in Entries
<1>1. 0 \in 0..MaxCalls
  BY VaultAssumption
<1> QED  BY <1>1 DEF Entry, Entries, NoFile

\* The queue never holds more than its capacity.
LEMMA QueueStep ==
  ASSUME VaultInv, NEW entry \in Entries
  PROVE  Queued(entry) \in Seq(Entries) /\ Len(Queued(entry)) <= QueueCap
<1>1. queue \in Seq(Entries) /\ Len(queue) <= QueueCap /\ QueueCap \in Nat
  BY VaultAssumption DEF VaultInv, VaultTypeOK
<1>2. CASE Len(queue) < QueueCap
  <2>1. Append(queue, entry) \in Seq(Entries) /\ Len(Append(queue, entry)) = Len(queue) + 1
    BY <1>1
  <2>2. Len(queue) \in Nat
    BY <1>1
  <2> QED  BY <1>1, <1>2, <2>1, <2>2 DEF Queued
<1>3. CASE ~(Len(queue) < QueueCap)
  BY <1>1, <1>3 DEF Queued
<1> QED  BY <1>2, <1>3

\* The log grows by one entry, by its age, or shrinks: what was filed stays filed.
LogOK ==
  /\ queue' \in Seq(Entries) /\ Len(queue') <= QueueCap
  /\ \A r \in record' : r.entry \in Entries /\ r.old \in BOOLEAN
  /\ filed \subseteq filed'

LEMMA RecordStep ==
  ASSUME VaultInv, NEW entry \in Entries, Recorded(entry) \/ NotRecorded
  PROVE  /\ \A r \in record' : r.entry \in Entries /\ r.old \in BOOLEAN
         /\ filed \subseteq filed'
<1>1. \A r \in record : r.entry \in Entries /\ r.old \in BOOLEAN
  BY DEF VaultInv, VaultTypeOK
<1>2. CASE Recorded(entry)
  <2>1. record' = record \union {[entry |-> entry, old |-> FALSE]} /\ filed \subseteq filed'
    BY <1>2 DEF Recorded
  <2> DEFINE new == [entry |-> entry, old |-> FALSE]
  <2>2. new.entry \in Entries /\ new.old \in BOOLEAN
    OBVIOUS
  <2>3. record' = record \union {new}
    BY <2>1
  <2> HIDE DEF new
  <2> QED  BY <1>1, <2>1, <2>2, <2>3
<1>3. CASE NotRecorded
  BY <1>1, <1>3 DEF NotRecorded
<1> QED  BY <1>2, <1>3

\* One export moves on, and no file leaves.
LEMMA ExportMoves ==
  ASSUME VaultInv, LogOK, NEW x \in Exports, NEW row \in ExportRows,
         exports' = [exports EXCEPT ![x] = row],
         row.at = "send" => <<row.number, row.items>> \in filed',
         UNCHANGED <<logins, setting>>, calls' \in 0..MaxCalls,
         recent' \in [older : Nat, newer : Nat],
         sent' \subseteq filed'
  PROVE  VaultInv'
<1> USE DEF VaultInv
<1>1. exports' \in [Exports -> ExportRows]
  OBVIOUS
<1>2. VaultTypeOK'
  <2>1. \A e \in Exports : /\ exports'[e].at \in {"idle", "password", "read", "record", "send"}
                           /\ exports'[e].items \subseteq exports'[e].scope
    BY <1>1, ExportsMade DEF ExportStages
  <2>2. \A i \in DOMAIN queue' : queue'[i] \in Entries
    BY DEF LogOK
  <2> QED  BY <2>1, <2>2 DEF VaultTypeOK, LogOK
<1>3. \A e \in Exports : exports'[e].at = "send" => File(e)' \in filed'
  BY DEF File, LogOK
<1> QED  BY <1>1, <1>2, <1>3 DEF NoExportOffRecord, LogOK

\* The exports stay, or all of them end.
LEMMA NoExportMoves ==
  ASSUME VaultInv, LogOK, exports' = exports \/ exports' = [x \in Exports |-> NoExport],
         logins' \in [VMs -> Logins], setting' = <<>> \/ setting' \in VMs \X Logins,
         calls' \in 0..MaxCalls, recent' \in [older : Nat, newer : Nat], sent' = sent
  PROVE  VaultInv'
<1> USE DEF VaultInv
<1>1. exports' \in [Exports -> ExportRows]
  BY ExportsMade
<1>2. VaultTypeOK'
  <2>1. \A e \in Exports : /\ exports'[e].at \in {"idle", "password", "read", "record", "send"}
                           /\ exports'[e].items \subseteq exports'[e].scope
    BY <1>1, ExportsMade DEF ExportStages
  <2>2. \A i \in DOMAIN queue' : queue'[i] \in Entries
    BY DEF LogOK
  <2> QED  BY <2>1, <2>2 DEF VaultTypeOK, LogOK
<1>3. \A e \in Exports : exports'[e].at = "send" => File(e)' \in filed'
  BY DEF File, LogOK, NoExport
<1> QED  BY <1>1, <1>2, <1>3 DEF NoExportOffRecord, LogOK

\* The audit log's own steps.
LEMMA LogSteps ==
  ASSUME VaultInv, OtherRequest \/ WriteEntry \/ Ages \/ RunCleanup \/ Prune \/ VaultRestart
  PROVE  VaultInv'
<1> USE DEF VaultInv
<1>0. /\ queue \in Seq(Entries) /\ Len(queue) <= QueueCap /\ QueueCap \in Nat /\ MaxCalls \in Nat
      /\ \A r \in record : r.entry \in Entries /\ r.old \in BOOLEAN
      /\ logins \in [VMs -> Logins] /\ calls \in 0..MaxCalls
      /\ setting = <<>> \/ setting \in VMs \X Logins
      /\ recent \in [older : Nat, newer : Nat]
  BY VaultAssumption DEF VaultTypeOK
<1>1. CASE OtherRequest
  <2>1. LogOK
    BY <1>0, <1>1, QueueStep, EntriesMade DEF OtherRequest, LogOK
  <2> QED  BY <1>0, <1>1, <2>1, NoExportMoves DEF OtherRequest, VaultCall
<1>2. CASE WriteEntry
  <2>1. Tail(queue) \in Seq(Entries) /\ Len(Tail(queue)) <= QueueCap /\ Head(queue) \in Entries
    BY <1>0, <1>2 DEF WriteEntry
  <2>2. LogOK
    BY <1>2, <2>1, RecordStep DEF WriteEntry, LogOK
  <2> QED  BY <1>0, <1>2, <2>2, NoExportMoves DEF WriteEntry
<1>3. CASE Ages
  <2>1. \A r \in record' : r.entry \in Entries /\ r.old \in BOOLEAN
    <3> SUFFICES ASSUME NEW r \in record PROVE [r EXCEPT !.old = TRUE].entry \in Entries
                                              /\ [r EXCEPT !.old = TRUE].old \in BOOLEAN
      BY <1>3 DEF Ages
    <3> QED  BY <1>0
  <2>2. LogOK
    BY <1>0, <1>3, <2>1 DEF Ages, LogOK
  <2> QED  BY <1>0, <1>3, <2>2, NoExportMoves DEF Ages
<1>4. CASE RunCleanup
  <2>1. LogOK
    BY <1>0, <1>4 DEF RunCleanup, LogOK
  <2> QED  BY <1>0, <1>4, <2>1, NoExportMoves DEF RunCleanup
<1>5. CASE Prune
  <2>1. LogOK
    BY <1>0, <1>5 DEF Prune, LogOK
  <2>2. recent' \in [older : Nat, newer : Nat]
    BY <1>0, <1>5 DEF Prune
  <2> QED  BY <1>0, <1>5, <2>1, <2>2, NoExportMoves DEF Prune
<1>6. CASE VaultRestart
  <2>1. LogOK
    BY <1>0, <1>6 DEF VaultRestart, LogOK
  <2> QED  BY <1>0, <1>6, <2>1, NoExportMoves DEF VaultRestart
<1> QED  BY <1>1, <1>2, <1>3, <1>4, <1>5, <1>6

LEMMA LoginSteps ==
  ASSUME VaultInv, SetVMCredential \/ \E v \in VMs : TestCredentials(v) \/ ClearCredentials(v)
  PROVE  VaultInv'
<1> USE DEF VaultInv
<1>0. /\ queue \in Seq(Entries) /\ Len(queue) <= QueueCap /\ MaxCalls \in Nat
      /\ \A r \in record : r.entry \in Entries /\ r.old \in BOOLEAN
      /\ logins \in [VMs -> Logins] /\ calls \in 0..MaxCalls
      /\ setting = <<>> \/ setting \in VMs \X Logins
      /\ recent \in [older : Nat, newer : Nat] /\ NoLogin \in Logins
  BY VaultAssumption DEF VaultTypeOK, NoLogin, Logins
<1>1. LogOK
  BY <1>0, QueueStep, EntriesMade DEF SetVMCredential, TestCredentials, ClearCredentials, LogOK
<1>2. CASE SetVMCredential
  <2>1. logins' \in [VMs -> Logins]
    BY <1>0, <1>2 DEF SetVMCredential
  <2> QED  BY <1>0, <1>1, <1>2, <2>1, NoExportMoves DEF SetVMCredential
<1>3. CASE \E v \in VMs : TestCredentials(v)
  BY <1>0, <1>1, <1>3, NoExportMoves DEF TestCredentials, VaultCall
<1>4. CASE \E v \in VMs : ClearCredentials(v)
  <2>1. logins' \in [VMs -> Logins]
    BY <1>0, <1>4 DEF ClearCredentials
  <2> QED  BY <1>0, <1>1, <1>4, <2>1, NoExportMoves DEF ClearCredentials, VaultCall
<1> QED  BY <1>2, <1>3, <1>4

\* Before the file is recorded.
LEMMA ExportSteps ==
  ASSUME VaultInv, NEW x \in Exports,
         \/ BeginExport(x) \/ WrongPassword(x) \/ RightPassword(x) \/ ReadLogin(x) \/ WriteFile(x)
  PROVE  VaultInv'
<1> USE DEF VaultInv
<1>0. /\ queue \in Seq(Entries) /\ Len(queue) <= QueueCap /\ MaxCalls \in Nat
      /\ \A r \in record : r.entry \in Entries /\ r.old \in BOOLEAN
      /\ logins \in [VMs -> Logins] /\ calls \in 0..MaxCalls
      /\ setting = <<>> \/ setting \in VMs \X Logins
      /\ recent \in [older : Nat, newer : Nat]
      /\ exports[x] \in ExportRows /\ sent \subseteq filed
  BY VaultAssumption DEF VaultTypeOK, NoExportOffRecord
<1>1. LogOK
  BY <1>0, RecordStep, EntriesMade
     DEF LogOK, BeginExport, WrongPassword, RightPassword, ReadLogin, WriteFile, NotRecorded
<1>2. sent' \subseteq filed'
  BY <1>0, <1>1 DEF LogOK, BeginExport, WrongPassword, RightPassword, ReadLogin, WriteFile
<1>3. UNCHANGED <<logins, setting>> /\ calls' \in 0..MaxCalls /\ recent' \in [older : Nat, newer : Nat]
  BY <1>0 DEF BeginExport, WrongPassword, RightPassword, ReadLogin, WriteFile, VaultCall
<1>4. CASE EndsExport(x)
  <2>1. NoExport \in ExportRows /\ NoExport.at # "send"
    BY ExportsMade DEF NoExport
  <2> QED  BY <1>1, <1>2, <1>3, <1>4, <2>1, ExportMoves DEF EndsExport
<1>5. CASE \E at \in {"read", "record"} : StepsTo(x, at)
  <2>1. PICK at \in {"read", "record"} : exports' = [exports EXCEPT ![x].at = at]
    BY <1>5 DEF StepsTo
  <2> DEFINE row == [exports[x] EXCEPT !.at = at]
  <2>2. row \in ExportRows /\ row.at # "send"
    BY <1>0, ExportsMade DEF ExportStages, ExportRows
  <2>3. exports' = [exports EXCEPT ![x] = row]
    BY <2>1
  <2> HIDE DEF row
  <2> QED  BY <1>1, <1>2, <1>3, <2>2, <2>3, ExportMoves
<1>6. CASE BeginExport(x)
  <2>1. CASE UNCHANGED exports
    BY <1>0, <1>1, <1>6, <2>1, NoExportMoves DEF BeginExport, VaultCall
  <2>2. CASE ~UNCHANGED exports
    <3>1. PICK scope \in SUBSET VMs, format \in {"1pux", "csv"}, inherited \in BOOLEAN :
            exports' = [exports EXCEPT ![x] = [at |-> "password", number |-> calls + 1,
                 format |-> format, inherited |-> inherited, scope |-> scope,
                 left |-> scope, items |-> {}]]
      BY <1>6, <2>2 DEF BeginExport
    <3> DEFINE row == [at |-> "password", number |-> calls + 1,
                 format |-> format, inherited |-> inherited, scope |-> scope,
                 left |-> scope, items |-> {}]
    <3>2. calls + 1 \in 0..MaxCalls
      BY <1>0, <1>6 DEF BeginExport, VaultCall
    <3>3. row \in ExportRows /\ row.at # "send"
      BY <3>2 DEF ExportRows, ExportStages
    <3> HIDE DEF row
    <3> QED  BY <1>1, <1>2, <1>3, <3>1, <3>3, ExportMoves DEF row
  <2> QED  BY <2>1, <2>2
<1>7. CASE ReadLogin(x) /\ ~EndsExport(x)
  <2> DEFINE r == exports[x]  v == CHOOSE v \in r.left : TRUE
             items == IF Takes(v, r.format, r.inherited) THEN r.items \union {v} ELSE r.items
             row == [r EXCEPT !.left = r.left \ {v}, !.items = items]
  <2>1. exports[x].at = "read" /\ r.left # {} /\ exports' = [exports EXCEPT ![x] = row]
    BY <1>7 DEF ReadLogin
  <2>2. v \in r.left
    BY <2>1
  <2> HIDE DEF v
  <2>3. items \subseteq r.scope /\ items \in SUBSET VMs
    BY <1>0, <2>2 DEF ExportRows
  <2> HIDE DEF items
  <2>4. row \in ExportRows /\ row.at # "send"
    BY <1>0, <2>1, <2>3 DEF ExportRows
  <2> HIDE DEF row
  <2> QED  BY <1>1, <1>2, <1>3, <2>1, <2>4, ExportMoves
<1> QED  BY <1>4, <1>5, <1>6, <1>7 DEF WrongPassword, RightPassword, WriteFile

\* The entry of an export is stored before its file is sent.
LEMMA SendSteps ==
  ASSUME VaultInv, NEW x \in Exports, LogExport(x) \/ SendFile(x)
  PROVE  VaultInv'
<1> USE DEF VaultInv
<1>0. /\ queue \in Seq(Entries) /\ Len(queue) <= QueueCap
      /\ \A r \in record : r.entry \in Entries /\ r.old \in BOOLEAN
      /\ calls \in 0..MaxCalls /\ recent \in [older : Nat, newer : Nat]
      /\ exports[x] \in ExportRows /\ sent \subseteq filed
  BY DEF VaultTypeOK, NoExportOffRecord
<1>1. File(x) \in (0..MaxCalls) \X SUBSET VMs /\ Entry("export", File(x)) \in Entries
  BY <1>0, ExportsMade, EntriesMade DEF File
<1>2. LogOK
  BY <1>0, <1>1, RecordStep DEF LogExport, SendFile, LogSync, NotRecorded, LogOK
<1>3. UNCHANGED <<logins, setting, recent, calls>>
  BY DEF LogExport, SendFile
<1>4. CASE EndsExport(x)
  <2>1. NoExport \in ExportRows /\ NoExport.at # "send"
    BY ExportsMade DEF NoExport
  <2>2. sent' \subseteq filed'
    BY <1>0, <1>2 DEF LogExport, SendFile, LogOK
  <2> QED  BY <1>0, <1>2, <1>3, <1>4, <2>1, <2>2, ExportMoves DEF EndsExport
<1>5. CASE LogExport(x) /\ ~EndsExport(x)
  <2> DEFINE row == [exports[x] EXCEPT !.at = "send"]
  <2>1. /\ Recorded(Entry("export", File(x))) /\ exports' = [exports EXCEPT ![x] = row] /\ sent' = sent
    BY <1>5 DEF LogExport, LogSync, StepsTo
  <2>2. File(x) \in filed'
    BY <2>1 DEF Recorded, Entry
  <2>3. row \in ExportRows /\ <<row.number, row.items>> = File(x)
    BY <1>0, ExportsMade DEF ExportStages, File, ExportRows
  <2>4. sent' \subseteq filed'
    BY <1>0, <1>2, <2>1 DEF LogOK
  <2> HIDE DEF row
  <2> QED  BY <1>0, <1>2, <1>3, <2>1, <2>2, <2>3, <2>4, ExportMoves
<1> QED  BY <1>4, <1>5 DEF SendFile

------------------------------------------------------------------------------
(* Theorems *)

\* The inductive invariant of the logins: a file on its way out has its entry already.
THEOREM VaultInvariant == VaultSpec => []VaultInv
<1>1. VaultInit => VaultInv
  <2> SUFFICES ASSUME VaultInit PROVE VaultInv
    OBVIOUS
  <2> USE DEF VaultInit
  <2>1. exports \in [Exports -> ExportRows] /\ queue \in Seq(Entries) /\ Len(queue) = 0
    BY ExportsMade
  <2>2. MaxCalls \in Nat /\ QueueCap \in Nat
    BY VaultAssumption
  <2>3. logins \in [VMs -> Logins] /\ recent \in [older : Nat, newer : Nat]
    BY DEF Logins, NoLogin
  <2>4. VaultTypeOK
    BY <2>1, <2>2, <2>3 DEF VaultTypeOK, NoExport
  <2> QED  BY <2>1, <2>4 DEF VaultInv, NoExportOffRecord, NoExport
<1>2. VaultInv /\ [VaultNext]_vaultVars => VaultInv'
  <2> SUFFICES ASSUME VaultInv, [VaultNext]_vaultVars PROVE VaultInv'
    OBVIOUS
  <2>1. CASE UNCHANGED vaultVars
    BY <2>1 DEF vaultVars, VaultInv, VaultTypeOK, NoExportOffRecord, File
  <2>2. CASE VaultNext
    BY <2>2, LogSteps, LoginSteps, ExportSteps, SendSteps DEF VaultNext
  <2> QED  BY <2>1, <2>2
<1> QED  BY <1>1, <1>2, PTL DEF VaultSpec

\* A file leaves only when an entry that names exactly its VMs is on record.
THEOREM ExportsAreRecorded == VaultSpec => []NoExportOffRecord
BY VaultInvariant, PTL DEF VaultInv

\* Every variable of the logins and their export has its type.
THEOREM VaultTypes == VaultSpec => []VaultTypeOK
BY VaultInvariant, PTL DEF VaultInv

------------------------------------------------------------------------------
(* Who hears of the work *)

Told(end) == IF end = "completed" THEN "complete" ELSE "error"

\* What the goroutine of a deployment has still to do fits what is on record, unless
\* the record has lost or replaced an end.  The page of a build believes no message.
StepsOK(w, steps) ==
  \/ w.kind = "build" \/ w.parted
  \/ steps \in {<<>>, <<"line">>, <<"log">>}
  \/ \E end \in Endings : \/ steps = <<end, "log", Told(end)>>
                          \/ w.status = end /\ steps \in {<<"log", Told(end)>>, <<Told(end)>>}

\* The send at hand, and the sockets it has still to reach.
SendOK ==
  /\ StepsOK(work, sender.steps)
  /\ ~sender.sends => sender.owed = {}
  /\ sender.sends => sender.steps # <<>> /\ Head(sender.steps) \notin Endings

SocketOK(c) ==
  /\ socket[c].at \in {"joining", "open"} => socket[c].of \in Pages
  /\ socket[c].at = "open" => /\ c \in clients
                              /\ c \in sender.owed => socket[c].behind = 1
                              /\ c \in sender.owed \/ socket[c].behind = 0

\* An answer that is under way tells what is on record, and so does an end that is shown,
\* or it was asked for, again unless the record has lost or replaced an end.
Agree(w, g) ==
  /\ \A q \in Questions : g.waits[q] \in Endings => g.waits[q] = w.status
  /\ w.kind = "deploy" /\ g.waits["cancel"] # "none" => w.asked
  /\ g.shows \in Endings =>
       \/ g.shows = w.status
       \/ w.kind = "deploy" /\ g.shows = "cancelled" /\ w.asked
       \/ w.kind = "deploy" /\ g.shows = "failed" /\ w.status = "cancelled"
PageOK(w, g) == w.parted \/ Agree(w, g)

PagesOK == \A p \in Pages : PageOK(work, page[p])

WorkRows == [kind : {"deploy", "build"}, status : Endings \cup {"running"}, asked : BOOLEAN,
             run : {"starting", "on", "ending", "over"}, parted : BOOLEAN]
SenderRows == [steps : Seq(Steps), sends : BOOLEAN, owed : SUBSET Sockets,
               failed : SUBSET Sockets, lines : 0..MaxLines]
SocketRows == [of : Pages \cup {0}, behind : 0..1,
               at : {"unused", "joining", "lost", "open", "broken", "closed"}]
Said == Endings \cup {"running", "none"} \cup AtServer
Answers == [Questions -> Said]
PageRows == [opened : BOOLEAN, shows : Endings \cup {"pending", "running"},
             over : BOOLEAN, waits : Answers]

ProgressInv ==
  /\ work \in WorkRows /\ sender \in SenderRows
  /\ clients \subseteq Sockets /\ IsFiniteSet(clients) /\ Cardinality(clients) <= MaxConns
  /\ socket \in [Sockets -> SocketRows] /\ page \in [Pages -> PageRows]
  /\ SendOK /\ (\A c \in Sockets : SocketOK(c)) /\ PagesOK

LEMMA ProgressInvGives == ProgressInv => ProgressTypeOK /\ EndsAreSeen
<1> SUFFICES ASSUME ProgressInv PROVE ProgressTypeOK /\ EndsAreSeen
  OBVIOUS
<1>1. ProgressTypeOK
  BY DEF ProgressInv, ProgressTypeOK, WorkRows, SenderRows, SocketRows, PageRows, Answers, Said
<1>2. EndsAreSeen
  BY DEF ProgressInv, EndsAreSeen, SocketOK, PagesOK, PageOK, Agree
<1> QED  BY <1>1, <1>2

LEMMA Tails ==
  /\ \A a : Tail(<<a>>) = <<>>
  /\ \A a, b : Tail(<<a, b>>) = <<b>>
  /\ \A a, b, c : Tail(<<a, b, c>>) = <<b, c>>
OBVIOUS

LEMMA Heads ==
  /\ \A a : Head(<<a>>) = a
  /\ \A a, b : Head(<<a, b>>) = a
  /\ \A a, b, c : Head(<<a, b, c>>) = a
OBVIOUS

\* Each step told leaves steps that fit the record, and so does an end put on record.
LEMMA StepDone ==
  ASSUME NEW w \in WorkRows, ~w.parted, w.kind = "deploy",
         NEW steps, StepsOK(w, steps), steps # <<>>
  PROVE  /\ Head(steps) \notin Endings => StepsOK(w, Tail(steps))
         /\ Head(steps) \in Endings =>
              \A v : v.status = Head(steps) => StepsOK(v, Tail(steps))
         /\ Head(steps) = "complete" => w.status = "completed"
         /\ Head(steps) = "error" => w.status \in {"failed", "cancelled"}
<1>1. CASE steps \in {<<"line">>, <<"log">>}
  <2> PICK message \in {"line", "log"} : steps = <<message>>
    BY <1>1
  <2>1. Head(steps) = message /\ Tail(steps) = <<>>
    BY Tails, Heads
  <2> QED  BY <2>1 DEF StepsOK, Endings
<1>2. CASE steps \notin {<<"line">>, <<"log">>}
  <2> PICK end \in Endings : \/ steps = <<end, "log", Told(end)>>
                             \/ w.status = end /\ steps \in {<<"log", Told(end)>>, <<Told(end)>>}
    BY <1>2 DEF StepsOK, WorkRows
  <2>0. Told(end) \in Finals /\ Told(end) \notin Endings /\ "log" \notin Endings
        /\ (Told(end) = "complete" <=> end = "completed") /\ "log" \notin Finals
    BY DEF Told, Finals, Endings
  <2>1. CASE steps = <<end, "log", Told(end)>>
    <3>1. Head(steps) = end /\ Tail(steps) = <<"log", Told(end)>>
      BY <2>1, Tails, Heads
    <3>2. end \notin Finals
      BY DEF Endings, Finals
    <3> QED  BY <3>1, <3>2 DEF StepsOK, Finals
  <2>2. CASE w.status = end /\ steps = <<"log", Told(end)>>
    <3>1. Head(steps) = "log" /\ Tail(steps) = <<Told(end)>>
      BY <2>2, Tails, Heads
    <3> QED  BY <2>0, <2>2, <3>1 DEF StepsOK
  <2>3. CASE w.status = end /\ steps = <<Told(end)>>
    <3>1. Head(steps) = Told(end) /\ Tail(steps) = <<>>
      BY <2>3, Tails, Heads
    <3>2. Told(end) = "error" => end \in {"failed", "cancelled"}
      BY DEF Told, Endings
    <3> QED  BY <2>0, <2>3, <3>1, <3>2 DEF StepsOK
  <2> QED  BY <2>1, <2>2, <2>3
<1> QED  BY <1>1, <1>2

LEMMA TellDone ==
  ASSUME NEW w \in WorkRows, NEW steps, StepsOK(w, steps), steps # <<>>, Head(steps) \notin Endings
  PROVE  StepsOK(w, Tail(steps))
<1>1. CASE w.kind = "build" \/ w.parted
  BY <1>1 DEF StepsOK
<1>2. CASE w.kind = "deploy" /\ ~w.parted
  BY <1>2, StepDone
<1> QED  BY <1>1, <1>2 DEF WorkRows

\* The record gets its end once, and a cancel is asked for, or the record has lost or
\* replaced an end: what the goroutine and a page know stays true.
WorkMoves ==
  /\ work' \in WorkRows /\ work'.kind = work.kind
  /\ work.asked => work'.asked
  /\ work.parted => work'.parted
  /\ work'.parted \/ work'.status = work.status \/ work.status = "running"

LEMMA WorkKeeps ==
  ASSUME work \in WorkRows, WorkMoves
  PROVE  /\ work' \in WorkRows /\ work'.kind = work.kind
         /\ \A g \in PageRows : PageOK(work, g) => PageOK(work', g)
         /\ \A steps : StepsOK(work, steps) => StepsOK(work', steps)
<1>1. work' \in WorkRows /\ work'.kind = work.kind /\ "running" \notin Endings
  BY DEF WorkMoves, Endings
<1>2. ASSUME NEW g \in PageRows, PageOK(work, g) PROVE PageOK(work', g)
  <2>1. CASE work'.parted
    BY <2>1 DEF PageOK
  <2>2. CASE ~work'.parted /\ work'.status = work.status
    BY <1>2, <2>2 DEF PageOK, Agree, WorkMoves
  <2>3. CASE ~work'.parted /\ work.status = "running"
    <3>1. Agree(work, g) /\ (work.asked => work'.asked) /\ work'.kind = work.kind
      BY <1>2, <2>3 DEF PageOK, WorkMoves
    <3>2. \A q \in Questions : g.waits[q] \notin Endings
      BY <1>1, <2>3, <3>1 DEF Agree
    <3>3. g.shows \in Endings => work.kind = "deploy" /\ g.shows = "cancelled" /\ work.asked
      BY <1>1, <2>3, <3>1 DEF Agree
    <3> QED  BY <3>1, <3>2, <3>3 DEF PageOK, Agree
  <2> QED  BY <2>1, <2>2, <2>3 DEF WorkMoves
<1>3. ASSUME NEW steps, StepsOK(work, steps) PROVE StepsOK(work', steps)
  <2>1. CASE work'.parted
    BY <2>1 DEF StepsOK
  <2>2. CASE ~work'.parted /\ work'.status = work.status
    BY <1>3, <2>2 DEF StepsOK, WorkMoves
  <2>3. CASE ~work'.parted /\ work.status = "running"
    BY <1>1, <1>3, <2>3 DEF StepsOK, WorkMoves
  <2> QED  BY <2>1, <2>2, <2>3 DEF WorkMoves
<1> QED  BY <1>1, <1>2, <1>3

\* The goroutine moves, and the hub and the pages do not.
LEMMA GoroutineStep ==
  ASSUME ProgressInv, WorkMoves, UNCHANGED <<clients, socket, page>>,
         sender' \in SenderRows, sender'.owed = sender.owed, SendOK'
  PROVE  ProgressInv'
<1> USE DEF ProgressInv
<1>1. work' \in WorkRows /\ PagesOK'
  BY WorkKeeps DEF PagesOK
<1>2. \A c \in Sockets : SocketOK(c)'
  BY DEF SocketOK
<1> QED  BY <1>1, <1>2

\* One page moves, and the row may.
LEMMA PageStep ==
  ASSUME ProgressInv, WorkMoves, UNCHANGED <<sender, clients, socket>>,
         NEW p \in Pages, NEW g \in PageRows, page' = [page EXCEPT ![p] = g], PageOK(work', g)
  PROVE  ProgressInv'
<1> USE DEF ProgressInv
<1>1. page' \in [Pages -> PageRows] /\ work' \in WorkRows /\ PagesOK'
  BY WorkKeeps DEF PagesOK
<1>2. SendOK' /\ \A c \in Sockets : SocketOK(c)'
  BY WorkKeeps DEF SendOK, SocketOK
<1> QED  BY <1>1, <1>2

LEMMA PageRowsMade ==
  ASSUME NEW g \in PageRows
  PROVE  /\ \A q \in Questions, w \in Said : [g EXCEPT !.waits[q] = w] \in PageRows
         /\ [g EXCEPT !.opened = TRUE] \in PageRows
         /\ \A shows \in Endings \cup {"pending", "running"} : [g EXCEPT !.shows = shows] \in PageRows
BY DEF PageRows, Answers

\* What a page waits for may turn into nothing, or into what is on record.
LEMMA WaitKeeps ==
  ASSUME NEW w \in WorkRows, NEW g \in PageRows, PageOK(w, g), NEW q \in Questions, NEW a \in Said,
         a \in Endings => a = w.status,
         a # "none" => g.waits[q] # "none" \/ q # "cancel" \/ w.kind = "build" \/ w.asked
  PROVE  [g EXCEPT !.waits[q] = a] \in PageRows /\ PageOK(w, [g EXCEPT !.waits[q] = a])
<1> DEFINE h == [g EXCEPT !.waits[q] = a]
<1>1. h \in PageRows
  BY PageRowsMade
<1>2. h.shows = g.shows /\ h.waits = [g.waits EXCEPT ![q] = a] /\ g.waits \in Answers
  BY DEF PageRows
<1> HIDE DEF h
<1>3. \A r \in Questions : h.waits[r] = IF r = q THEN a ELSE g.waits[r]
  BY <1>2 DEF Answers
<1>4. PageOK(w, h)
  <2>1. CASE w.parted
    BY <2>1 DEF PageOK
  <2>2. CASE ~w.parted
    <3>1. Agree(w, g)
      BY <2>2 DEF PageOK
    <3>2. \A r \in Questions : h.waits[r] \in Endings => h.waits[r] = w.status
      BY <1>3, <3>1 DEF Agree
    <3>3. "cancel" \in Questions
      BY DEF Questions
    <3>4. w.kind = "deploy" /\ h.waits["cancel"] # "none" => w.asked
      BY <1>3, <3>1, <3>3 DEF Agree
    <3> QED  BY <1>2, <3>1, <3>2, <3>4 DEF PageOK, Agree
  <2> QED  BY <2>1, <2>2
<1> QED  BY <1>1, <1>4 DEF h

LEMMA Saids == /\ Said = Endings \cup {"running", "none"} \cup {Unanswered, "checked", "orphan"}
               /\ Unanswered \notin Endings \cup {"none"} /\ {"running", "none", "checked", "orphan"} \cap Endings = {}
BY DEF Said, AtServer, Endings, Unanswered

\* A page asks.
LEMMA AskingKeeps ==
  ASSUME NEW w \in WorkRows, NEW g \in PageRows, PageOK(w, g), NEW q \in Questions,
         q = "cancel" => w.kind = "build" \/ w.asked
  PROVE  Asking(g, q) \in PageRows /\ PageOK(w, Asking(g, q))
<1>1. Unanswered \in Said /\ Unanswered \notin Endings
  BY Saids
<1> QED  BY <1>1, WaitKeeps DEF Asking

LEMMA AskStep ==
  ASSUME ProgressInv, NEW p \in Pages, OpenPage(p) \/ Poll(p) \/ CancelWatched(p)
  PROVE  ProgressInv'
<1> USE DEF ProgressInv
<1>1. page[p] \in PageRows /\ PageOK(work, page[p])
  BY DEF PagesOK
<1>2. CASE OpenPage(p)
  <2> DEFINE g == [page[p] EXCEPT !.opened = TRUE]
  <2>1. g \in PageRows /\ PageOK(work, g)
    BY <1>1, PageRowsMade DEF PageOK, Agree, PageRows
  <2>2. Asking(g, "load") \in PageRows /\ PageOK(work, Asking(g, "load"))
    BY <2>1, AskingKeeps DEF Questions
  <2>3. page' = [page EXCEPT ![p] = Asking(g, "load")] /\ UNCHANGED <<work, sender, clients, socket>>
    BY <1>2 DEF OpenPage
  <2> QED  BY <2>2, <2>3, PageStep DEF WorkMoves
<1>3. CASE Poll(p)
  <2>1. Asking(page[p], "poll") \in PageRows /\ PageOK(work, Asking(page[p], "poll"))
    BY <1>1, AskingKeeps DEF Questions
  <2>2. page' = [page EXCEPT ![p] = Asking(page[p], "poll")] /\ UNCHANGED <<work, sender, clients, socket>>
    BY <1>3 DEF Poll
  <2> QED  BY <2>1, <2>2, PageStep DEF WorkMoves
<1>4. CASE CancelWatched(p)
  <2>1. work' = [work EXCEPT !.asked = TRUE] /\ UNCHANGED <<sender, clients, socket>>
        /\ page' = [page EXCEPT ![p] = Asking(page[p], "cancel")]
    BY <1>4 DEF CancelWatched
  <2>2. WorkMoves /\ work'.asked
    BY <2>1 DEF WorkMoves, WorkRows
  <2>3. work' \in WorkRows /\ PageOK(work', page[p])
    BY <1>1, <2>2, WorkKeeps
  <2>4. Asking(page[p], "cancel") \in PageRows /\ PageOK(work', Asking(page[p], "cancel"))
    BY <1>1, <2>2, <2>3, AskingKeeps DEF Questions
  <2> QED  BY <2>1, <2>2, <2>4, PageStep
<1> QED  BY <1>2, <1>3, <1>4

\* A write of the row moves it as the pages allow.
LEMMA PutMoves ==
  ASSUME work \in WorkRows, NEW status \in Endings \cup {"running"}
  PROVE  /\ Put(status) \in WorkRows /\ Put(status).kind = work.kind
         /\ Put(status).asked = work.asked /\ (work.parted => Put(status).parted)
         /\ Put(status).status = status
         /\ Put(status).parted \/ status = work.status \/ work.status = "running"
         /\ work' = Put(status) => WorkMoves
<1> DEFINE part == work.parted \/ (work.status \in Endings /\ work.status # status)
<1>1. part \in BOOLEAN
  BY DEF WorkRows
<1>2. Put(status) = [work EXCEPT !.status = status, !.parted = part]
  BY DEF Put
<1> HIDE DEF part
<1>3. Put(status) \in WorkRows /\ Put(status).kind = work.kind /\ Put(status).asked = work.asked
      /\ Put(status).status = status /\ Put(status).parted = part
  BY <1>1, <1>2 DEF WorkRows
<1>4. part = TRUE \/ status = work.status \/ work.status = "running"
  BY DEF part, WorkRows
<1>5. work.parted => part = TRUE
  BY <1>1 DEF part
<1> QED  BY <1>3, <1>4, <1>5 DEF WorkMoves

\* The server reads the row, looks for the goroutine, or writes the row itself.
LEMMA ServerStep ==
  ASSUME ProgressInv, NEW p \in Pages,
         \/ CancelChecks(p) \/ CancelSignals(p) \/ CancelWrites(p)
         \/ \E q \in Questions : ServerReads(p, q) \/ RequestFails(p, q)
  PROVE  ProgressInv'
<1> USE DEF ProgressInv
<1>1. page[p] \in PageRows /\ PageOK(work, page[p]) /\ page[p].waits \in Answers
      /\ work.status \in Endings \cup {"running"}
  BY DEF PagesOK, PageRows, WorkRows
<1>2. PICK q \in Questions, a \in Said :
        /\ page' = [page EXCEPT ![p] = [page[p] EXCEPT !.waits[q] = a]]
        /\ UNCHANGED <<sender, clients, socket>> /\ page[p].waits[q] # "none"
        /\ a \in Endings => a = work.status
        /\ work' = work \/ (work' = Put("cancelled") /\ a \notin Endings)
  <2>1. "cancel" \in Questions
    BY DEF Questions
  <2>2. CASE CancelChecks(p)
    <3>1. PICK a \in {"checked", "none"} : CancelAt(p, Unanswered, a)
      BY <2>2 DEF CancelChecks
    <3> QED  BY <2>1, <2>2, <3>1, Saids DEF CancelChecks, CancelAt
  <2>3. CASE CancelSignals(p)
    <3>1. PICK a \in {"running", "orphan"} : CancelAt(p, "checked", a)
      BY <2>3 DEF CancelSignals
    <3> QED  BY <2>1, <2>3, <3>1, Saids DEF CancelSignals, CancelAt
  <2>4. CASE CancelWrites(p)
    <3>1. PICK a \in {"running", "none"} : CancelAt(p, "orphan", a)
      BY <2>4 DEF CancelWrites
    <3> QED  BY <2>1, <2>4, <3>1, Saids DEF CancelWrites, CancelAt
  <2>5. CASE \E q \in Questions : ServerReads(p, q) \/ RequestFails(p, q)
    BY <1>1, <2>5, Saids DEF ServerReads, RequestFails
  <2> QED  BY <2>2, <2>3, <2>4, <2>5
<1>3. WorkMoves
  <2>1. "cancelled" \in Endings
    BY DEF Endings
  <2>2. CASE work' = work
    BY <2>2 DEF WorkMoves
  <2> QED  BY <1>2, <2>1, <2>2, PutMoves
<1>4. PageOK(work', page[p]) /\ work' \in WorkRows /\ (a \in Endings => a = work'.status)
  BY <1>1, <1>2, <1>3, WorkKeeps
<1> DEFINE g == [page[p] EXCEPT !.waits[q] = a]
<1>5. g \in PageRows /\ PageOK(work', g)
  BY <1>1, <1>2, <1>4, WaitKeeps
<1> HIDE DEF g
<1> QED  BY <1>2, <1>3, <1>5, PageStep DEF g

\* What an answer makes of a page that shows and waits for what is true.
LEMMA TakenKeeps ==
  ASSUME work \in WorkRows, NEW g \in PageRows, PageOK(work, g), NEW q \in Questions,
         g.waits[q] \notin {"none"} \cup AtServer
  PROVE  Taken(g, q) \in PageRows /\ PageOK(work, Taken(g, q))
<1> DEFINE done == [g EXCEPT !.waits[q] = "none"]
<1>1. /\ g.waits \in Answers /\ g.shows = done.shows /\ done.waits = [g.waits EXCEPT ![q] = "none"]
      /\ g.waits[q] \in Endings \cup {"running"}
  BY DEF PageRows, Answers, Said
<1>2. done \in PageRows /\ PageOK(work, done)
  BY Saids, WaitKeeps
<1> HIDE DEF done
<1>4. CASE q = "cancel" /\ work.kind = "build"
  <2>1. Taken(g, q) = Asking(done, "load")
    BY <1>4 DEF Taken, done
  <2> QED  BY <1>2, <2>1, AskingKeeps DEF Questions
<1>5. CASE q = "cancel" /\ work.kind = "deploy"
  <2> DEFINE h == [done EXCEPT !.shows = "cancelled"]
  <2>1. Taken(g, q) = h
    BY <1>5 DEF Taken, done
  <2>2. h \in PageRows
    BY <1>2, PageRowsMade DEF Endings
  <2>3. h.shows = "cancelled" /\ h.waits = done.waits
    BY <1>2 DEF PageRows
  <2>4. work.parted \/ work.asked
    BY <1>5 DEF PageOK, Agree
  <2> HIDE DEF h
  <2> QED  BY <1>2, <1>5, <2>1, <2>2, <2>3, <2>4 DEF PageOK, Agree
<1>6. CASE q # "cancel" /\ Taken(g, q) = done
  BY <1>2, <1>6
<1>7. CASE q # "cancel" /\ Taken(g, q) # done
  <2> DEFINE h == [done EXCEPT !.shows = g.waits[q]]
  <2>1. Taken(g, q) = h
    BY <1>7 DEF Taken, done
  <2>2. h \in PageRows
    BY <1>1, <1>2, PageRowsMade
  <2>3. h.shows = g.waits[q] /\ h.waits = done.waits
    BY <1>2 DEF PageRows
  <2>4. work.parted \/ (g.waits[q] \in Endings => g.waits[q] = work.status)
    BY DEF PageOK, Agree
  <2> HIDE DEF h
  <2> QED  BY <1>2, <2>1, <2>2, <2>3, <2>4 DEF PageOK, Agree
<1> QED  BY <1>4, <1>5, <1>6, <1>7 DEF WorkRows

LEMMA LostMade ==
  /\ \A at \in {"lost", "broken", "closed"} : Lost(at) \in SocketRows /\ Lost(at).at \notin {"joining", "open"}
  /\ \A c : Broken(c) \in SocketRows /\ Broken(c).at \notin {"joining", "open"}
<1>1. \A at \in {"lost", "broken", "closed"} : Lost(at) \in SocketRows /\ Lost(at).at \notin {"joining", "open"}
  BY DEF Lost, SocketRows
<1>2. \A c : Broken(c) \in {Lost("lost"), Lost("broken")}
  BY DEF Broken
<1> QED  BY <1>1, <1>2

\* An answer comes; the page of a build then closes its sockets.
LEMMA AnswerStep ==
  ASSUME ProgressInv, NEW p \in Pages, NEW q \in Questions, Answer(p, q)
  PROVE  ProgressInv'
<1> USE DEF ProgressInv
<1>1. Taken(page[p], q) \in PageRows /\ PageOK(work, Taken(page[p], q))
  BY TakenKeeps DEF Answer, PagesOK
<1>2. /\ page' = [page EXCEPT ![p] = Taken(page[p], q)] /\ UNCHANGED <<work, sender, clients>>
      /\ \A c \in Sockets : socket'[c] \in {Broken(c), socket[c]}
      /\ socket' \in [Sockets -> SocketRows]
  BY LostMade DEF Answer
<1>3. page' \in [Pages -> PageRows] /\ PagesOK'
  BY <1>1, <1>2 DEF PagesOK
<1>4. SendOK' /\ \A c \in Sockets : SocketOK(c)'
  BY <1>2, LostMade DEF SendOK, SocketOK
<1> QED  BY <1>2, <1>3, <1>4

\* Sockets break, and are dropped with their places in the map.
LEMMA LossStep ==
  ASSUME ProgressInv, Drop \/ \E c \in Sockets : Leave(c) \/ Break(c)
  PROVE  ProgressInv'
<1> USE DEF ProgressInv
<1>1. PICK gone \in SUBSET Sockets :
        /\ \/ clients' = clients \/ (clients' = clients \ gone /\ ~sender.sends)
        /\ \A c \in Sockets : /\ socket'[c].at \in {"joining", "open"} => socket'[c] = socket[c]
                              /\ c \in gone /\ clients' # clients => socket'[c].at # "open"
  <2>1. CASE Drop
    <3>1. sender.failed \in SUBSET Sockets
      BY DEF SenderRows
    <3> QED  BY <2>1, <3>1, LostMade DEF Drop, Closed, Reading
  <2>2. CASE \E c \in Sockets : Leave(c)
    BY <2>2, LostMade DEF Leave, Closed, Reading
  <2>3. CASE \E c \in Sockets : Break(c)
    BY <2>3, LostMade DEF Break
  <2> QED  BY <2>1, <2>2, <2>3
<1>2. UNCHANGED <<work, page>> /\ socket' \in [Sockets -> SocketRows]
  BY LostMade DEF Drop, Leave, Break, Closed
<1>3. sender' \in SenderRows /\ \A f \in {"steps", "sends", "owed", "lines"} : sender'[f] = sender[f]
  BY DEF Drop, Leave, Break, SenderRows
<1>4. clients' \subseteq clients
  BY <1>1
<1>5. IsFiniteSet(clients') /\ Cardinality(clients') <= MaxConns
  BY <1>4, FS_Subset, FS_CardinalityType, ProgressAssumption
<1>6. SendOK'
  BY <1>2, <1>3 DEF SendOK
<1>7. \A c \in Sockets : SocketOK(c)'
  BY <1>1, <1>3 DEF SocketOK
<1>8. PagesOK'
  BY <1>2 DEF PagesOK
<1> QED  BY <1>2, <1>3, <1>4, <1>5, <1>6, <1>7, <1>8

\* A page sees its connection open, which the hub has not entered.
LEMMA UpgradeStep ==
  ASSUME ProgressInv, NEW p \in Pages, NEW c \in Sockets, Upgrade(p, c)
  PROVE  ProgressInv'
<1> USE DEF ProgressInv
<1> DEFINE new == [of |-> p, at |-> "joining", behind |-> 0]
<1>1. new \in SocketRows /\ new.at # "open" /\ new.of \in Pages
  BY DEF SocketRows
<1>2. socket' = [socket EXCEPT ![c] = new] /\ UNCHANGED <<work, sender, clients, page>>
  BY DEF Upgrade
<1> HIDE DEF new
<1>3. SendOK' /\ PagesOK' /\ \A d \in Sockets : SocketOK(d)'
  BY <1>1, <1>2 DEF SendOK, PagesOK, SocketOK
<1> QED  BY <1>1, <1>2, <1>3

\* The hub enters a connection, between two sends, or turns it away.
LEMMA JoinStep ==
  ASSUME ProgressInv, NEW c \in Sockets, Join(c)
  PROVE  ProgressInv'
<1> USE DEF ProgressInv
<1>1. ~sender.sends /\ UNCHANGED <<work, sender, page>> /\ socket[c].at \in {"joining", "lost"}
      /\ socket[c] \in SocketRows
  BY DEF Join, Reading
<1>2. SendOK' /\ PagesOK' /\ sender.owed = {}
  BY <1>1 DEF SendOK, PagesOK
<1>3. CASE Cardinality(clients) < MaxConns
  <2> DEFINE new == IF socket[c].at = "lost" THEN Lost("broken")
                    ELSE [of |-> socket[c].of, at |-> "open", behind |-> 0]
  <2>1. clients' = clients \cup {c} /\ socket' = [socket EXCEPT ![c] = new]
    BY <1>3 DEF Join
  <2>2. new \in SocketRows /\ (new.at = "open" => new.of = socket[c].of /\ new.behind = 0
                                                  /\ socket[c].at = "joining")
    BY <1>1, LostMade DEF SocketRows
  <2>3. MaxConns \in Nat /\ Cardinality(clients) \in Nat /\ IsFiniteSet(clients)
    BY FS_CardinalityType, ProgressAssumption
  <2>4. /\ IsFiniteSet(clients \cup {c})
        /\ Cardinality(clients \cup {c}) = IF c \in clients THEN Cardinality(clients) ELSE Cardinality(clients) + 1
    BY <2>3, FS_AddElement
  <2>5. IsFiniteSet(clients') /\ Cardinality(clients') <= MaxConns
    BY <1>3, <2>1, <2>3, <2>4
  <2>0. new.at # "joining"
    BY LostMade
  <2> HIDE DEF new
  <2>6. \A d \in Sockets : SocketOK(d)'
    BY <1>1, <1>2, <2>0, <2>1, <2>2 DEF SocketOK
  <2> QED  BY <1>1, <1>2, <2>1, <2>2, <2>5, <2>6
<1>4. CASE ~(Cardinality(clients) < MaxConns)
  <2>1. socket' = [socket EXCEPT ![c] = Lost("closed")] /\ UNCHANGED clients
    BY <1>4 DEF Join
  <2>2. \A d \in Sockets : SocketOK(d)'
    BY <1>1, <1>2, <2>1, LostMade DEF SocketOK
  <2> QED  BY <1>1, <1>2, <2>1, <2>2, LostMade
<1> QED  BY <1>3, <1>4

\* The goroutine begins, is told to wait, marks its build, and returns.
LEMMA RunSteps ==
  ASSUME ProgressInv, Begin \/ NotStarted \/ Mark \/ Return
  PROVE  ProgressInv'
<1> USE DEF ProgressInv
<1>0. {"failed", "running"} \subseteq Endings \cup {"running"}
  BY DEF Endings
<1>1. WorkMoves
  <2>1. CASE Begin
    BY <2>1 DEF Begin, WorkMoves, WorkRows
  <2>2. CASE Return
    BY <2>2 DEF Return, WorkMoves, WorkRows
  <2>3. CASE Mark
    BY <1>0, <2>3, PutMoves DEF Mark
  <2>4. CASE NotStarted
    <3>1. PICK w \in {work, Put("failed")} : work' = [w EXCEPT !.run = "over"]
      BY <2>4 DEF NotStarted
    <3>2. /\ w \in WorkRows /\ w.kind = work.kind /\ w.asked = work.asked
          /\ (work.parted => w.parted)
          /\ w.parted \/ w.status = work.status \/ work.status = "running"
      BY <1>0, <3>1, PutMoves
    <3> QED  BY <3>1, <3>2 DEF WorkMoves, WorkRows
  <2> QED  BY <2>1, <2>2, <2>3, <2>4
<1>2. UNCHANGED <<sender, clients, socket, page>>
  BY DEF Begin, NotStarted, Mark, Return
<1>3. StepsOK(work, sender.steps) /\ work \in WorkRows
  BY DEF SendOK
<1>4. StepsOK(work', sender.steps)
  BY <1>1, <1>3, WorkKeeps
<1>5. SendOK'
  BY <1>2, <1>4 DEF SendOK
<1> QED  BY <1>1, <1>2, <1>5, GoroutineStep

\* The goroutine takes its next step, or puts the end on record, or fails to.
LEMMA WorkSteps ==
  ASSUME ProgressInv,
         Line("line") \/ Line("log") \/ Record \/ SendOver \/ \E end \in Endings : End(end)
  PROVE  ProgressInv'
<1> USE DEF ProgressInv
<1>0. /\ work \in WorkRows /\ sender.steps \in Seq(Steps) /\ sender.sends \in BOOLEAN
      /\ sender.owed \subseteq Sockets /\ sender.lines \in 0..MaxLines /\ MaxLines \in Nat
      /\ StepsOK(work, sender.steps)
  BY ProgressAssumption DEF SenderRows, SendOK
<1>1. UNCHANGED <<clients, socket, page>>
  BY DEF Line, Record, SendOver, End
<1>2. sender' \in SenderRows /\ sender'.owed = sender.owed /\ SendOK' /\ WorkMoves
  <2>1. CASE Line("line") \/ Line("log")
    <3> PICK message \in {"line", "log"} : Line(message)
      BY <2>1
    <3>1. <<message>> \in Seq(Steps) /\ StepsOK(work, <<message>>)
      BY DEF Steps, StepsOK
    <3>2. /\ sender' \in SenderRows /\ sender'.owed = sender.owed /\ sender'.sends = sender.sends
          /\ sender'.steps = <<message>> /\ work' = work /\ ~sender.sends
      <4>1. /\ sender' = [sender EXCEPT !.steps = <<message>>, !.lines = sender.lines + 1]
            /\ sender.lines < MaxLines /\ work' = work /\ ~sender.sends
        BY DEF Line, Free, Reading
      <4>2. sender.lines + 1 \in 0..MaxLines
        BY <1>0, <4>1
      <4> QED  BY <3>1, <4>1, <4>2 DEF SenderRows
    <3> QED  BY <3>1, <3>2 DEF SendOK, WorkMoves
  <2>2. CASE \E end \in Endings : End(end)
    <3> PICK end \in Endings : End(end)
      BY <2>2
    <3>1. work' = [work EXCEPT !.run = "ending"] /\ ~sender.sends
          /\ sender' = [sender EXCEPT !.steps = Ending(work.kind, end)]
      BY DEF End, Free, Reading
    <3>2. WorkMoves
      BY <3>1 DEF WorkMoves, WorkRows
    <3>3. Ending(work.kind, end) \in Seq(Steps) /\ StepsOK(work, Ending(work.kind, end))
      <4>1. work.kind \in {"deploy", "build"}
        BY DEF WorkRows
      <4>2. CASE work.kind = "deploy"
        <5>1. Ending(work.kind, end) = <<end, "log", Told(end)>>
          BY <4>2 DEF Ending, Told
        <5>2. {end, "log", Told(end)} \subseteq Steps
          BY DEF Told, Steps, Finals
        <5> QED  BY <5>1, <5>2 DEF StepsOK
      <4>3. CASE work.kind = "build"
        <5>1. StepsOK(work, Ending(work.kind, end))
          BY <4>3 DEF StepsOK
        <5>2. CASE end = "completed"
          BY <4>3, <5>1, <5>2 DEF Ending, Steps, Finals, Endings
        <5>3. CASE end = "failed"
          BY <4>3, <5>1, <5>3 DEF Ending, Steps, Finals, Endings
        <5>4. CASE end = "cancelled"
          BY <4>3, <5>1, <5>4 DEF Ending, Steps, Finals, Endings
        <5> QED  BY <5>2, <5>3, <5>4 DEF Endings
      <4> QED  BY <4>1, <4>2, <4>3
    <3>4. /\ sender' \in SenderRows /\ sender'.owed = sender.owed /\ sender'.sends = FALSE
          /\ sender'.steps = Ending(work.kind, end)
      BY <1>0, <3>1, <3>3 DEF SenderRows
    <3>5. StepsOK(work', Ending(work.kind, end))
      BY <3>2, <3>3, WorkKeeps
    <3>6. sender.owed = {}
      BY <3>1 DEF SendOK
    <3> QED  BY <3>2, <3>4, <3>5, <3>6 DEF SendOK
  <2>3. CASE Record
    <3> DEFINE end == Head(sender.steps)
    <3>1. /\ sender.steps # <<>> /\ end \in Endings /\ ~sender.sends
          /\ sender' = [sender EXCEPT !.steps = Tail(sender.steps)]
          /\ work' = Put(end) \/ work' = [work EXCEPT !.parted = work.parted \/ work.status # end]
      BY <2>3 DEF Record, Busy, Free, Reading
    <3> HIDE DEF end
    <3>2. WorkMoves /\ (work'.parted \/ work'.status = end)
      <4>1. CASE work' = Put(end)
        BY <3>1, <4>1, PutMoves
      <4>2. CASE work' = [work EXCEPT !.parted = work.parted \/ work.status # end]
        <5>1. PICK b \in BOOLEAN : b = (work.parted \/ work.status # end)
          BY DEF WorkRows
        <5>2. work' = [work EXCEPT !.parted = b]
          BY <4>2, <5>1
        <5>3. work' \in WorkRows /\ work'.parted = b /\ work'.status = work.status
              /\ work'.kind = work.kind /\ work'.asked = work.asked
          BY <5>2 DEF WorkRows
        <5>4. work.parted => b
          BY <5>1
        <5>5. b \/ work.status = end
          BY <5>1
        <5> QED  BY <5>3, <5>4, <5>5 DEF WorkMoves
      <4> QED  BY <3>1, <4>1, <4>2
    <3>3. Tail(sender.steps) \in Seq(Steps)
      BY <1>0, <3>1
    <3>4. /\ sender' \in SenderRows /\ sender'.owed = sender.owed /\ sender'.sends = sender.sends
          /\ sender'.steps = Tail(sender.steps)
      BY <3>1, <3>3 DEF SenderRows
    <3>5. StepsOK(work', Tail(sender.steps))
      <4>1. work' \in WorkRows /\ work'.kind = work.kind /\ StepsOK(work', sender.steps)
        BY <1>0, <3>2, WorkKeeps
      <4>2. CASE work'.parted \/ work.kind = "build"
        BY <4>1, <4>2 DEF StepsOK
      <4>3. CASE ~work'.parted /\ work.kind = "deploy"
        BY <3>1, <3>2, <4>1, <4>3, StepDone DEF end
      <4> QED  BY <4>2, <4>3 DEF WorkRows
    <3> QED  BY <3>1, <3>2, <3>4, <3>5 DEF SendOK
  <2>4. CASE SendOver
    <3>1. sender.sends /\ sender.owed = {} /\ work' = work
          /\ sender' = [sender EXCEPT !.sends = FALSE, !.steps = Tail(sender.steps)]
      BY <2>4 DEF SendOver, Reading
    <3>2. sender.steps # <<>> /\ Head(sender.steps) \notin Endings
      BY <3>1 DEF SendOK
    <3>3. StepsOK(work, Tail(sender.steps)) /\ Tail(sender.steps) \in Seq(Steps)
      BY <1>0, <3>2, TellDone
    <3>4. /\ sender' \in SenderRows /\ sender'.owed = sender.owed /\ sender'.sends = FALSE
          /\ sender'.steps = Tail(sender.steps)
      BY <3>1, <3>3 DEF SenderRows
    <3> QED  BY <3>1, <3>3, <3>4 DEF SendOK, WorkMoves
  <2> QED  BY <2>1, <2>2, <2>3, <2>4
<1> QED  BY <1>1, <1>2, GoroutineStep

\* A send begins: every open socket is in the map, so it is owed the message.
LEMMA SendStep ==
  ASSUME ProgressInv, Send
  PROVE  ProgressInv'
<1> USE DEF ProgressInv
<1>1. /\ ~sender.sends /\ sender.steps # <<>> /\ Head(sender.steps) \notin Endings
      /\ UNCHANGED <<work, clients, page>> /\ sender.owed = {}
      /\ sender.steps \in Seq(Steps)
  BY DEF Send, Free, Reading, Busy, SendOK, SenderRows
<1>2. \A c \in Sockets : socket[c].at = "open" => socket[c].behind = 0 /\ c \in clients
  BY <1>1 DEF SocketOK
<1>3. \A c \in Sockets : /\ socket'[c] \in SocketRows
                         /\ socket'[c].at = socket[c].at /\ socket'[c].of = socket[c].of
                         /\ socket[c].at = "open" => socket'[c].behind = 1
  <2> SUFFICES ASSUME NEW c \in Sockets
               PROVE  /\ socket'[c] \in SocketRows
                      /\ socket'[c].at = socket[c].at /\ socket'[c].of = socket[c].of
                      /\ socket[c].at = "open" => socket'[c].behind = 1
    OBVIOUS
  <2>1. socket[c] \in SocketRows
        /\ socket'[c] = IF socket[c].at = "open" THEN [socket[c] EXCEPT !.behind = socket[c].behind + 1]
                        ELSE socket[c]
    BY DEF Send
  <2> QED  BY <1>2, <2>1 DEF SocketRows
<1>4. socket' \in [Sockets -> SocketRows]
  BY <1>3 DEF Send
<1>5. CASE clients = {}
  <2>1. sender' = [sender EXCEPT !.steps = Tail(sender.steps)]
    BY <1>5 DEF Send
  <2>2. StepsOK(work, Tail(sender.steps)) /\ Tail(sender.steps) \in Seq(Steps)
    BY <1>1, TellDone DEF SendOK
  <2>3. sender' \in SenderRows /\ sender'.owed = {} /\ sender'.sends = FALSE
        /\ sender'.steps = Tail(sender.steps)
    BY <1>1, <2>1, <2>2 DEF SenderRows
  <2>4. SendOK' /\ PagesOK'
    BY <1>1, <2>2, <2>3 DEF SendOK, PagesOK
  <2>5. \A c \in Sockets : SocketOK(c)'
    BY <1>2, <1>3, <1>5 DEF SocketOK
  <2> QED  BY <1>1, <1>4, <2>3, <2>4, <2>5
<1>6. CASE clients # {}
  <2>1. sender' = [sender EXCEPT !.sends = TRUE, !.owed = clients]
    BY <1>6 DEF Send
  <2>2. sender' \in SenderRows /\ sender'.owed = clients /\ sender'.sends = TRUE
        /\ sender'.steps = sender.steps
    BY <2>1 DEF SenderRows
  <2>3. SendOK' /\ PagesOK'
    BY <1>1, <2>2 DEF SendOK, PagesOK
  <2>4. \A c \in Sockets : SocketOK(c)'
    BY <1>1, <1>2, <1>3, <2>2 DEF SocketOK
  <2> QED  BY <1>1, <1>4, <2>2, <2>3, <2>4
<1> QED  BY <1>5, <1>6

\* What a page makes of a message that is true.
LEMMA HearsKeeps ==
  ASSUME work \in WorkRows, NEW g \in PageRows, PageOK(work, g), NEW message \in Finals \cup {"line", "log"},
         work.kind = "deploy" /\ ~work.parted /\ message = "complete" => work.status = "completed",
         work.kind = "deploy" /\ ~work.parted /\ message = "error" => work.status \in {"failed", "cancelled"}
  PROVE  Hears(g, message) \in PageRows /\ PageOK(work, Hears(g, message))
<1> DEFINE h == Hears(g, message)
<1>1. /\ g.waits \in Answers /\ g.shows \in Endings \cup {"pending", "running"} /\ g.over \in BOOLEAN
      /\ Unanswered \notin Endings /\ "load" \in Questions
  BY DEF PageRows, Unanswered, Endings, Questions
<1>2. CASE work.kind = "build"
  <2> DEFINE over  == g.over \/ message \in Finals
             waits == IF message \in Finals THEN [g.waits EXCEPT !["load"] = Unanswered] ELSE g.waits
             asks  == work.kind = "build" /\ message \in Finals
  <2>1. h = [g EXCEPT !.shows = IF work.kind = "build" THEN g.shows
                                ELSE CASE message = "log"      -> g.shows
                                       [] message = "line"     -> "running"
                                       [] message = "complete" -> "completed"
                                       [] message = "error"    -> "failed",
                      !.over = over,
                      !.waits = IF asks THEN [g.waits EXCEPT !["load"] = Unanswered] ELSE g.waits]
    BY DEF Hears
  <2>2. (asks <=> message \in Finals) /\ over \in BOOLEAN /\ waits \in Answers
    <3>1. Unanswered \in Said
      BY Saids
    <3>2. waits \in Answers
      BY <1>1, <3>1 DEF Answers
    <3> QED  BY <1>1, <1>2, <3>2
  <2> HIDE DEF over
  <2>4. h = [g EXCEPT !.shows = g.shows, !.over = over, !.waits = waits]
    BY <1>2, <2>1, <2>2
  <2>5. waits \in {g.waits, [g.waits EXCEPT !["load"] = Unanswered]}
    OBVIOUS
  <2> HIDE DEF waits
  <2>6. h \in PageRows /\ h.waits = waits /\ h.shows = g.shows
    BY <1>1, <2>2, <2>4 DEF PageRows
  <2> HIDE DEF h
  <2>3. PageOK(work, h)
    BY <1>1, <1>2, <2>5, <2>6 DEF PageOK, Agree, Answers
  <2> QED  BY <2>3, <2>6 DEF h
<1>3. CASE work.kind = "deploy"
  <2> DEFINE shows == IF message = "log" THEN g.shows ELSE IF message = "line" THEN "running"
                      ELSE IF message = "complete" THEN "completed" ELSE "failed"
             over  == g.over \/ message \in Finals
  <2>1. h = [g EXCEPT !.shows = shows, !.over = over, !.waits = g.waits]
    BY <1>3 DEF Hears, Finals
  <2>2. shows \in Endings \cup {"pending", "running"} /\ over \in BOOLEAN
    BY <1>1 DEF Endings
  <2>3. \/ shows \in {g.shows, "running"} \/ work.parted
        \/ shows = "completed" /\ work.status = "completed"
        \/ shows = "failed" /\ work.status \in {"failed", "cancelled"}
    BY <1>3 DEF Finals
  <2> HIDE DEF shows, over
  <2>4. h \in PageRows /\ h.waits = g.waits /\ h.shows = shows
    BY <1>1, <2>1, <2>2 DEF PageRows
  <2> HIDE DEF h
  <2>5. PageOK(work, h)
    BY <1>3, <2>3, <2>4 DEF PageOK, Agree, Endings
  <2> QED  BY <2>4, <2>5 DEF h
<1> QED  BY <1>2, <1>3 DEF WorkRows

LEMMA SocketWriteStep ==
  ASSUME ProgressInv, NEW c \in Sockets, Write(c)
  PROVE  ProgressInv'
<1> USE DEF ProgressInv
<1> DEFINE message == Head(sender.steps)
<1>1. /\ sender.sends /\ c \in sender.owed /\ UNCHANGED <<work, clients>>
      /\ sender.steps # <<>> /\ message \notin Endings
  BY DEF Write, Reading, SendOK
<1>2. sender' \in SenderRows /\ sender'.owed = sender.owed \ {c} /\ sender'.sends = sender.sends
      /\ sender'.steps = sender.steps
  BY DEF Write, SenderRows
<1>3. SendOK'
  BY <1>1, <1>2 DEF SendOK
<1>4. CASE socket[c].at # "open"
  <2>1. UNCHANGED <<socket, page>>
    BY <1>4 DEF Write
  <2>2. \A d \in Sockets : SocketOK(d)'
    BY <1>1, <1>2, <1>4, <2>1 DEF SocketOK
  <2>3. PagesOK'
    BY <1>1, <2>1 DEF PagesOK
  <2> QED  BY <1>1, <1>2, <1>3, <2>1, <2>2, <2>3
<1>5. CASE socket[c].at = "open"
  <2> DEFINE p == socket[c].of  row == [socket[c] EXCEPT !.behind = socket[c].behind - 1]
  <2>1. /\ socket' = [socket EXCEPT ![c] = row] /\ page' = [page EXCEPT ![p] = Hears(page[p], message)]
    BY <1>5 DEF Write
  <2>2. p \in Pages /\ socket[c].behind = 1 /\ c \in clients
    BY <1>1, <1>5 DEF SocketOK
  <2>3. row \in SocketRows /\ row.behind = 0 /\ row.of = p
    BY <2>2 DEF SocketRows
  <2>4. /\ message \in Finals \cup {"line", "log"}
        /\ work.kind = "deploy" /\ ~work.parted /\ message = "complete" => work.status = "completed"
        /\ work.kind = "deploy" /\ ~work.parted /\ message = "error" => work.status \in {"failed", "cancelled"}
    <3>1. message \in Steps
      BY <1>1 DEF SenderRows
    <3>2. message \in Finals \cup {"line", "log"}
      BY <1>1, <3>1 DEF Steps
    <3>3. CASE work.kind = "deploy" /\ ~work.parted
      BY <1>1, <3>2, <3>3, StepDone DEF SendOK
    <3> QED  BY <3>2, <3>3
  <2>5. page[p] \in PageRows /\ PageOK(work, page[p])
    BY <2>2 DEF PagesOK
  <2>6. Hears(page[p], message) \in PageRows /\ PageOK(work, Hears(page[p], message))
    BY <2>4, <2>5, HearsKeeps
  <2> HIDE DEF row, p, message
  <2>7. page' \in [Pages -> PageRows] /\ PagesOK'
    BY <1>1, <2>1, <2>2, <2>6 DEF PagesOK
  <2>8. \A d \in Sockets : SocketOK(d)'
    BY <1>1, <1>2, <2>1, <2>2, <2>3 DEF SocketOK
  <2> QED  BY <1>1, <1>2, <1>3, <2>1, <2>3, <2>7, <2>8
<1> QED  BY <1>4, <1>5

------------------------------------------------------------------------------
(* Theorems *)

\* The inductive invariant of the progress hubs: an open connection is on the list and
\* at most one message behind, which the send under way still owes it, and while the
\* record has neither lost nor replaced an end, an answer on its way to a page tells
\* what is on record, and so does what the goroutine of a deployment has still to tell.
THEOREM ProgressInvariant == ProgressSpec => []ProgressInv
<1>1. ProgressInit => ProgressInv
  <2> SUFFICES ASSUME ProgressInit PROVE ProgressInv
    OBVIOUS
  <2> USE DEF ProgressInit
  <2>1. MaxConns \in Nat /\ MaxLines \in Nat
    BY ProgressAssumption
  <2>2. work \in WorkRows /\ socket \in [Sockets -> SocketRows]
    <3>1. work \in WorkRows
      BY DEF WorkRows
    <3> QED  BY <3>1 DEF SocketRows
  <2>3. sender \in SenderRows
    BY <2>1 DEF SenderRows
  <2>4. page \in [Pages -> PageRows]
    BY DEF PageRows, Answers, Said
  <2>5. IsFiniteSet(clients) /\ Cardinality(clients) <= MaxConns
    BY <2>1, FS_EmptySet
  <2>6. SendOK
    BY DEF SendOK, StepsOK
  <2>7. PagesOK
    BY DEF PagesOK, PageOK, Agree, Endings, Questions
  <2> QED  BY <2>2, <2>3, <2>4, <2>5, <2>6, <2>7 DEF ProgressInv, SocketOK
<1>2. ProgressInv /\ [ProgressNext]_progressVars => ProgressInv'
  <2> SUFFICES ASSUME ProgressInv, [ProgressNext]_progressVars PROVE ProgressInv'
    OBVIOUS
  <2>1. CASE UNCHANGED progressVars
    BY <2>1 DEF progressVars, ProgressInv, SendOK, SocketOK, PagesOK
  <2>2. CASE ProgressNext
    BY <2>2, RunSteps, WorkSteps, SendStep, LossStep, SocketWriteStep, UpgradeStep, JoinStep,
       AskStep, ServerStep, AnswerStep
       DEF ProgressNext
  <2> QED  BY <2>1, <2>2
<1> QED  BY <1>1, <1>2, PTL DEF ProgressSpec

\* Every variable of the progress hubs has its type.
THEOREM ProgressTypes == ProgressSpec => []ProgressTypeOK
BY ProgressInvariant, ProgressInvGives, PTL

\* No page the hub has entered is left out of a send, and none shows an end that is not
\* on record while the record has neither lost nor replaced one.
THEOREM EndsReachPages == ProgressSpec => []EndsAreSeen
BY ProgressInvariant, ProgressInvGives, PTL

------------------------------------------------------------------------------
(* The front door *)

LEMMA FrontStarts == FrontInit => AccessInit /\ LimitInit /\ VaultInit /\ ProgressInit
BY DEF FrontInit

LEMMA FrontSteps ==
  [FrontNext]_frontVars => /\ [AccessNext]_accessVars /\ [LimitNext]_limitVars
                           /\ [VaultNext]_vaultVars /\ [ProgressNext]_progressVars
<1> SUFFICES ASSUME [FrontNext]_frontVars
             PROVE  /\ [AccessNext]_accessVars /\ [LimitNext]_limitVars
                    /\ [VaultNext]_vaultVars /\ [ProgressNext]_progressVars
  OBVIOUS
<1>1. CASE UNCHANGED frontVars
  BY <1>1 DEF frontVars
<1>2. CASE FrontNext
  BY <1>2 DEF FrontNext, Still
<1> QED  BY <1>1, <1>2

\* Each component at the front door behaves as its own specification says.
THEOREM FrontComposes == FrontSpec => AccessSpec /\ LimitSpec /\ VaultSpec /\ ProgressSpec
BY FrontStarts, FrontSteps, PTL DEF FrontSpec, AccessSpec, LimitSpec, VaultSpec, ProgressSpec

\* Every variable at the front door has its type.
THEOREM FrontTypes == FrontSpec => []FrontTypeOK
<1>1. LimitSpec => []LimitTypeOK
  BY LimitInvariance, PTL DEF LimitInv
<1> QED  BY <1>1, FrontComposes, AccessTypes, VaultTypes, ProgressTypes, PTL DEF FrontTypeOK
=============================================================================
