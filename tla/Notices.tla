--------------------------------- MODULE Notices ---------------------------------
(***************************************************************************)
(* What becomes of an announcement (internal/service/webhook.go,           *)
(* notification.go and internal/db/notifications.go): a request to every   *)
(* subscribed webhook, a few at a time and never repeated, and a notice in *)
(* the drawer of its owner or of every administrator, kept until its user  *)
(* dismisses it, 30 days after it was read, or 90 days.                    *)
(*                                                                         *)
(* The service that announces waits for a free place for each request, not *)
(* for its answer.  Deployments, executions and builds address one user,   *)
(* exports and evaluations the administrators; a period is 30 days.        *)
(***************************************************************************)
EXTENDS Naturals, FiniteSets

CONSTANTS
  People,         \* users
  Announcements,  \* announcements
  Hooks,          \* webhooks
  Places,         \* requests one announcement has under way (10 in the code)
  MaxEdits        \* bound: changes of webhooks and users

ASSUME NoticesAssumption == {Places, MaxEdits} \subseteq Nat \ {0}

VARIABLES
  staff,      \* users there are, and the administrators among them
  hooks,      \* the webhooks: there or not, active, subscribed
  touched,    \* changes so far
  round,      \* per announcement: its progress
  notice      \* per announcement and user: the row in the notifications table
noticeVars == <<staff, hooks, touched, round, notice>>

HookRows == {"wanted", "off"}   \* active and subscribed to the event, or not
NoNotice == [at |-> "none", age |-> 0, read |-> 0]
Quiet == [at |-> "quiet", kind |-> "owner", addressed |-> {}, hooks |-> {}, under |-> {}]

NoticesTypeOK ==
  /\ staff.admins \subseteq staff.there /\ staff.there \subseteq People
  /\ hooks \in [Hooks -> [there : BOOLEAN, row : HookRows]]
  /\ touched \in 0..MaxEdits
  /\ round \in [Announcements -> [at : {"quiet", "hooks", "notes", "done", "lost"},
                                 kind : {"owner", "admins"}, addressed : SUBSET People,
                                 hooks : SUBSET Hooks, under : SUBSET Hooks]]
  /\ \A a \in Announcements : Cardinality(round[a].under) <= Places
  /\ notice \in [Announcements -> [People -> [at : {"none", "unread", "read", "dismissed", "expired", "refused"},
                                              age : 0..3, read : 0..1]]]

NoticesInit ==
  /\ staff \in [there : {People}, admins : SUBSET People]
  /\ hooks \in [Hooks -> [there : {TRUE}, row : {"wanted"}]]
  /\ touched = 0
  /\ round = [a \in Announcements |-> Quiet]
  /\ notice = [a \in Announcements |-> [u \in People |-> NoNotice]]

------------------------------------------------------------------------------
(* Webhooks *)

Subscribed == {w \in Hooks : hooks[w].there /\ hooks[w].row = "wanted"}
Move(a, change) == round' = [round EXCEPT ![a] = change] /\ UNCHANGED <<staff, hooks, touched, notice>>
\* Deployments, executions and builds tell the webhooks, then the user.
Announce(a, u) ==
  /\ round[a].at = "quiet"
  /\ Move(a, [Quiet EXCEPT !.at = "hooks", !.addressed = {u}, !.hooks = Subscribed])
\* Exports and evaluations tell the administrators, then the webhooks.
EmitForAdmins(a) ==
  /\ round[a].at = "quiet"
  /\ Move(a, [Quiet EXCEPT !.at = "notes", !.kind = "admins", !.addressed = staff.admins])
StartSend(a, w) ==
  /\ round[a].at = "hooks" /\ w \in round[a].hooks /\ Cardinality(round[a].under) < Places
  /\ Move(a, [round[a] EXCEPT !.hooks = @ \ {w}, !.under = @ \cup {w}])
\* The address is checked and resolved again, and refused; or the one request
\* is answered, or not: nobody reads which.
SendEnds(a, w) ==
  /\ w \in round[a].under /\ Move(a, [round[a] EXCEPT !.under = @ \ {w}])
\* Every request was started, answered or not.
Started(a) ==
  /\ round[a].at = "hooks" /\ round[a].hooks = {}
  /\ Move(a, [round[a] EXCEPT !.at = IF round[a].kind = "owner" THEN "notes" ELSE "done"])

Edit == touched < MaxEdits /\ touched' = touched + 1
CreateWebhook(w) ==
  /\ Edit /\ ~hooks[w].there
  /\ \E row \in HookRows : hooks' = [hooks EXCEPT ![w] = [there |-> TRUE, row |-> row]]
  /\ UNCHANGED <<staff, round, notice>>
DeleteWebhook(w) ==
  /\ Edit /\ hooks[w].there
  /\ hooks' = [hooks EXCEPT ![w] = [there |-> FALSE, row |-> "off"]]
  /\ UNCHANGED <<staff, round, notice>>
\* What a request leaves out is written back as it was read some time before,
\* so any row may come out; one that was deleted meanwhile stays deleted.
UpdateWebhook(w) ==
  /\ Edit /\ hooks[w].there
  /\ \E row \in HookRows : hooks' = [hooks EXCEPT ![w].row = row]
  /\ UNCHANGED <<staff, round, notice>>

------------------------------------------------------------------------------
(* Notices *)

Note(a, u, row) == notice' = [notice EXCEPT ![a][u] = row]
Untold(a) == {u \in round[a].addressed \intersect staff.there : notice[a][u].at = "none"}
\* An error is logged and forgotten.
InsertNotice(a) ==
  /\ round[a].at = "notes"
  /\ \E u \in Untold(a), at \in {"unread", "refused"} : Note(a, u, [NoNotice EXCEPT !.at = at])
  /\ UNCHANGED <<staff, hooks, touched, round>>
\* A user who is gone is refused by the table, and the others are told.
Told(a) ==
  /\ round[a].at = "notes" /\ Untold(a) = {}
  /\ Move(a, IF round[a].kind = "owner" THEN [round[a] EXCEPT !.at = "done"]
             ELSE [round[a] EXCEPT !.at = "hooks", !.hooks = Subscribed])

MarkNotificationRead(a, u) ==
  /\ notice[a][u].at = "unread" /\ Note(a, u, [notice[a][u] EXCEPT !.at = "read"])
  /\ UNCHANGED <<staff, hooks, touched, round>>
Marked(u) ==
  [b \in Announcements |-> [v \in People |->
     IF v = u /\ notice[b][v].at = "unread" THEN [notice[b][v] EXCEPT !.at = "read"] ELSE notice[b][v]]]
MarkAllNotificationsRead(u) ==
  /\ \E b \in Announcements : notice[b][u].at = "unread"
  /\ notice' = Marked(u) /\ UNCHANGED <<staff, hooks, touched, round>>
DeleteNotification(a, u) ==
  /\ notice[a][u].at \in {"unread", "read"} /\ Note(a, u, [NoNotice EXCEPT !.at = "dismissed"])
  /\ UNCHANGED <<staff, hooks, touched, round>>

Kept(row) == row.at \in {"unread", "read"}
PeriodPasses ==
  /\ \E b \in Announcements, u \in People : Kept(notice[b][u]) /\ notice[b][u].age < 3
  /\ notice' = [b \in Announcements |-> [u \in People |->
       LET row == notice[b][u] IN
       IF Kept(row) THEN [row EXCEPT !.age = IF @ < 3 THEN @ + 1 ELSE @,
                                     !.read = IF row.at = "read" THEN 1 ELSE @] ELSE row]]
  /\ UNCHANGED <<staff, hooks, touched, round>>
\* Slip: the shorter age counts for all of them.
OldReadOrNot(row) == Kept(row) /\ (row.age >= 1 \/ row.read = 1)
Old(row) == (row.at = "read" /\ row.read = 1) \/ (Kept(row) /\ row.age = 3)
DeleteOldReadNotifications ==
  /\ notice' = [b \in Announcements |-> [u \in People |->
       IF Old(notice[b][u]) THEN [notice[b][u] EXCEPT !.at = "expired"] ELSE notice[b][u]]]
  /\ UNCHANGED <<staff, hooks, touched, round>>

------------------------------------------------------------------------------
ChangeRole(u) ==
  /\ Edit /\ u \in staff.there
  /\ staff' = [staff EXCEPT !.admins = IF u \in @ THEN @ \ {u} ELSE @ \cup {u}]
  /\ UNCHANGED <<hooks, round, notice>>
\* The rows of a user who is deleted go with it.
UserGoes(u) ==
  /\ Edit /\ u \in staff.there /\ staff' = [there |-> staff.there \ {u}, admins |-> staff.admins \ {u}]
  /\ notice' = [b \in Announcements |-> [notice[b] EXCEPT ![u] = NoNotice]]
  /\ UNCHANGED <<hooks, round>>
\* A stop of the server forgets what is under way.
AnnouncerStops ==
  /\ round' = [a \in Announcements |->
       IF round[a].at \in {"quiet", "done"} THEN [round[a] EXCEPT !.under = {}]
       ELSE [round[a] EXCEPT !.at = "lost", !.hooks = {}, !.under = {}]]
  /\ UNCHANGED <<staff, hooks, touched, notice>>

NoticesNext ==
  \/ PeriodPasses \/ DeleteOldReadNotifications \/ AnnouncerStops
  \/ \E w \in Hooks : CreateWebhook(w) \/ DeleteWebhook(w) \/ UpdateWebhook(w)
  \/ \E u \in People : ChangeRole(u) \/ UserGoes(u) \/ MarkAllNotificationsRead(u)
  \/ \E a \in Announcements : EmitForAdmins(a) \/ Started(a) \/ InsertNotice(a) \/ Told(a)
  \/ \E a \in Announcements, w \in Hooks : StartSend(a, w) \/ SendEnds(a, w)
  \/ \E a \in Announcements, u \in People :
       Announce(a, u) \/ MarkNotificationRead(a, u) \/ DeleteNotification(a, u)
NoticesSpec == NoticesInit /\ [][NoticesNext]_noticeVars

------------------------------------------------------------------------------
\* Whom an announcement addressed has a notice of it (or the table refused it),
\* whoever else came, went or changed roles meanwhile and whatever the webhooks
\* did; and the notice stays until its user dismisses it or its time has come (README.md:273,
\* notification.go:25, db/notifications.go:128).
NoticesKept ==
  \A a \in Announcements, u \in People :
    /\ round[a].at = "done" /\ u \in round[a].addressed \intersect staff.there
         => notice[a][u].at # "none"
    /\ notice[a][u].at = "expired" => notice[a][u].age = 3 \/ notice[a][u].read = 1
=============================================================================
