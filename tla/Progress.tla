-------------------------------- MODULE Progress --------------------------------
(***************************************************************************)
(* A deployment or a build and the pages that watch it: the hubs that send *)
(* its messages (internal/api/ws/hub.go, internal/factory/progress.go) and *)
(* the browser's side (frontend/src/pages/DeployLive.tsx,                  *)
(* FactoryBuildProgress.tsx and their hooks).  The two hubs are alike; the *)
(* order of record and messages differs, and so do the pages: that of a    *)
(* deployment believes the messages, that of a build asks the server.      *)
(*                                                                         *)
(* A send holds the hub's lock for reading while it writes to one socket   *)
(* after the other, and takes it again to drop those that failed: joining  *)
(* and leaving, which take it for writing, fall before or after the first  *)
(* part, but may fall between the two.  A page sees its connection open    *)
(* before the hub has entered it, and hears nothing in between.            *)
(*                                                                         *)
(* What is told is told whatever became of the record: a write of the      *)
(* status may fail or be refused, and a cancel that finds no goroutine     *)
(* writes the row itself.                                                  *)
(***************************************************************************)
EXTENDS Naturals, Sequences, FiniteSets

CONSTANTS
  Pages,      \* browser tabs, numbered as they are opened
  Sockets,    \* numbers of connections, each used once
  MaxConns,   \* connections of one deployment or build (50 in the code)
  MaxLines,   \* bound: progress messages
  MaxWaits    \* bound: requests of pages under way

ASSUME ProgressAssumption ==
  {MaxConns, MaxLines, MaxWaits} \subseteq Nat \ {0} /\ Sockets \cup Pages \subseteq Nat \ {0}

VARIABLES
  work,       \* what is watched: its row's status, where its goroutine stands, whether
              \* a page asked for a cancel; history: parted, the record lost or
              \* replaced an end
  sender,     \* the goroutine: its next steps, the sockets of the send it is in
  clients,    \* the hub's map: the sockets of this deployment or build
  socket,     \* per socket: its page, how it is, the messages sent that it has not got
  page        \* per page: what it shows, the answers it waits for
progressVars == <<work, sender, clients, socket, page>>

Endings == {"completed", "failed", "cancelled"}
Finals == {"complete", "error"}
Steps == Endings \cup Finals \cup {"line", "log"}
Questions == {"load", "poll", "cancel"}
Unanswered == "unread"
\* A cancel has read the row, or has found no goroutine and writes the row next.
AtServer == {Unanswered, "checked", "orphan"}

ProgressTypeOK ==
  /\ work \in [kind : {"deploy", "build"}, status : Endings \cup {"running"}, asked : BOOLEAN,
              run : {"starting", "on", "ending", "over"}, parted : BOOLEAN]
  /\ sender \in [steps : Seq(Steps), sends : BOOLEAN, owed : SUBSET Sockets,
                 failed : SUBSET Sockets, lines : 0..MaxLines]
  /\ clients \subseteq Sockets /\ Cardinality(clients) <= MaxConns
  /\ socket \in [Sockets -> [of : Pages \cup {0}, behind : 0..1,
                             at : {"unused", "joining", "lost", "open", "broken", "closed"}]]
  /\ page \in [Pages -> [opened : BOOLEAN, shows : Endings \cup {"pending", "running"},
                         over : BOOLEAN,
                         waits : [Questions -> Endings \cup {"running", "none"} \cup AtServer]]]

ProgressInit ==
  /\ work \in [kind : {"deploy", "build"}, status : {"running"}, asked : {FALSE}, run : {"starting"},
              parted : {FALSE}]
  /\ sender = [steps |-> <<>>, sends |-> FALSE, owed |-> {}, failed |-> {}, lines |-> 0]
  /\ clients = {}
  /\ socket = [c \in Sockets |-> [of |-> 0, at |-> "unused", behind |-> 0]]
  /\ page = [p \in Pages |-> [opened |-> FALSE, shows |-> "pending", over |-> FALSE,
                              waits |-> [q \in Questions |-> "none"]]]

------------------------------------------------------------------------------
(* The goroutine.  A deployment's end is on record before it is told; a build that
   fails tells first. *)

\* Slip: the page is told before the record is written.
EndingToldFirst(kind, end) ==
  <<"log", IF end = "completed" THEN "complete" ELSE "error", end>>
Ending(kind, end) ==
  LET final == IF end = "completed" THEN "complete" ELSE "error"
  IN  CASE kind = "deploy"                     -> <<end, "log", final>>
        [] kind = "build" /\ end = "completed" -> <<"log", end, final>>
        [] kind = "build" /\ end = "failed"    -> <<"log", final, end>>
        [] kind = "build" /\ end = "cancelled" -> <<end, final>>

Reading == sender.sends   \* a send holds the lock for reading
Free == ~Reading /\ sender.failed = {}
Busy == sender.steps # <<>>
\* The goroutine can be found by a cancel, until it returns.
Begin ==
  /\ work.run = "starting" /\ work' = [work EXCEPT !.run = "on"]
  /\ UNCHANGED <<sender, clients, socket, page>>
\* The status as the record has it after a write, and whether an end was replaced.
Put(status) == [work EXCEPT !.status = status,
                            !.parted = @ \/ (work.status \in Endings /\ work.status # status)]
\* The engine has another build: this one is failed, if that can be written.
NotStarted ==
  /\ work.kind = "build" /\ work.run = "starting"
  /\ \E w \in {work, Put("failed")} : work' = [w EXCEPT !.run = "over"]
  /\ UNCHANGED <<sender, clients, socket, page>>
\* A build says twice that it is building, whatever its row says.
Mark ==
  /\ work.kind = "build" /\ work.run = "on" /\ Free /\ ~Busy /\ work' = Put("running")
  /\ UNCHANGED <<sender, clients, socket, page>>
\* Progress, or a line of the log.
Line(message) ==
  /\ work.run = "on" /\ Free /\ ~Busy /\ sender.lines < MaxLines
  /\ sender' = [sender EXCEPT !.steps = <<message>>, !.lines = @ + 1]
  /\ UNCHANGED <<work, clients, socket, page>>
\* A deadline looks like a cancel.
End(end) ==
  /\ work.run = "on" /\ Free /\ ~Busy
  /\ sender' = [sender EXCEPT !.steps = Ending(work.kind, end)]
  /\ work' = [work EXCEPT !.run = "ending"]
  /\ UNCHANGED <<clients, socket, page>>
\* The row of a deployment that has ended refuses another end; any write may fail.
\* Neither stops the goroutine.
Record ==
  /\ Free /\ Busy /\ Head(sender.steps) \in Endings
  /\ LET end == Head(sender.steps) IN
       \/ (work.kind = "deploy" => work.status = "running") /\ work' = Put(end)
       \/ work' = [work EXCEPT !.parted = @ \/ work.status # end]
  /\ sender' = [sender EXCEPT !.steps = Tail(@)]
  /\ UNCHANGED <<clients, socket, page>>
Return ==
  /\ work.run = "ending" /\ Free /\ ~Busy /\ work' = [work EXCEPT !.run = "over"]
  /\ UNCHANGED <<sender, clients, socket, page>>

------------------------------------------------------------------------------
(* The hub *)

\* Nobody watches, or the send begins.
Send ==
  /\ Free /\ Busy /\ Head(sender.steps) \notin Endings
  /\ sender' = IF clients = {}
               THEN [sender EXCEPT !.steps = Tail(@)] ELSE [sender EXCEPT !.sends = TRUE, !.owed = clients]
  /\ socket' = [c \in Sockets |->
                  IF socket[c].at = "open" THEN [socket[c] EXCEPT !.behind = @ + 1] ELSE socket[c]]
  /\ UNCHANGED <<work, clients, page>>

\* What a page makes of a message.
Hears(g, message) ==
  LET shows == IF work.kind = "build" THEN g.shows
               ELSE CASE message = "log"      -> g.shows
                      [] message = "line"     -> "running"
                      [] message = "complete" -> "completed"
                      [] message = "error"    -> "failed"
      asks  == work.kind = "build" /\ message \in Finals
  IN  [g EXCEPT !.shows = shows, !.over = @ \/ message \in Finals,
                !.waits = IF asks THEN [g.waits EXCEPT !["load"] = Unanswered] ELSE @]
Write(c) ==
  /\ Reading /\ c \in sender.owed
  /\ sender' = [sender EXCEPT !.owed = @ \ {c},
                  !.failed = IF socket[c].at = "open" THEN @ ELSE @ \cup {c}]
  /\ IF socket[c].at = "open"
     THEN /\ socket' = [socket EXCEPT ![c].behind = @ - 1]
          /\ page' = [page EXCEPT ![socket[c].of] = Hears(@, Head(sender.steps))]
     ELSE UNCHANGED <<socket, page>>
  /\ UNCHANGED <<work, clients>>
SendOver ==
  /\ Reading /\ sender.owed = {}
  /\ sender' = [sender EXCEPT !.sends = FALSE, !.steps = Tail(@)]
  /\ UNCHANGED <<work, clients, socket, page>>
Lost(at) == [of |-> 0, at |-> at, behind |-> 0]
Closed(gone) == [c \in Sockets |-> IF c \in gone THEN Lost("closed") ELSE socket[c]]
Drop ==
  /\ ~Reading /\ sender.failed # {}
  /\ clients' = clients \ sender.failed /\ socket' = Closed(sender.failed)
  /\ sender' = [sender EXCEPT !.failed = {}]
  /\ UNCHANGED <<work, page>>
\* The handler's reader finds its socket broken or closed.
Leave(c) ==
  /\ socket[c].at \in {"broken", "closed"} /\ ~Reading
  /\ socket[c].at = "broken" \/ c \in clients
  /\ clients' = clients \ {c} /\ socket' = Closed({c})
  /\ UNCHANGED <<work, sender, page>>
\* The network fails, the page goes away, or a write is late.
Broken(c) == Lost(IF socket[c].at = "joining" THEN "lost" ELSE "broken")
Break(c) ==
  /\ socket[c].at \in {"joining", "open"} /\ socket' = [socket EXCEPT ![c] = Broken(c)]
  /\ UNCHANGED <<work, sender, clients, page>>

------------------------------------------------------------------------------
(* The pages *)

Asking(g, q) == [g EXCEPT !.waits[q] = Unanswered]
UnderWay == {a \in Pages \X Questions : page[a[1]].waits[a[2]] # "none"}
MayAsk == Cardinality(UnderWay) < MaxWaits
OpenPage(p) ==
  /\ ~page[p].opened /\ MayAsk /\ \A g \in Pages : g < p => page[g].opened
  /\ page' = [page EXCEPT ![p] = Asking([@ EXCEPT !.opened = TRUE], "load")]
  /\ UNCHANGED <<work, sender, clients, socket>>
\* The page of a build asks every five seconds.
Poll(p) ==
  /\ work.kind = "build" /\ page[p].opened /\ page[p].waits["poll"] = "none" /\ MayAsk
  /\ page' = [page EXCEPT ![p] = Asking(@, "poll")]
  /\ UNCHANGED <<work, sender, clients, socket>>
\* One page asks once.
CancelWatched(p) ==
  /\ page[p].opened /\ MayAsk /\ ~work.asked /\ page[p].shows \notin Endings
  /\ page' = [page EXCEPT ![p] = Asking(@, "cancel")]
  /\ work' = [work EXCEPT !.asked = TRUE]
  /\ UNCHANGED <<sender, clients, socket>>
ServerReads(p, q) ==
  /\ q # "cancel" /\ page[p].waits[q] = Unanswered
  /\ page' = [page EXCEPT ![p].waits[q] = work.status]
  /\ UNCHANGED <<work, sender, clients, socket>>

\* The request for a cancel is refused if the row has ended when it is read; then the
\* goroutine is looked for.
CancelAt(p, from, to) ==
  /\ page[p].waits["cancel"] = from /\ page' = [page EXCEPT ![p].waits["cancel"] = to]
  /\ UNCHANGED <<sender, clients, socket>>
CancelChecks(p) ==
  /\ CancelAt(p, Unanswered, IF work.status = "running" THEN "checked" ELSE "none")
  /\ UNCHANGED work
CancelSignals(p) ==
  /\ CancelAt(p, "checked", IF work.run \in {"on", "ending"} THEN "running" ELSE "orphan")
  /\ UNCHANGED work
\* That of a deployment is refused once more if the row has ended by now; that of a
\* build has its answer also when the row could not be written.
CancelWrites(p) ==
  \/ /\ work.kind = "deploy" /\ work.status # "running"
     /\ CancelAt(p, "orphan", "none") /\ UNCHANGED work
  \/ /\ work.kind = "deploy" => work.status = "running"
     /\ CancelAt(p, "orphan", "running")
     /\ work' = Put("cancelled") \/ (work.kind = "build" /\ UNCHANGED work)

RequestFails(p, q) ==
  /\ page[p].waits[q] # "none" /\ page' = [page EXCEPT ![p].waits[q] = "none"]
  /\ UNCHANGED <<work, sender, clients, socket>>

\* A poll does not overwrite an end, all other answers overwrite what is shown.
Taken(g, q) ==
  LET done == [g EXCEPT !.waits[q] = "none"]
  IN  CASE q = "cancel" /\ work.kind = "build" -> Asking(done, "load")
        [] q = "cancel" /\ work.kind = "deploy" -> [done EXCEPT !.shows = "cancelled"]
        [] q = "poll" /\ g.shows \in Endings -> done
        [] OTHER -> [done EXCEPT !.shows = g.waits[q]]
Online(p) == {c \in Sockets : socket[c].of = p /\ socket[c].at \in {"joining", "open"}}
\* The page of a build closes its socket when it shows an end.
Answer(p, q) ==
  /\ page[p].waits[q] \notin {"none"} \cup AtServer
  /\ page' = [page EXCEPT ![p] = Taken(@, q)]
  /\ socket' = [c \in Sockets |->
       IF work.kind = "build" /\ Taken(page[p], q).shows \in Endings /\ c \in Online(p)
       THEN Broken(c) ELSE socket[c]]
  /\ UNCHANGED <<work, sender, clients>>

\* An attempt that is refused changes nothing, and a page that gives up takes no step.
Wants(p) ==
  /\ page[p].opened /\ ~page[p].over /\ Online(p) = {}
  /\ work.kind = "build" => page[p].shows = "running"
IsNext(c) == socket[c].at = "unused" /\ \A d \in Sockets : d < c => socket[d].at # "unused"
\* The page sees its socket open.
Upgrade(p, c) ==
  /\ Wants(p) /\ IsNext(c)
  /\ socket' = [socket EXCEPT ![c] = [of |-> p, at |-> "joining", behind |-> 0]]
  /\ UNCHANGED <<work, sender, clients, page>>
\* The hub enters it, broken or not, or is full and closes it.
Join(c) ==
  /\ socket[c].at \in {"joining", "lost"} /\ ~Reading
  /\ IF Cardinality(clients) < MaxConns
     THEN /\ clients' = clients \cup {c}
          /\ socket' = [socket EXCEPT ![c] = IF @.at = "lost" THEN Lost("broken")
                                             ELSE [of |-> @.of, at |-> "open", behind |-> 0]]
     ELSE socket' = [socket EXCEPT ![c] = Lost("closed")] /\ UNCHANGED clients
  /\ UNCHANGED <<work, sender, page>>

ProgressNext ==
  \/ Begin \/ NotStarted \/ Mark \/ Record \/ Return \/ Send \/ SendOver \/ Drop
  \/ Line("line") \/ Line("log") \/ \E end \in Endings : End(end)
  \/ \E c \in Sockets : Write(c) \/ Leave(c) \/ Break(c) \/ Join(c)
  \/ \E p \in Pages : \/ OpenPage(p) \/ Poll(p) \/ CancelWatched(p) \/ CancelChecks(p)
                       \/ CancelSignals(p) \/ CancelWrites(p)
  \/ \E p \in Pages, q \in Questions : ServerReads(p, q) \/ RequestFails(p, q) \/ Answer(p, q)
  \/ \E p \in Pages, c \in Sockets : Upgrade(p, c)
ProgressSpec == ProgressInit /\ [][ProgressNext]_progressVars

------------------------------------------------------------------------------
\* No page is left out and none is misled: a socket that the hub has entered has been
\* sent all that was told since, also when others break, leave or join around a
\* send; and the end a page shows is on record (or was asked for, as the page of a
\* deployment shows a cancellation that has only begun, and takes one that was told
\* for a failure), unless the record has lost an end that was told, because the write
\* failed or was refused, or had an end replaced, as a cancel that finds no goroutine
\* and a build that begins do (ws/hub.go:112, deploy.go:564, factory/engine.go:220).
EndsAreSeen ==
  /\ \A c \in Sockets : socket[c].at = "open" => c \in sender.owed \/ socket[c].behind = 0
  /\ \A p \in Pages : page[p].shows \in Endings =>
       \/ page[p].shows = work.status
       \/ work.kind = "deploy" /\ page[p].shows = "cancelled" /\ work.asked
       \/ work.kind = "deploy" /\ page[p].shows = "failed" /\ work.status = "cancelled"
       \/ work.parted
=============================================================================
