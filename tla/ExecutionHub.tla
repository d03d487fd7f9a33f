------------------------------ MODULE ExecutionHub ------------------------------
(***************************************************************************)
(* ExecutionHub (internal/api/ws/execution_hub.go): the live output of one *)
(* execution on its way to the browsers that watch it.                     *)
(*                                                                         *)
(* runExecution and the reader of the job's output send messages; a        *)
(* browser may connect before, while and after they do.  The hub keeps     *)
(* what was sent, up to a limit, to replay it to late browsers, and frees  *)
(* it a minute after the execution has ended.                              *)
(*                                                                         *)
(* SendOutput holds the hub's mutex from its first to its last statement,  *)
(* writes to the browsers included: it is one step.  The replay takes its  *)
(* copy under the mutex and writes it without, one message at a time.      *)
(***************************************************************************)
EXTENDS Integers, Sequences, SequencesExt, FiniteSets

CONSTANTS Browsers,      \* connections, one for each visit of the page
          MaxConns,      \* maxConnsPerExecution
          MaxBuffered,   \* maxBufferedMessages
          MaxMessages    \* bound: messages the execution sends

ASSUME BoundsArePositive ==
  /\ MaxConns \in Nat \ {0} /\ MaxBuffered \in Nat \ {0} /\ MaxMessages \in Nat \ {0}

VARIABLES
  log,        \* the kinds of the messages sent so far; a message is its position
  buffer,     \* buffers[id]: the messages kept for replay
  timer,      \* the pending time.AfterFunc that frees the buffer
  clients,    \* clients[id]: the connections SendOutput writes to
  phase,      \* phase[c]: where HandleExecutionWS stands for c
  replay,     \* replay[c]: what replayBuffer still has to write to c
  got,        \* got[c]: the messages written to c
  broken,     \* connections on which writes and reads fail
  since,      \* history: how many messages had been sent when c joined
  freed,      \* history: the buffer has been freed
  tooLate     \* history: connections whose replay found it so

vars == <<log, buffer, timer, clients, phase, replay, got, broken, since, freed, tooLate>>

\* The ends an execution announces: its status (completed, failed, cancelled),
\* or an error (timed out, connection lost, sudo refused).
Ends  == {"status", "error"}
Kinds == Ends \union {"line"}

HasEnded == \E i \in 1..Len(log) : log[i] \in Ends

Init == /\ log = <<>> /\ buffer = <<>>
        /\ timer = "off"
        /\ clients = {} /\ broken = {} /\ tooLate = {} /\ freed = FALSE
        /\ phase  = [c \in Browsers |-> "away"]
        /\ replay = [c \in Browsers |-> <<>>]
        /\ got    = [c \in Browsers |-> <<>>]
        /\ since  = [c \in Browsers |-> 0]

------------------------------------------------------------------------------
(* SendOutput *)

\* Slip: nothing is written to a connection that is still being replayed to.
ReachedSettled == {c \in clients \ broken : phase[c] = "watching"}

\* The connections a message is written to.
Reached == clients \ broken

\* The buffer takes what arrives until it is full, the rest is not kept.
Room == Len(buffer) < MaxBuffered

\* Slip: the timer is set only when somebody watches.
ArmsWatched(kind) == kind = "status" /\ clients # {}

\* Only a status message sets the timer.
Arms(kind) == kind = "status"

\* The message is buffered, the timer set, the message written to every
\* client; a client that cannot be written to is dropped and closed.
SendOutput(kind) ==
  LET n == Len(log) + 1 IN
  /\ n <= MaxMessages
  /\ log' = Append(log, kind)
  /\ buffer' = IF Room THEN Append(buffer, n) ELSE buffer
  /\ timer' = IF Arms(kind) THEN "set" ELSE timer
  /\ got' = [c \in Browsers |-> IF c \in Reached THEN Append(got[c], n) ELSE got[c]]
  /\ clients' = clients \ broken
  /\ UNCHANGED <<phase, replay, broken, since, freed, tooLate>>

\* Lines come before the end; after it only when the reader of a job that was
\* stopped is not through in time.
Send == \E kind \in Kinds : /\ HasEnded => kind = "line"
                            /\ SendOutput(kind)

\* time.AfterFunc, 60 s after the status message.
FreeBuffer == /\ timer = "set"
              /\ timer' = "off"
              /\ buffer' = <<>>
              /\ freed' = TRUE
              /\ UNCHANGED <<log, clients, phase, replay, got, broken, since, tooLate>>

------------------------------------------------------------------------------
(* HandleExecutionWS *)

\* The connection joins, or is closed when there are too many.
Join(c) == /\ phase[c] = "away"
           /\ IF Cardinality(clients) < MaxConns
              THEN /\ clients' = clients \union {c}
                   /\ phase' = [phase EXCEPT ![c] = "joined"]
              ELSE /\ phase' = [phase EXCEPT ![c] = "left"]
                   /\ UNCHANGED clients
           /\ since' = [since EXCEPT ![c] = Len(log)]
           /\ UNCHANGED <<log, buffer, timer, replay, got, broken, freed, tooLate>>

\* replayBuffer takes its copy ...
CopyBuffer(c) == /\ phase[c] = "joined"
                 /\ phase' = [phase EXCEPT ![c] = "replaying"]
                 /\ replay' = [replay EXCEPT ![c] = buffer]
                 /\ tooLate' = IF freed THEN tooLate \union {c} ELSE tooLate
                 /\ UNCHANGED <<log, buffer, timer, clients, got, broken, since, freed>>

\* ... writes it out, and gives up when a write fails.
Replay(c) == /\ phase[c] = "replaying"
             /\ IF replay[c] = <<>> \/ c \in broken
                THEN /\ phase' = [phase EXCEPT ![c] = "watching"]
                     /\ replay' = [replay EXCEPT ![c] = <<>>]
                     /\ UNCHANGED got
                ELSE /\ got' = [got EXCEPT ![c] = Append(@, Head(replay[c]))]
                     /\ replay' = [replay EXCEPT ![c] = Tail(@)]
                     /\ UNCHANGED phase
             /\ UNCHANGED <<log, buffer, timer, clients, broken, since, freed, tooLate>>

\* Slip: the deferred function closes the connection and leaves it in the map.
LeaveListed(c) == /\ phase[c] = "watching" /\ c \in broken
                  /\ phase' = [phase EXCEPT ![c] = "left"]
                  /\ UNCHANGED <<log, buffer, timer, clients, replay, got, broken, since, freed, tooLate>>

\* The read loop ends, the deferred function takes the connection out.
Leave(c) == /\ phase[c] = "watching" /\ c \in broken
            /\ phase' = [phase EXCEPT ![c] = "left"]
            /\ clients' = clients \ {c}
            /\ UNCHANGED <<log, buffer, timer, replay, got, broken, since, freed, tooLate>>

\* The browser closes the page, or the network breaks.
Break(c) == /\ phase[c] \in {"joined", "replaying", "watching"}
            /\ broken' = broken \union {c}
            /\ UNCHANGED <<log, buffer, timer, clients, phase, replay, got, since, freed, tooLate>>

------------------------------------------------------------------------------
HandleExecutionWS(c) == Join(c) \/ CopyBuffer(c) \/ Replay(c) \/ Leave(c)

Next == \/ Send \/ FreeBuffer
        \/ \E c \in Browsers : HandleExecutionWS(c) \/ Break(c)

Spec == Init /\ [][Next]_vars

\* Timers fire and handlers are scheduled (a broken connection ends the read
\* loop at the latest when its deadline passes).
FairSpec == /\ Spec
            /\ WF_vars(FreeBuffer)
            /\ \A c \in Browsers : WF_vars(CopyBuffer(c) \/ Replay(c) \/ Leave(c))
------------------------------------------------------------------------------
(* Properties *)

\* Type invariant.
TypeOK == /\ log \in Seq(Kinds) /\ Len(log) <= MaxMessages
          /\ buffer \in Seq(1..MaxMessages) /\ Len(buffer) <= MaxBuffered
          /\ timer \in {"off", "set"}
          /\ clients \subseteq Browsers /\ Cardinality(clients) <= MaxConns
          /\ phase \in [Browsers -> {"away", "joined", "replaying", "watching", "left"}]
          /\ \A c \in Browsers : /\ replay[c] \in Seq(1..MaxMessages)
                                 /\ got[c] \in Seq(1..MaxMessages)
          /\ since \in [Browsers -> 0..MaxMessages]
          /\ broken \subseteq Browsers /\ tooLate \subseteq Browsers
          /\ freed \in BOOLEAN

\* No message falls between replay and live output: what is sent after a
\* connection joined reaches it at once, and when its replay is over it has
\* everything that was buffered for it before, wherever the sends fell.
NothingMissed ==
  \A c \in clients \ broken :
    /\ (since[c] + 1)..Len(log) \subseteq ToSet(got[c])
    /\ phase[c] = "watching" /\ c \notin tooLate =>
         \A i \in 1..since[c] : i <= MaxBuffered => i \in ToSet(got[c])

\* The connections of closed pages and broken networks do not pile up in the
\* hub: each leaves the map, whether a send or its own handler notices first.
BrokenClientsLeave ==
  \A c \in Browsers : c \in clients \intersect broken ~> c \notin clients

\* The buffer keeps a message although the execution has ended since.
KeptAfter(ends) == \E i \in ToSet(buffer) : \E j \in i..Len(log) : log[j] \in ends

\* What was kept for replay when an execution ended with a final status is
\* freed, with and without browsers watching.
StatusFreesBuffer == KeptAfter({"status"}) ~> ~KeptAfter({"status"})
=============================================================================
