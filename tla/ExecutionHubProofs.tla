--------------------------- MODULE ExecutionHubProofs ---------------------------
(***************************************************************************)
(* Theorems about ExecutionHub, for any number of browsers and messages    *)
(* and any limits.                                                         *)
(*                                                                         *)
(* The argument: until it is freed, the buffer has every message up to its *)
(* limit (Kept); so a replay that takes its copy in time still has, or has *)
(* already written, all that was sent before its browser joined (Caught);  *)
(* what is sent later is written to the browser by SendOutput itself.      *)
(***************************************************************************)
EXTENDS ExecutionHub, FiniteSetTheorems, TLAPS

\* What a connection still gets, or has got.
Seen(c) == ToSet(got[c]) \union (IF phase[c] = "replaying" THEN ToSet(replay[c]) ELSE {})

\* The buffer has every message up to its limit, until it is freed.
Kept == /\ Len(buffer) <= Len(log)
        /\ ~freed => \A i \in 1..Len(log) : i <= MaxBuffered => i \in ToSet(buffer)

\* A connection that works has all that was sent since it joined, and from its
\* replay all that was buffered before.
Caught(c) ==
  /\ phase[c] \in {"joined", "replaying", "watching"}
  /\ since[c] <= Len(log)
  /\ \A i \in (since[c] + 1)..Len(log) : i \in ToSet(got[c])
  /\ phase[c] # "joined" /\ c \notin tooLate =>
       \A i \in 1..since[c] : i <= MaxBuffered => i \in Seen(c)

Typed == /\ TypeOK
         /\ got \in [Browsers -> Seq(1..MaxMessages)]
         /\ replay \in [Browsers -> Seq(1..MaxMessages)]
         /\ IsFiniteSet(clients)

\* The inductive invariant.
IInv == Typed /\ Kept /\ \A c \in clients \ broken : Caught(c)

------------------------------------------------------------------------------
(* Sequences as sets *)

\* The elements of a sequence, by their positions.
LEMMA SetOf ==
  ASSUME NEW S, NEW s \in Seq(S)
  PROVE  \A y : y \in ToSet(s) <=> \E i \in 1..Len(s) : y = s[i]
BY DEF ToSet

\* What appending does to the elements.
LEMMA AppendedSet ==
  ASSUME NEW S, NEW s \in Seq(S), NEW x \in S
  PROVE  ToSet(Append(s, x)) = ToSet(s) \union {x}
<1> DEFINE t == Append(s, x)
<1>1. /\ t \in Seq(S) /\ Len(t) = Len(s) + 1 /\ Len(s) \in Nat
      /\ t[Len(s) + 1] = x
      /\ \A i \in 1..Len(s) : t[i] = s[i]
  OBVIOUS
<1> HIDE DEF t
<1>2. \A y : y \in ToSet(t) <=> \E i \in 1..Len(t) : y = t[i]
  BY <1>1, SetOf
<1>3. \A y : y \in ToSet(s) <=> \E i \in 1..Len(s) : y = s[i]
  BY SetOf
<1>4. ASSUME NEW y PROVE y \in ToSet(t) <=> y \in ToSet(s) \/ y = x
  BY <1>1, <1>2, <1>3
<1>5. ToSet(t) = ToSet(s) \union {x}
  BY <1>4
<1> QED BY <1>5 DEF t

\* The same for messages, which are positions in the log.
LEMMA AppendedMessage ==
  ASSUME NEW s \in Seq(1..MaxMessages), NEW x \in 1..MaxMessages
  PROVE  ToSet(Append(s, x)) = ToSet(s) \union {x}
<1> DEFINE M == 1..MaxMessages
<1>1. s \in Seq(M) /\ x \in M
  OBVIOUS
<1> HIDE DEF M
<1> QED BY <1>1, AppendedSet

\* What appending does to the type and the length.
LEMMA Appended ==
  ASSUME NEW S, NEW s \in Seq(S), NEW x \in S
  PROVE  Append(s, x) \in Seq(S) /\ Len(Append(s, x)) = Len(s) + 1 /\ Len(s) \in Nat
OBVIOUS

\* What taking the first does to the types.
LEMMA HeadAndTail ==
  ASSUME NEW S, NEW s \in Seq(S), s # <<>>
  PROVE  Head(s) \in S /\ Tail(s) \in Seq(S)
OBVIOUS

\* What is in a sequence is its head or in its tail.
LEMMA HeadAndTailSet ==
  ASSUME NEW S, NEW s \in Seq(S), s # <<>>
  PROVE  \A y \in ToSet(s) : y = Head(s) \/ y \in ToSet(Tail(s))
<1> SUFFICES ASSUME NEW y \in ToSet(s)
             PROVE  y = Head(s) \/ y \in ToSet(Tail(s))
  OBVIOUS
<1>1. PICK i \in 1..Len(s) : y = s[i]
  BY SetOf
<1>2. /\ Tail(s) \in Seq(S) /\ Len(Tail(s)) = Len(s) - 1 /\ Head(s) = s[1]
      /\ \A j \in 1..Len(Tail(s)) : Tail(s)[j] = s[j + 1]
  OBVIOUS
<1>3. CASE i = 1
  BY <1>1, <1>2, <1>3
<1>4. CASE i # 1
  <2>1. i - 1 \in 1..Len(Tail(s)) /\ (i - 1) + 1 = i
    BY <1>2, <1>4
  <2>2. y = Tail(s)[i - 1]
    BY <1>1, <1>2, <2>1
  <2> QED BY <1>2, <2>1, <2>2, SetOf
<1> QED BY <1>3, <1>4

------------------------------------------------------------------------------
(* SendOutput *)

\* The buffer takes a message only while there is room; clients only leave.
LEMMA SendTyped ==
  ASSUME IInv, NEW kind \in Kinds, SendOutput(kind)
  PROVE  Typed'
<1> DEFINE n == Len(log) + 1
<1>1. /\ n \in 1..MaxMessages /\ n \in Nat /\ Len(log) \in Nat /\ Len(buffer) \in Nat
      /\ MaxBuffered \in Nat /\ log \in Seq(Kinds) /\ buffer \in Seq(1..MaxMessages)
  BY BoundsArePositive DEF IInv, Typed, TypeOK, SendOutput
<1>2. log' \in Seq(Kinds) /\ Len(log') <= MaxMessages
  BY <1>1 DEF SendOutput
<1>3. buffer' \in Seq(1..MaxMessages) /\ Len(buffer') <= MaxBuffered
  <2>1. CASE Room
    <3>1. buffer' = Append(buffer, n)
      BY <2>1 DEF SendOutput
    <3>2. buffer' \in Seq(1..MaxMessages) /\ Len(buffer') = Len(buffer) + 1
      BY <1>1, <3>1, Appended
    <3> QED BY <1>1, <2>1, <3>2 DEF Room
  <2>2. CASE ~Room
    BY <2>2 DEF SendOutput, IInv, Typed, TypeOK
  <2> QED BY <2>1, <2>2
<1>4. got' \in [Browsers -> Seq(1..MaxMessages)]
  <2>1. \A c \in Browsers : /\ got[c] \in Seq(1..MaxMessages)
                            /\ Append(got[c], n) \in Seq(1..MaxMessages)
    BY <1>1, Appended DEF IInv, Typed
  <2>2. got' = [c \in Browsers |-> IF c \in Reached THEN Append(got[c], n) ELSE got[c]]
    BY DEF SendOutput
  <2> HIDE DEF n
  <2> QED BY ONLY <2>1, <2>2, Zenon
<1>5. IsFiniteSet(clients') /\ Cardinality(clients') <= MaxConns /\ clients' \subseteq clients
  <2>1. clients' \subseteq clients /\ IsFiniteSet(clients)
    BY DEF SendOutput, IInv, Typed
  <2>2. Cardinality(clients') <= Cardinality(clients) /\ IsFiniteSet(clients')
    BY <2>1, FS_Subset
  <2>3. Cardinality(clients) \in Nat /\ Cardinality(clients') \in Nat
    BY <2>1, <2>2, FS_CardinalityType
  <2>4. Cardinality(clients) <= MaxConns /\ MaxConns \in Nat
    BY BoundsArePositive DEF IInv, Typed, TypeOK
  <2> QED BY <2>1, <2>2, <2>3, <2>4
<1>6. timer' \in {"off", "set"}
  BY DEF SendOutput, IInv, Typed, TypeOK
<1> HIDE DEF n
<1>7. UNCHANGED <<phase, replay, broken, since, freed, tooLate>>
  BY DEF SendOutput
<1> QED BY <1>2, <1>3, <1>4, <1>5, <1>6, <1>7 DEF IInv, Typed, TypeOK

\* What does not fit into the buffer is beyond its limit.
LEMMA SendKept ==
  ASSUME IInv, NEW kind \in Kinds, SendOutput(kind)
  PROVE  Kept'
<1> DEFINE n == Len(log) + 1
<1>1. /\ n \in 1..MaxMessages /\ Len(log) \in Nat /\ Len(buffer) \in Nat
      /\ MaxBuffered \in Nat /\ buffer \in Seq(1..MaxMessages) /\ log \in Seq(Kinds)
      /\ Kept /\ freed' = freed
  BY BoundsArePositive DEF IInv, Typed, TypeOK, SendOutput
<1>2. Len(log') = n
  BY <1>1 DEF SendOutput
<1>3. CASE Room
  <2>1. buffer' = Append(buffer, n)
    BY <1>3 DEF SendOutput
  <2>2. Len(buffer') = Len(buffer) + 1
    BY <1>1, <2>1, Appended
  <2>3. n = Len(log) + 1
    OBVIOUS
  <2> HIDE DEF n
  <2>4. ToSet(buffer') = ToSet(buffer) \union {n}
    BY <1>1, <2>1, AppendedMessage
  <2> QED BY <1>1, <1>2, <2>1, <2>2, <2>3, <2>4 DEF Kept
<1>4. CASE ~Room
  <2>1. buffer' = buffer /\ MaxBuffered < n
    BY <1>1, <1>4 DEF SendOutput, Room, Kept
  <2> QED BY <1>1, <1>2, <2>1 DEF Kept
<1> QED BY <1>3, <1>4

\* A connection that works gets the message.
LEMMA SendCaught ==
  ASSUME IInv, NEW kind \in Kinds, SendOutput(kind), NEW c \in (clients \ broken)'
  PROVE  Caught(c)'
<1> DEFINE n == Len(log) + 1
<1>1. /\ c \in clients /\ c \notin broken /\ c \in Browsers /\ Caught(c)
      /\ n \in 1..MaxMessages /\ Len(log) \in Nat /\ log \in Seq(Kinds)
      /\ got[c] \in Seq(1..MaxMessages) /\ since[c] \in Nat
  BY BoundsArePositive DEF SendOutput, IInv, Typed, TypeOK
<1>2. Len(log') = n
  BY <1>1 DEF SendOutput
<1>3. got'[c] = Append(got[c], n)
  BY <1>1 DEF SendOutput, Reached
<1>4. ToSet(got'[c]) = ToSet(got[c]) \union {n}
  BY <1>1, <1>3, AppendedMessage
<1>5. UNCHANGED <<phase, replay, broken, since, freed, tooLate>>
  BY DEF SendOutput
<1>6. Seen(c) \subseteq Seen(c)'
  BY <1>4, <1>5 DEF Seen
<1>7. \A i \in (since[c] + 1)..n : i \in ToSet(got'[c])
  BY <1>1, <1>4 DEF Caught
<1> QED BY <1>1, <1>2, <1>5, <1>6, <1>7 DEF Caught

------------------------------------------------------------------------------
(* The other steps *)

\* Freeing the buffer takes nothing from the copies already made.
LEMMA FreeStep ==
  ASSUME IInv, FreeBuffer
  PROVE  IInv'
<1>1. /\ Len(buffer') = 0 /\ buffer' \in Seq(1..MaxMessages) /\ Len(log) \in Nat
      /\ freed' = TRUE /\ timer' = "off"
      /\ UNCHANGED <<log, clients, phase, replay, got, broken, since, tooLate>>
  BY DEF FreeBuffer, IInv, Typed, TypeOK
<1>2. Typed'
  BY <1>1, BoundsArePositive DEF IInv, Typed, TypeOK
<1>3. Kept'
  BY <1>1 DEF Kept
<1>4. ASSUME NEW c \in (clients \ broken)' PROVE Caught(c)'
  BY <1>1, <1>4 DEF IInv, Caught, Seen
<1> QED BY <1>2, <1>3, <1>4 DEF IInv

\* A connection that joins has missed nothing yet, and the limit is observed.
LEMMA JoinStep ==
  ASSUME IInv, NEW c \in Browsers, Join(c)
  PROVE  IInv'
<1>1. UNCHANGED <<log, buffer, timer, replay, got, broken, freed, tooLate>>
  BY DEF Join
<1>2. Len(log) \in 0..MaxMessages /\ Len(log) \in Nat
  BY BoundsArePositive DEF IInv, Typed, TypeOK
<1>3. /\ phase' \in [Browsers -> {"away", "joined", "replaying", "watching", "left"}]
      /\ since' = [since EXCEPT ![c] = Len(log)]
      /\ since' \in [Browsers -> 0..MaxMessages]
  BY <1>2 DEF Join, IInv, Typed, TypeOK
<1>4. c \notin clients \ broken
  BY DEF Join, IInv, Caught
<1>5. /\ clients' \subseteq Browsers /\ IsFiniteSet(clients')
      /\ Cardinality(clients') <= MaxConns
  <2>1. IsFiniteSet(clients) /\ Cardinality(clients) \in Nat /\ MaxConns \in Nat
    BY FS_CardinalityType, BoundsArePositive DEF IInv, Typed
  <2>2. CASE Cardinality(clients) < MaxConns
    <3>1. clients' = clients \union {c}
      BY <2>2 DEF Join
    <3>2. IsFiniteSet(clients') /\ Cardinality(clients') <= Cardinality(clients) + 1
      BY <2>1, <3>1, FS_AddElement
    <3>3. Cardinality(clients') \in Nat
      BY <3>2, FS_CardinalityType
    <3> QED BY <2>1, <2>2, <3>1, <3>2, <3>3 DEF IInv, Typed, TypeOK
  <2>3. CASE ~(Cardinality(clients) < MaxConns)
    BY <2>1, <2>3 DEF Join, IInv, Typed, TypeOK
  <2> QED BY <2>2, <2>3
<1>6. Typed'
  BY <1>1, <1>3, <1>5 DEF IInv, Typed, TypeOK
<1>7. Kept'
  BY <1>1 DEF IInv, Kept
<1>8. ASSUME NEW d \in (clients \ broken)' PROVE Caught(d)'
  <2>1. CASE d = c
    <3>1. d \in clients' /\ d \notin broken
      BY <1>1, <1>8
    <3>2. c \notin clients => phase'[c] = "joined"
      BY <2>1, <3>1 DEF Join, IInv, Typed, TypeOK
    <3>3. c \notin clients
      BY <1>4, <2>1, <3>1
    <3>4. since'[c] = Len(log)
      BY <1>3 DEF IInv, Typed, TypeOK
    <3> QED BY <1>1, <1>2, <2>1, <3>2, <3>3, <3>4 DEF Caught
  <2>2. CASE d # c
    <3>1. d \in clients \ broken /\ Caught(d)
      BY <1>1, <1>8, <2>2 DEF Join, IInv
    <3>2. phase'[d] = phase[d] /\ since'[d] = since[d]
      BY <2>2, <1>3, <3>1 DEF Join, IInv, Typed, TypeOK
    <3> QED BY <1>1, <3>1, <3>2 DEF Caught, Seen
  <2> QED BY <2>1, <2>2
<1> QED BY <1>6, <1>7, <1>8 DEF IInv

\* A copy taken in time has all that was buffered.
LEMMA CopyStep ==
  ASSUME IInv, NEW c \in Browsers, CopyBuffer(c)
  PROVE  IInv'
<1>1. /\ phase[c] = "joined"
      /\ phase' = [phase EXCEPT ![c] = "replaying"]
      /\ replay' = [replay EXCEPT ![c] = buffer]
      /\ tooLate' = IF freed THEN tooLate \union {c} ELSE tooLate
      /\ UNCHANGED <<log, buffer, timer, clients, got, broken, since, freed>>
  BY DEF CopyBuffer
<1>2. Typed'
  BY <1>1 DEF IInv, Typed, TypeOK
<1>3. Kept'
  BY <1>1 DEF IInv, Kept
<1>4. ASSUME NEW d \in (clients \ broken)' PROVE Caught(d)'
  <2>1. d \in Browsers /\ Caught(d) /\ since[d] \in Nat /\ Len(log) \in Nat
    BY <1>1, <1>4, BoundsArePositive DEF IInv, Typed, TypeOK
  <2>2. CASE d = c
    <3>1. phase'[d] = "replaying" /\ replay'[d] = buffer
      BY <1>1, <2>1, <2>2 DEF IInv, Typed, TypeOK
    <3>2. ASSUME d \notin tooLate'
          PROVE  \A i \in 1..since[d] : i <= MaxBuffered => i \in ToSet(buffer)
      <4>1. ~freed
        BY <1>1, <2>2, <3>2
      <4> QED BY <2>1, <4>1 DEF IInv, Kept, Caught
    <3> QED BY <1>1, <2>1, <3>1, <3>2 DEF Caught, Seen
  <2>3. CASE d # c
    <3>1. phase'[d] = phase[d] /\ replay'[d] = replay[d]
      BY <1>1, <2>1, <2>3 DEF IInv, Typed, TypeOK
    <3> QED BY <1>1, <2>1, <3>1 DEF Caught, Seen
  <2> QED BY <2>2, <2>3
<1> QED BY <1>2, <1>3, <1>4 DEF IInv

\* What the replay takes out of its copy it writes to the browser.
LEMMA ReplayStep ==
  ASSUME IInv, NEW c \in Browsers, Replay(c)
  PROVE  IInv'
<1>1. /\ phase[c] = "replaying"
      /\ UNCHANGED <<log, buffer, timer, clients, broken, since, freed, tooLate>>
  BY DEF Replay
<1>2. /\ replay[c] \in Seq(1..MaxMessages) /\ got[c] \in Seq(1..MaxMessages)
      /\ phase \in [Browsers -> {"away", "joined", "replaying", "watching", "left"}]
      /\ got \in [Browsers -> Seq(1..MaxMessages)]
      /\ replay \in [Browsers -> Seq(1..MaxMessages)]
  BY DEF IInv, Typed, TypeOK
<1>3. Kept'
  BY <1>1 DEF IInv, Kept
<1>4. CASE replay[c] = <<>> \/ c \in broken
  <2>1. /\ phase' = [phase EXCEPT ![c] = "watching"]
        /\ replay' = [replay EXCEPT ![c] = <<>>]
        /\ got' = got
    BY <1>4 DEF Replay
  <2>2. <<>> \in Seq(1..MaxMessages)
    OBVIOUS
  <2>3. Typed'
    BY <1>1, <1>2, <2>1, <2>2 DEF IInv, Typed, TypeOK
  <2>4. ASSUME NEW d \in (clients \ broken)' PROVE Caught(d)'
    <3>1. d \in Browsers /\ d \notin broken /\ Caught(d)
      BY <1>1, <2>4 DEF IInv, Typed, TypeOK
    <3>2. CASE d = c
      <4>1. ToSet(replay[c]) = {}
        BY <1>4, <3>1, <3>2 DEF ToSet
      <4>2. phase'[d] = "watching"
        BY <1>2, <2>1, <3>2
      <4> QED BY <1>1, <2>1, <3>1, <3>2, <4>1, <4>2 DEF Caught, Seen
    <3>3. CASE d # c
      <4>1. phase'[d] = phase[d] /\ replay'[d] = replay[d]
        BY <1>2, <2>1, <3>1, <3>3
      <4> QED BY <1>1, <2>1, <3>1, <4>1 DEF Caught, Seen
    <3> QED BY <3>2, <3>3
  <2> QED BY <1>3, <2>3, <2>4 DEF IInv
<1>5. CASE ~(replay[c] = <<>> \/ c \in broken)
  <2> DEFINE h == Head(replay[c])
  <2>1. /\ got' = [got EXCEPT ![c] = Append(got[c], h)]
        /\ replay' = [replay EXCEPT ![c] = Tail(replay[c])]
        /\ phase' = phase
    BY <1>5 DEF Replay
  <2>2. h \in 1..MaxMessages /\ Tail(replay[c]) \in Seq(1..MaxMessages)
    BY <1>2, <1>5, HeadAndTail
  <2>3. \A y \in ToSet(replay[c]) : y = h \/ y \in ToSet(Tail(replay[c]))
    BY <1>2, <1>5, HeadAndTailSet
  <2> HIDE DEF h
  <2>4. Append(got[c], h) \in Seq(1..MaxMessages)
    BY <1>2, <2>2, Appended
  <2>5. ToSet(got'[c]) = ToSet(got[c]) \union {h}
    <3>1. got'[c] = Append(got[c], h)
      BY <1>2, <2>1
    <3> QED BY <1>2, <2>2, <3>1, AppendedMessage
  <2>6. /\ got' \in [Browsers -> Seq(1..MaxMessages)]
        /\ replay' \in [Browsers -> Seq(1..MaxMessages)]
    BY <1>2, <2>1, <2>2, <2>4, Zenon
  <2>7. Typed'
    BY <1>1, <2>1, <2>6 DEF IInv, Typed, TypeOK
  <2>8. ASSUME NEW d \in (clients \ broken)' PROVE Caught(d)'
    <3>1. d \in Browsers /\ Caught(d)
      BY <1>1, <2>8 DEF IInv, Typed, TypeOK
    <3>2. CASE d = c
      <4>1. got'[d] = Append(got[c], h) /\ replay'[d] = Tail(replay[c])
        BY <1>2, <2>1, <3>2
      <4>2. ToSet(got[d]) \subseteq ToSet(got'[d]) /\ h \in ToSet(got'[d])
        BY <2>5, <3>2, <4>1
      <4>3. Seen(d) \subseteq Seen(d)'
        BY <1>1, <2>1, <2>3, <3>2, <4>1, <4>2 DEF Seen
      <4> QED BY <1>1, <2>1, <3>1, <4>2, <4>3 DEF Caught
    <3>3. CASE d # c
      <4>1. got'[d] = got[d] /\ replay'[d] = replay[d]
        BY <1>2, <2>1, <3>1, <3>3
      <4> QED BY <1>1, <2>1, <3>1, <4>1 DEF Caught, Seen
    <3> QED BY <3>2, <3>3
  <2> QED BY <1>3, <2>7, <2>8 DEF IInv
<1> QED BY <1>4, <1>5

\* A handler that returns takes its connection, which is broken, out of the map.
LEMMA LeaveStep ==
  ASSUME IInv, NEW c \in Browsers, Leave(c)
  PROVE  IInv'
<1>1. /\ c \in broken
      /\ phase' = [phase EXCEPT ![c] = "left"]
      /\ clients' = clients \ {c}
      /\ UNCHANGED <<log, buffer, timer, replay, got, broken, since, freed, tooLate>>
  BY DEF Leave
<1>2. IsFiniteSet(clients') /\ Cardinality(clients') <= MaxConns
  <2>1. clients' \subseteq clients /\ IsFiniteSet(clients)
    BY <1>1 DEF IInv, Typed
  <2>2. Cardinality(clients') <= Cardinality(clients) /\ IsFiniteSet(clients')
    BY <2>1, FS_Subset
  <2>3. Cardinality(clients) \in Nat /\ Cardinality(clients') \in Nat
    BY <2>1, <2>2, FS_CardinalityType
  <2> QED BY <2>2, <2>3, BoundsArePositive DEF IInv, Typed, TypeOK
<1>3. Typed'
  BY <1>1, <1>2 DEF IInv, Typed, TypeOK
<1>4. Kept'
  BY <1>1 DEF IInv, Kept
<1>5. ASSUME NEW d \in (clients \ broken)' PROVE Caught(d)'
  <2>1. d \in clients \ broken /\ d # c /\ d \in Browsers /\ Caught(d)
    BY <1>1, <1>5 DEF IInv, Typed, TypeOK
  <2>2. phase'[d] = phase[d]
    BY <1>1, <2>1 DEF IInv, Typed, TypeOK
  <2> QED BY <1>1, <2>1, <2>2 DEF Caught, Seen
<1> QED BY <1>3, <1>4, <1>5 DEF IInv

\* Nothing is promised to a connection that is broken.
LEMMA BreakStep ==
  ASSUME IInv, NEW c \in Browsers, Break(c)
  PROVE  IInv'
<1>1. /\ broken' = broken \union {c}
      /\ UNCHANGED <<log, buffer, timer, clients, phase, replay, got, since, freed, tooLate>>
  BY DEF Break
<1>2. Typed' /\ Kept'
  BY <1>1 DEF IInv, Typed, TypeOK, Kept
<1>3. ASSUME NEW d \in (clients \ broken)' PROVE Caught(d)'
  <2>1. Caught(d)
    BY <1>1, <1>3 DEF IInv
  <2> QED BY <1>1, <2>1 DEF Caught, Seen
<1> QED BY <1>2, <1>3 DEF IInv

------------------------------------------------------------------------------
(* The invariant *)

\* The hub starts empty.
LEMMA InitHolds == Init => IInv
<1> SUFFICES ASSUME Init PROVE IInv
  OBVIOUS
<1>1. /\ Len(log) = 0 /\ Len(buffer) = 0 /\ clients = {}
      /\ log \in Seq(Kinds) /\ buffer \in Seq(1..MaxMessages)
  BY DEF Init
<1>2. IsFiniteSet(clients) /\ Cardinality(clients) = 0
  BY <1>1, FS_EmptySet
<1>3. /\ got \in [Browsers -> Seq(1..MaxMessages)]
      /\ replay \in [Browsers -> Seq(1..MaxMessages)]
  <2>1. <<>> \in Seq(1..MaxMessages)
    OBVIOUS
  <2> QED BY <2>1 DEF Init
<1>4. TypeOK
  <2>1. 0 <= MaxMessages /\ 0 <= MaxBuffered /\ 0 <= MaxConns /\ 0 \in 0..MaxMessages
    BY BoundsArePositive
  <2>2. /\ phase \in [Browsers -> {"away", "joined", "replaying", "watching", "left"}]
        /\ since \in [Browsers -> 0..MaxMessages]
    BY <2>1 DEF Init
  <2>3. timer = "off" /\ broken = {} /\ tooLate = {} /\ freed = FALSE
    BY DEF Init
  <2> QED BY <1>1, <1>2, <1>3, <2>1, <2>2, <2>3 DEF TypeOK
<1>5. Kept
  BY <1>1 DEF Kept
<1> QED BY <1>1, <1>2, <1>3, <1>4, <1>5 DEF IInv, Typed

\* One case for each action.
LEMMA StepKeepsIt == IInv /\ [Next]_vars => IInv'
<1> SUFFICES ASSUME IInv, [Next]_vars PROVE IInv'
  OBVIOUS
<1>1. CASE Send
  <2>1. PICK kind \in Kinds : SendOutput(kind)
    BY <1>1 DEF Send
  <2> QED BY <2>1, SendTyped, SendKept, SendCaught DEF IInv
<1>2. CASE FreeBuffer
  BY <1>2, FreeStep
<1>3. ASSUME NEW c \in Browsers, HandleExecutionWS(c) \/ Break(c) PROVE IInv'
  BY <1>3, JoinStep, CopyStep, ReplayStep, LeaveStep, BreakStep DEF HandleExecutionWS
<1>4. CASE UNCHANGED vars
  BY <1>4 DEF vars, IInv, Typed, TypeOK, Kept, Caught, Seen
<1> QED BY <1>1, <1>2, <1>3, <1>4 DEF Next

\* The inductive invariant holds of the hub: SendOutput, the replay, the clean-up
\* timer and the handlers of any number of browsers, in any order.
THEOREM HubSound == Spec => []IInv
BY InitHolds, StepKeepsIt, PTL DEF Spec

\* The buffer and the connections of one execution stay within their limits
\* (maxBufferedMessages, maxConnsPerExecution), whatever comes when.
THEOREM HubTypeCorrect == Spec => []TypeOK
<1>1. IInv => TypeOK
  BY DEF IInv, Typed
<1> QED BY <1>1, HubSound, PTL

\* No message falls between replayBuffer and the live writes of SendOutput, for
\* any number of browsers and messages, wherever the sends fall in the replay.
THEOREM NothingIsMissed == Spec => []NothingMissed
<1>1. IInv => NothingMissed
  <2> SUFFICES ASSUME IInv, NEW c \in clients \ broken
               PROVE  /\ (since[c] + 1)..Len(log) \subseteq ToSet(got[c])
                      /\ phase[c] = "watching" /\ c \notin tooLate =>
                           \A i \in 1..since[c] : i <= MaxBuffered => i \in ToSet(got[c])
    BY DEF NothingMissed
  <2>1. Caught(c)
    BY DEF IInv
  <2> QED BY <2>1 DEF Caught, Seen
<1> QED BY <1>1, HubSound, PTL
=============================================================================
