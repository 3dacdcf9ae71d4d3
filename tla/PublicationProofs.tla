------------------------- MODULE PublicationProofs -------------------------
(***************************************************************************)
(* Theorems about the path to the broker, for all payloads and any number  *)
(* of failures and copies: one way back, one read, no payload on what      *)
(* belongs to an earlier connection, and no message published twice.       *)
(***************************************************************************)
EXTENDS Publication, QueueCounts

----------------------------------------------------------------------------
(* The invariant.                                                          *)

Results == {"opened", "declared", "channel_close", "heartbeat", "close", "part", "error", "aborted"}

\* The handlers by kind.
Reconnects == {[kind |-> "reconnect", arg |-> "ok"]}
Beats      == {[kind |-> "beat", arg |-> "ok"]}
Receives   == [kind : {"received"}, arg : Results]
Posts(m)   == {[kind |-> "post", arg |-> m]}
Entries    == Reconnects \cup Beats \cup Receives \cup [kind : {"post"}, arg : Payloads]

Typed ==
  /\ TypeOK /\ ready \in Seq(Entries) /\ published \in [Payloads -> Nat]
  /\ seen \subseteq Payloads /\ recent \subseteq Unchecked
  /\ copies \in [Payloads -> Nat] /\ periods \in [Payloads -> Nat]

\* OneWayBack, kept after an exception too, and ReadsPending with its reverse:
\* nothing is read, and nothing that was read waits, without a connection.
Way ==
  Count(ready, Reconnects) + One(Connected) + One(pc = "connecting") + One(retry = "armed") = 1
Reads == Count(ready, Receives) + One(reading) = One(Connected)

\* The channel of a ready connection is its own, closed or not.
Channel ==
  /\ connection = "ready" => channel \in {"current", "closed"}
  /\ connection = "ready" /\ available => declared

\* What is published and what is posted of a message, together, have been let
\* through: once, ever, if it has a checksum, else once in each interval, of
\* which the present one is used up while the message is recent.
LetThrough(m) ==
  IF m \notin Unchecked
  THEN /\ published[m] + Count(ready, Posts(m)) <= One(m \in seen)
       /\ One(m \in seen) <= copies[m] /\ 1 <= periods[m]
  ELSE /\ published[m] + Count(ready, Posts(m)) <= copies[m]
       /\ published[m] + Count(ready, Posts(m)) + One(m \notin recent) <= periods[m]
Accounts == \A m \in Payloads : LetThrough(m)

Inv == Typed /\ Way /\ Reads /\ Channel /\ Accounts

\* The kinds of handlers do not overlap, and One is a number.
LEMMA Kinds ==
  /\ \A e \in Reconnects : e \in Entries /\ e \notin Receives /\ \A m : e \notin Posts(m)
  /\ \A e \in Beats : e \in Entries /\ e \notin Reconnects /\ e \notin Receives /\ \A m : e \notin Posts(m)
  /\ \A e \in Receives : e \in Entries /\ e \notin Reconnects /\ \A m : e \notin Posts(m)
  /\ \A m \in Payloads : \A e \in Posts(m) :
       e \in Entries /\ e \notin Reconnects /\ e \notin Receives /\ e.arg = m
BY DEF Reconnects, Beats, Receives, Posts, Entries

\* The counts of the queue are numbers.
LEMMA Numbers ==
  ASSUME ready \in Seq(Entries)
  PROVE  \A P : Count(ready, P) \in Nat
BY CountNat

\* The kinds of the queue's entries are those TypeOK names.
QueueKinds == \A i \in DOMAIN ready : ready[i].kind \in {"reconnect", "received", "beat", "post"}

\* The kinds of entries in the queue, before a step.
LEMMA QueueTyped == ready \in Seq(Entries) => QueueKinds
BY DEF QueueKinds, Entries, Reconnects, Beats, Receives

\* And after it.
LEMMA QueueTypedNext == ready' \in Seq(Entries) => QueueKinds'
BY DEF QueueKinds, Entries, Reconnects, Beats, Receives

\* The queue when a handler that has run is taken away.
LEMMA ReadyTaken ==
  ASSUME ready \in Seq(Entries), ready # <<>>, ready' = Tail(ready)
  PROVE  /\ ready' \in Seq(Entries) /\ Head(ready) \in Entries
         /\ \A P : /\ Count(ready, P) \in Nat /\ Count(ready', P) \in Nat
                   /\ Head(ready) \in P => Count(ready', P) = Count(ready, P) - 1
                   /\ Head(ready) \notin P => Count(ready', P) = Count(ready, P)
BY Taken

\* The queue when a handler becomes ready.
LEMMA ReadyPut ==
  ASSUME ready \in Seq(Entries), NEW h \in Entries, ready' = Append(ready, h)
  PROVE  /\ ready' \in Seq(Entries)
         /\ \A P : /\ Count(ready, P) \in Nat /\ Count(ready', P) \in Nat
                   /\ h \in P => Count(ready', P) = Count(ready, P) + 1
                   /\ h \notin P => Count(ready', P) = Count(ready, P)
BY Put

\* What a handler that runs is.
LEMMA RunsHead ==
  ASSUME ready \in Seq(Entries)
  PROVE  /\ Runs("reconnect", {"ok"}) => ready # <<>> /\ Head(ready) \in Reconnects
         /\ Runs("beat", {"ok"}) => ready # <<>> /\ Head(ready) \in Beats
         /\ \A X : Runs("received", X) => ready # <<>> /\ Head(ready) \in Receives
         /\ Runs("post", Payloads) =>
              ready # <<>> /\ \E m \in Payloads : Head(ready) \in Posts(m) /\ Head(ready).arg = m
<1>1. ready # <<>> => Head(ready) \in Entries
  OBVIOUS
<1>. QED BY <1>1 DEF Runs, Entries, Reconnects, Beats, Receives, Posts

\* The part of the invariant that is about the connection.
ClientInv == Typed /\ Way /\ Reads /\ Channel

\* No step of the connection publishes what was not posted.
NothingAdded ==
  \A m \in Payloads :
    published'[m] + Count(ready', Posts(m)) <= published[m] + Count(ready, Posts(m))

\* What the messages' own steps change.
mvars == <<seen, copies, recent, periods>>

----------------------------------------------------------------------------
(* Operations that complete.                                               *)

\* A timer or a read that completes: one handler more for one operation less.
LEMMA Completed ==
  ASSUME ClientInv, UNCHANGED mvars,
         retry_expired \/ beat_expired \/ read_failed \/ \E x \in Answers : read_completed(x)
  PROVE  ClientInv' /\ NothingAdded
<1>0. ready \in Seq(Entries) /\ \A P : Count(ready, P) \in Nat
  BY Numbers DEF ClientInv, Typed
<1>1. ASSUME NEW h \in Entries, \A m : h \notin Posts(m), ready' = Append(ready, h), published' = published
      PROVE  NothingAdded /\ ready' \in Seq(Entries) /\ QueueKinds'
  BY <1>0, <1>1, ReadyPut, QueueTypedNext DEF NothingAdded, ClientInv, Typed
<1>2. CASE retry_expired
  <2> DEFINE h == [kind |-> "reconnect", arg |-> "ok"]
  <2>1. h \in Reconnects /\ ready' = Append(ready, h) /\ published' = published
    BY <1>2 DEF Reconnects, retry_expired, Handler
  <2> HIDE DEF h
  <2>2. /\ Count(ready', Reconnects) = Count(ready, Reconnects) + 1
        /\ Count(ready', Receives) = Count(ready, Receives)
        /\ NothingAdded /\ ready' \in Seq(Entries) /\ QueueKinds'
    BY <1>0, <1>1, <2>1, Kinds, ReadyPut
  <2>3. /\ retry = "armed" /\ retry' = "off"
        /\ UNCHANGED <<running, pc, socket, reading, buffer, connection, channel, declared, available, beat, published>>
    BY <1>2 DEF retry_expired, conn, amqp
  <2>4. Typed'
    BY <2>2, <2>3 DEF ClientInv, Typed, TypeOK, QueueKinds, Connected, mvars
  <2>5. Way' /\ Reads' /\ Channel'
    BY <1>0, <2>2, <2>3 DEF ClientInv, Way, Reads, Channel, Connected, One
  <2>. QED BY <2>2, <2>4, <2>5 DEF ClientInv
<1>3. CASE beat_expired
  <2> DEFINE h == [kind |-> "beat", arg |-> "ok"]
  <2>1. h \in Beats /\ ready' = Append(ready, h) /\ published' = published
    BY <1>3 DEF Beats, beat_expired, Handler
  <2> HIDE DEF h
  <2>2. /\ Count(ready', Reconnects) = Count(ready, Reconnects)
        /\ Count(ready', Receives) = Count(ready, Receives)
        /\ NothingAdded /\ ready' \in Seq(Entries) /\ QueueKinds'
    BY <1>0, <1>1, <2>1, Kinds, ReadyPut
  <2>3. /\ beat' = "off"
        /\ UNCHANGED <<running, pc, socket, reading, buffer, connection, channel, declared, available, retry, published>>
    BY <1>3 DEF beat_expired, conn, amqp
  <2>4. Typed'
    BY <2>2, <2>3 DEF ClientInv, Typed, TypeOK, QueueKinds, Connected, mvars
  <2>5. Way' /\ Reads' /\ Channel'
    BY <1>0, <2>2, <2>3 DEF ClientInv, Way, Reads, Channel, Connected, One
  <2>. QED BY <2>2, <2>4, <2>5 DEF ClientInv
<1>4. CASE read_failed \/ \E x \in Answers : read_completed(x)
  <2>1. PICK x \in Results : ready' = Append(ready, Handler("received", x))
    BY <1>4 DEF read_failed, read_completed, Answers, Results
  <2> DEFINE h == [kind |-> "received", arg |-> x]
  <2>2. h \in Receives /\ ready' = Append(ready, h)
    BY <2>1 DEF Receives, Handler
  <2> HIDE DEF h
  <2>3. /\ reading /\ ~reading' /\ reading' \in BOOLEAN
        /\ UNCHANGED <<running, pc, socket, buffer, connection, channel, declared, available, retry, beat, published>>
    BY <1>4 DEF read_failed, read_completed, amqp
  <2>4. /\ Count(ready', Reconnects) = Count(ready, Reconnects)
        /\ Count(ready', Receives) = Count(ready, Receives) + 1
        /\ NothingAdded /\ ready' \in Seq(Entries) /\ QueueKinds'
    BY <1>0, <1>1, <2>2, <2>3, Kinds, ReadyPut
  <2>5. Typed'
    BY <2>3, <2>4 DEF ClientInv, Typed, TypeOK, QueueKinds, Connected, mvars
  <2>6. Way' /\ Reads' /\ Channel'
    BY <1>0, <2>3, <2>4 DEF ClientInv, Way, Reads, Channel, Connected, One
  <2>. QED BY <2>4, <2>5, <2>6 DEF ClientInv
<1>. QED BY <1>2, <1>3, <1>4

\* Nothing of the queue and the payloads changes.
LEMMA Kept ==
  ASSUME ClientInv, UNCHANGED <<ready, published>>
  PROVE  NothingAdded /\ ready' \in Seq(Entries) /\ QueueKinds' /\ \A P : Count(ready', P) = Count(ready, P)
<1>1. ready \in Seq(Entries) /\ published \in [Payloads -> Nat] /\ \A P : Count(ready, P) \in Nat
  BY Numbers DEF ClientInv, Typed
<1>2. ready' \in Seq(Entries) /\ QueueKinds'
  BY <1>1, QueueTypedNext
<1>3. NothingAdded
  BY <1>1 DEF NothingAdded
<1>. QED BY <1>2, <1>3

\* The broker ends the connection, or an exception ends the program.
LEMMA Lost ==
  ASSUME ClientInv, UNCHANGED mvars, connection_lost \/ Ended
  PROVE  ClientInv' /\ NothingAdded
<1>1. UNCHANGED <<pc, reading, buffer, connection, channel, declared, available, retry, beat, ready, published>>
  BY DEF connection_lost, Ended, conn, amqp
<1>2. /\ running' \in BOOLEAN
      /\ \/ socket' = socket
         \/ socket = "open" /\ socket' \in {"ended", "reset"}
  BY DEF connection_lost, Ended, conn, ClientInv, Typed, TypeOK
<1>3. /\ NothingAdded /\ ready' \in Seq(Entries) /\ QueueKinds'
      /\ \A P : Count(ready', P) = Count(ready, P)
  BY <1>1, Kept
<1>4. Typed'
  BY <1>1, <1>2, <1>3 DEF ClientInv, Typed, TypeOK, QueueKinds, Connected, mvars
<1>5. Way' /\ Reads' /\ Channel'
  BY <1>1, <1>2, <1>3 DEF ClientInv, Way, Reads, Channel, Connected, One
<1>. QED BY <1>3, <1>4, <1>5 DEF ClientInv

\* An attempt comes back.
LEMMA Attempted ==
  ASSUME ClientInv, UNCHANGED mvars, reconnected \/ reconnect_failed
  PROVE  ClientInv' /\ NothingAdded
<1>1. UNCHANGED <<running, buffer, channel, declared, available, beat, ready, published>>
  BY DEF reconnected, reconnect_failed, amqp
<1>2. /\ NothingAdded /\ ready' \in Seq(Entries) /\ QueueKinds'
      /\ \A P : Count(ready', P) = Count(ready, P)
  BY <1>1, Kept
<1>3. \A P : Count(ready, P) \in Nat
  BY Numbers DEF ClientInv, Typed
<1>4. pc = "connecting" /\ pc' = "idle" /\ ~Connected /\ retry = "off" /\ Count(ready, Reconnects) = 0
  BY <1>3 DEF reconnected, reconnect_failed, ClientInv, Way, Typed, TypeOK, One
<1>5. ~reading /\ Count(ready, Receives) = 0
  BY <1>3, <1>4 DEF ClientInv, Reads, Typed, TypeOK, One
<1>6. CASE reconnected
  <2>1. socket' = "open" /\ connection' = "handshaking" /\ reading' = TRUE /\ retry' = retry
    BY <1>6 DEF reconnected
  <2>2. Typed'
    BY <1>1, <1>2, <1>4, <2>1 DEF ClientInv, Typed, TypeOK, QueueKinds, Connected, mvars
  <2>3. Way' /\ Reads' /\ Channel'
    BY <1>2, <1>4, <1>5, <2>1 DEF Way, Reads, Channel, Connected, One
  <2>. QED BY <1>2, <2>2, <2>3 DEF ClientInv
<1>7. CASE reconnect_failed
  <2>1. socket' \in {"none", "unconnected"} /\ retry' = "armed" /\ UNCHANGED <<reading, connection>>
    BY <1>7 DEF reconnect_failed, amqp
  <2>2. Typed'
    BY <1>1, <1>2, <1>4, <1>5, <2>1 DEF ClientInv, Typed, TypeOK, QueueKinds, Connected, mvars
  <2>3. Way' /\ Reads' /\ Channel'
    BY <1>1, <1>2, <1>4, <1>5, <2>1 DEF ClientInv, Way, Reads, Channel, Connected, One
  <2>. QED BY <1>2, <2>2, <2>3 DEF ClientInv
<1>. QED BY <1>6, <1>7

----------------------------------------------------------------------------
(* Handlers.                                                               *)

\* A handler that publishes nothing is taken off the queue.
LEMMA TakenOff ==
  ASSUME ClientInv, ready # <<>>, ready' = Tail(ready), published' = published
  PROVE  NothingAdded /\ ready' \in Seq(Entries) /\ QueueKinds'
<1>1. \A P : Count(ready, P) \in Nat /\ Count(ready', P) \in Nat /\ Count(ready', P) <= Count(ready, P)
  <2>1. ASSUME NEW P
        PROVE  Count(ready, P) \in Nat /\ Count(ready', P) \in Nat /\ Count(ready', P) <= Count(ready, P)
    <3>1. CASE Head(ready) \in P
      BY <3>1, ReadyTaken DEF ClientInv, Typed
    <3>2. CASE Head(ready) \notin P
      BY <3>2, ReadyTaken DEF ClientInv, Typed
    <3>. QED BY <3>1, <3>2
  <2>. QED BY <2>1
<1>2. ready' \in Seq(Entries) /\ QueueKinds'
  BY ReadyTaken, QueueTypedNext DEF ClientInv, Typed
<1>3. NothingAdded
  BY <1>1 DEF NothingAdded, ClientInv, Typed
<1>. QED BY <1>2, <1>3

\* When an answer or an error is handled, there is a connection, nothing else of
\* it is under way, and it is the one way back.
LEMMA Receiving ==
  ASSUME ClientInv, NEW X, Runs("received", X)
  PROVE  /\ Connected /\ ~reading /\ retry = "off" /\ pc = "idle" /\ ready # <<>>
         /\ AfterClosing = Tail(ready)
         /\ ready' = Tail(ready) =>
              /\ Count(ready', Receives) = 0 /\ Count(ready', Reconnects) = 0
              /\ ready' \in Seq(Entries) /\ QueueKinds'
<1>1. ready \in Seq(Entries) /\ ready # <<>> /\ Head(ready) \in Receives /\ Head(ready) \notin Reconnects
  BY RunsHead, Kinds DEF ClientInv, Typed
<1>2. \A P : Count(ready, P) \in Nat
  BY <1>1, Numbers
<1>3. Count(ready, Receives) > 0
  <2>1. Count(ready, Receives) = Count(Tail(ready), Receives) + 1
    BY <1>1, CountTaken
  <2>2. Tail(ready) \in Seq(Entries)
    BY <1>1
  <2>3. Count(Tail(ready), Receives) \in Nat
    BY <2>2, CountNat
  <2>. QED BY <1>1, <2>1, <2>3 DEF One
<1>4. Connected /\ ~reading /\ Count(ready, Receives) = 1
  BY <1>2, <1>3 DEF ClientInv, Reads, Typed, TypeOK, One
<1>5. retry = "off" /\ pc = "idle" /\ Count(ready, Reconnects) = 0
  BY <1>2, <1>4 DEF ClientInv, Way, Typed, TypeOK, One
<1>6. Tail(ready) \in Seq(Entries) /\ AfterClosing = Tail(ready)
  BY <1>1, <1>4 DEF AfterClosing
<1>7. ASSUME ready' = Tail(ready)
      PROVE  /\ Count(ready', Receives) = 0 /\ Count(ready', Reconnects) = 0
             /\ ready' \in Seq(Entries) /\ QueueKinds'
  BY <1>1, <1>4, <1>5, <1>7, ReadyTaken, QueueTypedNext
<1>. QED BY <1>1, <1>4, <1>5, <1>6, <1>7

\* An answer is handled, and the next one read.
LEMMA Answered ==
  ASSUME ClientInv, UNCHANGED mvars, received_part \/ onReady \/ exchange_declared \/ channel_closed \/ heartbeat_received
  PROVE  ClientInv' /\ NothingAdded
<1>1. PICK X : Runs("received", X)
  BY DEF received_part, onReady, Opens, exchange_declared, channel_closed, heartbeat_received
<1>2. /\ ready' = Tail(ready) /\ reading' = (socket' # "none")
      /\ UNCHANGED <<running, pc, socket, retry, published>>
  BY DEF received_part, onReady, Opens, exchange_declared, channel_closed, heartbeat_received, ReadsAgain, ReadsOn
<1>3. Connected /\ Connected' /\ reading' /\ reading' \in BOOLEAN
  BY <1>1, <1>2, Receiving DEF Connected
<1>4. /\ NothingAdded /\ ready' \in Seq(Entries) /\ QueueKinds'
      /\ Count(ready', Receives) = 0 /\ Count(ready', Reconnects) = 0
      /\ retry = "off" /\ pc = "idle"
  BY <1>1, <1>2, Receiving, TakenOff
<1>5. /\ buffer' \in {"empty", "part", "stale"} /\ beat' \in {"off", "armed"}
      /\ connection' \in {"none", "handshaking", "ready", "failed"} /\ channel' \in {"none", "current", "closed", "old"}
      /\ declared' \in BOOLEAN /\ available' \in BOOLEAN
  BY DEF received_part, onReady, Opens, exchange_declared, channel_closed, heartbeat_received, ReadsAgain, Remaining,
         amqp, ClientInv, Typed, TypeOK
<1>6. Typed'
  BY <1>2, <1>3, <1>4, <1>5 DEF ClientInv, Typed, TypeOK, QueueKinds, mvars
<1>7. Way' /\ Reads'
  BY <1>2, <1>3, <1>4 DEF Way, Reads, One
<1>8. Channel'
  BY DEF received_part, onReady, Opens, exchange_declared, channel_closed, heartbeat_received, amqp, ClientInv, Channel
<1>. QED BY <1>4, <1>6, <1>7, <1>8 DEF ClientInv

\* The connection fails, and its socket is closed.
LEMMA Closed ==
  ASSUME ClientInv, UNCHANGED mvars, onError \/ frame_malformed \/ on_received_failed
  PROVE  ClientInv' /\ NothingAdded
<1>1. PICK X : Runs("received", X)
  BY DEF onError, frame_malformed, on_received_failed
<1>2. Connected /\ pc = "idle" /\ ready # <<>> /\ AfterClosing = Tail(ready)
  BY <1>1, Receiving
<1>3. /\ ready' = Tail(ready) /\ socket' = "none" /\ retry' = "armed"
      /\ UNCHANGED <<running, pc, channel, declared, available, published>>
  BY <1>2 DEF onError, frame_malformed, on_received_failed, close_socket, Connected
<1>4. ~reading' /\ reading' \in BOOLEAN /\ ~Connected'
  BY <1>3 DEF onError, frame_malformed, on_received_failed, ReadsOn, Connected
<1>5. /\ buffer' \in {"empty", "part", "stale"} /\ beat' \in {"off", "armed"}
      /\ connection' \in {"none", "failed"}
  BY DEF onError, frame_malformed, on_received_failed, close_socket, ClientInv, Typed, TypeOK
<1>6. /\ NothingAdded /\ ready' \in Seq(Entries) /\ QueueKinds'
      /\ Count(ready', Receives) = 0 /\ Count(ready', Reconnects) = 0
  BY <1>1, <1>2, <1>3, Receiving, TakenOff
<1>7. Typed'
  BY <1>3, <1>4, <1>5, <1>6 DEF ClientInv, Typed, TypeOK, QueueKinds, mvars
<1>8. Way' /\ Reads' /\ Channel'
  BY <1>2, <1>3, <1>4, <1>5, <1>6 DEF Way, Reads, Channel, One
<1>. QED BY <1>6, <1>7, <1>8 DEF ClientInv

\* An attempt begins: it is the only one, and no connection is given up for it.
LEMMA Begun ==
  ASSUME ClientInv, UNCHANGED mvars, reconnect
  PROVE  ClientInv' /\ NothingAdded
<1>1. ready \in Seq(Entries) /\ ready # <<>> /\ Head(ready) \in Reconnects /\ Head(ready) \notin Receives
  BY RunsHead, Kinds DEF ClientInv, Typed, reconnect
<1>2. \A P : Count(ready, P) \in Nat
  BY <1>1, Numbers
<1>3. Count(ready, Reconnects) > 0
  <2>1. Count(ready, Reconnects) = Count(Tail(ready), Reconnects) + 1
    BY <1>1, CountTaken
  <2>2. Tail(ready) \in Seq(Entries)
    BY <1>1
  <2>3. Count(Tail(ready), Reconnects) \in Nat
    BY <2>2, CountNat
  <2>. QED BY <1>1, <2>1, <2>3 DEF One
<1>4. ~Connected /\ retry = "off" /\ Count(ready, Reconnects) = 1
  BY <1>2, <1>3 DEF ClientInv, Way, Typed, TypeOK, One
<1>5. ~reading /\ Count(ready, Receives) = 0
  BY <1>2, <1>4 DEF ClientInv, Reads, Typed, TypeOK, One
<1>6. ready' = Tail(ready)
  BY <1>1, <1>5 DEF reconnect, AfterClosing
<1>7. /\ pc' = "connecting" /\ connection' = "none" /\ declared' = FALSE /\ socket' = "none"
      /\ ~reading' /\ reading' \in BOOLEAN /\ ~Connected'
      /\ UNCHANGED <<running, available, retry, published>>
  BY DEF reconnect, Connected
<1>8. /\ channel' \in {"none", "current", "closed", "old"} /\ buffer' \in {"empty", "part", "stale"}
      /\ beat' \in {"off", "armed"}
  BY DEF reconnect, ClientInv, Typed, TypeOK
<1>9. /\ NothingAdded /\ ready' \in Seq(Entries) /\ QueueKinds'
      /\ Count(ready', Receives) = 0 /\ Count(ready', Reconnects) = 0
  BY <1>1, <1>4, <1>5, <1>6, <1>7, ReadyTaken, TakenOff
<1>10. Typed'
  BY <1>7, <1>8, <1>9 DEF ClientInv, Typed, TypeOK, QueueKinds, mvars
<1>11. Way' /\ Reads' /\ Channel'
  BY <1>4, <1>7, <1>9 DEF Way, Reads, Channel, One
<1>. QED BY <1>9, <1>10, <1>11 DEF ClientInv

\* A heartbeat is sent, or a payload published, or dropped.
LEMMA Sent ==
  ASSUME ClientInv, UNCHANGED mvars, on_timer_tick \/ publish
  PROVE  ClientInv' /\ NothingAdded
<1>1. /\ ready # <<>> /\ ready' = Tail(ready)
      /\ UNCHANGED <<running, pc, socket, reading, buffer, connection, channel, declared, available, retry>>
  BY RunsHead DEF on_timer_tick, publish, conn, amqp, ClientInv, Typed
<1>2. Head(ready) \notin Reconnects /\ Head(ready) \notin Receives
  BY RunsHead, Kinds DEF on_timer_tick, publish, ClientInv, Typed
<1>3. /\ ready' \in Seq(Entries) /\ QueueKinds'
      /\ Count(ready', Reconnects) = Count(ready, Reconnects) /\ Count(ready', Receives) = Count(ready, Receives)
  BY <1>1, <1>2, ReadyTaken, QueueTypedNext DEF ClientInv, Typed
<1>4. beat' \in {"off", "armed"}
  BY DEF on_timer_tick, publish, ClientInv, Typed, TypeOK
<1>5. published' \in [Payloads -> Nat] /\ NothingAdded
  <2>1. CASE on_timer_tick
    BY <1>1, <2>1, TakenOff DEF on_timer_tick, ClientInv, Typed
  <2>2. CASE publish
    <3>1. PICK n \in Payloads : Head(ready) \in Posts(n) /\ Head(ready).arg = n
      BY <2>2, RunsHead DEF publish, ClientInv, Typed
    <3>2. published' = published \/ published' = [published EXCEPT ![n] = @ + 1]
      BY <2>2, <3>1 DEF publish
    <3>3. published' \in [Payloads -> Nat]
      <4>1. published \in [Payloads -> Nat]
        BY DEF ClientInv, Typed
      <4>2. CASE published' = published
        BY <4>1, <4>2
      <4>3. CASE published' = [published EXCEPT ![n] = @ + 1]
        BY <4>1, <4>3
      <4>. QED BY <3>2, <4>2, <4>3
    <3>4. ASSUME NEW m \in Payloads
          PROVE  published'[m] + Count(ready', Posts(m)) <= published[m] + Count(ready, Posts(m))
      <4>1. Count(ready, Posts(m)) \in Nat /\ Count(ready', Posts(m)) \in Nat
        BY <1>1, ReadyTaken DEF ClientInv, Typed
      <4>2. CASE m = n
        <5>1. Count(ready', Posts(m)) = Count(ready, Posts(m)) - 1
          BY <1>1, <3>1, <4>2, ReadyTaken DEF ClientInv, Typed
        <5>2. published'[m] <= published[m] + 1 /\ published[m] \in Nat /\ published'[m] \in Nat
          BY <3>2, <3>3, <4>2 DEF ClientInv, Typed
        <5>. QED BY <4>1, <5>1, <5>2
      <4>3. CASE m # n
        <5>1. Head(ready) \notin Posts(m)
          BY <3>1, <4>3 DEF Posts
        <5>2. Count(ready', Posts(m)) = Count(ready, Posts(m))
          BY <1>1, <5>1, ReadyTaken DEF ClientInv, Typed
        <5>3. published'[m] = published[m] /\ published[m] \in Nat
          BY <3>2, <4>3 DEF ClientInv, Typed
        <5>. QED BY <4>1, <5>2, <5>3
      <4>. QED BY <4>2, <4>3
    <3>. QED BY <3>3, <3>4 DEF NothingAdded
  <2>. QED BY <2>1, <2>2
<1>6. Typed'
  BY <1>1, <1>3, <1>4, <1>5 DEF ClientInv, Typed, TypeOK, QueueKinds, Connected, mvars
<1>7. Way' /\ Reads' /\ Channel'
  BY <1>1, <1>3 DEF ClientInv, Way, Reads, Channel, Connected, One
<1>. QED BY <1>5, <1>6, <1>7 DEF ClientInv

\* No step of the connection breaks what is said of it, or adds a payload.
LEMMA ClientStep ==
  ASSUME ClientInv, UNCHANGED mvars, ClientNext
  PROVE  ClientInv' /\ NothingAdded
<1>1. CASE reconnect_throws \/ on_received_throws \/ send_throws \/ connection_lost
  BY <1>1, Lost DEF reconnect_throws, on_received_throws, send_throws
<1>2. CASE received_part \/ onReady \/ exchange_declared \/ channel_closed \/ heartbeat_received
  BY <1>2, Answered
<1>3. CASE onError \/ frame_malformed \/ on_received_failed
  BY <1>3, Closed
<1>4. CASE on_timer_tick \/ publish
  BY <1>4, Sent
<1>5. CASE reconnect
  BY <1>5, Begun
<1>6. CASE reconnected \/ reconnect_failed
  BY <1>6, Attempted
<1>7. CASE retry_expired \/ beat_expired \/ read_failed \/ \E x \in Answers : read_completed(x)
  BY <1>7, Completed
<1>. QED BY <1>1, <1>2, <1>3, <1>4, <1>5, <1>6, <1>7 DEF ClientNext, Handlers

----------------------------------------------------------------------------
(* Messages.                                                               *)

\* A message let through is accounted for before it is posted.
LEMMA DataStep ==
  ASSUME Inv, NEW m \in Payloads, on_worker_data(m)
  PROVE  Inv'
<1> DEFINE h == [kind |-> "post", arg |-> m]
<1>1. /\ ready' = Append(ready, h) /\ copies' = [copies EXCEPT ![m] = @ + 1]
      /\ UNCHANGED <<running, pc, socket, reading, buffer, connection, channel, declared, available,
                     retry, beat, published, periods>>
  BY DEF on_worker_data, Delivered, Posted, Handler, conn, amqp
<1>2. h \in Posts(m) /\ h \in Entries /\ h \notin Reconnects /\ h \notin Receives
  BY DEF Posts, Entries, Reconnects, Receives
<1>3. \A n \in Payloads : n # m => h \notin Posts(n)
  BY DEF Posts
<1> HIDE DEF h
<1>4. /\ ready \in Seq(Entries) /\ ready' \in Seq(Entries) /\ QueueKinds'
      /\ Count(ready', Reconnects) = Count(ready, Reconnects) /\ Count(ready', Receives) = Count(ready, Receives)
      /\ Count(ready, Posts(m)) \in Nat /\ Count(ready', Posts(m)) = Count(ready, Posts(m)) + 1
  BY <1>1, <1>2, ReadyPut, QueueTypedNext DEF Inv, Typed
<1>5. \A n \in Payloads : n # m => Count(ready', Posts(n)) = Count(ready, Posts(n))
  BY <1>1, <1>2, <1>3, <1>4, ReadyPut
<1>6. /\ m \in Unchecked => m \notin recent /\ recent' = recent \cup {m} /\ seen' = seen
      /\ m \notin Unchecked => m \notin seen /\ seen' = seen \cup {m} /\ recent' = recent
  BY DEF on_worker_data, Passes_throttle, check_and_add
<1>7. Typed'
  <2>1. TypeOK'
    BY <1>1, <1>4 DEF Inv, Typed, TypeOK, QueueKinds, Connected
  <2>. QED BY <1>1, <1>4, <1>6, <2>1 DEF Inv, Typed
<1>8. Way' /\ Reads' /\ Channel'
  BY <1>1, <1>4 DEF Inv, Way, Reads, Channel, Connected, One
<1>9. ASSUME NEW n \in Payloads PROVE LetThrough(n)'
  <2>1. LetThrough(n) /\ published[n] \in Nat /\ copies[n] \in Nat /\ periods[n] \in Nat
    BY DEF Inv, Typed, Accounts
  <2>2. CASE n # m
    <3>1. /\ Count(ready', Posts(n)) = Count(ready, Posts(n)) /\ published'[n] = published[n]
          /\ copies'[n] = copies[n] /\ periods'[n] = periods[n]
          /\ n \in seen' <=> n \in seen
          /\ n \in recent' <=> n \in recent
      BY <1>1, <1>5, <1>6, <2>2 DEF Inv, Typed
    <3>. QED BY <2>1, <3>1 DEF LetThrough, One
  <2>3. CASE n = m
    <3>1. /\ Count(ready', Posts(n)) = Count(ready, Posts(n)) + 1 /\ published'[n] = published[n]
          /\ Count(ready, Posts(n)) \in Nat
          /\ copies'[n] = copies[n] + 1 /\ periods'[n] = periods[n]
      BY <1>1, <1>4, <2>3 DEF Inv, Typed
    <3>2. CASE n \in Unchecked
      <4>1. n \notin recent /\ n \in recent'
        BY <1>6, <2>3, <3>2
      <4>. QED BY <2>1, <3>1, <3>2, <4>1 DEF LetThrough, One
    <3>3. CASE n \notin Unchecked
      <4>1. n \notin seen /\ n \in seen'
        BY <1>6, <2>3, <3>3
      <4>. QED BY <2>1, <3>1, <3>3, <4>1 DEF LetThrough, One
    <3>. QED BY <3>2, <3>3
  <2>. QED BY <2>2, <2>3
<1>. QED BY <1>7, <1>8, <1>9 DEF Inv, Accounts

\* A copy that is dropped, and an interval that passes, allow no more than before
\* but what the interval is for.
LEMMA DroppedOrPassed ==
  ASSUME Inv, NEW m \in Payloads, duplicate_dropped(m) \/ interval_passed(m)
  PROVE  Inv'
<1>1. /\ UNCHANGED <<running, pc, socket, reading, buffer, connection, channel, declared, available,
                     retry, beat, ready, published, seen>>
      /\ recent' \subseteq recent
      /\ copies' = copies \/ copies' = [copies EXCEPT ![m] = @ + 1]
  BY DEF duplicate_dropped, interval_passed, Delivered, vars, conn, amqp
<1>2. \/ periods' = periods /\ recent' = recent
      \/ /\ m \in seen \cup recent /\ recent' = recent \ {m}
         /\ periods' = [periods EXCEPT ![m] = @ + 1]
  BY DEF duplicate_dropped, interval_passed
<1>3. /\ ready' \in Seq(Entries) /\ QueueKinds' /\ \A P : Count(ready', P) = Count(ready, P)
      /\ \A P : Count(ready, P) \in Nat
  BY <1>1, QueueTypedNext, Numbers DEF Inv, Typed
<1>4. Typed'
  <2>1. TypeOK'
    BY <1>1, <1>3 DEF Inv, Typed, TypeOK, QueueKinds, Connected
  <2>2. copies \in [Payloads -> Nat] /\ periods \in [Payloads -> Nat] /\ published \in [Payloads -> Nat]
    BY DEF Inv, Typed
  <2>3. copies' \in [Payloads -> Nat]
    BY <1>1, <2>2
  <2>4. periods' \in [Payloads -> Nat]
    BY <1>2, <2>2
  <2>5. seen' \subseteq Payloads /\ recent' \subseteq Unchecked /\ published' \in [Payloads -> Nat]
    BY <1>1, <2>2 DEF Inv, Typed
  <2>. QED BY <1>3, <2>1, <2>3, <2>4, <2>5 DEF Typed
<1>5. Way' /\ Reads' /\ Channel'
  BY <1>1, <1>3 DEF Inv, Way, Reads, Channel, Connected, One
<1>6. ASSUME NEW n \in Payloads PROVE LetThrough(n)'
  <2>1. LetThrough(n) /\ published[n] \in Nat /\ copies[n] \in Nat /\ periods[n] \in Nat
    BY DEF Inv, Typed, Accounts
  <2>2. /\ Count(ready', Posts(n)) = Count(ready, Posts(n)) /\ published'[n] = published[n] /\ seen' = seen
        /\ Count(ready, Posts(n)) \in Nat
        /\ copies'[n] \in Nat /\ copies'[n] >= copies[n]
    <3>1. copies \in [Payloads -> Nat]
      BY DEF Inv, Typed
    <3>2. copies'[n] \in Nat /\ copies'[n] >= copies[n]
      BY <1>1, <3>1
    <3>. QED BY <1>1, <1>3, <3>2
  <2>3. CASE periods'[n] = periods[n] /\ (n \in recent' <=> n \in recent)
    BY <2>1, <2>2, <2>3 DEF LetThrough, One
  <2>4. CASE periods'[n] = periods[n] + 1
    BY <2>1, <2>2, <2>4 DEF LetThrough, One
  <2>5. \/ periods'[n] = periods[n] /\ (n \in recent' <=> n \in recent)
        \/ periods'[n] = periods[n] + 1
    BY <1>2 DEF Inv, Typed
  <2>. QED BY <2>3, <2>4, <2>5
<1>. QED BY <1>4, <1>5, <1>6 DEF Inv, Accounts

----------------------------------------------------------------------------
(* The theorems.                                                           *)

\* Init makes it true.
LEMMA InvInit == PublicationInit => Inv
<1>. SUFFICES ASSUME PublicationInit PROVE Inv
  OBVIOUS
<1> DEFINE h == [kind |-> "reconnect", arg |-> "ok"]
<1>1. ready = Append(<<>>, h) /\ h \in Reconnects
  BY DEF PublicationInit, Init, Handler, Reconnects
<1> HIDE DEF h
<1>2. h \in Entries /\ h \notin Receives /\ \A m : h \notin Posts(m)
  BY <1>1, Kinds
<1>3. ASSUME NEW P PROVE Count(<<>>, P) = 0
  <2>1. Places(<<>>, P) = {}
    BY DEF Places
  <2>. QED BY <2>1, FS_EmptySet DEF Count
<1>4. ASSUME NEW P PROVE Count(ready, P) = One(h \in P)
  <2>1. <<>> \in Seq(Entries)
    OBVIOUS
  <2>2. Count(ready, P) = IF h \in P THEN Count(<<>>, P) + 1 ELSE Count(<<>>, P)
    BY <1>1, <1>2, <2>1, CountAppended
  <2>. QED BY <1>3, <2>2 DEF One
<1>5. ready \in Seq(Entries) /\ QueueKinds
  BY <1>1, <1>2, QueueTyped
<1>6. Typed
  BY <1>5, CopiesAssumption DEF PublicationInit, Init, Typed, TypeOK, QueueKinds, Connected
<1>7. Count(ready, Reconnects) = 1 /\ Count(ready, Receives) = 0
  BY <1>1, <1>2, <1>4 DEF One
<1>8. Way /\ Reads /\ Channel
  BY <1>7 DEF PublicationInit, Init, Way, Reads, Channel, Connected, One
<1>9. Accounts
  <2>1. \A m : Count(ready, Posts(m)) = 0
    BY <1>2, <1>4 DEF One
  <2>. QED BY <2>1, CopiesAssumption DEF PublicationInit, Init, Accounts, LetThrough, One
<1>. QED BY <1>6, <1>8, <1>9 DEF Inv

\* Every step keeps it.
LEMMA InvNext == Inv /\ [PublicationNext]_pvars => Inv'
<1>. SUFFICES ASSUME Inv, [PublicationNext]_pvars PROVE Inv'
  OBVIOUS
<1>1. CASE ClientNext /\ UNCHANGED <<seen, copies, recent, periods>>
  <2>1. ClientInv' /\ NothingAdded
    BY <1>1, ClientStep DEF Inv, ClientInv, mvars
  <2>2. ASSUME NEW m \in Payloads PROVE LetThrough(m)'
    <3>1. /\ LetThrough(m) /\ published[m] \in Nat /\ published'[m] \in Nat
          /\ copies[m] \in Nat /\ periods[m] \in Nat
          /\ published'[m] + Count(ready', Posts(m)) <= published[m] + Count(ready, Posts(m))
      BY <2>1 DEF Inv, Typed, ClientInv, Accounts, NothingAdded
    <3>2. Count(ready, Posts(m)) \in Nat /\ Count(ready', Posts(m)) \in Nat
      BY <2>1, CountNat DEF Inv, Typed, ClientInv
    <3>3. UNCHANGED <<seen, copies, recent, periods>>
      BY <1>1
    <3>. QED BY <3>1, <3>2, <3>3 DEF LetThrough, One
  <2>. QED BY <2>1, <2>2 DEF Inv, ClientInv, Accounts
<1>2. CASE \E m \in Payloads : on_worker_data(m) \/ duplicate_dropped(m) \/ interval_passed(m)
  <2>1. PICK m \in Payloads : on_worker_data(m) \/ duplicate_dropped(m) \/ interval_passed(m)
    BY <1>2
  <2>2. CASE on_worker_data(m)
    BY <2>2, DataStep
  <2>3. CASE duplicate_dropped(m) \/ interval_passed(m)
    BY <2>3, DroppedOrPassed
  <2>. QED BY <2>1, <2>2, <2>3
<1>3. CASE UNCHANGED pvars
  <2>1. UNCHANGED <<running, pc, socket, reading, buffer, connection, channel, declared, available,
                    retry, beat, ready, published, seen, copies, recent, periods>>
    BY <1>3 DEF pvars, vars, conn, amqp
  <2>. QED BY <2>1 DEF Inv, Typed, TypeOK, Connected, Way, Reads, Channel, Accounts, LetThrough, Count, Places, One
<1>. QED BY <1>1, <1>2, <1>3 DEF PublicationNext

\* The invariant holds.
THEOREM Invariance == PublicationSpec => []Inv
BY InvInit, InvNext, PTL DEF PublicationSpec

\* The entries TypeOK, OneWayBack and ReadsPending count are those of the kinds.
LEMMA QueuedAre ==
  ASSUME ready \in Seq(Entries)
  PROVE  /\ Queued("reconnect", {"ok"}) = Places(ready, Reconnects)
         /\ Queued("received", Results) = Places(ready, Receives)
<1>1. \A i \in 1 .. Len(ready) : ready[i] \in Entries
  OBVIOUS
<1>2. \A e \in Entries : e.kind = "reconnect" /\ e.arg \in {"ok"} <=> e \in Reconnects
  BY DEF Entries, Reconnects, Beats, Receives
<1>3. \A e \in Entries : e.kind = "received" /\ e.arg \in Results <=> e \in Receives
  BY DEF Entries, Reconnects, Beats, Receives
<1>. QED BY <1>1, <1>2, <1>3 DEF Queued, Places

\* The connection's state is typed, whatever fails and however often.
THEOREM TypeCorrect == PublicationSpec => []TypeOK
<1>1. Inv => TypeOK
  BY DEF Inv, Typed
<1>. QED BY <1>1, Invariance, PTL

\* Exactly one way back to the broker.
THEOREM OneWay == PublicationSpec => []OneWayBack
<1>1. Inv => OneWayBack
  BY QueuedAre DEF Inv, Typed, Way, OneWayBack, Count
<1>. QED BY <1>1, Invariance, PTL

\* Exactly one read of a connection, or its handler.
THEOREM OneRead == PublicationSpec => []ReadsPending
<1>1. Inv => ReadsPending
  BY QueuedAre DEF Inv, Typed, Reads, ReadsPending, Count, Results, One
<1>. QED BY <1>1, Invariance, PTL

\* Payloads are taken with the exchange declared on the present connection.
THEOREM TakenWhenDeclared == PublicationSpec => []AvailableMeansDeclared
<1>1. Inv => AvailableMeansDeclared
  BY DEF Inv, Channel, AvailableMeansDeclared
<1>. QED BY <1>1, Invariance, PTL

\* No message is published twice in a lifetime or an interval, nor more often
\* than it was delivered.
THEOREM PublishedAtMostOnce == PublicationSpec => []AtMostOnce
<1>1. ASSUME Inv, NEW m \in Payloads
      PROVE  published[m] <= periods[m] /\ published[m] <= copies[m]
  <2>1. /\ LetThrough(m) /\ published[m] \in Nat /\ copies[m] \in Nat
        /\ periods[m] \in Nat /\ Count(ready, Posts(m)) \in Nat
    BY <1>1, Numbers DEF Inv, Typed, Accounts
  <2>. QED BY <2>1 DEF LetThrough, One
<1>2. Inv => AtMostOnce
  BY <1>1 DEF AtMostOnce
<1>. QED BY <1>2, Invariance, PTL
=============================================================================
