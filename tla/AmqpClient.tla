----------------------------- MODULE AmqpClient -----------------------------
(***************************************************************************)
(* The supervisor's connection to the AMQP broker: amqp_asio_connection    *)
(* with its reconnection, heartbeat and reading, and amqp_context with its *)
(* channel.  One thread runs all handlers, in the order they become ready; *)
(* payloads are posted to it.  Resolving and connecting block it.          *)
(*                                                                         *)
(* AMQP-CPP is external: a connection shakes hands, becomes ready or is    *)
(* failed; what it sends goes through onData at once; what it was failed   *)
(* by stays unparsed.  A socket whose connection was reset, or never made, *)
(* cannot be shut down: the call throws out of the handler, the function   *)
(* of the thread is left by the exception, and the program ends.           *)
(***************************************************************************)
EXTENDS Integers, Sequences, FiniteSets

CONSTANTS
  Payloads,  \* what is posted to be published
  MaxFaults  \* bound: how often the broker or the network fails

ASSUME FaultsAssumption == MaxFaults \in Nat

VARIABLES
  running,    \* no exception has ended the program
  pc,         \* "connecting" while reconnect resolves and connects
  socket,     \* _socket and the state of its connection
  reading,    \* an async_receive is pending on _socket
  buffer,     \* what _buffer_last_remaining counts: no byte, the beginning of
              \* a frame, or bytes that were parsed before
  connection, \* _connection
  channel,    \* _channel: of the present connection, one the broker has closed,
              \* of an old connection, or none
  declared,   \* the exchange is declared on the present connection
  available,  \* _available
  retry,      \* _reconnect_timer
  beat,       \* _timer, for heartbeats
  ready,      \* handlers in the order they are run
  published,  \* history: how often each payload was sent to the broker
  faults      \* how often something has failed

conn == <<socket, reading, buffer>>
amqp == <<connection, channel, declared, available>>
vars == <<running, pc, conn, amqp, retry, beat, ready, published, faults>>

\* A handler, with what it is called with.
Handler(kind, arg) == [kind |-> kind, arg |-> arg]
Posted(m)          == Handler("post", m)

Connected == socket \in {"open", "ended", "reset"}

Init ==
  /\ running = TRUE /\ pc = "idle"
  /\ socket = "none" /\ reading = FALSE /\ buffer = "empty"
  /\ connection = "none" /\ channel = "none" /\ declared = FALSE /\ available = FALSE
  /\ retry = "off" /\ beat = "off"
  /\ ready = <<Handler("reconnect", "ok")>>
  /\ published = [m \in Payloads |-> 0] /\ faults = 0

Fault == faults < MaxFaults /\ faults' = faults + 1

Runs(kind, args) ==
  running /\ pc = "idle" /\ ready # <<>> /\ Head(ready).kind = kind /\ Head(ready).arg \in args

\* shutdown throws.
Throws == socket \in {"unconnected", "reset"}

\* The handlers left once the present socket is closed: its read is aborted.
AfterClosing == Tail(ready) \o (IF reading THEN <<Handler("received", "aborted")>> ELSE <<>>)

----------------------------------------------------------------------------
(* The operations of timers and the socket complete.                       *)

retry_expired ==
  /\ running /\ retry = "armed"
  /\ retry' = "off" /\ ready' = Append(ready, Handler("reconnect", "ok"))
  /\ UNCHANGED <<running, pc, conn, amqp, beat, published, faults>>

beat_expired ==
  /\ running /\ beat = "armed"
  /\ beat' = "off" /\ ready' = Append(ready, Handler("beat", "ok"))
  /\ UNCHANGED <<running, pc, conn, amqp, retry, published, faults>>

\* What the broker may say next: it opens the connection, confirms the
\* exchange, closes the channel (which is how it refuses a declaration or a
\* payload), closes the connection, or has sent a part of a frame.  A heartbeat
\* matters when the buffer counts something before it.
Answers ==
  {x \in {"opened", "declared", "channel_close", "close", "part", "heartbeat"} :
     /\ x = "opened" => connection = "handshaking"
     /\ x \in {"declared", "channel_close"} => connection = "ready" /\ channel = "current"
     /\ x = "declared" => ~declared
     /\ x = "part" => buffer = "empty"
     /\ x = "heartbeat" => connection = "ready" /\ buffer # "empty"}

\* Closing, or cutting a frame, is one of the faults.
read_completed(x) ==
  /\ reading /\ socket = "open" /\ x \in Answers
  /\ IF x \in {"channel_close", "close", "part"} THEN Fault ELSE UNCHANGED faults
  /\ reading' = FALSE /\ ready' = Append(ready, Handler("received", x))
  /\ UNCHANGED <<running, pc, socket, buffer, amqp, retry, beat, published>>

read_failed ==
  /\ reading /\ socket \in {"ended", "reset"}
  /\ reading' = FALSE /\ ready' = Append(ready, Handler("received", "error"))
  /\ UNCHANGED <<running, pc, socket, buffer, amqp, retry, beat, published, faults>>

\* The broker ends the connection, or it is reset.
connection_lost ==
  /\ socket = "open" /\ Fault
  /\ socket' \in {"ended", "reset"}
  /\ UNCHANGED <<running, pc, reading, buffer, amqp, retry, beat, ready, published>>

----------------------------------------------------------------------------
(* close_socket.                                                           *)

\* Slip: the reconnection is left to the caller.
Slip_close_socket ==
  /\ buffer' = "empty" /\ socket' = "none"
  /\ beat' = IF socket = "none" THEN beat ELSE "off"
  /\ UNCHANGED retry

\* close_socket(), where it does not throw.
close_socket ==
  /\ buffer' = "empty" /\ socket' = "none"
  /\ beat' = IF socket = "none" THEN beat ELSE "off"
  /\ retry' = IF socket = "none" THEN retry ELSE "armed"

\* The exception leaves io_context::run, and the thread.
Ended == running' = FALSE /\ UNCHANGED <<pc, conn, amqp, retry, beat, ready, published, faults>>

----------------------------------------------------------------------------
(* reconnect, posted once and then called by on_reconnection_timer_tick.   *)

\* The AMQP connection is deleted, which detaches its channel; the socket, if
\* there is one, is closed without another retry.
reconnect ==
  /\ Runs("reconnect", {"ok"}) /\ ~Throws
  /\ pc' = "connecting" /\ connection' = "none" /\ declared' = FALSE
  /\ channel' = IF channel = "none" THEN "none" ELSE "old"
  /\ socket' = "none" /\ reading' = FALSE
  /\ buffer' = IF socket = "none" THEN buffer ELSE "empty"
  /\ beat' = IF socket = "none" THEN beat ELSE "off"
  /\ ready' = AfterClosing
  /\ UNCHANGED <<running, available, retry, published, faults>>

\* The socket of an attempt that failed is still there and not connected.
reconnect_throws == Runs("reconnect", {"ok"}) /\ Throws /\ Ended

\* Slip: the timer is only set when the host is not resolved.
Slip_reconnect_failed ==
  /\ pc = "connecting" /\ Fault
  /\ pc' = "idle" /\ socket' \in {"none", "unconnected"}
  /\ retry' = IF socket' = "none" THEN "armed" ELSE retry
  /\ UNCHANGED <<running, reading, buffer, amqp, beat, ready, published>>

\* The host is not resolved, or the broker not reached: then the socket stays.
reconnect_failed ==
  /\ pc = "connecting" /\ Fault
  /\ pc' = "idle" /\ retry' = "armed" /\ socket' \in {"none", "unconnected"}
  /\ UNCHANGED <<running, reading, buffer, amqp, beat, ready, published>>

reconnected ==
  /\ pc = "connecting"
  /\ pc' = "idle" /\ socket' = "open" /\ connection' = "handshaking" /\ reading' = TRUE
  /\ UNCHANGED <<running, buffer, channel, declared, available, retry, beat, ready, published, faults>>

----------------------------------------------------------------------------
(* on_received.  Its return without a connection is left out: a read is     *)
(* only begun with one, which reconnect alone deletes.                     *)

\* Bytes counted before stay counted when nothing remains after them.
Remaining == IF buffer = "empty" THEN "empty" ELSE "stale"

\* Slip: whether there is a socket is not tested.
Slip_ReadsOn == reading' = TRUE

\* start_async_read, at the end of on_received
ReadsOn == reading' = (socket' # "none")

\* on_received comes to its end, with these bytes remaining.
ReadsAgain(bytes) == buffer' = bytes /\ UNCHANGED socket /\ ReadsOn /\ ready' = Tail(ready)

\* Slip: the rest of the frame is waited for without reading on.
Slip_received_part ==
  /\ Runs("received", {"part"}) /\ buffer' = "part" /\ ready' = Tail(ready)
  /\ UNCHANGED <<running, pc, socket, reading, amqp, retry, beat, published, faults>>

\* A part of a frame remains.
received_part ==
  /\ Runs("received", {"part"}) /\ ReadsAgain("part")
  /\ UNCHANGED <<running, pc, amqp, retry, beat, published, faults>>

\* onReady, on_ready: the heartbeats start, and a channel declares the exchange.
Opens(is_available) ==
  /\ Runs("received", {"opened"}) /\ buffer # "stale" /\ socket # "reset"
  /\ connection' = "ready" /\ beat' = "armed"
  /\ available' = is_available /\ channel' = "current" /\ declared' = FALSE
  /\ ReadsAgain(Remaining)
  /\ UNCHANGED <<running, pc, retry, published, faults>>

\* Slip: _available is left as it was.
Slip_onReady == Opens(available)

\* The channel is a new one, and the exchange is not declared on it yet.
onReady == Opens(FALSE)

\* onSuccess of declareExchange
exchange_declared ==
  /\ Runs("received", {"declared"}) /\ buffer # "stale"
  /\ declared' = TRUE /\ available' = TRUE
  /\ ReadsAgain(Remaining)
  /\ UNCHANGED <<running, pc, connection, channel, retry, beat, published, faults>>

\* Slip: a refused declaration makes the client available as well.
Slip_channel_closed ==
  /\ Runs("received", {"channel_close"}) /\ buffer # "stale" /\ socket # "reset"
  /\ channel' = "closed" /\ available' = TRUE
  /\ ReadsAgain(Remaining)
  /\ UNCHANGED <<running, pc, connection, declared, retry, beat, published, faults>>

\* onError of declareExchange, or of publish, if the channel was opened at all:
\* an error of the channel is confirmed to the broker and logged, and that is
\* all.  The second declaration, of the exchange for diagnostics, has not even
\* a handler.
channel_closed ==
  /\ Runs("received", {"channel_close"}) /\ buffer # "stale" /\ socket # "reset"
  /\ channel' = "closed"
  /\ ReadsAgain(Remaining)
  /\ UNCHANGED <<running, pc, connection, declared, available, retry, beat, published, faults>>

heartbeat_received ==
  /\ Runs("received", {"heartbeat"}) /\ buffer # "stale"
  /\ ReadsAgain(Remaining)
  /\ UNCHANGED <<running, pc, amqp, retry, beat, published, faults>>

\* onError: the broker closes the connection.
onError ==
  /\ Runs("received", {"close"}) /\ buffer # "stale" /\ ~Throws
  /\ connection' = "failed" /\ close_socket /\ ReadsOn /\ ready' = Tail(ready)
  /\ UNCHANGED <<running, pc, channel, declared, available, published, faults>>

\* onError: the beginning of a frame was parsed before, and what came does not
\* continue it.  What is not parsed remains, behind the back of close_socket.
frame_malformed ==
  /\ Runs("received", {"opened", "declared", "channel_close", "close", "heartbeat"})
  /\ buffer = "stale" /\ ~Throws
  /\ connection' = "failed" /\ buffer' = "stale" /\ socket' = "none" /\ beat' = "off" /\ retry' = "armed"
  /\ ReadsOn /\ ready' = Tail(ready)
  /\ UNCHANGED <<running, pc, channel, declared, available, published, faults>>

\* An error of the read fails the connection there is, and closes the socket
\* there is.
on_received_failed ==
  /\ Runs("received", {"error", "aborted"}) /\ ~Throws
  /\ connection' = IF connection = "none" THEN "none" ELSE "failed"
  /\ close_socket /\ reading' = FALSE /\ ready' = AfterClosing
  /\ UNCHANGED <<running, pc, channel, declared, available, published, faults>>

\* The same where shutdown throws; so does an answer that cannot be sent, or a
\* connection the broker closes, once the connection was reset.
on_received_throws ==
  /\ \/ Runs("received", {"opened", "channel_close", "close", "error", "aborted"})
     \/ Runs("received", {"declared", "heartbeat"}) /\ buffer = "stale"
  /\ Throws /\ Ended

----------------------------------------------------------------------------
(* Heartbeats and payloads.                                                *)

on_timer_tick ==
  /\ Runs("beat", {"ok"}) /\ ~(connection = "ready" /\ socket = "reset")
  /\ beat' = "armed" /\ ready' = Tail(ready)
  /\ UNCHANGED <<running, pc, conn, amqp, retry, published, faults>>

\* Slip: a channel is tested for, rather than for none.
Slip_Passes == available /\ connection # "none" /\ channel = "none"

\* The test at the head of a posted payload.
Passes == available /\ connection # "none" /\ channel # "none"

\* Whether publishing gets as far as the socket.
Sends == Passes /\ channel = "current" /\ connection = "ready" /\ socket # "none"

\* The closure of post_payload.  A channel that was closed, or whose connection
\* is gone or failed, takes the payload and sends nothing.
publish ==
  /\ Runs("post", Payloads) /\ ~(Sends /\ socket = "reset")
  /\ published' = IF Sends /\ socket = "open"
                  THEN [published EXCEPT ![Head(ready).arg] = @ + 1] ELSE published
  /\ ready' = Tail(ready)
  /\ UNCHANGED <<running, pc, conn, amqp, retry, beat, faults>>

\* onData cannot send on a connection that was reset, and shuts it down.
send_throws ==
  /\ \/ Runs("beat", {"ok"}) /\ connection = "ready"
     \/ Runs("post", Payloads) /\ Sends
  /\ socket = "reset" /\ Ended

----------------------------------------------------------------------------
Handlers ==
  \/ reconnect \/ reconnect_throws \/ received_part \/ onReady \/ exchange_declared
  \/ channel_closed \/ heartbeat_received \/ onError \/ frame_malformed
  \/ on_received_failed \/ on_received_throws \/ on_timer_tick \/ publish \/ send_throws

ClientNext ==
  \/ Handlers \/ reconnected \/ reconnect_failed
  \/ retry_expired \/ beat_expired \/ read_failed \/ connection_lost
  \/ \E x \in Answers : read_completed(x)

\* The thread runs its handlers and comes back from connecting, timers expire,
\* a broken connection fails the read on it, and the broker answers: it opens
\* the connection, and confirms the exchange unless it closes the channel.
ClientFairness ==
  /\ WF_vars(Handlers) /\ WF_vars(reconnected \/ reconnect_failed)
  /\ WF_vars(retry_expired) /\ WF_vars(read_failed)
  /\ WF_vars(read_completed("opened")) /\ WF_vars(read_completed("declared"))

----------------------------------------------------------------------------
\* The state of both classes; a read needs a connected socket.
TypeOK ==
  /\ running \in BOOLEAN /\ pc \in {"idle", "connecting"}
  /\ socket \in {"none", "unconnected", "open", "ended", "reset"} /\ reading \in BOOLEAN
  /\ reading => Connected
  /\ buffer \in {"empty", "part", "stale"}
  /\ connection \in {"none", "handshaking", "ready", "failed"}
  /\ channel \in {"none", "current", "closed", "old"} /\ declared \in BOOLEAN /\ available \in BOOLEAN
  /\ retry \in {"off", "armed"} /\ beat \in {"off", "armed"}
  /\ \A i \in DOMAIN ready : ready[i].kind \in {"reconnect", "received", "beat", "post"}

Queued(kind, args) == {i \in DOMAIN ready : ready[i].kind = kind /\ ready[i].arg \in args}

One(condition) == IF condition THEN 1 ELSE 0

\* There is always exactly one way back to the broker: the connection there is
\* (whose read will fail), an attempt, the timer of the next one, or its
\* handler.  Four functions arm the timer or leave it to others, and two of them
\* at once would have one attempt close the connection the other has made.
OneWayBack ==
  running =>
    Cardinality(Queued("reconnect", {"ok"}))
      + One(Connected) + One(pc = "connecting") + One(retry = "armed") = 1

\* As long as there is a connection, exactly one read or its handler is on its
\* way: with none its end would go unnoticed, with two they would share the
\* buffer.
ReadsPending ==
  running /\ Connected =>
    Cardinality(Queued("received", {"opened", "declared", "channel_close", "heartbeat", "close",
                                     "part", "error", "aborted"}))
      + One(reading) = 1

\* When the connection is ready, payloads are only taken with the exchange
\* declared on it and a channel of it, be it one the broker has closed since:
\* _available and _channel outlive the connection they belong to.
AvailableMeansDeclared ==
  available /\ connection = "ready" => declared /\ channel \in {"current", "closed"}

\* What is posted gets to the broker, as far as the connection and the channel
\* the broker has left open can tell.
Up == available /\ connection = "ready" /\ socket = "open" /\ channel # "closed"

\* Whatever fails, publishing becomes possible again, unless an exception has
\* ended the program, bytes that no frame can continue stay in the buffer and
\* break every connection anew, or the broker has closed the channel, or refused
\* the exchange, on a connection that does not fail: no other is opened then.
Recovered ==
  []<>Up \/ <>[]~running \/ <>[](buffer = "stale") \/ <>[](channel = "closed")

\* "New reconnection timer will be set if fails" (amqp_client.cpp:204): an
\* attempt gets to resolving and connecting, or leaves the timer armed.
FailureSetsTimer == [][reconnect \/ reconnect_throws => pc' = "connecting" \/ retry' = "armed"]_vars
=============================================================================
