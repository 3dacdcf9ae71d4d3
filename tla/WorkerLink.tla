---------------------------- MODULE WorkerLink -----------------------------
(***************************************************************************)
(* The worker's connection to the supervisor: supervisor_connection, its   *)
(* reading half simple_worker_proto_handler and its writing half           *)
(* asio_socket_write_helper.  One thread runs the handlers of _context, in *)
(* the order in which they became ready; the threads of the rooms call     *)
(* publish_msg at any time.                                                *)
(*                                                                         *)
(* A completed operation is not a callback yet: its handler waits in       *)
(* `ready`, with the error code it completed with, and cannot be taken     *)
(* back.  Cancelling or closing a socket completes what is pending on it   *)
(* with "aborted".  What is sent and received is left out, but for the     *)
(* ready message; the contents of a message are its identity.              *)
(***************************************************************************)
EXTENDS Integers, SequencesExt

CONSTANTS
  Publishers,  \* the threads that call publish_msg
  Msgs,        \* the messages the rooms publish
  READY,       \* the message generate_worker_ready_packet makes
  MaxFaults    \* bound: how often the network fails

ASSUME FaultsAssumption == MaxFaults \in Nat /\ READY \notin Msgs

None == 0  \* the null pointer; sockets are numbered as they are made
Sockets == 1 .. MaxFaults + 1

VARIABLES
  socket,       \* _socket of supervisor_connection
  made,         \* how many sockets were made
  closed,       \* the sockets force_close has closed
  broken,       \* the sockets whose connection the network has lost
  timer,        \* _timer: "off" or "armed"
  resolving,    \* number of async_resolve calls pending
  connecting,   \* sockets with an async_connect pending
  reading,      \* sockets with an async_receive pending
  read_socket,  \* _socket of the proto handler
  writing,      \* function: socket -> buffers of the async_write pending on it
  write_socket, \* _socket of the write helper
  write_queue,  \* _write_queue
  ready,        \* the handlers of _context that are ready to run
  publisher,    \* where each publisher stands in publish_msg
  said,         \* history: what was written to the present socket
  faults        \* how often the network has failed

conn  == <<socket, made, closed, timer, resolving, connecting>>
read  == <<reading, read_socket>>
write == <<writing, write_socket, write_queue>>
env   == <<broken, faults>>
vars  == <<conn, read, write, env, ready, publisher, said>>

Idle == [at |-> "idle", msg |-> READY, socket |-> None]

Handler(kind, s, ec) == [kind |-> kind, socket |-> s, ec |-> ec, count |-> 0, msg |-> READY]
Written(s, ec, n)    == [Handler("written", s, ec) EXCEPT !.count = n]
Posted(m, s)         == [Handler("post", s, "ok") EXCEPT !.msg = m]

Init ==
  /\ socket = None /\ made = 0 /\ closed = {} /\ broken = {}
  /\ timer = "armed" /\ resolving = 0 /\ connecting = {}
  /\ reading = {} /\ read_socket = None
  /\ writing = [s \in {} |-> <<>>] /\ write_socket = None /\ write_queue = <<>>
  /\ ready = <<>> /\ publisher = [p \in Publishers |-> Idle]
  /\ said = {} /\ faults = 0

\* A socket object lives as long as supervisor_connection, a publisher or a
\* posted handler holds a pointer to it; the two halves hold weak ones.
Held(s) ==
  \/ \E p \in Publishers : publisher[p].at = "posting" /\ publisher[p].socket = s
  \/ \E i \in DOMAIN ready : ready[i].kind = "post" /\ ready[i].socket = s
Alive(s) == s # None /\ (s = socket \/ Held(s))

\* The handlers of what is pending on a socket that is closed.
Aborted(s) ==
  (IF s \in reading THEN <<Handler("on_receive", s, "aborted")>> ELSE <<>>) \o
  (IF s \in DOMAIN writing THEN <<Written(s, "aborted", Len(writing[s]))>> ELSE <<>>)

\* force_close of what is _socket, and its consequences but for _socket itself.
force_close ==
  /\ closed' = closed \cup ({socket} \ {None})
  /\ writing' = [s \in DOMAIN writing \ {socket} |-> writing[s]]

----------------------------------------------------------------------------
(* publish_msg, called from the threads of the rooms.                      *)

Unused(m) ==
  /\ \A p \in Publishers : publisher[p].msg # m
  /\ ~Contains(write_queue, m)
  /\ \A i \in DOMAIN ready : ready[i].kind = "post" => ready[i].msg # m

\* if (!_socket): without a connection the message is dropped at once.
publish_msg(p, m) ==
  /\ publisher[p] = Idle /\ Unused(m)
  /\ publisher' = IF socket = None THEN publisher
                  ELSE [publisher EXCEPT ![p] = [at |-> "writing", msg |-> m, socket |-> None]]
  /\ UNCHANGED <<conn, read, write, env, ready, said>>

\* write: lock the write helper's socket, or drop the message.
write_locked(p) ==
  /\ publisher[p].at = "writing"
  /\ publisher' = [publisher EXCEPT ![p] =
       IF Alive(write_socket) THEN [@ EXCEPT !.at = "posting", !.socket = write_socket] ELSE Idle]
  /\ UNCHANGED <<conn, read, write, env, ready, said>>

\* write: post the rest to the thread of _context.
write_posted(p) ==
  /\ publisher[p].at = "posting"
  /\ ready' = Append(ready, Posted(publisher[p].msg, publisher[p].socket))
  /\ publisher' = [publisher EXCEPT ![p] = Idle]
  /\ UNCHANGED <<conn, read, write, env, said>>

----------------------------------------------------------------------------
(* The operations of the timer, the resolver and the sockets complete.     *)

\* The retry interval is longer than any handler waits to be run and than any
\* call of publish_msg takes.
Settled == ready = <<>> /\ \A p \in Publishers : publisher[p] = Idle

timer_expired ==
  /\ timer = "armed" /\ Settled
  /\ timer' = "off"
  /\ ready' = Append(ready, Handler("on_retry_timer_tick", None, "ok"))
  /\ UNCHANGED <<socket, made, closed, resolving, connecting, read, write, env, publisher, said>>

\* What fails uses up one of the faults.
Fault(ec) == IF ec = "ok" THEN UNCHANGED faults ELSE faults < MaxFaults /\ faults' = faults + 1

resolve_completed(ec) ==
  /\ resolving > 0 /\ Fault(ec)
  /\ resolving' = resolving - 1
  /\ ready' = Append(ready, Handler("on_resolved", None, ec))
  /\ UNCHANGED <<socket, made, closed, timer, connecting, read, write, broken, publisher, said>>

connect_completed(s, ec) ==
  /\ s \in connecting /\ Fault(ec)
  /\ connecting' = connecting \ {s}
  /\ ready' = Append(ready, Handler("on_connected", s, ec))
  /\ UNCHANGED <<socket, made, closed, timer, resolving, read, write, broken, publisher, said>>

\* The network loses the connection of the socket in use.
connection_lost ==
  /\ socket # None /\ socket \notin broken /\ Fault("error")
  /\ broken' = broken \cup {socket}
  /\ UNCHANGED <<conn, read, write, ready, publisher, said>>

\* A socket reads and writes until its connection is lost.
Outcome(s) == IF s \in broken THEN "error" ELSE "ok"

read_completed(s) ==
  /\ s \in reading
  /\ reading' = reading \ {s}
  /\ ready' = Append(ready, Handler("on_receive", s, Outcome(s)))
  /\ UNCHANGED <<conn, read_socket, write, env, publisher, said>>

write_completed(s) ==
  /\ s \in DOMAIN writing
  /\ ready' = Append(ready, Written(s, Outcome(s), Len(writing[s])))
  /\ writing' = [t \in DOMAIN writing \ {s} |-> writing[t]]
  /\ said' = IF s = socket /\ s \notin broken THEN said \cup ToSet(writing[s]) ELSE said
  /\ UNCHANGED <<conn, read, write_socket, write_queue, env, publisher>>

----------------------------------------------------------------------------
(* The handlers, run one after the other by the thread of _context.        *)

Runs(kind, ec) == ready # <<>> /\ Head(ready).kind = kind /\ Head(ready).ec = ec

\* connect, called by on_retry_timer_tick.
on_retry_timer_tick ==
  /\ Runs("on_retry_timer_tick", "ok")
  /\ force_close /\ reading' = reading \ {socket}
  /\ socket' = None
  /\ resolving' = resolving + 1
  /\ ready' = Tail(ready) \o Aborted(socket)
  /\ UNCHANGED <<made, timer, connecting, read_socket, write_socket, write_queue, env, publisher, said>>

\* Slip: the failed resolution is logged only.
Slip_on_resolve_failed ==
  /\ Runs("on_resolved", "error")
  /\ ready' = Tail(ready)
  /\ UNCHANGED <<conn, read, write, env, publisher, said>>

on_resolve_failed ==
  /\ Runs("on_resolved", "error")
  /\ timer' = "armed"
  /\ ready' = Tail(ready)
  /\ UNCHANGED <<socket, made, closed, resolving, connecting, read, write, env, publisher, said>>

on_resolved ==
  /\ Runs("on_resolved", "ok")
  /\ timer' = "off"
  /\ made' = made + 1 /\ connecting' = connecting \cup {made + 1}
  /\ ready' = Tail(ready)
  /\ UNCHANGED <<socket, closed, resolving, read, write, env, publisher, said>>

\* Slip: it is tried again at once, and by the timer.
Slip_on_connect_failed ==
  /\ Runs("on_connected", "error")
  /\ timer' = "armed" /\ resolving' = resolving + 1
  /\ ready' = Tail(ready)
  /\ UNCHANGED <<socket, made, closed, connecting, read, write, env, publisher, said>>

on_connect_failed ==
  /\ Runs("on_connected", "error")
  /\ timer' = "armed"
  /\ ready' = Tail(ready)
  /\ UNCHANGED <<socket, made, closed, resolving, connecting, read, write, env, publisher, said>>

\* Slip: the messages not yet written are kept for the new connection.
Slip_queue_after_reset == write_queue

\* The queue of the write helper after reset.
queue_after_reset == <<>>

\* Slip: the ready message is published before the write helper is reset.
Slip_publish_ready(s) ==
  IF write_socket # None /\ Held(write_socket) THEN <<Posted(READY, write_socket)>> ELSE <<>>

\* on_supervisor_connected: publish_msg finds the socket it was called for.
publish_ready(s) == <<Posted(READY, s)>>

on_connected ==
  /\ Runs("on_connected", "ok")
  /\ LET s == Head(ready).socket IN
       /\ force_close
       /\ timer' = "off"
       /\ socket' = s
       /\ reading' = (reading \ {socket}) \cup {s} /\ read_socket' = s
       /\ write_socket' = s /\ write_queue' = queue_after_reset
       /\ ready' = Tail(ready) \o Aborted(socket) \o publish_ready(s)
  /\ said' = {}
  /\ UNCHANGED <<made, resolving, connecting, env, publisher>>

\* Slip: the pointer to the closed socket is kept.
Slip_on_failed ==
  /\ force_close /\ reading' = reading \ {socket}
  /\ timer' = "armed"
  /\ UNCHANGED <<socket, made, resolving, connecting>>

\* on_failed: close the socket and start the retry timer over.
on_failed ==
  /\ force_close /\ reading' = reading \ {socket}
  /\ socket' = None
  /\ timer' = "armed"
  /\ UNCHANGED <<made, resolving, connecting>>

\* Slip: after a block the next read is not started.
Slip_on_receive ==
  /\ Runs("on_receive", "ok")
  /\ ready' = Tail(ready)
  /\ UNCHANGED <<conn, read, write, env, publisher, said>>

\* A block was read: read on.  A socket that is closed and still held by a
\* publisher fails at once.
on_receive ==
  /\ Runs("on_receive", "ok")
  /\ LET open == Alive(read_socket) /\ read_socket \notin closed
         shut == Alive(read_socket) /\ read_socket \in closed
     IN  /\ reading' = reading \cup {s \in {read_socket} : open}
         /\ ready' = Tail(ready) \o
              (IF shut THEN <<Handler("on_receive", read_socket, "error")>> ELSE <<>>)
  /\ UNCHANGED <<conn, read_socket, write, env, publisher, said>>

on_receive_failed ==
  /\ Runs("on_receive", "error")
  /\ on_failed
  /\ read_socket' = None
  /\ ready' = Tail(ready) \o Aborted(socket)
  /\ UNCHANGED <<write_socket, write_queue, env, publisher, said>>

on_receive_aborted ==
  /\ Runs("on_receive", "aborted")
  /\ read_socket' = None
  /\ ready' = Tail(ready)
  /\ UNCHANGED <<conn, reading, write, env, publisher, said>>

\* start_async_write of this queue, on a socket that is alive; if it is closed
\* the write fails at once.
start_async_write(queue) ==
  IF ~Alive(write_socket)
  THEN ready' = Tail(ready) /\ UNCHANGED writing
  ELSE IF write_socket \in closed
       THEN ready' = Append(Tail(ready), Written(write_socket, "error", Len(queue))) /\ UNCHANGED writing
       ELSE /\ ready' = Tail(ready)
            /\ writing' = [s \in DOMAIN writing \cup {write_socket} |->
                             IF s = write_socket THEN queue ELSE writing[s]]

\* Slip: a write is started for every message.
Slip_write_lambda ==
  /\ Runs("post", "ok")
  /\ write_queue' = Append(write_queue, Head(ready).msg)
  /\ start_async_write(write_queue')
  /\ UNCHANGED <<conn, read, write_socket, env, publisher, said>>

\* The handler write has posted: it starts a write when the queue was empty.
write_lambda ==
  /\ Runs("post", "ok")
  /\ write_queue' = Append(write_queue, Head(ready).msg)
  /\ IF write_queue = <<>>
     THEN start_async_write(write_queue')
     ELSE ready' = Tail(ready) /\ UNCHANGED writing
  /\ UNCHANGED <<conn, read, write_socket, env, publisher, said>>

\* The first buffers of the queue are freed.
delete_first_n_buffers(n) ==
  IF n >= Len(write_queue) THEN <<>> ELSE SubSeq(write_queue, n + 1, Len(write_queue))

\* Slip: the next write is started before what was written is deleted.
Slip_on_written ==
  /\ Runs("written", "ok")
  /\ write_queue' = delete_first_n_buffers(Head(ready).count)
  /\ IF write_queue' # <<>>
     THEN start_async_write(write_queue)
     ELSE ready' = Tail(ready) /\ UNCHANGED writing
  /\ UNCHANGED <<conn, read, write_socket, env, publisher, said>>

on_written ==
  /\ Runs("written", "ok")
  /\ write_queue' = delete_first_n_buffers(Head(ready).count)
  /\ IF write_queue' # <<>>
     THEN start_async_write(write_queue')
     ELSE ready' = Tail(ready) /\ UNCHANGED writing
  /\ UNCHANGED <<conn, read, write_socket, env, publisher, said>>

\* An error closes the connection; then the rest of the queue is tried on the
\* closed socket, if a publisher still holds it.
on_written_failed ==
  /\ Runs("written", "error")
  /\ write_queue' = delete_first_n_buffers(Head(ready).count)
  /\ on_failed
  /\ ready' = Tail(ready) \o Aborted(socket) \o
       (IF write_queue' # <<>> /\ write_socket # None /\ Held(write_socket)
        THEN <<Written(write_socket, "error", Len(write_queue'))>> ELSE <<>>)
  /\ UNCHANGED <<read_socket, write_socket, env, publisher, said>>

on_written_aborted ==
  /\ Runs("written", "aborted")
  /\ write_queue' = delete_first_n_buffers(Head(ready).count)
  /\ ready' = Tail(ready)
  /\ UNCHANGED <<conn, read, writing, write_socket, env, publisher, said>>

----------------------------------------------------------------------------
Handlers ==
  \/ on_retry_timer_tick \/ on_resolve_failed \/ on_resolved \/ on_connect_failed \/ on_connected
  \/ on_receive \/ on_receive_failed \/ on_receive_aborted
  \/ write_lambda \/ on_written \/ on_written_failed \/ on_written_aborted

Completions(ec) == resolve_completed(ec) \/ \E s \in Sockets : connect_completed(s, ec)

Transfers == \E s \in Sockets : read_completed(s) \/ write_completed(s)

Next ==
  \/ Handlers \/ timer_expired \/ Completions("ok") \/ Completions("error") \/ connection_lost
  \/ Transfers
  \/ \E p \in Publishers : write_locked(p) \/ write_posted(p) \/ \E m \in Msgs : publish_msg(p, m)

Spec == Init /\ [][Next]_vars

\* The thread runs its handlers, the timer expires, what is pending completes
\* (a lost connection makes the read on it fail) and publishers go on.
Fairness ==
  /\ WF_vars(Handlers) /\ WF_vars(timer_expired)
  /\ WF_vars(Completions("ok") \/ Completions("error"))
  /\ \A s \in Sockets : WF_vars(read_completed(s)) /\ WF_vars(write_completed(s))
  /\ \A p \in Publishers : WF_vars(write_locked(p)) /\ WF_vars(write_posted(p))

FairSpec == Spec /\ Fairness

----------------------------------------------------------------------------
Handled(kind, s) == {i \in DOMAIN ready : ready[i].kind = kind /\ ready[i].socket = s}

\* The state of supervisor_connection and its halves.
TypeOK ==
  /\ socket \in Sockets \cup {None} /\ made \in 0 .. MaxFaults + 1 /\ timer \in {"off", "armed"}
  /\ resolving \in 0 .. 1 /\ connecting \subseteq Sockets /\ Cardinality(connecting) <= 1
  /\ closed \subseteq Sockets /\ broken \subseteq Sockets
  /\ reading \subseteq Sockets /\ DOMAIN writing \subseteq Sockets
  /\ read_socket \in Sockets \cup {None} /\ write_socket \in Sockets \cup {None}
  /\ \A i \in DOMAIN ready : ready[i].ec \in {"ok", "error", "aborted"}
  /\ ToSet(write_queue) \subseteq Msgs \cup {READY}

\* supervisor_connection makes one attempt at a time: it is connected, or it
\* resolves, connects or waits for the retry timer, and never two of these.
OneAttempt ==
  Cardinality({i \in DOMAIN ready : ready[i].kind \in {"on_retry_timer_tick", "on_resolved", "on_connected"}})
    + resolving + Cardinality(connecting)
    + (IF timer = "armed" THEN 1 ELSE 0) + (IF socket # None THEN 1 ELSE 0) = 1

\* A connected worker always has one read pending on its socket, or its
\* handler about to run, so that it hears the supervisor and a lost connection.
AlwaysListening ==
  socket # None =>
    /\ read_socket = socket
    /\ Cardinality(Handled("on_receive", socket)) + Cardinality(reading \cap {socket}) = 1

\* While messages are queued on a connection one write of it is under way: the
\* queue is never stuck.
QueueMoves ==
  socket # None =>
    Cardinality(Handled("written", socket)) + Cardinality(DOMAIN writing \cap {socket})
      = IF write_queue = <<>> THEN 0 ELSE 1

\* The buffers of a pending async_write stay at the head of the queue, where
\* nobody frees them.
BuffersAlive == \A s \in DOMAIN writing : IsPrefix(writing[s], write_queue)

\* On each connection the ready message is on its way or was sent.
Introduced ==
  socket # None =>
    \/ READY \in said \cup ToSet(write_queue)
    \/ \E i \in Handled("post", socket) : ready[i].msg = READY

\* No async_write is started on a socket that has one pending.
NoOverlap ==
  [][\A s \in DOMAIN writing \cap DOMAIN writing' : writing'[s] = writing[s]]_vars

\* Whatever fails, the worker is connected again in the end.
Reconnected == []<>(socket # None /\ socket \notin broken)
=============================================================================
