-------------------------- MODULE WorkerLinkProofs --------------------------
(***************************************************************************)
(* Theorems about the worker's connection to the supervisor, for all       *)
(* publishers and messages and any number of failures.  The link is up,    *)
(* down (waiting for its timer) or in an attempt, and the invariant says   *)
(* of each what handlers and operations there may be.                      *)
(***************************************************************************)
EXTENDS WorkerLink, QueueCounts

Messages == Msgs \cup {READY}
Sent     == {"on_receive", "written", "post"}
Entries  == [kind : Sent \cup {"on_retry_timer_tick", "on_resolved", "on_connected"}, socket : Nat,
             ec : {"ok", "error", "aborted"}, count : Nat, msg : Messages]
Traffic  == {e \in Entries : e.kind \in Sent}
Receipts == {e \in Entries : e.kind = "on_receive"}
Writtens == {e \in Entries : e.kind = "written"}

\* The state of the link but for what depends on where it stands.
Typed ==
  /\ socket \in Nat /\ made \in Nat /\ faults \in 0 .. MaxFaults
  /\ closed \subseteq 1 .. made /\ broken \subseteq 1 .. made
  /\ read_socket \in 0 .. made /\ write_socket \in 0 .. made
  /\ write_queue \in Seq(Messages) /\ \A s \in DOMAIN writing : writing[s] \in Seq(Messages)
  /\ publisher \in [Publishers -> [at : {"idle", "writing", "posting"}, msg : Messages, socket : Nat]]

\* While the link waits for its timer, handlers of the old connection may wait to
\* run; whatever they do, its sockets are closed.  Each attempt that came to its
\* end has used up one of the failures.
Down ==
  /\ socket = None /\ timer = "armed" /\ resolving = 0 /\ connecting = {}
  /\ ready \in Seq(Traffic) /\ reading = {} /\ DOMAIN writing = {}
  /\ read_socket \in closed \cup {None} /\ write_socket \in closed \cup {None}
  /\ made <= faults

\* The socket of the attempt is a new one.
Fresh == made > 0 /\ made \notin closed \cup broken /\ made <= faults + 1

Attempt(h) ==
  \/ h.kind = "on_retry_timer_tick" /\ h.ec = "ok" /\ made <= faults
  \/ h.kind = "on_resolved" /\ h.ec \in {"ok", "error"} /\ made <= faults
  \/ h.kind = "on_connected" /\ h.ec = "ok" /\ h.socket = made /\ Fresh
  \/ h.kind = "on_connected" /\ h.ec = "error" /\ made <= faults

\* In an attempt nothing else is under way, because the timer expires later than
\* the handlers of the old connection run.
Trying ==
  /\ socket = None /\ timer = "off" /\ reading = {} /\ DOMAIN writing = {}
  /\ read_socket \in closed \cup {None} /\ write_socket \in closed \cup {None}
  /\ \A p \in Publishers : publisher[p] = Idle
  /\ \/ ready = <<>> /\ resolving = 1 /\ connecting = {} /\ made <= faults
     \/ ready = <<>> /\ resolving = 0 /\ connecting = {made} /\ Fresh
     \/ resolving = 0 /\ connecting = {} /\ Len(ready) = 1 /\ ready \in Seq(Entries) /\ Attempt(Head(ready))

\* What may wait to run while the link is up: errors only of a broken connection,
\* and what was written is at the head of the queue, and was said.
Current == {e \in Traffic :
  /\ e.ec # "aborted" /\ (e.ec = "error" => socket \in broken)
  /\ e.kind # "post" => e.socket = socket
  /\ e.kind = "written" => e.count <= Len(write_queue)
                           /\ (e.ec = "ok" => \A j \in 1 .. e.count : write_queue[j] \in said)}

\* The ready message, on its way to this socket.
Hello == {e \in Entries : e.kind = "post" /\ e.msg = READY /\ e.socket = socket}

\* One read and, with messages queued, one write of the present socket.
Up ==
  /\ socket \in 1 .. made /\ socket \notin closed /\ read_socket = socket /\ write_socket = socket
  /\ timer = "off" /\ resolving = 0 /\ connecting = {}
  /\ ready \in Seq(Current) /\ reading \subseteq {socket} /\ DOMAIN writing \subseteq {socket}
  /\ Count(ready, Receipts) + (IF socket \in reading THEN 1 ELSE 0) = 1
  /\ Count(ready, Writtens) + (IF socket \in DOMAIN writing THEN 1 ELSE 0) = (IF write_queue = <<>> THEN 0 ELSE 1)
  /\ socket \in DOMAIN writing => IsPrefix(writing[socket], write_queue)
  /\ READY \in said \cup ToSet(write_queue) \/ Count(ready, Hello) > 0
  /\ made <= faults + 1 /\ (socket \in broken => made <= faults)

Inv == Typed /\ (Down \/ Trying \/ Up)

----------------------------------------------------------------------------
(* Handlers.                                                               *)

\* What the handlers are made of.
LEMMA HandlersAre ==
  /\ \A s \in Nat, ec \in {"ok", "error", "aborted"} :
       /\ Handler("on_receive", s, ec) \in Traffic
       /\ Handler("on_receive", s, ec).kind = "on_receive" /\ Handler("on_receive", s, ec).socket = s
       /\ Handler("on_receive", s, ec).ec = ec
  /\ \A s \in Nat, ec \in {"ok", "error", "aborted"}, n \in Nat :
       /\ Written(s, ec, n) \in Traffic
       /\ Written(s, ec, n).kind = "written" /\ Written(s, ec, n).socket = s
       /\ Written(s, ec, n).ec = ec /\ Written(s, ec, n).count = n
  /\ \A s \in Nat, m \in Messages :
       /\ Posted(m, s) \in Traffic
       /\ Posted(m, s).kind = "post" /\ Posted(m, s).socket = s /\ Posted(m, s).ec = "ok" /\ Posted(m, s).msg = m
BY DEF Handler, Written, Posted, Traffic, Entries, Sent, Messages

\* Handlers of what is aborted.
LEMMA AbortedAre ==
  ASSUME Typed, NEW s \in Nat
  PROVE  Aborted(s) \in Seq(Traffic)
<1>1. Handler("on_receive", s, "aborted") \in Traffic
  BY HandlersAre
<1>2. ASSUME s \in DOMAIN writing PROVE Written(s, "aborted", Len(writing[s])) \in Traffic
  BY <1>2, HandlersAre DEF Typed
<1>. QED BY <1>1, <1>2 DEF Aborted

\* Nothing is aborted without a socket.
LEMMA NothingAborted ==
  ASSUME reading = {}, DOMAIN writing = {}, NEW s
  PROVE  Aborted(s) = <<>>
BY DEF Aborted

\* What waits is of a kind.
LEMMA RunsHead ==
  ASSUME NEW E, ready \in Seq(E), NEW kind, NEW ec, Runs(kind, ec)
  PROVE  /\ ready # <<>> /\ Head(ready) \in E /\ Head(ready).kind = kind /\ Head(ready).ec = ec
         /\ Tail(ready) \in Seq(E)
BY DEF Runs

\* The queue loses its first messages only.
LEMMA Deleted ==
  ASSUME Typed, NEW n \in Nat
  PROVE  delete_first_n_buffers(n) \in Seq(Messages)
BY DEF delete_first_n_buffers, Typed

----------------------------------------------------------------------------
(* The link is down.                                                       *)

\* Publishers do not depend on where the link stands.
LEMMA PublisherTyped ==
  ASSUME Typed, NEW p \in Publishers,
         write_locked(p) \/ write_posted(p) \/ \E m \in Msgs : publish_msg(p, m)
  PROVE  publisher' \in [Publishers -> [at : {"idle", "writing", "posting"}, msg : Messages, socket : Nat]]
<1> DEFINE R == [at : {"idle", "writing", "posting"}, msg : Messages, socket : Nat]
<1>1. Idle \in R
  BY DEF Idle, None, Messages
<1>2. publisher[p] \in R /\ publisher \in [Publishers -> R] /\ write_socket \in Nat
  BY DEF Typed
<1>3. [publisher[p] EXCEPT !.at = "posting", !.socket = write_socket] \in R
  BY <1>2
<1>4. \A m \in Msgs : [at |-> "writing", msg |-> m, socket |-> None] \in R
  BY DEF None, Messages
<1> DEFINE Locked == [publisher[p] EXCEPT !.at = "posting", !.socket = write_socket]
           Begun(m) == [at |-> "writing", msg |-> m, socket |-> None]
<1>5. Locked \in R /\ \A m \in Msgs : Begun(m) \in R
  BY <1>3, <1>4
<1>6. \/ publisher' = publisher
      \/ publisher' = [publisher EXCEPT ![p] = Idle]
      \/ publisher' = [publisher EXCEPT ![p] = Locked]
      \/ \E m \in Msgs : publisher' = [publisher EXCEPT ![p] = Begun(m)]
  <2>1. CASE write_locked(p)
    BY <2>1 DEF write_locked
  <2>2. CASE write_posted(p)
    BY <2>2 DEF write_posted
  <2>3. CASE \E m \in Msgs : publish_msg(p, m)
    BY <2>3 DEF publish_msg
  <2>. QED BY <2>1, <2>2, <2>3
<1> HIDE DEF R, Locked, Begun
<1>7. publisher' \in [Publishers -> R]
  BY <1>1, <1>2, <1>5, <1>6
<1>. QED BY <1>7 DEF R

\* A publisher's step in any state of the link: it may post a message.
LEMMA PublishKeeps ==
  ASSUME Inv, NEW p \in Publishers,
         write_locked(p) \/ write_posted(p) \/ \E m \in Msgs : publish_msg(p, m)
  PROVE  Inv'
<1>1. /\ UNCHANGED <<socket, made, closed, timer, resolving, connecting, reading, read_socket,
                     writing, write_socket, write_queue, broken, faults, said>>
      /\ \/ ready' = ready
         \/ publisher[p] # Idle /\ ready' = Append(ready, Posted(publisher[p].msg, publisher[p].socket))
  BY DEF write_locked, write_posted, publish_msg, conn, read, write, env, Idle
<1>2. Typed'
  BY <1>1, PublisherTyped DEF Inv, Typed
<1> DEFINE h == Posted(publisher[p].msg, publisher[p].socket)
<1>3. h \in Traffic /\ h.kind = "post" /\ h.ec = "ok"
  BY HandlersAre DEF Inv, Typed
<1> HIDE DEF h
<1>4. CASE Down
  BY <1>1, <1>2, <1>3, <1>4 DEF Inv, Down, h
<1>5. CASE Trying
  <2>1. UNCHANGED <<ready, publisher>>
    BY <1>1, <1>5 DEF write_locked, write_posted, publish_msg, Trying, Idle
  <2>. QED BY <1>1, <1>2, <1>5, <2>1 DEF Inv, Trying, Attempt, Fresh, Idle
<1>6. CASE Up
  <2>1. h \in Current /\ h \notin Receipts /\ h \notin Writtens
    BY <1>3 DEF Current, Receipts, Writtens
  <2>2. /\ ready \in Seq(Current) /\ ready' \in Seq(Current) /\ \A P : Count(ready, P) \in Nat
        /\ Count(ready', Receipts) = Count(ready, Receipts) /\ Count(ready', Writtens) = Count(ready, Writtens)
        /\ Count(ready, Hello) > 0 => Count(ready', Hello) > 0
    <3>1. ready \in Seq(Current) /\ \A P : Count(ready, P) \in Nat
      BY <1>6, CountNat DEF Up
    <3>2. CASE ready' = ready
      BY <3>1, <3>2
    <3>3. CASE ready' = Append(ready, h)
      <4>1. /\ ready' \in Seq(Current)
            /\ \A P : Count(ready', P) \in Nat /\ (h \in P => Count(ready', P) = Count(ready, P) + 1)
                     /\ (h \notin P => Count(ready', P) = Count(ready, P))
        BY <2>1, <3>1, <3>3, Put
      <4>2. Count(ready, Hello) > 0 => Count(ready', Hello) > 0
        <5>1. CASE h \in Hello
          BY <3>1, <4>1, <5>1
        <5>2. CASE h \notin Hello
          BY <3>1, <4>1, <5>2
        <5>. QED BY <5>1, <5>2
      <4>. QED BY <2>1, <3>1, <4>1, <4>2
    <3>. QED BY <1>1, <3>2, <3>3 DEF h
  <2>3. Current' = Current /\ Hello' = Hello
    BY <1>1 DEF Current, Hello
  <2>4. Up'
    BY <1>1, <1>6, <2>2, <2>3 DEF Up
  <2>. QED BY <1>2, <2>4 DEF Inv
<1>. QED BY <1>4, <1>5, <1>6 DEF Inv

\* The timer expires when nothing of the old connection is left.
LEMMA TimerKeeps == Inv /\ timer_expired => Inv'
<1>. SUFFICES ASSUME Inv, timer_expired PROVE Inv'
  OBVIOUS
<1>1. /\ timer = "armed" /\ timer' = "off" /\ ready = <<>> /\ (\A p \in Publishers : publisher[p] = Idle)
      /\ ready' = Append(ready, Handler("on_retry_timer_tick", None, "ok"))
      /\ UNCHANGED <<socket, made, closed, resolving, connecting, reading, read_socket,
                     writing, write_socket, write_queue, broken, faults, said, publisher>>
  BY DEF timer_expired, Settled, read, write, env
<1>2. Typed'
  BY <1>1 DEF Inv, Typed
<1>3. Down
  BY <1>1 DEF Inv, Trying, Up
<1> DEFINE h == Handler("on_retry_timer_tick", None, "ok")
<1>4. h \in Entries /\ h.kind = "on_retry_timer_tick" /\ h.ec = "ok"
  BY DEF Handler, None, Entries, Messages
<1> HIDE DEF h
<1>5. ready' = <<h>>
  BY <1>1 DEF h
<1>6. Trying'
  BY <1>1, <1>3, <1>4, <1>5 DEF Down, Trying, Attempt, Idle
<1>. QED BY <1>2, <1>6 DEF Inv

\* A handler of the old connection runs while the link is down.
LEMMA DownKeeps ==
  ASSUME Inv, Down, Handlers
  PROVE  Inv'
<1>1. /\ ready \in Seq(Traffic) /\ reading = {} /\ DOMAIN writing = {} /\ socket = None
      /\ read_socket \in closed \cup {None} /\ write_socket \in closed \cup {None}
  BY DEF Down
<1>2. ASSUME NEW kind, NEW ec, Runs(kind, ec)
      PROVE  /\ kind \in Sent /\ Tail(ready) \in Seq(Traffic)
             /\ Head(ready).count \in Nat /\ Head(ready).msg \in Messages
  BY <1>1, <1>2, RunsHead DEF Traffic, Entries
<1>3. force_close => closed' = closed /\ DOMAIN writing' = {}
  BY <1>1 DEF force_close
<1>4. Aborted(socket) = <<>>
  BY <1>1, NothingAborted
<1>5. ASSUME on_failed \/ UNCHANGED conn, reading' = {}, DOMAIN writing' = {},
             read_socket' \in {read_socket, None}, write_queue' \in Seq(Messages),
             UNCHANGED <<write_socket, env, publisher>>, ready' \in Seq(Traffic)
      PROVE  Inv'
  <2>1. UNCHANGED <<socket, made, closed, timer, resolving, connecting>>
    BY <1>3, <1>5 DEF on_failed, conn, Down
  <2>2. Typed'
    BY <1>5, <2>1 DEF Inv, Typed, env, None
  <2>3. Down'
    BY <1>1, <1>5, <2>1 DEF Down, env
  <2>. QED BY <2>2, <2>3 DEF Inv
<1>6. CASE on_receive
  <2>1. reading' = {}
    BY <1>1, <1>6 DEF on_receive, Alive
  <2>2. Handler("on_receive", read_socket, "error") \in Traffic
    BY HandlersAre DEF Inv, Typed
  <2>3. ready' \in Seq(Traffic)
    BY <1>2, <1>6, <2>2 DEF on_receive
  <2>. QED BY <1>1, <1>5, <1>6, <2>1, <2>3 DEF on_receive, write, Inv, Typed
<1>7. CASE on_receive_failed
  <2>1. ready' = Tail(ready) \o <<>> /\ reading' = {} /\ DOMAIN writing' = {}
    BY <1>1, <1>3, <1>4, <1>7 DEF on_receive_failed, on_failed
  <2>2. ready' \in Seq(Traffic)
    <3>1. Tail(ready) \in Seq(Traffic)
      BY <1>2, <1>7 DEF on_receive_failed
    <3>. QED BY <2>1, <3>1
  <2>. QED BY <1>5, <1>7, <2>1, <2>2 DEF on_receive_failed, Inv, Typed
<1>8. CASE on_receive_aborted
  BY <1>1, <1>2, <1>5, <1>8 DEF on_receive_aborted, write, Inv, Typed
<1>9. ASSUME NEW q \in Seq(Messages), start_async_write(q), NEW kind, NEW ec, Runs(kind, ec)
      PROVE  ready' \in Seq(Traffic) /\ DOMAIN writing' = {}
  <2>1. Written(write_socket, "error", Len(q)) \in Traffic
    BY HandlersAre DEF Inv, Typed
  <2>2. ~Alive(write_socket) \/ write_socket \in closed
    BY <1>1 DEF Alive
  <2>3. Tail(ready) \in Seq(Traffic)
    BY <1>2, <1>9
  <2>4. \/ ready' = Tail(ready)
        \/ ready' = Append(Tail(ready), Written(write_socket, "error", Len(q)))
    BY <1>9, <2>2 DEF start_async_write
  <2>5. ready' \in Seq(Traffic)
    BY <2>1, <2>3, <2>4
  <2>. QED BY <1>1, <1>9, <2>2, <2>5 DEF start_async_write
<1>10. CASE write_lambda
  <2>1. write_queue' \in Seq(Messages)
    <3>1. Head(ready).msg \in Messages
      BY <1>2, <1>10 DEF write_lambda
    <3>. QED BY <1>10, <3>1 DEF write_lambda, Inv, Typed
  <2>2. ready' \in Seq(Traffic) /\ DOMAIN writing' = {}
    BY <1>1, <1>2, <1>9, <1>10, <2>1 DEF write_lambda
  <2>. QED BY <1>1, <1>5, <1>10, <2>1, <2>2 DEF write_lambda, read
<1>11. CASE on_written
  <2>1. write_queue' \in Seq(Messages)
    BY <1>2, <1>11, Deleted DEF on_written, Inv
  <2>2. ready' \in Seq(Traffic) /\ DOMAIN writing' = {}
    BY <1>1, <1>2, <1>9, <1>11, <2>1 DEF on_written
  <2>. QED BY <1>1, <1>5, <1>11, <2>1, <2>2 DEF on_written, read
<1>12. CASE on_written_failed
  <2>1. write_queue' \in Seq(Messages)
    BY <1>2, <1>12, Deleted DEF on_written_failed, Inv
  <2>2. Written(write_socket, "error", Len(write_queue')) \in Traffic
    BY <2>1, HandlersAre DEF Inv, Typed
  <2>3. Tail(ready) \in Seq(Traffic)
    BY <1>2, <1>12 DEF on_written_failed
  <2>4. ready' \in Seq(Traffic)
    BY <1>4, <1>12, <2>2, <2>3 DEF on_written_failed
  <2>5. reading' = {} /\ DOMAIN writing' = {} /\ on_failed
    BY <1>1, <1>3, <1>12 DEF on_written_failed, on_failed
  <2>. QED BY <1>5, <1>12, <2>1, <2>4, <2>5 DEF on_written_failed
<1>13. CASE on_written_aborted
  <2>1. write_queue' \in Seq(Messages)
    BY <1>2, <1>13, Deleted DEF on_written_aborted, Inv
  <2>. QED BY <1>1, <1>2, <1>5, <1>13, <2>1 DEF on_written_aborted, read
<1>14. ~(on_retry_timer_tick \/ on_resolve_failed \/ on_resolved \/ on_connect_failed \/ on_connected)
  <2>1. ASSUME NEW kind, NEW ec, Runs(kind, ec)
        PROVE  kind \notin {"on_retry_timer_tick", "on_resolved", "on_connected"}
    BY <1>2, <2>1 DEF Sent
  <2>. QED BY <2>1 DEF on_retry_timer_tick, on_resolve_failed, on_resolved, on_connect_failed, on_connected
<1>. QED BY <1>6, <1>7, <1>8, <1>10, <1>11, <1>12, <1>13, <1>14 DEF Handlers

----------------------------------------------------------------------------
(* An attempt.                                                             *)

\* The one handler of an attempt runs.
LEMMA TryingKeeps ==
  ASSUME Inv, Trying, Handlers
  PROVE  Inv'
<1> DEFINE h == Head(ready)
<1>1. /\ socket = None /\ timer = "off" /\ reading = {} /\ DOMAIN writing = {}
      /\ read_socket \in closed \cup {None} /\ write_socket \in closed \cup {None}
      /\ \A p \in Publishers : publisher[p] = Idle
      /\ Len(ready) = 1 /\ ready \in Seq(Entries) /\ Attempt(h) /\ resolving = 0 /\ connecting = {}
  <2>1. ready # <<>>
    BY DEF Handlers, on_retry_timer_tick, on_resolve_failed, on_resolved, on_connect_failed, on_connected,
           on_receive, on_receive_failed, on_receive_aborted, write_lambda, on_written, on_written_failed,
           on_written_aborted, Runs
  <2>. QED BY <2>1 DEF Trying
<1>2. Tail(ready) = <<>>
  <2>1. Tail(ready) \in Seq(Entries) /\ Len(Tail(ready)) = 0
    BY <1>1
  <2>. QED BY <2>1
<1>3. Aborted(socket) = <<>>
  BY <1>1, NothingAborted
<1>4. force_close => closed' = closed /\ DOMAIN writing' = {}
  BY <1>1 DEF force_close
<1>5. CASE on_retry_timer_tick
  <2>1. /\ closed' = closed /\ DOMAIN writing' = {} /\ reading' = {} /\ socket' = None
        /\ resolving' = 1 /\ ready' = <<>> /\ made <= faults
        /\ UNCHANGED <<made, timer, connecting, read_socket, write_socket, write_queue, broken, faults, publisher>>
    BY <1>1, <1>2, <1>3, <1>4, <1>5 DEF on_retry_timer_tick, Attempt, Runs, env
  <2>2. Typed'
    BY <2>1 DEF Inv, Typed, None
  <2>3. Trying'
    BY <1>1, <2>1 DEF Trying, Idle
  <2>. QED BY <2>2, <2>3 DEF Inv
<1>6. CASE on_resolve_failed \/ on_connect_failed
  <2>1. /\ timer' = "armed" /\ ready' = <<>> /\ made <= faults
        /\ UNCHANGED <<socket, made, closed, resolving, connecting, reading, read_socket, writing, write_socket,
                       write_queue, broken, faults, publisher>>
    BY <1>1, <1>2, <1>6 DEF on_resolve_failed, on_connect_failed, Attempt, Runs, read, write, env
  <2>2. Typed'
    BY <2>1 DEF Inv, Typed
  <2>3. Down'
    BY <1>1, <2>1 DEF Down
  <2>. QED BY <2>2, <2>3 DEF Inv
<1>7. CASE on_resolved
  <2>1. /\ timer' = "off" /\ ready' = <<>> /\ made <= faults /\ made' = made + 1 /\ connecting' = {made + 1}
        /\ UNCHANGED <<socket, closed, resolving, reading, read_socket, writing, write_socket,
                       write_queue, broken, faults, publisher>>
    BY <1>1, <1>2, <1>7 DEF on_resolved, Attempt, Runs, read, write, env
  <2>2. Typed'
    BY <2>1 DEF Inv, Typed
  <2>3. Fresh'
    BY <2>1 DEF Fresh, Inv, Typed
  <2>4. Trying'
    BY <1>1, <2>1, <2>3 DEF Trying, Idle
  <2>. QED BY <2>2, <2>4 DEF Inv
<1>8. CASE on_connected
  <2>1. h.socket = made /\ Fresh
    BY <1>1, <1>8 DEF on_connected, Attempt, Runs
  <2>2. /\ timer' = "off" /\ socket' = made /\ reading' = {made} /\ read_socket' = made
        /\ write_socket' = made /\ write_queue' = <<>> /\ ready' = <<Posted(READY, made)>>
        /\ closed' = closed /\ DOMAIN writing' = {} /\ said' = {}
        /\ UNCHANGED <<made, resolving, connecting, broken, faults, publisher>>
    <3>1. ready' = Tail(ready) \o Aborted(socket) \o <<Posted(READY, made)>>
      BY <1>8, <2>1 DEF on_connected, publish_ready
    <3>2. ready' = <<Posted(READY, made)>>
      <4>1. ASSUME NEW x PROVE <<>> \o <<>> \o <<x>> = <<x>>
        OBVIOUS
      <4>. QED BY <1>2, <1>3, <3>1, <4>1
    <3>. QED BY <1>1, <1>4, <1>8, <2>1, <3>2 DEF on_connected, queue_after_reset, env
  <2>3. Typed'
    BY <2>2 DEF Inv, Typed
  <2> DEFINE g == Posted(READY, made)
  <2>4. g \in Traffic /\ g.kind = "post" /\ g.ec = "ok" /\ g.msg = READY /\ g.socket = made
    BY HandlersAre DEF Inv, Typed, Messages
  <2>5. g \in Current' /\ g \notin Receipts /\ g \notin Writtens /\ g \in Hello'
    BY <2>2, <2>4 DEF Current, Receipts, Writtens, Hello, Traffic
  <2> HIDE DEF g
  <2>6. ready' = Append(<<>>, g) /\ g \in Current' /\ <<>> \in Seq(Current')
    BY <2>2, <2>5 DEF g
  <2>7. /\ ready' \in Seq(Current')
        /\ \A P : Count(ready', P) = IF g \in P THEN 1 ELSE 0
    <3>1. \A P : Count(<<>>, P) = 0
      BY CountEmpty
    <3>2. ASSUME NEW P PROVE Count(ready', P) = IF g \in P THEN 1 ELSE 0
      <4>1. <<>> \in Seq(Traffic)
        OBVIOUS
      <4>2. Count(Append(<<>>, g), P) = IF g \in P THEN Count(<<>>, P) + 1 ELSE Count(<<>>, P)
        BY <2>4, <4>1, CountAppended DEF g
      <4>. QED BY <2>6, <3>1, <4>2
    <3>. QED BY <2>6, <3>2
  <2>8. Count(ready', Receipts) = 0 /\ Count(ready', Writtens) = 0 /\ Count(ready', Hello') = 1
    BY <2>5, <2>7
  <2>9. Up'
    BY <1>1, <2>1, <2>2, <2>7, <2>8 DEF Up, Fresh, Inv, Typed
  <2>. QED BY <2>3, <2>9 DEF Inv
<1>9. ~(on_receive \/ on_receive_failed \/ on_receive_aborted \/ write_lambda \/ on_written
        \/ on_written_failed \/ on_written_aborted)
  BY <1>1 DEF Attempt, Runs, on_receive, on_receive_failed, on_receive_aborted, write_lambda, on_written,
              on_written_failed, on_written_aborted
<1>. QED BY <1>5, <1>6, <1>7, <1>8, <1>9 DEF Handlers

\* The host is resolved, and connected to, or not.
LEMMA CompletionKeeps ==
  ASSUME Inv, NEW ec \in {"ok", "error"}, Completions(ec)
  PROVE  Inv'
<1>1. Trying
  BY DEF Completions, resolve_completed, connect_completed, Inv, Down, Up
<1>2. /\ UNCHANGED <<socket, made, closed, timer, reading, read_socket, writing, write_socket, write_queue,
                     broken, publisher, said>>
      /\ faults' \in 0 .. MaxFaults /\ faults' >= faults /\ (ec = "error" => faults' = faults + 1)
  BY FaultsAssumption DEF Completions, resolve_completed, connect_completed, Fault, read, write, Inv, Typed
<1>3. Typed'
  BY <1>2 DEF Inv, Typed
<1>4. CASE resolve_completed(ec)
  <2> DEFINE h == Handler("on_resolved", None, ec)
  <2>1. /\ ready = <<>> /\ resolving = 1 /\ connecting = {} /\ made <= faults /\ resolving' = 0
        /\ ready' = Append(ready, h) /\ connecting' = connecting
    BY <1>1, <1>4 DEF Trying, resolve_completed
  <2>2. h \in Entries /\ h.kind = "on_resolved" /\ h.ec = ec
    BY DEF Handler, Entries, None, Messages
  <2> HIDE DEF h
  <2>3. Len(ready') = 1 /\ ready' \in Seq(Entries) /\ Head(ready') = h
    BY <2>1, <2>2
  <2>4. made' <= faults'
    BY <1>2, <2>1 DEF Inv, Typed
  <2>5. Trying'
    BY <1>1, <1>2, <2>1, <2>2, <2>3, <2>4 DEF Trying, Attempt, Idle
  <2>. QED BY <1>3, <2>5 DEF Inv
<1>5. ASSUME NEW s \in Sockets, connect_completed(s, ec) PROVE Inv'
  <2> DEFINE h == Handler("on_connected", s, ec)
  <2>1. /\ ready = <<>> /\ resolving = 0 /\ s = made /\ Fresh /\ resolving' = 0 /\ connecting' = {}
        /\ ready' = Append(ready, h)
    BY <1>1, <1>5 DEF Trying, connect_completed
  <2>2. h \in Entries /\ h.kind = "on_connected" /\ h.ec = ec /\ h.socket = made
    BY <2>1 DEF Handler, Entries, Messages, Inv, Typed
  <2> HIDE DEF h
  <2>3. Len(ready') = 1 /\ ready' \in Seq(Entries) /\ Head(ready') = h
    BY <2>1, <2>2
  <2>4. /\ ec = "ok" => Fresh'
        /\ ec = "error" => made' <= faults'
    <3>1. made \in Nat /\ faults \in Nat /\ faults' \in Nat
      BY <1>2, FaultsAssumption DEF Inv, Typed
    <3>2. made > 0 /\ made \notin closed \cup broken /\ made <= faults + 1
      BY <2>1 DEF Fresh
    <3>3. made' = made /\ closed' = closed /\ broken' = broken /\ faults' >= faults
      BY <1>2
    <3>4. Fresh'
      <4>1. made' > 0 /\ made' \notin closed' \cup broken'
        BY <3>1, <3>2, <3>3
      <4>2. made' <= faults' + 1
        <5>1. \A m, f, g \in Nat : m <= f + 1 /\ g >= f => m <= g + 1
          OBVIOUS
        <5>. QED BY <3>1, <3>2, <3>3, <5>1
      <4>. QED BY <4>1, <4>2 DEF Fresh
    <3>5. ASSUME ec = "error" PROVE made' <= faults'
      BY <1>2, <3>1, <3>2, <3>3, <3>5
    <3>. QED BY <3>4, <3>5
  <2>5. Attempt(Head(ready))'
    BY <1>2, <2>2, <2>3, <2>4 DEF Attempt
  <2>6. Trying'
    BY <1>1, <1>2, <2>1, <2>3, <2>5 DEF Trying, Idle
  <2>. QED BY <1>3, <2>6 DEF Inv
<1>. QED BY <1>4, <1>5 DEF Completions

----------------------------------------------------------------------------
(* The link is up.                                                         *)

\* A prefix has the elements of what it begins, and stays one when that grows.
LEMMA PrefixGrows ==
  ASSUME NEW E, NEW s \in Seq(E), NEW t \in Seq(E), NEW e \in E, IsPrefix(s, t)
  PROVE  /\ Len(s) <= Len(t) /\ \A i \in 1 .. Len(s) : s[i] = t[i]
         /\ IsPrefix(s, Append(t, e))
<1>1. Len(s) <= Len(t) /\ SubSeq(s, 1, Len(s)) = SubSeq(t, 1, Len(s))
  BY DEF IsPrefix
<1>2. ASSUME NEW i \in 1 .. Len(s) PROVE s[i] = t[i]
  <2>1. SubSeq(s, 1, Len(s))[i] = s[i] /\ SubSeq(t, 1, Len(s))[i] = t[i]
    BY <1>1
  <2>. QED BY <1>1, <2>1
<1>3. SubSeq(Append(t, e), 1, Len(s)) = SubSeq(t, 1, Len(s))
  BY <1>1
<1>. QED BY <1>1, <1>2, <1>3 DEF IsPrefix

\* A write of the queue is put in the place there is for it.
LEMMA WriteStarted ==
  ASSUME NEW q \in Seq(Messages), NEW s, DOMAIN writing = {},
         writing' = [t \in DOMAIN writing \cup {s} |-> IF t = s THEN q ELSE writing[t]]
  PROVE  DOMAIN writing' = {s} /\ writing'[s] = q /\ IsPrefix(q, q)
BY DEF IsPrefix

\* No write is started over another one.
Kept == \A s \in DOMAIN writing \cap DOMAIN writing' : writing'[s] = writing[s]

\* A handler runs while the link is up.
LEMMA RunsUp ==
  ASSUME Up, NEW kind, NEW ec, Runs(kind, ec)
  PROVE  /\ Head(ready) \in Current /\ Head(ready).kind = kind /\ Head(ready).ec = ec
         /\ kind \in Sent /\ ec \in {"ok", "error"}
         /\ Tail(ready) \in Seq(Current) /\ Tail(ready) \in Seq(Traffic)
         /\ \A P : /\ Count(ready, P) \in Nat /\ Count(Tail(ready), P) \in Nat
                   /\ Head(ready) \in P => Count(Tail(ready), P) = Count(ready, P) - 1
                   /\ Head(ready) \notin P => Count(Tail(ready), P) = Count(ready, P)
<1>1. ready \in Seq(Current) /\ ready # <<>>
  BY DEF Up, Runs
<1>2. /\ Tail(ready) \in Seq(Current) /\ Head(ready) \in Current
      /\ \A P : /\ Count(ready, P) \in Nat /\ Count(Tail(ready), P) \in Nat
                /\ Head(ready) \in P => Count(Tail(ready), P) = Count(ready, P) - 1
                /\ Head(ready) \notin P => Count(Tail(ready), P) = Count(ready, P)
  BY <1>1, Taken
<1>3. Tail(ready) \in Seq(Traffic)
  BY <1>2 DEF Current
<1>4. Head(ready).kind = kind /\ Head(ready).ec = ec /\ kind \in Sent /\ ec \in {"ok", "error"}
  BY <1>2 DEF Runs, Current, Traffic, Entries
<1>. QED BY <1>2, <1>3, <1>4

\* The connection is lost, which is not noticed yet.
LEMMA LostKeeps == Inv /\ connection_lost => Inv' /\ Kept
<1>. SUFFICES ASSUME Inv, connection_lost PROVE Inv' /\ Kept
  OBVIOUS
<1>1. /\ UNCHANGED <<socket, made, closed, timer, resolving, connecting, reading, read_socket, writing,
                     write_socket, write_queue, ready, publisher, said>>
      /\ socket # None /\ broken' = broken \cup {socket} /\ faults < MaxFaults /\ faults' = faults + 1
  BY DEF connection_lost, Fault, conn, read, write
<1>2. Up
  BY <1>1 DEF Inv, Down, Trying
<1>3. Typed'
  BY <1>1, <1>2, FaultsAssumption DEF Inv, Typed, Up
<1>4. ready' \in Seq(Current')
  <2>1. Current \subseteq Current'
    BY <1>1 DEF Current
  <2>. QED BY <1>1, <1>2, <2>1 DEF Up
<1>5. made' <= faults' /\ made' <= faults' + 1
  BY <1>1, <1>2, FaultsAssumption DEF Up, Inv, Typed
<1>6. Hello' = Hello
  BY <1>1 DEF Hello
<1>7. Up'
  BY <1>1, <1>2, <1>4, <1>5, <1>6 DEF Up
<1>. QED BY <1>1, <1>3, <1>7 DEF Inv, Kept

\* A read or a write of the present socket completes.
LEMMA TransferKeeps ==
  ASSUME Inv, NEW s \in Sockets, read_completed(s) \/ write_completed(s)
  PROVE  Inv' /\ Kept
<1>1. Up /\ s = socket
  BY DEF read_completed, write_completed, Inv, Down, Trying, Up
<1>2. /\ socket \in Nat /\ Outcome(s) \in {"ok", "error"} /\ (Outcome(s) = "error" => socket \in broken)
      /\ Outcome(s) = "ok" => socket \notin broken
      /\ ready \in Seq(Current) /\ \A P : Count(ready, P) \in Nat
  BY <1>1, CountNat DEF Outcome, Up, Inv, Typed
<1>3. CASE read_completed(s)
  <2> DEFINE h == Handler("on_receive", s, Outcome(s))
  <2>1. /\ socket \in reading /\ reading' = reading \ {socket} /\ ready' = Append(ready, h)
        /\ UNCHANGED <<socket, made, closed, timer, resolving, connecting, read_socket, writing,
                       write_socket, write_queue, broken, faults, publisher, said>>
    BY <1>1, <1>3 DEF read_completed, conn, write, env
  <2>2. h \in Traffic /\ h.kind = "on_receive" /\ h.socket = socket /\ h.ec = Outcome(s)
    BY <1>1, <1>2, HandlersAre
  <2> HIDE DEF h
  <2>3. h \in Current /\ h \in Receipts /\ h \notin Writtens /\ h \notin Hello
    BY <1>2, <2>2 DEF Current, Receipts, Writtens, Hello, Traffic
  <2>4. /\ ready' \in Seq(Current) /\ Count(ready', Receipts) = Count(ready, Receipts) + 1
        /\ Count(ready', Writtens) = Count(ready, Writtens) /\ Count(ready', Hello) = Count(ready, Hello)
    BY <1>2, <2>1, <2>3, Put
  <2>5. Current' = Current /\ Hello' = Hello
    BY <2>1 DEF Current, Hello
  <2>6. Typed'
    BY <2>1 DEF Inv, Typed
  <2>7. Count(ready', Receipts) + (IF socket' \in reading' THEN 1 ELSE 0) = 1
    BY <1>1, <1>2, <2>1, <2>4 DEF Up
  <2>8. Up'
    BY <1>1, <2>1, <2>4, <2>5, <2>7 DEF Up
  <2>. QED BY <2>1, <2>6, <2>8 DEF Inv, Kept
<1>4. CASE write_completed(s)
  <2> DEFINE h == Written(s, Outcome(s), Len(writing[s]))
  <2>1. /\ socket \in DOMAIN writing /\ ready' = Append(ready, h)
        /\ writing' = [t \in DOMAIN writing \ {socket} |-> writing[t]]
        /\ said' = IF socket \notin broken THEN said \cup ToSet(writing[socket]) ELSE said
        /\ UNCHANGED <<socket, made, closed, timer, resolving, connecting, reading, read_socket,
                       write_socket, write_queue, broken, faults, publisher>>
    BY <1>1, <1>4 DEF write_completed, conn, read, env
  <2>2. DOMAIN writing' = {} /\ Kept
    BY <1>1, <2>1 DEF Up, Kept
  <2>3. writing[socket] \in Seq(Messages) /\ write_queue \in Seq(Messages) /\ READY \in Messages
    BY <2>1 DEF Inv, Typed, Messages
  <2>4. h \in Traffic /\ h.kind = "written" /\ h.socket = socket /\ h.ec = Outcome(s) /\ h.count = Len(writing[socket])
    BY <1>1, <1>2, <2>3, HandlersAre
  <2> HIDE DEF h
  <2>5. /\ Len(writing[socket]) <= Len(write_queue)
        /\ \A i \in 1 .. Len(writing[socket]) : writing[socket][i] = write_queue[i]
    BY <1>1, <2>1, <2>3, PrefixGrows DEF Up
  <2>6. h \in Current'
    <3>1. ASSUME h.ec = "ok", NEW j \in 1 .. h.count PROVE write_queue[j] \in said'
      BY <1>2, <2>1, <2>3, <2>4, <2>5, <3>1 DEF ToSet
    <3>. QED BY <1>2, <2>1, <2>4, <2>5, <3>1 DEF Current
  <2>7. Current \subseteq Current' /\ Hello' = Hello
    BY <2>1 DEF Current, Hello
  <2>8. h \notin Receipts /\ h \in Writtens /\ h \notin Hello
    BY <2>4 DEF Receipts, Writtens, Hello, Traffic
  <2>9. /\ ready' \in Seq(Current') /\ Count(ready', Receipts) = Count(ready, Receipts)
        /\ Count(ready', Writtens) = Count(ready, Writtens) + 1 /\ Count(ready', Hello) = Count(ready, Hello)
    <3>1. ready \in Seq(Current')
      BY <1>2, <2>7
    <3>. QED BY <2>1, <2>6, <2>8, <3>1, Put
  <2>10. Typed'
    BY <2>1, <2>2 DEF Inv, Typed
  <2>11. Count(ready', Writtens) + (IF socket' \in DOMAIN writing' THEN 1 ELSE 0) = IF write_queue' = <<>> THEN 0 ELSE 1
    BY <1>1, <1>2, <2>1, <2>2, <2>9 DEF Up
  <2>12. READY \in said \cup ToSet(write_queue) => READY \in said' \cup ToSet(write_queue')
    BY <2>1
  <2>13. Up'
    BY <1>1, <2>1, <2>2, <2>7, <2>9, <2>11, <2>12 DEF Up
  <2>. QED BY <2>2, <2>10, <2>13 DEF Inv
<1>. QED BY <1>3, <1>4

\* A block was read, and the next read begins.
LEMMA ReceiveKeeps ==
  ASSUME Inv, Up, on_receive
  PROVE  Inv' /\ Kept
<1>1. /\ Head(ready) \in Current /\ Head(ready).kind = "on_receive"
      /\ Tail(ready) \in Seq(Current)
      /\ \A P : /\ Count(ready, P) \in Nat /\ Count(Tail(ready), P) \in Nat
                /\ Head(ready) \in P => Count(Tail(ready), P) = Count(ready, P) - 1
                /\ Head(ready) \notin P => Count(Tail(ready), P) = Count(ready, P)
  BY RunsUp DEF on_receive
<1>2. Head(ready) \in Receipts /\ Head(ready) \notin Writtens /\ Head(ready) \notin Hello
  BY <1>1 DEF Current, Traffic, Receipts, Writtens, Hello
<1>3. socket \in Nat /\ socket # None /\ read_socket = socket /\ socket \notin closed
  BY DEF Up, Inv, Typed, None
<1>4. ready' = Tail(ready) \o <<>> /\ reading' = reading \cup {socket}
  BY <1>3 DEF on_receive, Alive
<1>5. ready' = Tail(ready)
  BY <1>1, <1>4
<1>6. UNCHANGED <<socket, made, closed, timer, resolving, connecting, read_socket, writing, write_socket,
                  write_queue, broken, faults, publisher, said>>
  BY DEF on_receive, conn, write, env
<1>7. Current' = Current /\ Hello' = Hello
  BY <1>6 DEF Current, Hello
<1>8. Typed'
  BY <1>6 DEF Inv, Typed
<1>9. Count(ready', Receipts) + (IF socket' \in reading' THEN 1 ELSE 0) = 1
  <2>1. Count(ready, Receipts) \in Nat /\ Count(Tail(ready), Receipts) = Count(ready, Receipts) - 1
        /\ Count(Tail(ready), Receipts) \in Nat
    BY <1>1, <1>2
  <2>2. Count(ready, Receipts) + (IF socket \in reading THEN 1 ELSE 0) = 1
    BY DEF Up
  <2>3. Count(Tail(ready), Receipts) = 0
    BY <2>1, <2>2
  <2>. QED BY <1>4, <1>5, <1>6, <2>3
<1>10. Up'
  BY <1>1, <1>2, <1>4, <1>5, <1>6, <1>7, <1>9 DEF Up
<1>. QED BY <1>6, <1>8, <1>10 DEF Inv, Kept

\* A failure is of a broken connection, and leaves the link down.
LEMMA FailureKeeps ==
  ASSUME Inv, Up, on_receive_failed \/ on_written_failed
  PROVE  Inv' /\ Kept
<1>1. /\ Head(ready) \in Current /\ Head(ready).ec = "error" /\ Tail(ready) \in Seq(Traffic)
  <2>1. CASE on_receive_failed
    BY <2>1, RunsUp DEF on_receive_failed
  <2>2. CASE on_written_failed
    BY <2>2, RunsUp DEF on_written_failed
  <2>. QED BY <2>1, <2>2
<1>2. socket \in broken /\ made <= faults
  BY <1>1 DEF Current, Up
<1>3. /\ socket \in Nat /\ socket # None /\ socket \in 1 .. made /\ read_socket = socket /\ write_socket = socket
      /\ reading \subseteq {socket} /\ DOMAIN writing \subseteq {socket}
  BY DEF Up, Inv, Typed, None
<1>4. /\ closed' = closed \cup {socket} /\ DOMAIN writing' = {} /\ reading' = {} /\ socket' = None
      /\ timer' = "armed"
      /\ UNCHANGED <<made, resolving, connecting, broken, faults, write_socket, publisher>>
      /\ read_socket' \in {read_socket, None}
  BY <1>3 DEF on_receive_failed, on_written_failed, on_failed, force_close, env
<1>5. write_queue' \in Seq(Messages)
  BY <1>1, Deleted DEF Current, Traffic, Entries, on_receive_failed, on_written_failed, Inv, Typed
<1>6. ready' \in Seq(Traffic)
  <2>1. Aborted(socket) \in Seq(Traffic)
    BY <1>3, AbortedAre DEF Inv
  <2>2. Written(write_socket, "error", Len(write_queue')) \in Traffic
    BY <1>3, <1>5, HandlersAre
  <2>3. \/ ready' = Tail(ready) \o Aborted(socket)
        \/ ready' = Tail(ready) \o Aborted(socket) \o <<>>
        \/ ready' = Tail(ready) \o Aborted(socket) \o <<Written(write_socket, "error", Len(write_queue'))>>
    BY DEF on_receive_failed, on_written_failed
  <2>4. \A T, A \in Seq(Traffic), e \in Traffic :
          T \o A \in Seq(Traffic) /\ T \o A \o <<>> \in Seq(Traffic) /\ T \o A \o <<e>> \in Seq(Traffic)
    OBVIOUS
  <2>. QED BY <1>1, <2>1, <2>2, <2>3, <2>4
<1>7. Typed'
  BY <1>3, <1>4, <1>5 DEF Inv, Typed, None
<1>8. Down'
  BY <1>2, <1>3, <1>4, <1>6 DEF Down, Up
<1>. QED BY <1>4, <1>7, <1>8 DEF Inv, Kept

\* A write is started on a socket that is open.
LEMMA StartsUp ==
  ASSUME Up, NEW q, start_async_write(q)
  PROVE  /\ ready' = Tail(ready)
         /\ writing' = [t \in DOMAIN writing \cup {socket} |-> IF t = socket THEN q ELSE writing[t]]
<1>1. Alive(write_socket) /\ write_socket \notin closed /\ write_socket = socket
  BY DEF Up, Alive, None
<1>. QED BY <1>1 DEF start_async_write

\* A message is queued, and written if it is the first.
LEMMA PostKeeps ==
  ASSUME Inv, Up, write_lambda
  PROVE  Inv' /\ Kept
<1> DEFINE e == Head(ready)
<1>1. /\ e \in Current /\ e.kind = "post" /\ Tail(ready) \in Seq(Current)
      /\ \A P : /\ Count(ready, P) \in Nat /\ Count(Tail(ready), P) \in Nat
                /\ e \in P => Count(Tail(ready), P) = Count(ready, P) - 1
                /\ e \notin P => Count(Tail(ready), P) = Count(ready, P)
  BY RunsUp DEF write_lambda
<1>2. e \notin Receipts /\ e \notin Writtens /\ e.msg \in Messages /\ (e \in Hello => e.msg = READY)
  BY <1>1 DEF Current, Traffic, Entries, Receipts, Writtens, Hello
<1>3. /\ write_queue' = Append(write_queue, e.msg)
      /\ UNCHANGED <<socket, made, closed, timer, resolving, connecting, reading, read_socket, write_socket,
                     broken, faults, publisher, said>>
  BY DEF write_lambda, conn, read, env
<1> HIDE DEF e
<1>4. /\ write_queue \in Seq(Messages) /\ write_queue' \in Seq(Messages) /\ Len(write_queue') = Len(write_queue) + 1
      /\ \A j \in 1 .. Len(write_queue) : write_queue'[j] = write_queue[j]
      /\ write_queue'[Len(write_queue')] = e.msg
  BY <1>2, <1>3 DEF Inv, Typed
<1>5. socket \in 1 .. made /\ write_socket = socket /\ DOMAIN writing \subseteq {socket}
  BY DEF Up
<1>6. /\ ready' = Tail(ready) /\ Kept /\ DOMAIN writing' \subseteq {socket}
      /\ \A s \in DOMAIN writing' : writing'[s] \in Seq(Messages)
      /\ socket \in DOMAIN writing' => IsPrefix(writing'[socket], write_queue')
      /\ Count(ready', Writtens) + (IF socket \in DOMAIN writing' THEN 1 ELSE 0) = 1
  <2>1. CASE write_queue = <<>>
    <3>1. start_async_write(write_queue')
      BY <2>1 DEF write_lambda
    <3>2. Count(ready, Writtens) = 0 /\ DOMAIN writing = {}
      <4>1. Count(ready, Writtens) \in Nat
        BY <1>1
      <4>2. Count(ready, Writtens) + (IF socket \in DOMAIN writing THEN 1 ELSE 0) = 0
        BY <2>1 DEF Up
      <4>3. Count(ready, Writtens) = 0 /\ socket \notin DOMAIN writing
        BY <4>1, <4>2
      <4>. QED BY <1>5, <4>3
    <3>3. ready' = Tail(ready) /\ DOMAIN writing' = {socket} /\ writing'[socket] = write_queue'
      BY <3>1, <3>2, StartsUp
    <3>4. IsPrefix(write_queue', write_queue')
      BY <1>4 DEF IsPrefix
    <3>. QED BY <1>1, <1>2, <1>4, <3>2, <3>3, <3>4 DEF Kept
  <2>2. CASE write_queue # <<>>
    <3>1. ready' = Tail(ready) /\ writing' = writing
      BY <2>2 DEF write_lambda
    <3>2. socket \in DOMAIN writing => IsPrefix(writing[socket], write_queue')
      BY <1>2, <1>3, PrefixGrows DEF Up, Inv, Typed
    <3>3. Count(ready, Writtens) + (IF socket \in DOMAIN writing THEN 1 ELSE 0) = 1
      BY <2>2 DEF Up
    <3>. QED BY <1>1, <1>2, <1>5, <3>1, <3>2, <3>3 DEF Kept, Inv, Typed
  <2>. QED BY <2>1, <2>2
<1>7. Typed'
  BY <1>3, <1>4, <1>6 DEF Inv, Typed
<1>8. Hello' = Hello /\ ready' \in Seq(Current')
  <2>1. ASSUME NEW g \in Current PROVE g \in Current'
    <3>1. g.kind = "written" => g.count \in Nat /\ g.count <= Len(write_queue')
                                /\ \A j \in 1 .. g.count : write_queue'[j] = write_queue[j]
      BY <1>4, <2>1 DEF Current, Traffic, Entries
    <3>. QED BY <1>3, <2>1, <3>1 DEF Current
  <2>2. Current \subseteq Current'
    BY <2>1
  <2>. QED BY <1>1, <1>3, <1>6, <2>2 DEF Hello
<1>9. READY \in said' \cup ToSet(write_queue') \/ Count(ready', Hello') > 0
  <2>1. CASE e \in Hello
    BY <1>2, <1>4, <2>1 DEF ToSet
  <2>2. CASE READY \in said \cup ToSet(write_queue)
    <3>1. ToSet(write_queue) \subseteq ToSet(write_queue')
      BY <1>4 DEF ToSet
    <3>. QED BY <1>3, <2>2, <3>1
  <2>3. CASE e \notin Hello /\ Count(ready, Hello) > 0
    BY <1>1, <1>6, <1>8, <2>3
  <2>. QED BY <2>1, <2>2, <2>3 DEF Up
<1>10. Count(ready', Receipts) + (IF socket' \in reading' THEN 1 ELSE 0) = 1
  BY <1>1, <1>2, <1>3, <1>6 DEF Up
<1>11. write_queue' # <<>>
  BY <1>4
<1>12. Up'
  BY <1>3, <1>6, <1>8, <1>9, <1>10, <1>11 DEF Up
<1>. QED BY <1>6, <1>7, <1>12 DEF Inv

\* Without entries of a kind a queue is one of the others.
LEMMA WithoutKind ==
  ASSUME NEW E, NEW s \in Seq(E), NEW P, Count(s, P) = 0
  PROVE  s \in Seq(E \ P)
<1>1. IsFiniteSet(Places(s, P)) /\ Cardinality(Places(s, P)) = 0
  BY CountNat DEF Count
<1>2. Places(s, P) = {}
  BY <1>1, FS_EmptySet
<1>3. \A i \in 1 .. Len(s) : s[i] \in E \ P
  BY <1>2 DEF Places
<1>. QED BY <1>3

\* What was written is deleted, and the rest of the queue is written.
LEMMA WrittenKeeps ==
  ASSUME Inv, Up, on_written
  PROVE  Inv' /\ Kept
<1> DEFINE e == Head(ready)
           n == e.count
<1>1. /\ e \in Current /\ e.kind = "written" /\ e.ec = "ok" /\ Tail(ready) \in Seq(Current)
      /\ \A P : /\ Count(ready, P) \in Nat /\ Count(Tail(ready), P) \in Nat
                /\ e \in P => Count(Tail(ready), P) = Count(ready, P) - 1
                /\ e \notin P => Count(Tail(ready), P) = Count(ready, P)
  BY RunsUp DEF on_written
<1>2. /\ e \notin Receipts /\ e \in Writtens /\ e \notin Hello
      /\ n \in Nat /\ n <= Len(write_queue) /\ \A j \in 1 .. n : write_queue[j] \in said
  BY <1>1 DEF Current, Traffic, Entries, Receipts, Writtens, Hello
<1>3. /\ write_queue' = delete_first_n_buffers(n)
      /\ UNCHANGED <<socket, made, closed, timer, resolving, connecting, reading, read_socket, write_socket,
                     broken, faults, publisher, said>>
      /\ IF write_queue' # <<>> THEN start_async_write(write_queue')
         ELSE ready' = Tail(ready) /\ UNCHANGED writing
  BY DEF on_written, conn, read, env
<1> HIDE DEF e, n
<1>4. socket \in 1 .. made /\ write_socket = socket /\ DOMAIN writing \subseteq {socket}
      /\ write_queue \in Seq(Messages)
  BY DEF Up, Inv, Typed
<1>5. /\ DOMAIN writing = {} /\ Count(ready, Writtens) = 1 /\ Count(Tail(ready), Writtens) = 0
  <2>1. Count(ready, Writtens) \in Nat /\ Count(Tail(ready), Writtens) \in Nat
        /\ Count(Tail(ready), Writtens) = Count(ready, Writtens) - 1
    BY <1>1, <1>2
  <2>2. Count(ready, Writtens) + (IF socket \in DOMAIN writing THEN 1 ELSE 0) \in {0, 1}
    BY DEF Up
  <2>3. Count(ready, Writtens) = 1 /\ socket \notin DOMAIN writing
    BY <2>1, <2>2
  <2>. QED BY <1>4, <2>1, <2>3
<1>6. ready' = Tail(ready) /\ Kept
  BY <1>3, <1>5, StartsUp DEF Kept
<1>7. /\ write_queue' \in Seq(Messages)
      /\ IF write_queue' = <<>> THEN DOMAIN writing' = {}
         ELSE DOMAIN writing' = {socket} /\ writing'[socket] = write_queue'
      /\ IsPrefix(write_queue', write_queue')
  <2>1. write_queue' \in Seq(Messages)
    BY <1>2, <1>3, Deleted DEF Inv
  <2>2. IsPrefix(write_queue', write_queue')
    BY <2>1 DEF IsPrefix
  <2>. QED BY <1>3, <1>5, <2>1, <2>2, StartsUp
<1>8. Typed'
  BY <1>3, <1>7 DEF Inv, Typed
<1>9. Hello' = Hello /\ ready' \in Seq(Current')
  <2>1. Tail(ready) \in Seq(Current \ Writtens)
    BY <1>1, <1>5, WithoutKind
  <2>2. Current \ Writtens \subseteq Current'
    BY <1>3 DEF Current, Writtens, Traffic
  <2>. QED BY <1>3, <1>6, <2>1, <2>2 DEF Hello
<1>10. READY \in said' \cup ToSet(write_queue') \/ Count(ready', Hello') > 0
  <2>1. CASE READY \in ToSet(write_queue)
    <3>1. PICK j \in 1 .. Len(write_queue) : write_queue[j] = READY
      BY <1>4, <2>1 DEF ToSet
    <3>2. CASE j <= n
      BY <1>2, <1>3, <3>1, <3>2
    <3>3. CASE j > n
      <4>1. write_queue' = SubSeq(write_queue, n + 1, Len(write_queue))
        BY <1>2, <1>3, <1>4, <3>3 DEF delete_first_n_buffers
      <4>2. j - n \in 1 .. Len(write_queue') /\ write_queue'[j - n] = write_queue[j]
        BY <1>2, <1>4, <3>3, <4>1
      <4>. QED BY <3>1, <4>2 DEF ToSet
    <3>. QED BY <1>2, <1>4, <3>2, <3>3
  <2>2. CASE READY \in said
    BY <1>3, <2>2
  <2>3. CASE Count(ready, Hello) > 0
    BY <1>1, <1>2, <1>6, <1>9, <2>3
  <2>. QED BY <2>1, <2>2, <2>3 DEF Up
<1>11. Count(ready', Receipts) + (IF socket' \in reading' THEN 1 ELSE 0) = 1
  BY <1>1, <1>2, <1>3, <1>6 DEF Up
<1>12. Count(ready', Writtens) + (IF socket' \in DOMAIN writing' THEN 1 ELSE 0) = IF write_queue' = <<>> THEN 0 ELSE 1
  BY <1>3, <1>5, <1>6, <1>7
<1>13. Up'
  BY <1>3, <1>6, <1>7, <1>9, <1>10, <1>11, <1>12 DEF Up
<1>. QED BY <1>6, <1>8, <1>13 DEF Inv

----------------------------------------------------------------------------
(* The invariant.                                                          *)

\* A handler runs, wherever the link stands.
LEMMA HandlersKeep ==
  ASSUME Inv, Handlers
  PROVE  Inv' /\ Kept
<1>1. CASE Down
  <2>1. Kept
    BY <1>1 DEF Down, Kept
  <2>. QED BY <1>1, <2>1, DownKeeps
<1>2. CASE Trying
  <2>1. Kept
    BY <1>2 DEF Trying, Kept
  <2>. QED BY <1>2, <2>1, TryingKeeps
<1>3. CASE Up
  <2>1. ASSUME NEW kind, NEW ec, Runs(kind, ec)
        PROVE  ec # "aborted" /\ kind \notin {"on_retry_timer_tick", "on_resolved", "on_connected"}
    BY <1>3, <2>1, RunsUp DEF Sent
  <2>2. ~(on_retry_timer_tick \/ on_resolve_failed \/ on_resolved \/ on_connect_failed \/ on_connected)
    BY <2>1 DEF on_retry_timer_tick, on_resolve_failed, on_resolved, on_connect_failed, on_connected
  <2>3. ~(on_receive_aborted \/ on_written_aborted)
    BY <2>1 DEF on_receive_aborted, on_written_aborted
  <2>. QED BY <1>3, <2>2, <2>3, ReceiveKeeps, FailureKeeps, PostKeeps, WrittenKeeps DEF Handlers
<1>. QED BY <1>1, <1>2, <1>3 DEF Inv

\* The worker begins with the link down.
LEMMA Begins == Init => Inv
<1>. SUFFICES ASSUME Init PROVE Inv
  OBVIOUS
<1>1. Typed
  BY FaultsAssumption DEF Init, Typed, None, Idle, Messages
<1>2. Down
  BY FaultsAssumption DEF Init, Down, None
<1>. QED BY <1>1, <1>2 DEF Inv

\* Every step keeps the invariant, and every write that is under way.
LEMMA StepKeeps == Inv /\ [Next]_vars => Inv' /\ (Kept \/ UNCHANGED vars)
<1>. SUFFICES ASSUME Inv, [Next]_vars PROVE Inv' /\ (Kept \/ UNCHANGED vars)
  OBVIOUS
<1>1. CASE UNCHANGED vars
  <2>1. UNCHANGED <<socket, made, closed, timer, resolving, connecting, reading, read_socket, writing,
                    write_socket, write_queue, broken, faults, ready, publisher, said>>
    BY <1>1 DEF vars, conn, read, write, env
  <2>2. Typed' = Typed /\ (Down' <=> Down)
    BY <2>1 DEF Typed, Down
  <2>3. Trying' <=> Trying
    BY <2>1 DEF Trying, Attempt, Fresh
  <2>4. Up' <=> Up
    <3>1. Current' = Current /\ Hello' = Hello
      BY <2>1 DEF Current, Hello
    <3>. QED BY <2>1, <3>1 DEF Up
  <2>. QED BY <1>1, <2>2, <2>3, <2>4 DEF Inv
<1>2. CASE Handlers
  BY <1>2, HandlersKeep
<1>3. CASE timer_expired
  BY <1>3, TimerKeeps DEF timer_expired, write, Kept
<1>4. CASE Completions("ok") \/ Completions("error")
  BY <1>4, CompletionKeeps DEF Completions, resolve_completed, connect_completed, write, Kept
<1>5. CASE connection_lost
  BY <1>5, LostKeeps
<1>6. CASE Transfers
  BY <1>6, TransferKeeps DEF Transfers
<1>7. ASSUME NEW p \in Publishers, write_locked(p) \/ write_posted(p) \/ \E m \in Msgs : publish_msg(p, m)
      PROVE  Inv' /\ Kept
  BY <1>7, PublishKeeps DEF write_locked, write_posted, publish_msg, write, Kept
<1>. QED BY <1>1, <1>2, <1>3, <1>4, <1>5, <1>6, <1>7 DEF Next

\* The link is down, in an attempt or up, and in each as described above: the
\* invariant behind the theorems below.
THEOREM Invariance == Spec => []Inv
<1>1. Inv /\ [Next]_vars => Inv'
  BY StepKeeps
<1>. QED BY Begins, <1>1, PTL DEF Spec

----------------------------------------------------------------------------
(* What follows.                                                           *)

\* A set of no elements, or of one.
LEMMA Small == ASSUME NEW e PROVE Cardinality({}) = 0 /\ Cardinality({e}) = 1
<1>1. Cardinality({}) = 0 /\ IsFiniteSet({})
  BY FS_EmptySet
<1>2. Cardinality({} \cup {e}) = Cardinality({}) + 1
  BY <1>1, FS_AddElement
<1>3. {} \cup {e} = {e}
  OBVIOUS
<1>. QED BY <1>1, <1>2, <1>3

\* The types of the state, and the number of sockets there can be.
LEMMA InvTypes == Inv => TypeOK
<1>. SUFFICES ASSUME Inv PROVE TypeOK
  OBVIOUS
<1>1. MaxFaults \in Nat /\ made \in Nat /\ faults \in 0 .. MaxFaults
  BY FaultsAssumption DEF Inv, Typed
<1>2. made <= faults \/ made <= faults + 1
  BY DEF Inv, Down, Trying, Fresh, Attempt, Up
<1>3. made <= MaxFaults + 1
  BY <1>1, <1>2
<1>4. 1 .. made \subseteq Sockets /\ 0 .. made \subseteq Sockets \cup {None}
  BY <1>1, <1>3 DEF Sockets, None
<1>5. socket \in Sockets \cup {None} /\ reading \subseteq Sockets /\ DOMAIN writing \subseteq Sockets
  BY <1>4 DEF Inv, Down, Trying, Up
<1>6. connecting \subseteq Sockets /\ Cardinality(connecting) <= 1
  <2>1. connecting = {} \/ (connecting = {made} /\ made \in 1 .. made)
    <3>1. ASSUME Trying PROVE connecting = {} \/ (connecting = {made} /\ made > 0)
      BY <3>1 DEF Trying, Fresh
    <3>. QED BY <1>1, <3>1 DEF Inv, Down, Up
  <2>2. Cardinality({}) = 0 /\ Cardinality({made}) = 1
    BY Small
  <2>. QED BY <1>4, <2>1, <2>2
<1>7. ASSUME NEW i \in DOMAIN ready PROVE ready[i].ec \in {"ok", "error", "aborted"}
  <2>1. CASE ready = <<>>
    BY <2>1
  <2>2. CASE ready \in Seq(Entries)
    <3>1. ready[i] \in Entries
      BY <2>2
    <3>. QED BY <3>1 DEF Entries
  <2>3. Traffic \subseteq Entries /\ Current \subseteq Entries
    BY DEF Traffic, Current
  <2>4. CASE ready \in Seq(Traffic) \/ ready \in Seq(Current)
    BY <2>3, <2>4 DEF Entries
  <2>. QED BY <2>1, <2>2, <2>4 DEF Inv, Down, Trying, Up
<1>8. ToSet(write_queue) \subseteq Msgs \cup {READY}
  BY DEF ToSet, Inv, Typed, Messages
<1>9. resolving \in 0 .. 1 /\ timer \in {"off", "armed"}
  BY DEF Inv, Down, Trying, Up
<1>10. closed \subseteq Sockets /\ broken \subseteq Sockets
       /\ read_socket \in Sockets \cup {None} /\ write_socket \in Sockets \cup {None}
  BY <1>4 DEF Inv, Typed
<1>11. made \in 0 .. MaxFaults + 1
  BY <1>1, <1>3
<1>. QED BY <1>5, <1>6, <1>7, <1>8, <1>9, <1>10, <1>11 DEF TypeOK

\* One attempt at a time, or a connection.
LEMMA InvAttempts == Inv => OneAttempt
<1>. SUFFICES ASSUME Inv PROVE OneAttempt
  OBVIOUS
<1> DEFINE Tries == {i \in DOMAIN ready : ready[i].kind \in {"on_retry_timer_tick", "on_resolved", "on_connected"}}
<1>1. ASSUME ready \in Seq(Traffic) \/ ready \in Seq(Current) \/ ready = <<>> PROVE Tries = {}
  <2>1. \A e \in Traffic : e.kind \notin {"on_retry_timer_tick", "on_resolved", "on_connected"}
    BY DEF Traffic, Sent
  <2>2. Current \subseteq Traffic
    BY DEF Current
  <2>. QED BY <1>1, <2>1, <2>2
<1>2. ASSUME Len(ready) = 1, ready \in Seq(Entries), Attempt(Head(ready)) PROVE Tries = {1}
  <2>1. DOMAIN ready = {1} /\ Head(ready) = ready[1]
    BY <1>2
  <2>. QED BY <1>2, <2>1 DEF Attempt
<1>3. Cardinality({}) = 0 /\ Cardinality({1}) = 1 /\ Cardinality({made}) = 1
  BY Small
<1> DEFINE Sum == Cardinality(Tries) + resolving + Cardinality(connecting)
                    + (IF timer = "armed" THEN 1 ELSE 0) + (IF socket # None THEN 1 ELSE 0)
<1> SUFFICES Sum = 1
  BY DEF OneAttempt
<1> HIDE DEF Tries
<1>4. CASE Down
  <2>1. socket = None /\ timer = "armed" /\ resolving = 0 /\ connecting = {} /\ Tries = {}
    BY <1>1, <1>4 DEF Down
  <2>2. Sum = 0 + 0 + 0 + 1 + 0
    BY <1>3, <2>1
  <2>. QED BY <2>2
<1>5. CASE Trying
  <2>1. socket = None /\ timer = "off"
    BY <1>5 DEF Trying
  <2>2. CASE ready = <<>> /\ resolving = 1 /\ connecting = {}
    <3>1. Tries = {}
      BY <1>1, <2>2
    <3>2. Sum = 0 + 1 + 0 + 0 + 0
      BY <1>3, <2>1, <2>2, <3>1
    <3>. QED BY <3>2
  <2>3. CASE ready = <<>> /\ resolving = 0 /\ connecting = {made}
    <3>1. Tries = {}
      BY <1>1, <2>3
    <3>2. Sum = 0 + 0 + 1 + 0 + 0
      BY <1>3, <2>1, <2>3, <3>1
    <3>. QED BY <3>2
  <2>4. CASE resolving = 0 /\ connecting = {} /\ Len(ready) = 1 /\ ready \in Seq(Entries) /\ Attempt(Head(ready))
    <3>1. Tries = {1}
      BY <1>2, <2>4
    <3>2. Sum = 1 + 0 + 0 + 0 + 0
      BY <1>3, <2>1, <2>4, <3>1
    <3>. QED BY <3>2
  <2>. QED BY <1>5, <2>2, <2>3, <2>4 DEF Trying
<1>6. CASE Up
  <2>1. socket # None /\ timer = "off" /\ resolving = 0 /\ connecting = {}
    BY <1>6 DEF Up, None
  <2>2. Tries = {}
    BY <1>1, <1>6 DEF Up
  <2>. QED BY <1>3, <2>1, <2>2
<1>. QED BY <1>4, <1>5, <1>6 DEF Inv

\* What there is of the present connection, while the link is up.
LEMMA InvTraffic == Inv => AlwaysListening /\ QueueMoves /\ BuffersAlive /\ Introduced
<1>. SUFFICES ASSUME Inv PROVE AlwaysListening /\ QueueMoves /\ BuffersAlive /\ Introduced
  OBVIOUS
<1>1. socket # None => Up
  BY DEF Inv, Down, Trying
<1>2. BuffersAlive
  BY DEF BuffersAlive, Inv, Down, Trying, Up
<1>3. ASSUME socket # None PROVE AlwaysListening /\ QueueMoves /\ Introduced
  <2>1. ready \in Seq(Current) /\ DOMAIN ready = 1 .. Len(ready)
    BY <1>1, <1>3 DEF Up
  <2>2. /\ Handled("on_receive", socket) = Places(ready, Receipts)
        /\ Handled("written", socket) = Places(ready, Writtens)
    <3>1. ASSUME NEW i \in 1 .. Len(ready)
          PROVE  /\ ready[i] \in Receipts <=> ready[i].kind = "on_receive" /\ ready[i].socket = socket
                 /\ ready[i] \in Writtens <=> ready[i].kind = "written" /\ ready[i].socket = socket
      BY <2>1, <3>1 DEF Current, Traffic, Receipts, Writtens
    <3>. QED BY <2>1, <3>1 DEF Handled, Places
  <2>3. ASSUME NEW S PROVE Cardinality(S \cap {socket}) = IF socket \in S THEN 1 ELSE 0
    <3>1. S \cap {socket} = IF socket \in S THEN {socket} ELSE {}
      OBVIOUS
    <3>. QED BY <3>1, Small
  <2>4. AlwaysListening
    BY <1>1, <1>3, <2>2, <2>3 DEF Up, AlwaysListening, Count
  <2>5. QueueMoves
    BY <1>1, <1>3, <2>2, <2>3 DEF Up, QueueMoves, Count
  <2>6. ASSUME Count(ready, Hello) > 0 PROVE \E i \in Handled("post", socket) : ready[i].msg = READY
    <3>1. Places(ready, Hello) # {}
      BY <2>6, FS_EmptySet DEF Count
    <3>2. PICK i \in 1 .. Len(ready) : ready[i] \in Hello
      BY <3>1 DEF Places
    <3>. QED BY <2>1, <3>2 DEF Hello, Handled
  <2>7. Introduced
    BY <1>1, <1>3, <2>6 DEF Up, Introduced
  <2>. QED BY <2>4, <2>5, <2>7
<1>. QED BY <1>2, <1>3 DEF AlwaysListening, QueueMoves, Introduced

\* supervisor_connection and its two halves keep their types; a new socket is
\* made only after a failure.
THEOREM TypeCorrect == Spec => []TypeOK
BY Invariance, InvTypes, PTL

\* supervisor_connection makes one attempt at a time, whatever fails.
THEOREM Attempts == Spec => []OneAttempt
BY Invariance, InvAttempts, PTL

\* A connected worker always reads: simple_worker_proto_handler starts the next
\* async_receive in the handler of the last.
THEOREM Listening == Spec => []AlwaysListening
BY Invariance, InvTraffic, PTL

\* The write helper has exactly one async_write while its queue is not empty.
THEOREM Moving == Spec => []QueueMoves
BY Invariance, InvTraffic, PTL

\* The buffers of the pending async_write are the head of _write_queue.
THEOREM Buffers == Spec => []BuffersAlive
BY Invariance, InvTraffic, PTL

\* on_supervisor_connected introduces the worker on every connection.
THEOREM Hellos == Spec => []Introduced
BY Invariance, InvTraffic, PTL

\* The write helper starts no async_write over a pending one.
THEOREM OneWriter == Spec => NoOverlap
<1>1. Inv /\ [Next]_vars => [Kept]_vars
  BY StepKeeps
<1>2. [Kept]_vars <=> [\A s \in DOMAIN writing \cap DOMAIN writing' : writing'[s] = writing[s]]_vars
  BY DEF Kept
<1>. QED BY Invariance, <1>1, <1>2, PTL DEF Spec, NoOverlap
=============================================================================
