# A TLA+ model of vNerveBiLiveReceptor

One *supervisor* process and any number of *worker* processes receive the live
chat of Bilibili rooms.  The supervisor fetches the list of rooms, spreads the
rooms over the workers, drops duplicates of what they deliver and publishes the
rest to AMQP.  A worker keeps one connection per assigned room and forwards what
it hears.

Paths below are relative to `src/src/`.

## 1. Inventory

| part | state | operations | thread |
|---|---|---|---|
| `scheduler_session` (supervisor/worker_scheduler) | `_workers`, `_rooms`, `_tasks`, `_last_checked` | `handle_new_worker`, `handle_buffer` (ready, failed, data), `update_room_lists`, `check_all_states` | the supervisor's `io_context` |
| `worker_connection_manager`, `worker_session` | `_sockets`, acceptor, check timer | `on_accept`, `on_timer_tick`, `disconnect_worker`, `send_message` | the same |
| `room_list_updater`, `http_interval_updater` | timer, request in flight | `reschedule_timer`, `refresh`, `on_updated` | its own |
| `config_dynamic_linker`, `command_handler` | the options, listeners of their change | `update_config`, `fire_config_changed` | the console's, and Remotery's (`profiler.cpp:31`) |
| `global_context`, `deduplicate_context` | table of checksums and their ages | `check_and_add`, `check_expire` | caller's |
| `amqp_client` | connection, channel, read buffer, heartbeat and reconnect timers | `reconnect`, `close_socket`, `on_received`, `post_payload` | its own |
| `simple_worker_proto(_handler)` | read buffer, offset, bytes to skip | `handle_simple_message`, `reset` | the socket's |
| `asio_socket_write_helper` | write queue | `write`, `on_written`, `reset` | the socket's |
| `supervisor_connection`, `supervisor_session` (worker) | socket, retry timer | `connect`, `on_resolved`, `on_connected`, `on_failed`, `publish_msg`, `on_supervisor_message` | the worker's `io_context`; `publish_msg` on any |
| `bilibili_connection_manager`, `bili_conn_ws` | map of connections, their sockets and timers | `open_connection`, `close_connection`, `on_room_closed`, `on_room_failed` | a pool of threads |
| `bilibili_live_config` | an HTTP request per connection | resolve, connect, handshake, read, parse | the pool |
| `bili_packet` | per thread: the buffer to decompress into | `handle_buffer`, `handle_packet`, `decompress_buffer` | the pool |
| `bili_json` | per thread: a `parse_context` and its message | `serialize_buffer`, `serialize_popularity` | the pool |

What is hard about it: the scheduler changes the same three tables from many
handlers, through helpers of which only some maintain the cached counters; its
periodic check is one long handler whose later phases use what its earlier ones
collected; messages of a worker are in flight while the scheduler decides; a
lost connection is only noticed by a timeout; on the worker's side callbacks of
several threads meet in one map of connections.

### What makes each part correct

- **Scheduler and connection table.** The three tables stay consistent (a task
  has a worker, a connection and a room), the cached counters are right, what
  was sent to a worker adds up to what is booked for it, a worker gets at most one
  room more than it asked for and rests after a failure; dead workers and delisted rooms go; all
  rooms are covered, about evenly, when there is room for them.
- **Framing.** However the stream is cut into blocks, the reader looks for
  headers where messages begin, and holds back no complete message.
- **Link to the supervisor.** One attempt to connect at a time; a read and at
  most one write pending; no buffer freed under a write; the ready message is
  sent, queued or about to be queued on every connection; the link comes back.
- **Room connections.** No closed entry stays in the map, no failure stays
  unnoticed, clearing the map ends, a room is received again in the end as long as
  the supervisor knows the worker.
- **Broker connection.** One connection, attempt or retry at a time; a read is
  always pending on a connection; no payload meets what belongs to an earlier
  connection; it comes back.
- **Publication.** A message with a checksum is published once at most in its
  lifetime, one without once at most in an interval, and none is lost while the
  broker is there and keeps the channel open.
- **Packets of rooms.** What reaches the supervisor is what the room sent, each
  packet under its own room, routing key and checksum, whatever the threads
  handled before and whatever is wrong with the packets around it.
- **List of rooms and options.** The list is followed in the end, through failed
  requests, wrong answers and a change of the URL; workers are compared with the
  auth code configured last.

## 2. Plan

Done, in this order:

1. `Scheduler` and `SchedulerProofs`: the heart of the program, with the table of
   worker connections it drives; `SchedulerCalm` for what it achieves undisturbed.
2. `SimpleProto` and `SimpleProtoProofs`: framing, used by both processes.
3. `WorkerLink`: the worker's end of the link with its write helper.
4. `BiliConnections`, composed with one worker's view of the scheduler in
   `RoomService`.
5. `AmqpClient`, the connection to the broker, composed with the deduplication in
   `Publication`.
6. `TaskBoard`: the abstract scheduler, which `Scheduler` implements.
7. `BiliPacket`: what a worker makes of the messages of its rooms.
8. `RoomList`: the updater of the list, its timer, and options that change.
9. The throttle of messages without a checksum, in `Publication`.

10. Proofs: that `Scheduler` implements `TaskBoard` (in `SchedulerProofs`), and the
    safety of the list of rooms, of the way to the broker, of the room connections,
    of the link and of the packets (`RoomListProofs`, `PublicationProofs`,
    `RoomServiceProofs`, `WorkerLinkProofs`, `BiliPacketProofs`).

Every safety property a run checks is proved. What remains a matter of model checking, and why, is said at the end of section 6.

## 3. The modules and the code

| module | code | how they correspond |
|---|---|---|
| `Scheduler` | `supervisor/worker_scheduler`, `supervisor/worker_connection_manager` | Both run on one thread, so a handler is an action. `check_all_states`, the long one, is cut at its phases (`pc`): scan of workers, scan of tasks, collecting workers, deleting rooms, then one action per assignment or room; nothing else, not even the clock, runs between them. Time points are ages and countdowns that `Tick` moves. `workers_available` is a set with a place for each worker (any order the unstable sort may give). The erasure within the range-for is a choice of which overdue workers are seen. |
| `TaskBoard` | the same | The abstract specification: who is told to receive what. `Scheduler` maps its workers, rooms, announced limits and messages to it; its counters, phases, sorting and timers are not seen there. |
| `SchedulerCalm` | the same | No disturbance: the handlers of the check and a punctual clock, from every booking with sound counters. |
| `SchedulerProofs` | the same | Theorems about `Scheduler`, and that it implements `TaskBoard`. |
| `SimpleProto` | `shared/simple_worker_proto`, `shared/simple_worker_proto_handler` | The buffer by its offset, what is to be skipped and what is parsed. The bytes of a length are not spelled out: a header found where a message begins says that message's length, one found elsewhere says anything. `Drift` is how far the reader stands from the start of a message. |
| `SimpleProtoProofs` | the same | Theorems about `SimpleProto`. |
| `WorkerLink` | `worker/supervisor_connection`, `shared/asio_socket_write_helper`, `shared/simple_worker_proto_handler` (reading) | Sockets are numbered; a completed operation becomes a handler in `ready`, which cannot be taken back and runs in turn. Publishers on other threads are cut where they read `_socket`, lock the write helper's pointer and post. |
| `WorkerLinkProofs` | the same | Theorems about `WorkerLink`. |
| `BiliConnections` | `worker/bilibili_connection_manager`, `worker/bili_conn_ws`, `worker/bilibili_live_config`, `worker/global_context` | Connections are objects with a stage (what their pending callback waits for). `close()` is cut into its test of `_closed`, its setting, the report and the removal from the map; each call under way is a member of `closers`. The destructor, when the last pointer goes, is such a call too. `parses` is whether `chat-config-url` is a URL at all: if not, a fetch ends without a report. |
| `RoomService` | `worker_scheduler.cpp` as one worker sees it | Tasks are given, taken, lost to a failure or a timeout, and reset with the link. `known` is whether the scheduler has a record of the worker: one that is silent for the timeout is deleted, is not told, and is ignored until its link is lost and made again. |
| `RoomServiceProofs` | the same | Theorems about `RoomService` and the `BiliConnections` in it. |
| `AmqpClient` | `supervisor/amqp_client` | One thread: a handler is an action, and `ready` the handlers waiting for it; `reconnect` is cut where it blocks (`pc`). The library behind it, AMQP-CPP, is external: its connection is `connection`, its channel is of the present connection, closed by the broker, or of an earlier connection, and what it does with a frame is opened, declared, channel_close (how the broker refuses a declaration or a payload), close, heartbeat, or a part of a frame. `buffer` tells bytes that a read may continue (`part`) from bytes that were parsed and are still counted (`stale`). An exception out of a handler ends the program (`running`). `_initializing`, which only matters within the constructor of a connection, is left out. |
| `Publication` | `supervisor/global_context`, `supervisor/deduplicate_context` | Copies of messages arrive at any time; `seen` is the container of checksums, from which nothing is ever removed; `periods` counts the lifetimes that `message-ttl-sec` would give an entry, and the intervals of the others. For messages without a checksum, `recent` says whose `last_empty_crc_received` lies within the interval; their room is known, since a task has a room (`TasksBacked`). |
| `PublicationProofs` | the same | Theorems about `Publication` and the `AmqpClient` in it. |
| `BiliPacket` | `worker/bili_packet`, `worker/bili_json`, the reading of `worker/bili_conn_ws`, `worker/simple_worker_proto_generator` (`on_room_data`) | A message is a row of packets, told apart by how they are handled; `pos` is the stack of calls of `handle_buffer` and where their loops stand; each thread has a `zlib` buffer and a `context`, the message that is filled, lent and cleared. `due` computes what a row amounts to from the row alone, as the reference `heard` is compared with. |
| `BiliPacketProofs` | the same | Theorems about `BiliPacket`, and what its rows of packets come to. |
| `RoomList` | `shared/http_interval_updater`, `supervisor/room_list_updater`, `shared/config.h`, `worker_scheduler.cpp` (what is posted to it) | Four threads: the updater's, cut at its blocking request; the console's and Remotery's, which take commands, cut at the beginning and end of an assignment and at the listener; the scheduler's, which runs what they post (`posted`). Who reads a string that is being assigned may find anything. A code is the 32 bytes workers are compared with, and whether it fits `_auth_code`. Two assignments of one string that overlap, and a code that is too long, are `undefined` behaviour: the model ends there. |
| `RoomListProofs` | the same | Theorems about `RoomList`. |
| `QueueCounts` | none | Lemmas: how many handlers of a kind wait in a queue, before and after one is put or taken. `PublicationProofs` and `WorkerLinkProofs` rest on them. |

Each `MC` module is the instance TLC checks. Definitions named `Slip_X` are
deliberately wrong variants of `X`: put in its place, each makes the property
that names the mistake fail, which shows that the property can fail at all. No
specification uses them.

## 4. What the runs show

| run | instance | shows |
|---|---|---|
| `safety` | 2 workers, 2 rooms, all disturbances | `TypeOK`; `TasksBacked`, `CountersSound`, `ToldMatchesTasks`: tables, counters and messages agree in every phase of every handler; `FailedWorkerRests`; `ImplementsTaskBoard`: every step is a step of the abstract board or none |
| `reaping` | 2 workers, 1 room, fairness | `DeadWorkerReaped`, `DelistedRoomDeleted` |
| `calm` | 4 workers that announce 2 rooms, 3 rooms | `AllRoomsCovered`, `RangeBounded`, from every booking. Four workers are what it takes for two covered rooms to differ by 3 |
| `framing` | buffer 6, header 2, payloads 0 to 13, 1 worker | `StandsAtHeader`, `NothingHeldBack`: payloads that fit, fit without the header only, and do not fit, cut everywhere |
| `link` | 2 publishers, 2 messages, 2 failures | one attempt, one read, one write, living buffers, the ready message, `NoOverlap`, `Reconnected` |
| `rooms` | 1 room, 3 connection objects, 2 failures, 2 messages in flight | `ClosedEntriesLeave`, `DeathsAreReported`, `ClearingEnds`, `RoomsServed` |
| `publication` | 2 messages, one without checksum, 2 copies each, 2 failures | `OneWayBack`, `ReadsPending`, `AvailableMeansDeclared`, `AtMostOnce`, `Recovered`, `PublishedWhenUp` |
| `packets` | 2 threads, 2 rooms, 3 messages with packets of every kind | `TypeOK`: a connection is served by one thread at a time; `HeardAsSent` |
| `roomlist` | 2 rooms, 2 codes and one that is too long, 2 faults, 2 options set by either of two threads | `AuthCodeFollows`, `ListFollowed` |
| `zombie`, `reconnect`, `broker` | as above | what the documentation says and the code does not do: section 7 |

**Bounds.** Ages stop one tick beyond the timeout they are compared with and
counters of time at their limits, which loses nothing: the code only compares
them. `MaxFaults` bounds how often the environment fails in `link`, `rooms`,
`publication` and `roomlist`: two let the second failure hit the recovery from the
first; the first three were run with three failures as well (`publication` with one copy of each message), with the same result. Two copies of a
message are what it takes to drop one. Messages in flight
are bounded by the names there are for them (`link`) and by `MaxOrders` (`rooms`).
Identifiers and rooms are interchangeable in `safety`, so it uses symmetry; no
run with a liveness property does. One room is enough in `rooms`: connections of
different rooms share the lock, the queue and the loop of `close_all_connections`,
which is there with one room too; the entry a late `close()` removes is that of
its own room.

The messages of `packets` are chosen so that each kind of packet comes before and
behind those it could disturb; `MaxHeard` lets two messages of a room follow one
another. In `roomlist`, two faults let a room be listed anew while its deletion is
due, or an answer be wrong after a request failed; two options let a second
assignment begin while the first code is loaded, or while the other thread is
within the first; `MaxPosted` bounds by how much
the scheduler may lag behind the updater's interval.

## 5. Fairness and timing

- *Scheduler*: the thread goes on with a check (`WF` of `CheckStep`), the timer
  of the check is served (`on_timer_tick`), time passes (`Tick`). `SF` of
  `reaped(w)`: the scan of overdue workers steps over a worker depending on where
  hashes put it, and the positions change as identifiers are drawn at random, so a
  worker that is overdue at every scan is not stepped over for ever. Nothing is
  assumed of workers.
- *Calm*: the same without `reaped`; a worker that holds tasks reports on them
  every tick (a room sends its popularity with every heartbeat).
- *Link*: the thread runs its handlers, the timer expires, every pending
  operation completes. `Settled` is an assumption on time: the retry interval (many
  seconds) is longer than a handler waits to be run and than a call of
  `publish_msg` takes. Without it a handler of the old connection can be run after
  the new one is made, and `OneAttempt`, `AlwaysListening` and `NoOverlap` fail.
- *Rooms*: both processes handle their messages, each call of `close()` and each
  callback goes on (`WF` for each connection and each kind of caller), what
  connects opens or fails. `WorkerAtRest` in `task_overdue` is an assumption on
  time too: the timeout (40 s by default) is longer than what the worker has begun
  for the room takes. A connection that is *mute* is never assumed to fail. The
  scheduler gives a room again (`WF` of `assign_task`) to a worker it knows; that it
  still knows it is not assumed, since a worker whose rooms are mute, or that rests
  after a failure, sends nothing and may be deleted (`worker_overdue`).
  `RoomsServed` says what holds while it is known.
- *Publication*: the thread runs its handlers and comes back from resolving and
  connecting, the retry expires, a broken connection fails the read on it, and the
  broker answers while its connection lasts: it confirms the exchange unless it
  closes the channel or the connection. `Recovered` excepts three ends the code
  cannot come back from, and which are described in section 7: an exception, a
  spoilt buffer, and a channel that is closed on a connection that stays.

- *Room list*: the four threads run, a request ends (which takes
  `room-list-update-timeout-sec` other than 0, libcURL's "no limit"), and the check
  of the scheduler comes round. The server answers unless it has one of the bounded
  faults; `ListFollowed` asks for a URL that is right in the end, and that nothing
  undefined has happened.
- *Packets*: no fairness; what is checked is safety.

## 6. What is proved

`SchedulerProofs`, for all sets of identifiers and rooms, all capacities,
timeouts and quotas under the assumptions named in `Scheduler`:

- `TypeCorrect` and `TasksAreBacked`, from the invariant `Tables`: `TypeOK`,
  `TasksBacked`, the locals of a check empty outside it, and `punished` false.
- `CountersAreSound` and `CapacityIsBounded` (one room more than announced, never
  two: section 7), from `Bookkeeping`: `Tables`, the counters, and the load. A capacity bound alone is not inductive: the loop tests
  `conns <= max_rooms`, the counter, so the counters have to be exact for it to
  bound the tasks, and a worker collected into `workers_available` must have been
  below its limit.
- `WorkersKnowTheirTasks`, from `Told` together with `Tables`: without
  `TasksBacked`, a message might go to an identifier nobody is connected under.
- `FailedWorkersRest`, from `Rested`: a worker's countdown and the time since its
  last failure add up to the penalty at least, and whoever is in
  `workers_available` has rested in full. The deletion of delisted rooms charges
  penalties in the middle of a check, so the countdown alone would not do.

There too: `SchedulerImplementsTaskBoard`, for all parameters with a penalty other
than 0. Each phase of a check is a step of the board of its own, or none. The
invariant `Implements` joins `Bookkeeping`, `Told` and `Rested` with `Gone`:
identifiers without a worker hold nothing, so that whoever is told of a room
later is a worker the board knows too. Without a penalty nobody rests, and the
board's rule about workers that failed would have nothing to rest on.

`SimpleProtoProofs`, for all sizes of buffer, header and payloads: `TypeCorrect`,
`HeadersAreFound` and `NoMessageIsHeldBack`, from `Framed`, which relates the
offset, the skipped bytes and the position in the stream in both phases.
`WorkerTypeCorrect` says the same of the bounds at the worker's end (`WorkerSpec`),
where `reset` keeps what belongs to the old connection: the reader may lose its
place in the stream (section 7), but never runs over its buffer.

`RoomListProofs`, for all rooms, codes and bounds: `TypeCorrect` and
`CodeFollowsOption`. A second assignment of the code, by the same thread or the
other, may begin while loads of the first wait, so `AuthCodeFollows` is not
inductive: `CodeCurrent` says that the code workers are compared with is the
configured one unless an assignment is under way or a load is posted, wherever in
the queue it stands. Both hold as long as nothing undefined has happened.

`PublicationProofs`, for all payloads, copies and numbers of failures:
`TypeCorrect`, `OneWay`, `OneRead`, `TakenWhenDeclared`, `PublishedAtMostOnce`. `Way` and `Reads`
are `OneWayBack` and `ReadsPending`, kept after an exception too, and with the
reverse, that nothing is read without a connection; `Channel` relates what is
declared to the connection it is declared on; `Accounts` says that what was
published and what is still posted are together no more than what the
deduplication and the throttle have let through: of a message with a checksum one
copy, whatever its lifetime, since nothing is ever removed.

`RoomServiceProofs`, for all rooms, connection objects and failures:
`TypeCorrect`, `ClosedLeave`, and, for a `chat-config-url` that parses,
`DeathsReported`. `ClosedEntriesLeave` is satisfied by the
call of any connection of the room; what is kept is `Leaves`: the call of the
closed connection itself has yet to come to the map. A second call for it returns
at its test of `_closed`, and is no substitute. `Calls` says that the link and the
loop of `close_all_connections` make one call at a time.

`WorkerLinkProofs`, for all publishers, messages and numbers of failures:
`TypeCorrect`, `Attempts`, `Listening`, `Moving`, `Buffers`, `Hellos`, `OneWriter`. The link is
`Down` (its timer runs; handlers of the old connection may wait, and whatever they
do, its sockets are closed), `Trying` (nothing waits but the attempt's own handler)
or `Up` (what waits to run is of the present socket, errors only if it is broken,
and what was written stands at the head of the queue). That nothing old is left
when an attempt begins is `Settled`, the assumption on time of section 5. The
number of sockets is bounded because each attempt that ended used up one of the
failures.

`BiliPacketProofs`, for all messages (rows of any length, of packets and of
compressed packets with rows of any length inside, which are not compressed
again), all threads and connections:
`TypeCorrect` and `HeardIsSent`. `HeardAsSent` says what was heard is a prefix of what
is due, which is not inductive: `Inv` says what is missing of it. What a thread has
still to handle, `Left`, is the rest of the row it is in and, if it is inside a
compressed packet, the rest of the row around it; what was heard and what those
packets say add up to what is due (`Serves`). A message that is lent is that of the
packet its thread stands at (`Tells`), one thread at most serves a connection
(`Alone`), and a connection nobody serves owes nothing (`Owed`). So a step has to be
looked at for its own thread and connection only (`Framed`). What a row amounts to
is defined by recursion (`FlattenSeq`). The lemmas on rows give it packet by packet
(`FlatCons`, `SayingCons`), by induction: the library's induction theorems cannot be
used, but that a set of numbers has a least one follows from its theorem on minimal
elements (`Least`), induction from that (`Induct`), and that there is a function
which satisfies the recursion from induction (`JoinsExist`).

The constants are assumed to be what the modules' `ASSUME`s say, and nothing else.

Model-checked only:

- all liveness, which is out of the reach of the prover;
- `AllRoomsCovered` and `RangeBounded` of `SchedulerCalm`, which are liveness too.

## 7. Where code and documentation disagree

Found by runs:

- `zombie`: `worker_session::disconnect` returns if there *is* a socket
  (`worker_connection_manager.cpp:52`), so `disconnect_worker` closes nothing. The
  trace is a ready message with a wrong auth code: the worker is deleted, its
  session dropped ("Auth failed. Disconnecting worker.", `worker_scheduler.cpp:454`),
  and its connection stays open. A worker that times out fares the same.
- `reconnect`: the worker keeps offset and bytes to skip of the old connection
  (`simple_worker_proto_handler.cpp:37`).
- `broker`: after a failed connect the socket stays, unconnected, and the next
  `reconnect` shuts it down, which throws: no further attempt is made, and the
  exception ends the program (`amqp_client.cpp:148`). The same happens when a
  connection was reset rather than ended.

Met while modelling, without a run of their own:

- Workers are erased from the map a range-for iterates over, so an overdue worker
  may survive a scan (`worker_scheduler.cpp:220`), although `supervisor/config.cpp:70`
  says that a worker silent for the threshold "will fail". `DeadWorkerReaped` shows
  that one whose connection is gone goes in the end.
- The assignment loop compares with `>` (`worker_scheduler.cpp:351`), so a worker
  may get one room more than `max-rooms`, its "Max concurrent connecting rooms."
  (`worker/config.cpp:60`); `CapacityIsBounded` proves that it is never more. On the
  worker `_max_connections` is never
  used, and a connection closed while it connects goes on, since no stage looks at
  `_closed`.
- Deleting a delisted room charges a penalty to workers that served it well, and
  that were already collected for assignment in the same check
  (`worker_scheduler.cpp:329`).
- `worker_status.punished` is never set, so penalties do not accumulate.
- `_buffer_last_remaining` is not cleared when nothing remains
  (`amqp_client.cpp:231`): after a frame that came in two parts, old bytes are
  parsed again. The connection fails, `close_socket` clears the count, and
  `on_received`, which goes on, sets it again from what could not be parsed; every
  later connection starts with those bytes and fails too.
- The broker refuses an exchange, or a payload, by closing the channel. The code
  only logs it (`amqp_client.cpp:246`, `297`), or has no handler at all (the second
  declaration, `257`): before the exchange is declared `_available` stays false,
  after it it stays true and every payload is lost; no channel is opened again
  until the connection fails.
- "CRC32 = 0: Always send." (`simple_worker_proto.h:37`) is true of the
  deduplication. Before it the scheduler lets one such message of a room pass per
  `min-interval-popularity-sec`, which `supervisor/config.cpp:80` calls the "max
  time" between two of them (`worker_scheduler.cpp:490`). `AtMostOnce` follows the
  code.
- Payloads posted while the broker is away are dropped, and their checksums stay
  among those seen, so that copies from other workers do not replace them. The
  error callback of a payload refers to a string of a closure that is gone
  (`amqp_client.cpp:297`).
- The bytes to skip of a message that does not fit leave out its header
  (`simple_worker_proto.cpp:50`), so the next header is looked for four bytes too
  early.
- The assertion of `simple_worker_proto.cpp:47` fails for a payload that fits into
  the buffer only without its header.
- `message-ttl-sec`, the "Max time to life for a message in deduplicate container."
  (`supervisor/config.cpp:79`), has no effect: `check_expire` is never called, and a
  checksum never passes again. `AtMostOnce` asks for less, once in a lifetime.
  `check-interval-ms` has none either: the timer uses the minimum interval.
- With the default settings the penalty (60 s) exceeds the timeout (40 s): a worker
  without tasks sends nothing, is dropped during its penalty and not told, and
  `AllRoomsCovered` fails. `calm` uses a penalty shorter than the timeout. The same
  happens to a worker all of whose rooms are mute: it is deleted, what it says
  later is ignored, and it serves no room until its link is lost.
- The assignment need not settle. A worker taken from a crowded room may be given
  back to it in the next check, for ever, while every room stays covered; TLC
  refutes `<>[][tasks' = tasks]_vars` for `SchedulerCalm`.
- A ready message with a wrong auth code goes on behind the rejection
  (`worker_scheduler.cpp:457`) and writes to the worker it has deleted.
- A `chat-config-url` that does not parse is logged and nothing else
  (`bilibili_live_config.cpp:290`): neither callback is called, the connection stays
  in the map, and the supervisor learns of it by its timeouts only. The option is
  read once, so that this befalls all rooms or none.
- Opening a room whose connection is open takes that connection out of the map:
  it goes on, and can no longer be closed. `RoomsServed` holds all the same.
- A compressed packet within a compressed one would be decompressed into the buffer
  that is being read, and spoil it (`bili_packet.cpp:138`); a packet of length 0
  makes `handle_buffer` stand still, and with a length of 1 to 15, less than the
  header, the size of the payload wraps (`bili_packet.cpp:130`).
- `on_receive` does not return after a failed read (`bili_conn_ws.cpp:291`): what
  came is handled and the next read started on the closed stream.
- An answer with another status than 200 is reported and used
  (`http_interval_updater.cpp:86`); a list of 4 MB is never applied.
- `room_list_updater.cpp:72` compares an iterator of `liveInfo` with the end of the
  element around it, so a `liveInfo` without `roomId` is read beyond its end.
- A room listed again before the check deletes its entry stays inactive, is deleted
  and returns with the next list only (`worker_scheduler.cpp:64`).
- String options are assigned while other threads read them (`config.h:64`), and
  two threads assign them: the console's and, through `handle_remotery_input`
  (`profiler.cpp:31`), Remotery's. Overlapping assignments are undefined.
- `load_auth_code` copies the whole code into an array of 33 bytes
  (`worker_scheduler.cpp:93`): a longer one is written over what follows it. Workers
  are compared with the first 32 (`452`).
- Every reconnect to the broker makes a channel, and the old one is never deleted
  (`amqp_client.cpp:244`).
- Different messages with equal 32-bit checksums are taken for duplicates, and
  nothing expires, so the more messages, the more are lost.

## 8. What is not modelled

- Formats: the translation of each JSON command to protobuf field by field
  (`bili_json.cpp`), the bytes of headers, the parsing of configuration files. They
  are functions of one message without state; `BiliPacket` has what surrounds them.
- The grammar of the console, the log level and its other commands; options that are
  numbers, which the modules have as constants.
- Compression within compression, and packets that claim to be shorter than their
  header (section 7).
- The plain TCP transport and the token updater, which are compiled out; the
  instrumentation of the profiler (its commands are in `RoomList`), start-up and
  Windows logging, which no other part's state depends on.
- The diagnostics: they read the tables and are published like payloads.
- The shutdown of either process.
- Data races: `close_all_connections` reads the map without the mutex; the model
  takes each of its steps as atomic, one of the outcomes of the race.
- TLS and websocket handshakes are one stage of a connection, with one failure; the
  negotiation of heartbeats with the broker is left out.
- Liveness under fairness is model-checked and not proved.
