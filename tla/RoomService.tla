---------------------------- MODULE RoomService ----------------------------
(***************************************************************************)
(* A worker's connections to its rooms under the scheduler of the          *)
(* supervisor, as far as one worker sees it: per room there is a task or   *)
(* not; a task is given and taken by messages, lost when the worker        *)
(* reports a failure or is silent about the room for too long.  A worker   *)
(* that is silent altogether is deleted and not told (worker_session::     *)
(* disconnect does nothing): its link stays, and what it says is ignored.  *)
(***************************************************************************)
EXTENDS BiliConnections

CONSTANT MaxOrders  \* bound: orders of the supervisor under way

VARIABLES
  known,  \* the scheduler has a worker_status for the worker
  task    \* the rooms of the worker's tasks

booked == <<known, task>>
svars  == <<vars, booked>>

ServiceInit == Init /\ known = TRUE /\ task = {}

Receives(r) == \E c \in Conns : stage[c] = "open" /\ room[c] = r

Send(op, r) == Len(orders) < MaxOrders /\ orders' = Append(orders, <<op, r>>)

Worker == UNCHANGED <<connections, objects, closers, clearing>>

\* assign_task, to a worker that has rested and a room that has no other worker.
assign_task(r) ==
  /\ known /\ r \notin task
  /\ Send("assign", r) /\ task' = task \cup {r}
  /\ Worker /\ UNCHANGED <<known, reports, faults>>

\* The room is delisted, or has more workers than it needs.
unassign(r) ==
  /\ r \in task /\ Fault
  /\ Send("unassign", r) /\ task' = task \ {r}
  /\ Worker /\ UNCHANGED <<known, reports>>

\* Nothing the worker has begun for the room is pending.
WorkerAtRest(r) ==
  /\ orders = <<>> /\ reports = <<>> /\ closers = {} /\ ~clearing
  /\ \A c \in Conns : room[c] = r => stage[c] \notin Connecting \cup {"silent"}

\* Slip: the worker is told, and the task is kept.
Slip_task_overdue(r) ==
  /\ r \in task /\ ~Receives(r)
  /\ WorkerAtRest(r)
  /\ Send("unassign", r)
  /\ Worker /\ UNCHANGED <<known, reports, faults, task>>

\* check_worker_task_interval, the scan of workers: no room of the worker has
\* said anything for the timeout, be it that they are mute or that the worker
\* had none while it rested.  delete_worker takes its tasks with it.
worker_overdue ==
  /\ known /\ \A r \in Rooms : ~Receives(r)
  /\ known' = FALSE /\ task' = {}
  /\ Worker /\ UNCHANGED <<orders, reports, faults>>

\* The scan of tasks behind it, of a worker that other messages have kept or
\* the scan stepped over: nothing was received for the room for longer than a
\* connection takes to open or fail and messages to arrive.
task_overdue(r) ==
  /\ r \in task /\ ~Receives(r)
  /\ WorkerAtRest(r)
  /\ Send("unassign", r) /\ task' = task \ {r}
  /\ Worker /\ UNCHANGED <<known, reports, faults>>

\* handle_buffer of a room_failed message: the task is deleted and the worker,
\* who said so, is not told.  A worker that is not known has no task.
room_failed ==
  /\ reports # <<>> /\ reports' = Tail(reports)
  /\ task' = task \ {Head(reports)}
  /\ Worker /\ UNCHANGED <<known, orders, faults>>

\* The link is lost; the ready message of the next one makes the worker known
\* under another identifier, without tasks.
link_lost == on_supervisor_disconnected /\ known' = TRUE /\ task' = {}

ServiceNext ==
  \/ WorkerNext /\ UNCHANGED booked
  \/ link_lost \/ room_failed \/ worker_overdue
  \/ \E r \in Rooms : assign_task(r) \/ unassign(r) \/ task_overdue(r)

\* Both processes handle their messages, the pool runs callbacks and calls of
\* close(), what connects opens or fails, and the scheduler checks its tasks.
\* That it assigns the room again is asked for as long as it knows the worker;
\* whether it still does is not, since a worker at rest is silent.
Fairness ==
  /\ WF_svars(HandleOrder /\ UNCHANGED booked) /\ WF_svars(room_failed)
  /\ WF_svars(close_all_connections /\ UNCHANGED booked)
  /\ \A c \in Conns, by \in {"link", "all", "callback"} :
       WF_svars((\E x \in closers : x.conn = c /\ x.by = by /\ CloseStep(x)) /\ UNCHANGED booked)
  /\ \A c \in Conns : WF_svars(Proceeds(c) /\ UNCHANGED booked)
  /\ \A r \in Rooms : WF_svars(assign_task(r)) /\ WF_svars(task_overdue(r))

ServiceSpec == ServiceInit /\ [][ServiceNext]_svars /\ Fairness

----------------------------------------------------------------------------
\* Whatever fails, is lost or is ignored by the worker, each room is received
\* for a task in the end, unless the supervisor deletes the worker: as long as
\* it knows the worker, the timeout of tasks mends what the worker's connection
\* manager leaves behind.  (It takes a chat-config-url that parses.)
RoomsServed ==
  parses => \A r \in Rooms : []<>(~known \/ (r \in task /\ Receives(r)))
=============================================================================
