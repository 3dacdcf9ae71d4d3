----------------------------- MODULE Scheduler -----------------------------
(***************************************************************************)
(* The supervisor's scheduler (scheduler_session) together with the table  *)
(* of worker connections it drives (worker_connection_manager).  Both run  *)
(* on one io_context thread, so every handler is atomic with respect to    *)
(* the others.  The long handler, check_all_states, is split into phases   *)
(* (variable pc) that run to the end before any other handler or the clock *)
(* gets a turn.                                                            *)
(*                                                                         *)
(* Time is relative: a time point of the code is an age that grows, or a   *)
(* countdown that shrinks, with the action Tick.                           *)
(***************************************************************************)
EXTENDS Integers, FiniteSets, FiniteSetsExt

CONSTANTS
  Ids,               \* identifiers on_accept can draw for a connection
  Rooms,             \* room ids the room list can name
  Caps,              \* values of max_rooms a worker may announce
  MaxCap,            \* bound of Caps
  Timeout,           \* worker-interval-threshold-sec, in ticks
  Penalty,           \* worker-penalty-min, in ticks
  MinCheckInterval,  \* min-check-interval-ms, in ticks
  MaxNew,            \* worker-max-new-tasks-per-bunch
  Throttle           \* room_disconnect_throttling at the start of a check

ASSUME IdsAssumption == IsFiniteSet(Ids) /\ IsFiniteSet(Rooms)
ASSUME TimeAssumption ==
  /\ Timeout \in Nat \ {0} /\ Penalty \in Nat /\ MinCheckInterval \in Nat
  /\ MaxNew \in Nat /\ Throttle \in Nat
ASSUME CapsAssumption == MaxCap \in Nat /\ Caps \subseteq 0 .. MaxCap

VARIABLES
  sockets,      \* keys of _sockets
  open,         \* identifiers whose TCP connection is open
  accepting,    \* an async_accept is pending
  workers,      \* keys of _workers
  max_rooms, conns, idle, cooldown, punished, remaining,  \* worker_status
  rooms,        \* keys of _rooms
  active,       \* the rooms whose room_status.active is set
  rconns,       \* room_status.current_connections
  tasks,        \* _tasks: pairs <<identifier, room>>
  task_idle,    \* now - room_task.last_received
  since_check,  \* now - _last_checked
  timer,        \* time since the check timer was armed
  pc,           \* the phase of check_all_states, "idle" between handlers
  avail, place, \* workers_available: the workers in it, and the sorted order
  todo,         \* room_need_proc, the rooms not yet handled
  max_tasks, min_tasks, throttle,  \* the other locals of check_all_states
  told,         \* history: the rooms each worker holds by the messages exchanged
  rest          \* history: ticks since the worker's last failed task

connVars   == <<sockets, open, accepting>>
workerVars == <<workers, max_rooms, conns, idle, cooldown, punished>>
roomVars   == <<rooms, active, rconns>>
taskVars   == <<tasks, task_idle>>
clockVars  == <<since_check, timer>>
localVars  == <<avail, place, remaining, todo, max_tasks, min_tasks, throttle>>
history    == <<told, rest>>
vars == <<connVars, workerVars, roomVars, taskVars, clockVars, pc, localVars, history>>

----------------------------------------------------------------------------
TasksOf(w)    == {t \in tasks : t[1] = w}
TasksIn(r)    == {t \in tasks : t[2] = r}
RoomsOf(S, w) == {t[2] : t \in {u \in S : u[1] = w}}

\* Ages are counted up to the bound that the code compares them with.
Older(f, bound) == [x \in DOMAIN f |-> IF f[x] < bound THEN f[x] + 1 ELSE f[x]]
Zeroed(f, S)    == [x \in DOMAIN f |-> IF x \in S THEN 0 ELSE f[x]]

\* reset_worker on every worker of D, max_rooms becoming m.  Neither the
\* rooms' counters nor the workers themselves hear of the cleared tasks.
reset_worker(D, m) ==
  /\ tasks' = {t \in tasks : t[1] \notin D}
  /\ task_idle' = Zeroed(task_idle, D \X Rooms)
  /\ conns' = Zeroed(conns, D)
  /\ max_rooms' = [w \in Ids |-> IF w \in D THEN m ELSE max_rooms[w]]
  /\ cooldown' = Zeroed(cooldown, D)
  /\ punished' = [w \in Ids |-> w \notin D /\ punished[w]]
  /\ idle' = Zeroed(idle, D)
  /\ told' = [w \in Ids |-> IF w \in D THEN {} ELSE told[w]]
  /\ rest' = [w \in Ids |-> IF w \in D THEN Penalty ELSE rest[w]]

\* delete_worker: an absent worker's fields are parked at their defaults.
delete_worker(D) == reset_worker(D, -1) /\ workers' = workers \ D

\* worker_session::disconnect returns at once while the session still owns
\* its socket, which it always does: the connection stays open.
session_disconnect(D) == open' = open

\* Slip: the entry of _sockets is left behind.
Slip_disconnect_worker(D) == session_disconnect(D) /\ UNCHANGED <<sockets, accepting>>

\* worker_connection_manager::disconnect_worker
disconnect_worker(D) ==
  /\ session_disconnect(D)
  /\ sockets' = sockets \ D
  /\ UNCHANGED accepting

\* Slip: the penalty is not charged.
Slip_Penalised(S) == cooldown

\* The penalty delete_task charges to a worker that loses the tasks S.
Penalised(S) ==
  [w \in Ids |-> IF \E t \in S : t[1] = w
                 THEN IF punished[w]
                      THEN cooldown[w] + Penalty * Cardinality(S \cap TasksOf(w))
                      ELSE Penalty
                 ELSE cooldown[w]]

\* Slip: the worker's counter is not decremented.
Slip_delete_task(S, desc_rank) ==
  /\ tasks' = tasks \ S
  /\ task_idle' = Zeroed(task_idle, S)
  /\ cooldown' = IF desc_rank THEN Penalised(S) ELSE cooldown
  /\ conns' = conns

\* delete_task on every task of S.
delete_task(S, desc_rank) ==
  /\ tasks' = tasks \ S
  /\ task_idle' = Zeroed(task_idle, S)
  /\ cooldown' = IF desc_rank THEN Penalised(S) ELSE cooldown
  /\ conns' = [w \in Ids |-> conns[w] - Cardinality(S \cap TasksOf(w))]

\* The rooms' half of delete_task.
RoomCountsWithout(S) == [r \in Rooms |-> rconns[r] - Cardinality(S \cap TasksIn(r))]

\* Slip: the task is erased and the worker not told.
Slip_send_unassign(S) == told' = told

\* send_unassign for every task of S, as the workers will have seen it.
send_unassign(S) == told' = [w \in Ids |-> told[w] \ RoomsOf(S, w)]

\* The frequency limiter at the head of check_all_states.
check_all_states ==
  IF since_check >= MinCheckInterval
  THEN pc' = "worker_interval" /\ since_check' = 0
  ELSE UNCHANGED <<pc, since_check>>

----------------------------------------------------------------------------
Init ==
  /\ sockets = {} /\ open = {} /\ accepting = TRUE
  /\ workers = {} /\ max_rooms = [w \in Ids |-> -1]
  /\ conns = [w \in Ids |-> 0] /\ idle = [w \in Ids |-> 0]
  /\ cooldown = [w \in Ids |-> 0] /\ punished = [w \in Ids |-> FALSE]
  /\ remaining = [w \in Ids |-> 0]
  /\ rooms = {} /\ active = {} /\ rconns = [r \in Rooms |-> 0]
  /\ tasks = {} /\ task_idle = [t \in Ids \X Rooms |-> 0]
  /\ since_check = MinCheckInterval /\ timer = 0
  /\ pc = "idle" /\ avail = {} /\ place = [w \in Ids |-> 0] /\ todo = {}
  /\ max_tasks = 0 /\ min_tasks = 0 /\ throttle = 0
  /\ told = [w \in Ids |-> {}] /\ rest = [w \in Ids |-> Penalty]

\* on_accept draws an identifier that is not in _sockets, then
\* handle_new_worker; a worker known already would be reset the same way.
on_accept(w) ==
  /\ pc = "idle" /\ accepting /\ w \notin sockets
  /\ sockets' = sockets \cup {w}
  /\ open' = open \cup {w}
  /\ workers' = workers \cup {w}
  /\ reset_worker({w}, -1)
  /\ UNCHANGED <<accepting, roomVars, clockVars, pc, localVars>>

\* on_accept when the peer is gone before remote_endpoint: it returns
\* without calling start_accept again.
on_accept_peer_gone ==
  /\ pc = "idle" /\ accepting
  /\ accepting' = FALSE
  /\ UNCHANGED <<sockets, open, workerVars, roomVars, taskVars, clockVars, pc,
                 localVars, history>>

\* The peer closes: the read handler calls worker_session::disconnect,
\* which does nothing.
connection_lost(w) ==
  /\ pc = "idle" /\ w \in open
  /\ open' = open \ {w}
  /\ UNCHANGED <<sockets, accepting, workerVars, roomVars, taskVars, clockVars,
                 pc, localVars, history>>

\* handle_buffer, WORKER_READY with the right auth code.
worker_ready(w, m) ==
  /\ pc = "idle" /\ w \in workers \cap open
  /\ reset_worker({w}, m)
  /\ check_all_states
  /\ UNCHANGED <<connVars, workers, roomVars, timer, localVars>>

\* handle_buffer, WORKER_READY that fails authentication.  The branch does
\* not return: what follows writes to the freed node, which the node pool
\* keeps and the next emplace initialises, and then runs a check.
worker_ready_rejected(w) ==
  /\ pc = "idle" /\ w \in workers \cap open
  /\ delete_worker({w})
  /\ disconnect_worker({w})
  /\ check_all_states
  /\ UNCHANGED <<roomVars, timer, localVars>>

\* handle_buffer, ROOM_FAILED.  The room is whatever the message names.
room_failed(w, r) ==
  /\ pc = "idle" /\ w \in workers \cap open
  /\ idle' = Zeroed(idle, {w})
  /\ LET S == {<<w, r>>} \cap tasks
     IN  /\ delete_task(S, TRUE)
         /\ rconns' = RoomCountsWithout(S)
         /\ rest' = IF S = {} THEN rest ELSE [rest EXCEPT ![w] = 0]
  /\ told' = [told EXCEPT ![w] = @ \ {r}]
  /\ check_all_states
  /\ UNCHANGED <<connVars, workers, max_rooms, punished, rooms, active, timer, localVars>>

\* handle_buffer, WORKER_DATA, up to the point where the payload is handed on.
worker_data(w, r) ==
  /\ pc = "idle" /\ w \in workers \cap open
  /\ idle' = Zeroed(idle, {w})
  /\ task_idle' = Zeroed(task_idle, {<<w, r>>} \cap tasks)
  /\ UNCHANGED <<connVars, workers, max_rooms, conns, cooldown, punished, roomVars,
                 tasks, clockVars, pc, localVars, history>>

\* handle_buffer for an identifier without a worker: a connection that
\* disconnect_worker forgot but did not close is still heard.
message_from_unknown(w) ==
  /\ pc = "idle" /\ w \in open \ workers
  /\ tasks' = {t \in tasks : t[1] # w}
  /\ disconnect_worker({w})
  /\ UNCHANGED <<workerVars, roomVars, task_idle, clockVars, pc, localVars, history>>

\* The function update_room_lists posts to the scheduler's thread.
update_room_lists(S) ==
  /\ pc = "idle"
  /\ rooms' = rooms \cup S
  /\ active' = (active \cap S) \cup (S \ rooms)
  /\ UNCHANGED <<connVars, workerVars, rconns, taskVars, clockVars, pc, localVars, history>>

\* Slip: the timer is armed again, the check forgotten.
Slip_on_timer_tick ==
  /\ pc = "idle" /\ timer >= MinCheckInterval
  /\ timer' = 0
  /\ UNCHANGED <<connVars, workerVars, roomVars, taskVars, since_check, pc, localVars, history>>

\* on_timer_tick: a check, then reschedule_timer.
on_timer_tick ==
  /\ pc = "idle" /\ timer >= MinCheckInterval
  /\ timer' = 0
  /\ check_all_states
  /\ UNCHANGED <<connVars, workerVars, roomVars, taskVars, localVars, history>>

Tick ==
  /\ pc = "idle"
  /\ idle' = [w \in Ids |-> IF w \in workers /\ idle[w] <= Timeout THEN idle[w] + 1 ELSE idle[w]]
  /\ task_idle' = [t \in Ids \X Rooms |->
                     IF t \in tasks /\ task_idle[t] < Timeout
                     THEN task_idle[t] + 1 ELSE task_idle[t]]
  /\ cooldown' = [w \in Ids |-> IF cooldown[w] > 0 THEN cooldown[w] - 1 ELSE 0]
  /\ since_check' = IF since_check < MinCheckInterval THEN since_check + 1 ELSE since_check
  /\ timer' = IF timer < MinCheckInterval THEN timer + 1 ELSE timer
  /\ rest' = Older(rest, Penalty)
  /\ UNCHANGED <<connVars, workers, max_rooms, conns, punished, roomVars, tasks, pc,
                 localVars, told>>

----------------------------------------------------------------------------
(* The phases of check_all_states, in the code's order.                    *)

\* Slip: only the workers that hold tasks are looked at.
Slip_Overdue == {w \in workers : idle[w] > Timeout /\ TasksOf(w) # {}}

\* check_worker_task_interval, the workers.  Erasing inside the range-for
\* moves the next element of a collision cluster into the erased slot, and
\* the loop's increment then steps over it: each deletion may spare the
\* element behind it.
Overdue == {w \in workers : idle[w] > Timeout}
check_worker_interval ==
  /\ pc = "worker_interval"
  /\ \E D \in SUBSET Overdue :
       /\ Overdue # {} => D # {}
       /\ Cardinality(Overdue \ D) <= Cardinality(D)
       /\ delete_worker(D)
       /\ disconnect_worker(D)
  /\ pc' = "task_interval"
  /\ UNCHANGED <<roomVars, clockVars, localVars>>

\* check_worker_task_interval, the tasks.
check_task_interval ==
  /\ pc = "task_interval"
  /\ LET S == {t \in tasks : task_idle[t] >= Timeout}
     IN  /\ delete_task(S, TRUE)
         /\ rconns' = RoomCountsWithout(S)
         /\ send_unassign(S)
         /\ rest' = [w \in Ids |-> IF RoomsOf(S, w) # {} THEN 0 ELSE rest[w]]
  /\ pc' = "collect"
  /\ UNCHANGED <<connVars, workers, max_rooms, idle, punished, rooms, active, clockVars,
                 localVars>>

\* std::sort by compare_worker: most free capacity first, ties in any order.
Sortings(S, free) ==
  {p \in [S -> 1 .. Cardinality(S)] :
     \A v, w \in S : v # w => p[v] # p[w] /\ (p[v] < p[w] => free[v] >= free[w])}

calculate_max_workers_per_room(room_count) ==
  IF room_count = 0 THEN 0
  ELSE MapThenSumSet(LAMBDA w : max_rooms[w], workers) \div room_count + 1

\* refresh_counts, the collection of the workers with room for more, and
\* max_tasks_per_room (over all workers, the unready ones counting -1).
collect_workers ==
  /\ pc = "collect"
  /\ conns' = [w \in Ids |-> Cardinality(TasksOf(w))]
  /\ rconns' = [r \in Rooms |-> Cardinality(TasksIn(r))]
  /\ LET S == {w \in workers : conns'[w] < max_rooms[w] /\ cooldown[w] = 0}
     IN  /\ avail' = S
         /\ \E p \in Sortings(S, [w \in S |-> max_rooms[w] - conns'[w]]) :
              place' = [w \in Ids |-> IF w \in S THEN p[w] ELSE 0]
         /\ remaining' = [w \in Ids |-> IF w \in S THEN MaxNew ELSE 0]
         /\ punished' = [w \in Ids |-> w \notin S /\ punished[w]]
  /\ max_tasks' = Max({1, Cardinality(workers),
                       calculate_max_workers_per_room(Cardinality(rooms))})
  /\ pc' = "purge"
  /\ UNCHANGED <<connVars, workers, max_rooms, idle, cooldown, rooms, active, taskVars,
                 clockVars, todo, min_tasks, throttle, history>>

\* Deletion of the inactive rooms; the others are queued for processing.
\* Losing the task of a delisted room charges the worker like a failure.
IntMaxHalf == 1073741823
delete_inactive_rooms ==
  /\ pc = "purge"
  /\ LET S == {t \in tasks : t[2] \notin active}
     IN  /\ delete_task(S, TRUE)
         /\ send_unassign(S)
  /\ rooms' = active
  /\ rconns' = [r \in Rooms |-> IF r \in active THEN rconns[r] ELSE 0]
  /\ todo' = active
  /\ min_tasks' = Min({IntMaxHalf} \cup {rconns[r] : r \in active})
  /\ throttle' = Throttle
  /\ pc' = "rooms"
  /\ UNCHANGED <<connVars, workers, max_rooms, idle, punished, active, clockVars, avail,
                 place, remaining, max_tasks, rest>>

\* Slip: the capacity is not looked at again within a check.
Slip_Usable(w) == remaining[w] > 0

\* The test at the head of the worker loop, as the code has it.
Usable(w) == conns[w] <= max_rooms[w] /\ remaining[w] > 0

\* The workers at hand that can take room r; the loop takes the first.
Takers(r) == {w \in avail : Usable(w) /\ <<w, r>> \notin tasks}
First(w, S) == w \in S /\ \A v \in S : place[w] <= place[v]

\* Slip: workers that are not at hand are taken back in.
Slip_Looked(S) == {w \in Ids : w \in S => Usable(w)}

\* What is left of workers_available once the loop has looked at the workers
\* of S: it discards those that are used up.
Looked(S) == {w \in avail : w \in S => Usable(w)}

\* Whether the loop ends on a worker that it does not discard.
LastUsable == \E w \in avail : Usable(w) /\ \A v \in avail : place[v] <= place[w]

assign_task(w, r) ==
  /\ tasks' = tasks \cup {<<w, r>>}
  /\ conns' = [conns EXCEPT ![w] = @ + 1]
  /\ rconns' = [rconns EXCEPT ![r] = @ + 1]
  /\ remaining' = [remaining EXCEPT ![w] = @ - 1]
  /\ told' = [told EXCEPT ![w] = @ \cup {r}]

\* Rooms are taken in the order room_status_less_tasks sorted them into: a
\* room's counter changes only in its own turn.
NextRoom(r) == r \in todo /\ \A s \in todo : rconns[r] <= rconns[s]

\* The room is short of workers and one can take it.
room_assigned(w, r) ==
  /\ pc = "rooms" /\ NextRoom(r)
  /\ max_tasks > rconns[r] /\ First(w, Takers(r))
  /\ assign_task(w, r)
  /\ avail' = Looked({v \in avail : place[v] < place[w]})
  /\ todo' = todo \ {r}
  /\ UNCHANGED <<connVars, workers, max_rooms, idle, cooldown, punished, rooms, active,
                 task_idle, clockVars, pc, place, max_tasks, min_tasks, throttle, rest>>

\* The worker loop runs off the end while it discards used-up workers: the
\* room is left for the next check (goto next_room).
room_skipped(r) ==
  /\ pc = "rooms" /\ NextRoom(r)
  /\ max_tasks > rconns[r] /\ Takers(r) = {}
  /\ avail # {} /\ ~LastUsable
  /\ avail' = Looked(avail)
  /\ todo' = todo \ {r}
  /\ UNCHANGED <<connVars, workerVars, roomVars, taskVars, clockVars, pc, place, remaining,
                 max_tasks, min_tasks, throttle, history>>

\* Slip: only the upper limit counts as overkill.
Slip_Overkill(r) == rconns[r] - max_tasks

\* Slip: the range the comment allows is added to the one room.
Slip_Overkill_range(r) == Max({rconns[r] - max_tasks, rconns[r] - (min_tasks + 2) - 1})

\* Nobody is short, or every worker at hand already has the room: tasks
\* beyond the limits are withdrawn, without penalty, as the throttle allows.
Overkill(r) == Max({rconns[r] - max_tasks, rconns[r] - min_tasks - 1})
room_trimmed(r) ==
  /\ pc = "rooms" /\ NextRoom(r)
  /\ \/ max_tasks <= rconns[r]
     \/ avail = {}
     \/ Takers(r) = {} /\ LastUsable
  /\ \E S \in SUBSET TasksIn(r) :
       /\ Cardinality(S) = Max({0, Min({Overkill(r), Cardinality(TasksIn(r)), throttle})})
       /\ delete_task(S, FALSE)
       /\ rconns' = RoomCountsWithout(S)
       /\ send_unassign(S)
       /\ throttle' = throttle - Cardinality(S)
  /\ avail' = IF max_tasks > rconns[r] THEN Looked(avail) ELSE avail
  /\ todo' = todo \ {r}
  /\ UNCHANGED <<connVars, workers, max_rooms, idle, punished, rooms, active, clockVars,
                 pc, place, remaining, max_tasks, min_tasks, rest>>

\* The handler returns and its locals are gone; remaining_this_bunch is not
\* read again before the next check sets it.
check_done ==
  /\ pc = "rooms" /\ todo = {}
  /\ pc' = "idle" /\ avail' = {} /\ place' = [w \in Ids |-> 0] /\ remaining' = [w \in Ids |-> 0]
  /\ max_tasks' = 0 /\ min_tasks' = 0 /\ throttle' = 0
  /\ UNCHANGED <<connVars, workerVars, roomVars, taskVars, clockVars, todo, history>>

CheckStep ==
  \/ check_worker_interval \/ check_task_interval \/ collect_workers
  \/ delete_inactive_rooms \/ check_done
  \/ \E w \in Ids, r \in Rooms : room_assigned(w, r)
  \/ \E r \in Rooms : room_skipped(r) \/ room_trimmed(r)

Next ==
  \/ on_accept_peer_gone \/ on_timer_tick \/ Tick
  \/ \E w \in Ids : on_accept(w) \/ connection_lost(w) \/ message_from_unknown(w)
  \/ \E w \in Ids : worker_ready_rejected(w) \/ \E m \in Caps : worker_ready(w, m)
  \/ \E w \in Ids, r \in Rooms : room_failed(w, r) \/ worker_data(w, r)
  \/ \E S \in SUBSET Rooms : update_room_lists(S)
  \/ CheckStep

Spec == Init /\ [][Next]_vars
\* The clock runs, an expired timer is served and a handler finishes.  An
\* overdue worker is not spared in every scan: what stands before it in its
\* cluster changes, the identifiers being random.
reaped(w) == check_worker_interval /\ w \in workers \ workers'
FairSpec ==
  /\ Spec
  /\ WF_vars(CheckStep) /\ WF_vars(on_timer_tick) /\ WF_vars(Tick)
  /\ \A w \in Ids : SF_vars(reaped(w))

----------------------------------------------------------------------------
(* Correctness.                                                            *)

TypeOK ==
  /\ sockets \subseteq Ids /\ open \subseteq Ids /\ accepting \in BOOLEAN
  /\ workers \subseteq Ids /\ max_rooms \in [Ids -> Int] /\ conns \in [Ids -> Int]
  /\ idle \in [Ids -> 0 .. Timeout + 1] /\ cooldown \in [Ids -> Nat]
  /\ punished \in [Ids -> BOOLEAN] /\ remaining \in [Ids -> Int]
  /\ rooms \subseteq Rooms /\ active \subseteq rooms /\ rconns \in [Rooms -> Int]
  /\ tasks \subseteq Ids \X Rooms /\ task_idle \in [Ids \X Rooms -> 0 .. Timeout]
  /\ since_check \in 0 .. MinCheckInterval /\ timer \in 0 .. MinCheckInterval
  /\ pc \in {"idle", "worker_interval", "task_interval", "collect", "purge", "rooms"}
  /\ avail \subseteq workers /\ place \in [Ids -> Nat] /\ todo \subseteq rooms /\ throttle \in Int
  /\ told \in [Ids -> SUBSET Rooms] /\ rest \in [Ids -> 0 .. Penalty]

\* Every task has a worker, a connection to tell it over, and a room: no
\* assign or unassign message goes to an identifier send_message cannot find.
TasksBacked ==
  /\ workers = sockets
  /\ tasks \subseteq workers \X rooms

\* A worker's counter equals its number of tasks at every moment, through
\* failures, timeouts, resets and the whole of a check; a room's counter,
\* which reset_worker leaves behind, may be too high but never too low.
CountersSound ==
  /\ \A w \in workers : conns[w] = Cardinality(TasksOf(w))
  /\ \A r \in rooms : rconns[r] >= Cardinality(TasksIn(r))

\* The `>` of the assignment loop lets a worker exceed the max_rooms it
\* announced, its option's "Max concurrent connecting rooms.", but never by more
\* than one room, whatever order of failures, resets and checks leads there.
CapacityBound ==
  \A w \in workers : Cardinality(TasksOf(w)) <= max_rooms[w] + 1

\* The assign, unassign, failed and ready messages exchanged with a worker
\* add up to exactly the tasks the supervisor books for it.
ToldMatchesTasks == \A w \in workers : told[w] = RoomsOf(tasks, w)

\* After a task failed or fell silent its worker gets no new task until the
\* penalty has passed (or until it says it is ready again).
FailedWorkerRests == [][\A t \in tasks' \ tasks : rest[t[1]] >= Penalty]_vars

\* What the scheduler tells its workers, through all of its tables, phases
\* and paths, is what an abstract task board does: each room it gives goes to
\* a member that may have it, one at a time, and none is taken but by a step
\* of the board.
Board == INSTANCE TaskBoard WITH
  Workers <- Ids, members <- workers, cap <- max_rooms, known <- rooms,
  holds <- told, resting <- {w \in Ids : rest[w] < Penalty}
ImplementsTaskBoard == Board!Init /\ [][Board!Next]_(Board!bvars)

\* A worker whose connection is gone is dropped in the end, although no
\* handler hears of the loss and the scan may step over overdue workers.
DeadWorkerReaped == \A w \in Ids : w \in workers \ open ~> w \notin workers

\* A room dropped from the list loses its tasks and its entry in the end.
DelistedRoomDeleted == \A r \in Rooms : r \in rooms \ active ~> r \notin rooms

----------------------------------------------------------------------------
(* What the documentation says and the code does not do.                   *)

\* A worker that is dropped is disconnected: "Auth failed. Disconnecting worker."
\* (worker_scheduler.cpp:454) where its auth code is wrong, and in the words of
\* worker_scheduler.h:53 on delete_and_disconnect_worker where it timed out.  Both
\* call disconnect_worker, and worker_session::disconnect returns before it
\* closes anything.
DroppedWorkerDisconnected == open \subseteq sockets
=============================================================================
