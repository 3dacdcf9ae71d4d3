--------------------------- MODULE SchedulerCalm ---------------------------
(***************************************************************************)
(* The scheduler left in peace: all workers are connected and ready, every *)
(* room is listed, and a worker that holds tasks reports on all of them in *)
(* every tick.  It starts from any booking the disturbances of Scheduler   *)
(* can leave behind.  A worker without a task has nothing to send: there   *)
(* is no heartbeat, so its age still grows and can cost it its place.      *)
(***************************************************************************)
EXTENDS Scheduler

CalmInit ==
  /\ sockets = Ids /\ open = Ids /\ accepting = TRUE
  /\ workers = Ids /\ max_rooms \in [Ids -> Caps]
  /\ idle = [w \in Ids |-> 0]
  /\ cooldown \in [Ids -> 0 .. Penalty] /\ punished = [w \in Ids |-> FALSE]
  /\ remaining = [w \in Ids |-> 0]
  /\ rooms = Rooms /\ active = Rooms
  /\ tasks \in SUBSET (Ids \X Rooms)
  /\ CapacityBound
  /\ conns = [w \in Ids |-> Cardinality(TasksOf(w))]
  /\ rconns = [r \in Rooms |-> Cardinality(TasksIn(r))]
  /\ task_idle = [t \in Ids \X Rooms |-> 0]
  /\ since_check = MinCheckInterval /\ timer = 0
  /\ pc = "idle" /\ avail = {} /\ place = [w \in Ids |-> 0] /\ todo = {}
  /\ max_tasks = 0 /\ min_tasks = 0 /\ throttle = 0
  /\ told = [w \in Ids |-> RoomsOf(tasks, w)] /\ rest = [w \in Ids |-> Penalty - cooldown[w]]

\* A tick in which every task is reported on; the check timer is served
\* before more time passes.
PunctualTick ==
  /\ pc = "idle" /\ timer < MinCheckInterval
  /\ idle' = [w \in Ids |-> IF w \notin workers \/ TasksOf(w) # {} THEN 0
                            ELSE IF idle[w] <= Timeout THEN idle[w] + 1 ELSE idle[w]]
  /\ cooldown' = [w \in Ids |-> IF cooldown[w] > 0 THEN cooldown[w] - 1 ELSE 0]
  /\ since_check' = IF since_check < MinCheckInterval THEN since_check + 1 ELSE since_check
  /\ timer' = timer + 1
  /\ rest' = Older(rest, Penalty)
  /\ UNCHANGED <<connVars, workers, max_rooms, conns, punished, roomVars, taskVars, pc,
                 localVars, told>>

CalmNext == CheckStep \/ on_timer_tick \/ PunctualTick

CalmSpec ==
  /\ CalmInit /\ [][CalmNext]_vars
  /\ WF_vars(CheckStep) /\ WF_vars(on_timer_tick) /\ WF_vars(PunctualTick)

\* If the workers can hold all rooms between them, the scheduler reaches and
\* keeps an assignment in which no room is without a worker, however
\* unevenly the tasks were spread: it takes duplicates away from crowded
\* rooms to make place, over several checks.
AllRoomsCovered ==
  MapThenSumSet(LAMBDA w : max_rooms[w], workers) >= Cardinality(rooms)
    ~> [](\A r \in rooms : TasksIn(r) # {})

\* The comment at the overkill computation, "the range may not exceed 2": in the
\* long run the numbers of workers on any two rooms do not differ by more,
\* although the assignment need not settle: a room may be filled and trimmed in
\* turn for ever.
RangeBounded ==
  <>[](pc = "idle" => \A r, s \in rooms : Cardinality(TasksIn(r)) - Cardinality(TasksIn(s)) <= 2)
=============================================================================
