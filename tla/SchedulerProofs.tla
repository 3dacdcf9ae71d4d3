-------------------------- MODULE SchedulerProofs --------------------------
(***************************************************************************)
(* What holds of Scheduler for every number of workers and rooms and every *)
(* value of its parameters, and, in the last part, that it implements the  *)
(* task board.                                                             *)
(***************************************************************************)
EXTENDS Scheduler, FiniteSetTheorems, TLAPS

----------------------------------------------------------------------------
(* Type correctness and the consistency of the three tables.               *)

\* Outside a check, and before its collection phase, the locals are empty.
LocalsEmpty ==
  pc \in {"idle", "worker_interval", "task_interval", "collect"} => avail = {} /\ todo = {}

\* worker_status.punished is never set.
NeverPunished == punished = [w \in Ids |-> FALSE]

Tables == TypeOK /\ TasksBacked /\ LocalsEmpty /\ NeverPunished

\* Tasks are pairs taken from two finite sets: every part of them is finite.
LEMMA TasksFinite ==
  ASSUME NEW T, T \subseteq Ids \X Rooms
  PROVE  IsFiniteSet(T) /\ Cardinality(T) \in Nat
BY IdsAssumption, FS_Product, FS_Subset, FS_CardinalityType

\* The initial state is consistent.
LEMMA TablesInit == Init => Tables
BY TimeAssumption DEF Init, Tables, TypeOK, TasksBacked, LocalsEmpty, NeverPunished

\* Setting some entries of a function to 0 keeps its type.
LEMMA ZeroedType ==
  ASSUME NEW X, NEW Y, 0 \in Y, NEW f \in [X -> Y], NEW S
  PROVE  Zeroed(f, S) \in [X -> Y]
BY DEF Zeroed

\* What reset_worker(D, m) leaves behind, as far as the tables go.
ResetFacts(D) ==
  /\ tasks' \subseteq tasks
  /\ \A t \in tasks' : t[1] \notin D
  /\ task_idle' \in [Ids \X Rooms -> 0 .. Timeout]
  /\ conns' \in [Ids -> Int] /\ max_rooms' \in [Ids -> Int]
  /\ cooldown' \in [Ids -> Nat]
  /\ punished' \in [Ids -> BOOLEAN] /\ NeverPunished'
  /\ idle' \in [Ids -> 0 .. Timeout + 1]
  /\ told' \in [Ids -> SUBSET Rooms] /\ rest' \in [Ids -> 0 .. Penalty]

\* reset_worker keeps the types of what it writes.
LEMMA ResetTypes ==
  ASSUME TypeOK, NeverPunished, NEW D, D \subseteq Ids, NEW m \in Int, reset_worker(D, m)
  PROVE  ResetFacts(D)
<1>1. tasks' \subseteq tasks /\ \A t \in tasks' : t[1] \notin D
  BY DEF reset_worker
<1>2. task_idle' \in [Ids \X Rooms -> 0 .. Timeout]
  <2>1. task_idle \in [Ids \X Rooms -> 0 .. Timeout] /\ 0 \in 0 .. Timeout
    BY TimeAssumption DEF TypeOK
  <2>2. Zeroed(task_idle, D \X Rooms) \in [Ids \X Rooms -> 0 .. Timeout]
    BY <2>1, ZeroedType
  <2> QED
    BY <2>2 DEF reset_worker
<1>3. conns' \in [Ids -> Int] /\ cooldown' \in [Ids -> Nat] /\ idle' \in [Ids -> 0 .. Timeout + 1]
  <2>1. /\ conns \in [Ids -> Int] /\ cooldown \in [Ids -> Nat] /\ idle \in [Ids -> 0 .. Timeout + 1]
        /\ 0 \in Int /\ 0 \in Nat /\ 0 \in 0 .. Timeout + 1
    BY TimeAssumption DEF TypeOK
  <2>2. Zeroed(conns, D) \in [Ids -> Int]
    BY <2>1, ZeroedType
  <2>3. Zeroed(cooldown, D) \in [Ids -> Nat]
    BY <2>1, ZeroedType
  <2>4. Zeroed(idle, D) \in [Ids -> 0 .. Timeout + 1]
    BY <2>1, ZeroedType
  <2> QED
    BY <2>2, <2>3, <2>4 DEF reset_worker
<1>4. max_rooms' \in [Ids -> Int]
  BY DEF TypeOK, reset_worker
<1>5. punished' \in [Ids -> BOOLEAN] /\ NeverPunished'
  BY Zenon DEF reset_worker, NeverPunished
<1>6. told' \in [Ids -> SUBSET Rooms] /\ rest' \in [Ids -> 0 .. Penalty]
  BY TimeAssumption DEF TypeOK, reset_worker
<1> QED
  BY <1>1, <1>2, <1>3, <1>4, <1>5, <1>6 DEF ResetFacts

\* What delete_task(S, b) leaves behind, as far as the tables go.
DeleteFacts(S) ==
  /\ tasks' = tasks \ S
  /\ task_idle' \in [Ids \X Rooms -> 0 .. Timeout]
  /\ conns' \in [Ids -> Int]
  /\ cooldown' \in [Ids -> Nat]
  /\ RoomCountsWithout(S) \in [Rooms -> Int]

\* delete_task keeps the types of what it writes.
LEMMA DeleteTypes ==
  ASSUME TypeOK, NeverPunished, NEW S \in SUBSET tasks, NEW b \in BOOLEAN, delete_task(S, b)
  PROVE  DeleteFacts(S)
<1>1. /\ \A w \in Ids : Cardinality(S \cap TasksOf(w)) \in Nat
      /\ \A r \in Rooms : Cardinality(S \cap TasksIn(r)) \in Nat
  <2>1. \A T : T \subseteq S => T \subseteq Ids \X Rooms
    BY DEF TypeOK
  <2> QED
    BY <2>1, TasksFinite
<1>2. \A w \in Ids : ~punished[w]
  BY DEF NeverPunished
<1>3. Penalised(S) = [w \in Ids |-> IF \E t \in S : t[1] = w THEN Penalty ELSE cooldown[w]]
  BY <1>2, Zenon DEF Penalised
<1>4. Penalised(S) \in [Ids -> Nat]
  BY <1>3, TimeAssumption DEF TypeOK
<1>5. cooldown' \in [Ids -> Nat]
  BY <1>4 DEF TypeOK, delete_task
<1>6. conns' \in [Ids -> Int] /\ RoomCountsWithout(S) \in [Rooms -> Int]
  <2>1. conns \in [Ids -> Int] /\ rconns \in [Rooms -> Int]
    BY DEF TypeOK
  <2>2. RoomCountsWithout(S) \in [Rooms -> Int]
    BY <1>1, <2>1 DEF RoomCountsWithout
  <2>3. conns' \in [Ids -> Int]
    BY <1>1, <2>1 DEF delete_task
  <2> QED
    BY <2>2, <2>3
<1>7. task_idle' \in [Ids \X Rooms -> 0 .. Timeout] /\ tasks' = tasks \ S
  <2>1. task_idle \in [Ids \X Rooms -> 0 .. Timeout] /\ 0 \in 0 .. Timeout
    BY TimeAssumption DEF TypeOK
  <2>2. Zeroed(task_idle, S) \in [Ids \X Rooms -> 0 .. Timeout]
    BY <2>1, ZeroedType
  <2> QED
    BY <2>2 DEF delete_task
<1> QED
  BY <1>5, <1>6, <1>7 DEF DeleteFacts

\* Every step keeps the tables consistent.
LEMMA TablesStep == Tables /\ [Next]_vars => Tables'
<1> SUFFICES ASSUME Tables, [Next]_vars PROVE Tables'
  OBVIOUS
<1> USE TimeAssumption, CapsAssumption DEF Tables
<1>1. ASSUME NEW w \in Ids, on_accept(w) PROVE Tables'
  <2>1. reset_worker({w}, -1)
    BY <1>1 DEF on_accept
  <2>2. ResetFacts({w})
    BY <2>1, ResetTypes
  <2>3. TypeOK'
    BY <1>1, <2>2 DEF ResetFacts, on_accept, TypeOK, roomVars, clockVars, localVars
  <2>4. TasksBacked' /\ LocalsEmpty'
    BY <1>1, <2>2 DEF ResetFacts, on_accept, TypeOK, TasksBacked, LocalsEmpty, roomVars, localVars
  <2> QED
    BY <2>2, <2>3, <2>4 DEF ResetFacts
<1>2. ASSUME on_accept_peer_gone PROVE Tables'
  BY <1>2 DEF on_accept_peer_gone, TypeOK, TasksBacked, LocalsEmpty, NeverPunished, workerVars,
     roomVars, taskVars, clockVars, localVars, history
<1>3. ASSUME NEW w \in Ids, connection_lost(w) PROVE Tables'
  BY <1>3 DEF connection_lost, TypeOK, TasksBacked, LocalsEmpty, NeverPunished, workerVars,
     roomVars, taskVars, clockVars, localVars, history
<1>4. ASSUME NEW w \in Ids, NEW m \in Caps, worker_ready(w, m) PROVE Tables'
  <2>1. m \in Int /\ reset_worker({w}, m)
    BY <1>4 DEF worker_ready
  <2>2. ResetFacts({w})
    BY <2>1, ResetTypes
  <2>3. TypeOK'
    BY <1>4, <2>1, <2>2 DEF ResetFacts, worker_ready, TypeOK,
       check_all_states, connVars, roomVars, localVars
  <2>4. TasksBacked' /\ LocalsEmpty'
    BY <1>4, <2>1, <2>2 DEF ResetFacts, worker_ready, TypeOK, TasksBacked, LocalsEmpty,
       check_all_states, connVars, roomVars, localVars
  <2> QED
    BY <2>2, <2>3, <2>4 DEF ResetFacts
<1>5. ASSUME NEW w \in Ids, worker_ready_rejected(w) PROVE Tables'
  <2>1. reset_worker({w}, -1) /\ workers' = workers \ {w}
    BY <1>5 DEF worker_ready_rejected, delete_worker
  <2>2. ResetFacts({w})
    BY <2>1, ResetTypes
  <2>3. TypeOK'
    BY <1>5, <2>1, <2>2 DEF ResetFacts, worker_ready_rejected, TypeOK, LocalsEmpty,
       disconnect_worker, session_disconnect, check_all_states, roomVars, localVars
  <2>4. TasksBacked' /\ LocalsEmpty'
    BY <1>5, <2>1, <2>2 DEF ResetFacts, worker_ready_rejected, TypeOK, TasksBacked, LocalsEmpty,
       disconnect_worker, session_disconnect, check_all_states, roomVars, localVars
  <2> QED
    BY <2>2, <2>3, <2>4 DEF ResetFacts
<1>6. ASSUME NEW w \in Ids, NEW r \in Rooms, room_failed(w, r) PROVE Tables'
  <2> DEFINE S == {<<w, r>>} \cap tasks
  <2>1. S \in SUBSET tasks /\ delete_task(S, TRUE)
    BY <1>6 DEF room_failed
  <2> HIDE DEF S
  <2>3. DeleteFacts(S)
    BY <2>1, DeleteTypes
  <2>6. idle' \in [Ids -> 0 .. Timeout + 1]
    BY <1>6 DEF room_failed, Zeroed, TypeOK
  <2>7. rest' \in [Ids -> 0 .. Penalty]
    <3>1. rest \in [Ids -> 0 .. Penalty] /\ 0 \in 0 .. Penalty
      BY DEF TypeOK
    <3>2. rest' = rest \/ rest' = [rest EXCEPT ![w] = 0]
      BY <1>6 DEF room_failed
    <3> QED
      BY <3>1, <3>2
  <2>8. told' \in [Ids -> SUBSET Rooms]
    BY <1>6 DEF room_failed, TypeOK
  <2>9. rconns' = RoomCountsWithout(S)
    BY <1>6 DEF room_failed, S
  <2>10. /\ pc = "idle" /\ check_all_states
         /\ UNCHANGED <<connVars, workers, max_rooms, punished, rooms, active, timer, localVars>>
    BY <1>6 DEF room_failed
  <2>4. TypeOK'
    BY <2>1, <2>3, <2>6, <2>7, <2>8, <2>9, <2>10 DEF DeleteFacts, TypeOK, check_all_states,
       connVars, localVars
  <2>5. TasksBacked' /\ LocalsEmpty' /\ NeverPunished'
    BY <2>1, <2>3, <2>10 DEF DeleteFacts, TypeOK, TasksBacked, LocalsEmpty, NeverPunished,
       check_all_states, connVars, localVars
  <2> QED
    BY <2>4, <2>5
<1>7. ASSUME NEW w \in Ids, NEW r \in Rooms, worker_data(w, r) PROVE Tables'
  BY <1>7 DEF worker_data, Zeroed, TypeOK, TasksBacked, LocalsEmpty, NeverPunished, connVars,
     roomVars, clockVars, localVars, history
<1>8. ASSUME NEW w \in Ids, message_from_unknown(w) PROVE Tables'
  BY <1>8 DEF message_from_unknown, disconnect_worker, session_disconnect, TypeOK, TasksBacked,
     LocalsEmpty, NeverPunished, workerVars, roomVars, clockVars, localVars, history
<1>9. ASSUME NEW S \in SUBSET Rooms, update_room_lists(S) PROVE Tables'
  BY <1>9 DEF update_room_lists, TypeOK, TasksBacked, LocalsEmpty, NeverPunished, connVars,
     workerVars, taskVars, clockVars, localVars, history
<1>10. ASSUME on_timer_tick PROVE Tables'
  BY <1>10 DEF on_timer_tick, check_all_states, TypeOK, TasksBacked, LocalsEmpty, NeverPunished,
     connVars, workerVars, roomVars, taskVars, localVars, history
<1>11. ASSUME Tick PROVE Tables'
  BY <1>11 DEF Tick, Older, TypeOK, TasksBacked, LocalsEmpty, NeverPunished,
     connVars, roomVars, localVars
<1>12. ASSUME check_worker_interval PROVE Tables'
  <2>1. PICK D \in SUBSET Overdue :
          reset_worker(D, -1) /\ workers' = workers \ D /\ disconnect_worker(D)
    BY <1>12 DEF check_worker_interval, delete_worker
  <2>5. D \subseteq Ids
    BY DEF Overdue, TypeOK
  <2>2. ResetFacts(D)
    BY <2>1, <2>5, ResetTypes
  <2>3. TypeOK'
    BY <1>12, <2>1, <2>2 DEF ResetFacts, check_worker_interval, TypeOK, LocalsEmpty,
       disconnect_worker, session_disconnect, roomVars, clockVars, localVars
  <2>4. TasksBacked' /\ LocalsEmpty'
    BY <1>12, <2>1, <2>2 DEF ResetFacts, check_worker_interval, TypeOK, TasksBacked, LocalsEmpty,
       disconnect_worker, session_disconnect, roomVars, clockVars, localVars
  <2> QED
    BY <2>2, <2>3, <2>4 DEF ResetFacts
<1>13. ASSUME check_task_interval PROVE Tables'
  <2> DEFINE S == {t \in tasks : task_idle[t] >= Timeout}
  <2>1. S \in SUBSET tasks /\ delete_task(S, TRUE) /\ rconns' = RoomCountsWithout(S)
        /\ send_unassign(S)
        /\ rest' = [w \in Ids |-> IF RoomsOf(S, w) # {} THEN 0 ELSE rest[w]]
    BY <1>13 DEF check_task_interval
  <2> HIDE DEF S
  <2>3. DeleteFacts(S)
    BY <2>1, DeleteTypes
  <2>6. told' \in [Ids -> SUBSET Rooms] /\ rest' \in [Ids -> 0 .. Penalty]
    <3>1. /\ told \in [Ids -> SUBSET Rooms] /\ rest \in [Ids -> 0 .. Penalty]
          /\ 0 \in 0 .. Penalty
      BY DEF TypeOK
    <3>2. told' \in [Ids -> SUBSET Rooms]
      BY <2>1, <3>1 DEF send_unassign
    <3>3. rest' \in [Ids -> 0 .. Penalty]
      BY <2>1, <3>1
    <3> QED
      BY <3>2, <3>3
  <2>4. TypeOK'
    BY <1>13, <2>1, <2>3, <2>6 DEF DeleteFacts, check_task_interval, TypeOK, connVars, clockVars,
       localVars
  <2>5. TasksBacked' /\ LocalsEmpty' /\ NeverPunished'
    BY <1>13, <2>1, <2>3 DEF DeleteFacts, check_task_interval, TypeOK, TasksBacked, LocalsEmpty,
       NeverPunished, send_unassign, connVars, clockVars, localVars
  <2> QED
    BY <2>4, <2>5
<1>14. ASSUME collect_workers PROVE Tables'
  <2>1. conns' \in [Ids -> Int] /\ rconns' \in [Rooms -> Int]
    <3>1. /\ \A w \in Ids : Cardinality(TasksOf(w)) \in Nat
          /\ \A r \in Rooms : Cardinality(TasksIn(r)) \in Nat
      BY TasksFinite DEF TypeOK, TasksOf, TasksIn
    <3> QED
      BY <1>14, <3>1 DEF collect_workers
  <2> DEFINE S == {w \in workers : conns'[w] < max_rooms[w] /\ cooldown[w] = 0}
  <2>2. PICK p \in [S -> 1 .. Cardinality(S)] :
          place' = [w \in Ids |-> IF w \in S THEN p[w] ELSE 0]
    BY <1>14 DEF collect_workers, Sortings
  <2>3. place' \in [Ids -> Nat]
    <3> HIDE DEF S
    <3> QED
      BY <2>2
  <2>4. avail' \subseteq workers
    BY <1>14 DEF collect_workers
  <2>5. punished' \in [Ids -> BOOLEAN] /\ NeverPunished'
    <3>1. \A w \in Ids : ~punished[w]
      BY DEF NeverPunished
    <3>2. punished' = [w \in Ids |-> w \notin S /\ punished[w]]
      BY <1>14 DEF collect_workers
    <3> QED
      BY <3>1, <3>2, Zenon DEF NeverPunished
  <2>6. remaining' \in [Ids -> Int]
    BY <1>14 DEF collect_workers
  <2>7. TypeOK'
    BY <1>14, <2>1, <2>3, <2>4, <2>5, <2>6 DEF collect_workers, TypeOK, LocalsEmpty, connVars, taskVars,
       clockVars, history
  <2>8. TasksBacked' /\ LocalsEmpty'
    BY <1>14 DEF collect_workers, TasksBacked, LocalsEmpty, connVars, taskVars
  <2> QED
    BY <2>5, <2>7, <2>8
<1>15. ASSUME delete_inactive_rooms PROVE Tables'
  <2> DEFINE S == {t \in tasks : t[2] \notin active}
  <2>1. S \in SUBSET tasks /\ delete_task(S, TRUE) /\ send_unassign(S)
    BY <1>15 DEF delete_inactive_rooms
  <2>2. tasks \ S \subseteq workers \X active
    BY DEF TasksBacked, TypeOK
  <2> HIDE DEF S
  <2>3. DeleteFacts(S)
    BY <2>1, <2>2, DeleteTypes
  <2>4. TypeOK'
    BY <1>15, <2>1, <2>2, <2>3 DEF DeleteFacts, delete_inactive_rooms, TypeOK, send_unassign, connVars, clockVars, history
  <2>5. TasksBacked' /\ LocalsEmpty' /\ NeverPunished'
    BY <1>15, <2>1, <2>2, <2>3 DEF DeleteFacts, delete_inactive_rooms, TypeOK, TasksBacked, LocalsEmpty,
       NeverPunished, send_unassign, connVars, clockVars, history
  <2> QED
    BY <2>4, <2>5
<1>16. ASSUME NEW w \in Ids, NEW r \in Rooms, room_assigned(w, r) PROVE Tables'
  BY <1>16 DEF room_assigned, NextRoom, First, Takers, assign_task, Looked, TypeOK, TasksBacked,
     LocalsEmpty, NeverPunished, connVars, clockVars
<1>17. ASSUME NEW r \in Rooms, room_skipped(r) PROVE Tables'
  BY <1>17 DEF room_skipped, Looked, TypeOK, TasksBacked, LocalsEmpty, NeverPunished, connVars,
     workerVars, roomVars, taskVars, clockVars, history
<1>18. ASSUME NEW r \in Rooms, room_trimmed(r) PROVE Tables'
  <2>1. PICK S \in SUBSET TasksIn(r) :
          /\ delete_task(S, FALSE)
          /\ rconns' = RoomCountsWithout(S)
          /\ send_unassign(S)
          /\ throttle' = throttle - Cardinality(S)
    BY <1>18 DEF room_trimmed
  <2>2. S \in SUBSET tasks /\ Cardinality(S) \in Nat
    BY TasksFinite DEF TasksIn, TypeOK
  <2>3. DeleteFacts(S)
    BY <2>1, <2>2, DeleteTypes
  <2>4. TypeOK'
    BY <1>18, <2>1, <2>2, <2>3 DEF DeleteFacts, room_trimmed, TypeOK, send_unassign, Looked, connVars, clockVars
  <2>5. TasksBacked' /\ LocalsEmpty' /\ NeverPunished'
    BY <1>18, <2>1, <2>2, <2>3 DEF DeleteFacts, room_trimmed, TypeOK, TasksBacked, LocalsEmpty,
       NeverPunished, send_unassign, Looked, connVars, clockVars
  <2> QED
    BY <2>4, <2>5
<1>19. ASSUME check_done PROVE Tables'
  BY <1>19 DEF check_done, TypeOK, TasksBacked, LocalsEmpty, NeverPunished, connVars,
     workerVars, roomVars, taskVars, clockVars, history
<1>20. ASSUME UNCHANGED vars PROVE Tables'
  BY <1>20 DEF vars, TypeOK, TasksBacked, LocalsEmpty, NeverPunished, connVars,
     workerVars, roomVars, taskVars, clockVars, localVars, history
<1> QED
  BY <1>1, <1>2, <1>3, <1>4, <1>5, <1>6, <1>7, <1>8, <1>9, <1>10, <1>11, <1>12, <1>13, <1>14,
     <1>15, <1>16, <1>17, <1>18, <1>19, <1>20 DEF Next, CheckStep

\* The tables are consistent in every reachable state.
THEOREM TablesInvariant == Spec => []Tables
BY TablesInit, TablesStep, PTL DEF Spec

\* Type correctness.
THEOREM TypeCorrect == Spec => []TypeOK
BY TablesInvariant, PTL DEF Tables

\* The supervisor never books a task of a worker or room it does not know,
\* and never talks to a worker without a connection.
THEOREM TasksAreBacked == Spec => []TasksBacked
BY TablesInvariant, PTL DEF Tables

----------------------------------------------------------------------------
(* The counters and the limit on a worker's tasks.                         *)

\* CountersSound, of all identifiers and rooms and not only the known ones.
Counts ==
  /\ \A w \in Ids : conns[w] = Cardinality(TasksOf(w))
  /\ \A r \in Rooms : rconns[r] >= Cardinality(TasksIn(r))

\* CapacityBound, in terms of the counter the code compares.
Load == \A w \in workers : max_rooms[w] >= -1 /\ conns[w] <= max_rooms[w] + 1

Bookkeeping == Tables /\ Counts /\ Load

\* Any part of the tasks is finite.
LEMMA PartsFinite ==
  ASSUME TypeOK
  PROVE  /\ IsFiniteSet(tasks)
         /\ \A T : T \subseteq tasks => IsFiniteSet(T) /\ Cardinality(T) \in Nat
         /\ \A w : IsFiniteSet(TasksOf(w)) /\ Cardinality(TasksOf(w)) \in Nat
         /\ \A r : IsFiniteSet(TasksIn(r)) /\ Cardinality(TasksIn(r)) \in Nat
<1>1. \A T : T \subseteq tasks => T \subseteq Ids \X Rooms
  BY DEF TypeOK
<1>2. \A T : T \subseteq tasks => IsFiniteSet(T) /\ Cardinality(T) \in Nat
  BY <1>1, TasksFinite
<1>3. /\ \A w : TasksOf(w) \subseteq tasks
      /\ \A r : TasksIn(r) \subseteq tasks
  BY DEF TasksOf, TasksIn
<1> QED
  BY <1>2, <1>3

\* delete_task subtracts from the counters what it takes from the tasks.
LEMMA DeleteCounts ==
  ASSUME TypeOK, Counts, NEW S \in SUBSET tasks, NEW b \in BOOLEAN, delete_task(S, b)
  PROVE  /\ \A w \in Ids : conns'[w] = Cardinality(TasksOf(w)') /\ conns'[w] <= conns[w]
         /\ \A r \in Rooms : RoomCountsWithout(S)[r] >= Cardinality(TasksIn(r)')
<1>1. tasks' = tasks \ S
  BY DEF delete_task
<1>2. ASSUME NEW w \in Ids
      PROVE  conns'[w] = Cardinality(TasksOf(w)') /\ conns'[w] <= conns[w]
  <2>1. TasksOf(w)' = TasksOf(w) \ (S \cap TasksOf(w))
    BY <1>1 DEF TasksOf
  <2>2. Cardinality(TasksOf(w)')
          = Cardinality(TasksOf(w)) - Cardinality(TasksOf(w) \cap (S \cap TasksOf(w)))
    BY <2>1, PartsFinite, FS_Difference
  <2>3. TasksOf(w) \cap (S \cap TasksOf(w)) = S \cap TasksOf(w)
    OBVIOUS
  <2>4. S \cap TasksOf(w) \subseteq tasks
    OBVIOUS
  <2>5. Cardinality(S \cap TasksOf(w)) \in Nat /\ Cardinality(TasksOf(w)) \in Nat
    BY <2>4, PartsFinite
  <2>6. conns'[w] = conns[w] - Cardinality(S \cap TasksOf(w))
    BY DEF delete_task
  <2> QED
    BY <2>2, <2>3, <2>5, <2>6 DEF Counts
<1>3. ASSUME NEW r \in Rooms PROVE RoomCountsWithout(S)[r] >= Cardinality(TasksIn(r)')
  <2>1. TasksIn(r)' = TasksIn(r) \ (S \cap TasksIn(r))
    BY <1>1 DEF TasksIn
  <2>2. Cardinality(TasksIn(r)')
          = Cardinality(TasksIn(r)) - Cardinality(TasksIn(r) \cap (S \cap TasksIn(r)))
    BY <2>1, PartsFinite, FS_Difference
  <2>3. TasksIn(r) \cap (S \cap TasksIn(r)) = S \cap TasksIn(r)
    OBVIOUS
  <2>4. S \cap TasksIn(r) \subseteq tasks
    OBVIOUS
  <2>5. /\ Cardinality(S \cap TasksIn(r)) \in Nat /\ Cardinality(TasksIn(r)) \in Nat
        /\ rconns[r] \in Int /\ rconns[r] >= Cardinality(TasksIn(r))
    BY <2>4, PartsFinite DEF TypeOK, Counts
  <2>6. RoomCountsWithout(S)[r] = rconns[r] - Cardinality(S \cap TasksIn(r))
    BY DEF RoomCountsWithout
  <2>7. Cardinality(TasksIn(r)') = Cardinality(TasksIn(r)) - Cardinality(S \cap TasksIn(r))
    BY <2>2, <2>3
  <2> QED
    BY <2>5, <2>6, <2>7
<1> QED
  BY <1>2, <1>3

\* reset_worker zeroes the counter of a worker it leaves without tasks, and
\* leaves the rooms' counters at what they were.
LEMMA ResetCounts ==
  ASSUME TypeOK, Counts, NEW D, D \subseteq Ids, NEW m \in Int, reset_worker(D, m)
  PROVE  /\ \A w \in Ids : conns'[w] = Cardinality(TasksOf(w)')
         /\ \A w \in D : conns'[w] = 0 /\ max_rooms'[w] = m
         /\ \A w \in Ids \ D : conns'[w] = conns[w] /\ max_rooms'[w] = max_rooms[w]
         /\ \A r \in Rooms : rconns[r] >= Cardinality(TasksIn(r)')
<1>1. tasks' = {t \in tasks : t[1] \notin D}
  BY DEF reset_worker
<1>2. /\ \A w \in D : conns'[w] = 0 /\ max_rooms'[w] = m
      /\ \A w \in Ids \ D : conns'[w] = conns[w] /\ max_rooms'[w] = max_rooms[w]
  BY DEF reset_worker, Zeroed, TypeOK
<1>3. ASSUME NEW w \in Ids PROVE conns'[w] = Cardinality(TasksOf(w)')
  <2>1. CASE w \in D
    <3>1. TasksOf(w)' = {}
      BY <1>1, <2>1 DEF TasksOf
    <3> QED
      BY <3>1, <2>1, <1>2, FS_EmptySet
  <2>2. CASE w \notin D
    <3>1. TasksOf(w)' = TasksOf(w)
      BY <1>1, <2>2 DEF TasksOf
    <3> QED
      BY <3>1, <2>2, <1>2 DEF Counts
  <2> QED
    BY <2>1, <2>2
<1>4. ASSUME NEW r \in Rooms PROVE rconns[r] >= Cardinality(TasksIn(r)')
  <2>1. TasksIn(r)' \subseteq TasksIn(r) /\ TasksIn(r)' \subseteq tasks
    BY <1>1 DEF TasksIn
  <2>2. IsFiniteSet(TasksIn(r)) /\ Cardinality(TasksIn(r)) \in Nat
    BY PartsFinite
  <2>3. Cardinality(TasksIn(r)') \in Nat
    BY <2>1, PartsFinite
  <2>4. Cardinality(TasksIn(r)') <= Cardinality(TasksIn(r))
    BY <2>1, <2>2, FS_Subset
  <2>5. rconns[r] \in Int /\ rconns[r] >= Cardinality(TasksIn(r))
    BY DEF Counts, TypeOK
  <2> QED
    BY <2>2, <2>3, <2>4, <2>5
<1> QED
  BY <1>2, <1>3, <1>4

\* Resetting workers, and forgetting some of them, keeps the books.
LEMMA ResetBooks ==
  ASSUME TypeOK, Counts, Load, NEW D, D \subseteq Ids, NEW m \in Int, m >= -1,
         reset_worker(D, m), rconns' = rconns, workers' \subseteq workers \cup D
  PROVE  Counts' /\ Load'
<1>1. /\ \A w \in Ids : conns'[w] = Cardinality(TasksOf(w)')
      /\ \A w \in D : conns'[w] = 0 /\ max_rooms'[w] = m
      /\ \A w \in Ids \ D : conns'[w] = conns[w] /\ max_rooms'[w] = max_rooms[w]
      /\ \A r \in Rooms : rconns[r] >= Cardinality(TasksIn(r)')
  BY ResetCounts
<1>2. Counts'
  BY <1>1 DEF Counts
<1>3. ASSUME NEW w \in workers'
      PROVE  max_rooms'[w] >= -1 /\ conns'[w] <= max_rooms'[w] + 1
  <2>1. CASE w \in D
    BY <1>1, <2>1
  <2>2. CASE w \notin D
    <3>1. w \in workers /\ w \in Ids \ D
      BY <2>2 DEF TypeOK
    <3>2. conns'[w] = conns[w] /\ max_rooms'[w] = max_rooms[w]
      BY <1>1, <3>1
    <3> QED
      BY <3>1, <3>2 DEF Load
  <2> QED
    BY <2>1, <2>2
<1> QED
  BY <1>2, <1>3 DEF Load

\* Steps that touch neither tasks nor counters nor the set of workers.
LEMMA BooksUnchanged ==
  ASSUME Counts, Load, UNCHANGED <<tasks, conns, rconns, workers, max_rooms>>
  PROVE  Counts' /\ Load'
BY DEF Counts, Load, TasksOf, TasksIn

\* The books balance initially.
LEMMA BookkeepingInit == Init => Bookkeeping
<1> SUFFICES ASSUME Init PROVE Bookkeeping
  OBVIOUS
<1>1. \A w : TasksOf(w) = {} /\ TasksIn(w) = {}
  BY DEF Init, TasksOf, TasksIn
<1>2. Cardinality({}) = 0
  BY FS_EmptySet
<1>3. Counts
  <2>1. ASSUME NEW w \in Ids PROVE conns[w] = Cardinality(TasksOf(w))
    BY <1>1, <1>2 DEF Init
  <2>2. ASSUME NEW r \in Rooms PROVE rconns[r] >= Cardinality(TasksIn(r))
    <3>1. rconns[r] = 0 /\ Cardinality(TasksIn(r)) = 0
      BY <1>1, <1>2 DEF Init
    <3> QED
      BY <3>1
  <2> QED
    BY <2>1, <2>2 DEF Counts
<1>4. Load
  BY DEF Init, Load
<1> QED
  BY <1>3, <1>4, TablesInit DEF Bookkeeping

\* Every step keeps the books.
LEMMA BookkeepingStep == Bookkeeping /\ [Next]_vars => Bookkeeping'
<1> SUFFICES ASSUME Bookkeeping, [Next]_vars PROVE Counts' /\ Load'
  BY TablesStep DEF Bookkeeping
<1>0. Tables /\ TypeOK /\ NeverPunished /\ LocalsEmpty /\ Counts /\ Load
  BY DEF Bookkeeping, Tables
<1>1. ASSUME NEW w \in Ids, on_accept(w) PROVE Counts' /\ Load'
  <2>1. reset_worker({w}, -1) /\ workers' = workers \cup {w} /\ rconns' = rconns
    BY <1>1 DEF on_accept, roomVars
  <2> QED
    BY <1>0, <2>1, ResetBooks
<1>2. ASSUME NEW w \in Ids, NEW m \in Caps, worker_ready(w, m) PROVE Counts' /\ Load'
  <2>1. reset_worker({w}, m) /\ workers' = workers /\ rconns' = rconns
    BY <1>2 DEF worker_ready, roomVars
  <2>2. m \in Int /\ m >= -1
    BY CapsAssumption
  <2> QED
    BY <1>0, <2>1, <2>2, ResetBooks
<1>3. ASSUME NEW w \in Ids, worker_ready_rejected(w) PROVE Counts' /\ Load'
  <2>1. reset_worker({w}, -1) /\ workers' = workers \ {w} /\ rconns' = rconns
    BY <1>3 DEF worker_ready_rejected, delete_worker, roomVars
  <2> QED
    BY <1>0, <2>1, ResetBooks
<1>4. ASSUME check_worker_interval PROVE Counts' /\ Load'
  <2>1. PICK D \in SUBSET Overdue :
          reset_worker(D, -1) /\ workers' = workers \ D /\ rconns' = rconns
    BY <1>4 DEF check_worker_interval, delete_worker, roomVars
  <2>2. D \subseteq Ids
    BY <1>0 DEF Overdue, TypeOK
  <2> QED
    BY <1>0, <2>1, <2>2, ResetBooks
<1>5. ASSUME NEW S \in SUBSET tasks, NEW b \in BOOLEAN, delete_task(S, b),
             UNCHANGED <<workers, max_rooms>>
      PROVE  (\A w \in Ids : conns'[w] = Cardinality(TasksOf(w)')) /\ Load'
  <2>1. \A w \in Ids : conns'[w] = Cardinality(TasksOf(w)') /\ conns'[w] <= conns[w]
    BY <1>0, <1>5, DeleteCounts
  <2>2. \A w \in Ids : conns'[w] \in Int
    BY <1>0, <1>5, DeleteTypes DEF DeleteFacts
  <2> QED
    BY <1>0, <1>5, <2>1, <2>2 DEF Load, TypeOK
<1>6. ASSUME NEW w \in Ids, NEW r \in Rooms, room_failed(w, r) PROVE Counts' /\ Load'
  <2> DEFINE S == {<<w, r>>} \cap tasks
  <2>1. /\ S \in SUBSET tasks /\ delete_task(S, TRUE) /\ rconns' = RoomCountsWithout(S)
        /\ UNCHANGED <<workers, max_rooms>>
    BY <1>6 DEF room_failed
  <2> HIDE DEF S
  <2> QED
    BY <1>0, <1>5, <2>1, DeleteCounts DEF Counts
<1>7. ASSUME check_task_interval PROVE Counts' /\ Load'
  <2> DEFINE S == {t \in tasks : task_idle[t] >= Timeout}
  <2>1. /\ S \in SUBSET tasks /\ delete_task(S, TRUE) /\ rconns' = RoomCountsWithout(S)
        /\ UNCHANGED <<workers, max_rooms>>
    BY <1>7 DEF check_task_interval
  <2> HIDE DEF S
  <2> QED
    BY <1>0, <1>5, <2>1, DeleteCounts DEF Counts
<1>8. ASSUME NEW r \in Rooms, room_trimmed(r) PROVE Counts' /\ Load'
  <2>1. PICK S \in SUBSET TasksIn(r) : delete_task(S, FALSE) /\ rconns' = RoomCountsWithout(S)
    BY <1>8 DEF room_trimmed
  <2>2. S \in SUBSET tasks /\ UNCHANGED <<workers, max_rooms>>
    BY <1>8 DEF room_trimmed, TasksIn
  <2> QED
    BY <1>0, <1>5, <2>1, <2>2, DeleteCounts DEF Counts
<1>9. ASSUME delete_inactive_rooms PROVE Counts' /\ Load'
  <2> DEFINE S == {t \in tasks : t[2] \notin active}
  <2>1. /\ S \in SUBSET tasks /\ delete_task(S, TRUE)
        /\ UNCHANGED <<workers, max_rooms>>
        /\ rconns' = [r \in Rooms |-> IF r \in active THEN rconns[r] ELSE 0]
    BY <1>9 DEF delete_inactive_rooms
  <2>2. tasks' = tasks \ S
    BY <2>1 DEF delete_task
  <2>3. ASSUME NEW r \in Rooms PROVE rconns'[r] >= Cardinality(TasksIn(r)')
    <3>1. CASE r \in active
      <4>1. TasksIn(r)' = TasksIn(r)
        BY <2>2, <3>1 DEF TasksIn
      <4> QED
        BY <1>0, <2>1, <3>1, <4>1 DEF Counts
    <3>2. CASE r \notin active
      <4>1. TasksIn(r)' = {}
        BY <2>2, <3>2 DEF TasksIn
      <4> QED
        BY <2>1, <3>2, <4>1, FS_EmptySet
    <3> QED
      BY <3>1, <3>2
  <2> HIDE DEF S
  <2> QED
    BY <1>5, <2>1, <2>3 DEF Counts
<1>10. ASSUME collect_workers PROVE Counts' /\ Load'
  <2>1. /\ UNCHANGED <<tasks, workers, max_rooms>>
        /\ conns' = [w \in Ids |-> Cardinality(TasksOf(w))]
        /\ rconns' = [r \in Rooms |-> Cardinality(TasksIn(r))]
    BY <1>10 DEF collect_workers, taskVars
  <2>2. \A w \in Ids : conns'[w] = conns[w]
    BY <1>0, <2>1 DEF Counts
  <2>3. \A w : Cardinality(TasksIn(w)) \in Nat
    BY <1>0, PartsFinite
  <2>4. Counts'
    <3>1. \A w : TasksOf(w)' = TasksOf(w) /\ TasksIn(w)' = TasksIn(w)
      BY <2>1 DEF TasksOf, TasksIn
    <3>2. \A r \in Rooms : rconns'[r] >= Cardinality(TasksIn(r))
      BY <2>1, <2>3
    <3>3. \A w \in Ids : conns'[w] = Cardinality(TasksOf(w))
      BY <2>1
    <3> QED
      BY <3>1, <3>2, <3>3 DEF Counts
  <2>5. Load'
    BY <1>0, <2>1, <2>2 DEF Load, TypeOK
  <2> QED
    BY <2>4, <2>5
<1>11. ASSUME NEW w \in Ids, NEW r \in Rooms, room_assigned(w, r) PROVE Counts' /\ Load'
  <2>1. /\ tasks' = tasks \cup {<<w, r>>} /\ <<w, r>> \notin tasks
        /\ conns' = [conns EXCEPT ![w] = @ + 1]
        /\ rconns' = [rconns EXCEPT ![r] = @ + 1]
        /\ conns[w] <= max_rooms[w]
        /\ UNCHANGED <<workers, max_rooms>>
    BY <1>11 DEF room_assigned, assign_task, First, Takers, Usable
  <2>2. ASSUME NEW v \in Ids PROVE conns'[v] = Cardinality(TasksOf(v)')
    <3>1. CASE v = w
      <4>1. TasksOf(v)' = TasksOf(v) \cup {<<w, r>>} /\ <<w, r>> \notin TasksOf(v)
        BY <2>1, <3>1 DEF TasksOf
      <4>2. Cardinality(TasksOf(v)') = Cardinality(TasksOf(v)) + 1
        BY <1>0, <4>1, PartsFinite, FS_AddElement
      <4> QED
        BY <1>0, <2>1, <3>1, <4>2 DEF Counts, TypeOK
    <3>2. CASE v # w
      <4>1. TasksOf(v)' = TasksOf(v)
        BY <2>1, <3>2 DEF TasksOf
      <4> QED
        BY <1>0, <2>1, <3>2, <4>1 DEF Counts, TypeOK
    <3> QED
      BY <3>1, <3>2
  <2>3. ASSUME NEW q \in Rooms PROVE rconns'[q] >= Cardinality(TasksIn(q)')
    <3>0. /\ rconns[q] \in Int /\ Cardinality(TasksIn(q)) \in Nat
          /\ rconns[q] >= Cardinality(TasksIn(q))
      BY <1>0, PartsFinite DEF Counts, TypeOK
    <3>1. CASE q = r
      <4>1. TasksIn(q)' = TasksIn(q) \cup {<<w, r>>} /\ <<w, r>> \notin TasksIn(q)
        BY <2>1, <3>1 DEF TasksIn
      <4>2. Cardinality(TasksIn(q)') = Cardinality(TasksIn(q)) + 1
        BY <1>0, <4>1, PartsFinite, FS_AddElement
      <4>3. rconns'[q] = rconns[q] + 1
        BY <1>0, <2>1, <3>1 DEF TypeOK
      <4> QED
        BY <3>0, <4>2, <4>3
    <3>2. CASE q # r
      <4>1. TasksIn(q)' = TasksIn(q)
        BY <2>1, <3>2 DEF TasksIn
      <4>2. rconns'[q] = rconns[q]
        BY <1>0, <2>1, <3>2 DEF TypeOK
      <4> QED
        BY <3>0, <4>1, <4>2
    <3> QED
      BY <3>1, <3>2
  <2>4. Load'
    BY <1>0, <2>1 DEF Load, TypeOK
  <2> QED
    BY <2>2, <2>3, <2>4 DEF Counts
<1>12. ASSUME NEW w \in Ids, message_from_unknown(w) PROVE Counts' /\ Load'
  <2>1. tasks' = tasks
    BY <1>0, <1>12 DEF message_from_unknown, Tables, TasksBacked
  <2> QED
    BY <1>0, <1>12, <2>1, BooksUnchanged DEF message_from_unknown, workerVars, roomVars
<1>13. ASSUME \/ on_accept_peer_gone \/ on_timer_tick \/ Tick \/ check_done \/ UNCHANGED vars
              \/ \E w \in Ids : connection_lost(w)
              \/ \E w \in Ids, r \in Rooms : worker_data(w, r)
              \/ \E S \in SUBSET Rooms : update_room_lists(S)
              \/ \E r \in Rooms : room_skipped(r)
       PROVE  Counts' /\ Load'
  <2>1. UNCHANGED <<tasks, conns, rconns, workers, max_rooms>>
    BY <1>13 DEF on_accept_peer_gone, on_timer_tick, Tick, check_done, vars, connection_lost,
       worker_data, update_room_lists, room_skipped, workerVars, roomVars, taskVars
  <2> QED
    BY <1>0, <2>1, BooksUnchanged
<1> QED
  BY <1>1, <1>2, <1>3, <1>4, <1>6, <1>7, <1>8, <1>9, <1>10, <1>11, <1>12, <1>13
     DEF Next, CheckStep

\* The books balance in every reachable state.
THEOREM BookkeepingInvariant == Spec => []Bookkeeping
BY BookkeepingInit, BookkeepingStep, PTL DEF Spec

\* The counters the scheduler decides by are right, for every fleet.
THEOREM CountersAreSound == Spec => []CountersSound
<1>1. Bookkeeping => CountersSound
  BY DEF Bookkeeping, Tables, TypeOK, Counts, CountersSound
<1> QED
  BY <1>1, BookkeepingInvariant, PTL

\* No worker ever holds more than one room above its announced maximum.
THEOREM CapacityIsBounded == Spec => []CapacityBound
<1>1. Bookkeeping => CapacityBound
  BY DEF Bookkeeping, Tables, TypeOK, Counts, Load, CapacityBound
<1> QED
  BY <1>1, BookkeepingInvariant, PTL

----------------------------------------------------------------------------
(* The messages exchanged with a worker add up to its tasks.               *)

\* ToldMatchesTasks, pair by pair.
Told == \A w \in workers, r \in Rooms : r \in told[w] <=> <<w, r>> \in tasks

\* RoomsOf picks the second halves of the pairs of one worker.
LEMMA RoomsOfMember ==
  ASSUME NEW S, S \subseteq Ids \X Rooms, NEW w, NEW r
  PROVE  r \in RoomsOf(S, w) <=> <<w, r>> \in S
BY DEF RoomsOf

\* Told is the stated property.
LEMMA ToldMeaning == TypeOK /\ Told => ToldMatchesTasks
<1> SUFFICES ASSUME TypeOK, Told, NEW w \in workers PROVE told[w] = RoomsOf(tasks, w)
  BY DEF ToldMatchesTasks
<1>1. told[w] \subseteq Rooms /\ RoomsOf(tasks, w) \subseteq Rooms
  BY DEF TypeOK, RoomsOf
<1>2. \A r : r \in RoomsOf(tasks, w) <=> <<w, r>> \in tasks
  BY RoomsOfMember DEF TypeOK
<1> QED
  BY <1>1, <1>2 DEF Told

\* A reset worker holds nothing and has heard of nothing.
LEMMA ToldReset ==
  ASSUME TypeOK, Told, NEW D, D \subseteq Ids, NEW m, reset_worker(D, m),
         workers' \subseteq workers \cup D, workers' \subseteq Ids
  PROVE  Told'
<1> SUFFICES ASSUME NEW w \in workers', NEW r \in Rooms
             PROVE  r \in told'[w] <=> <<w, r>> \in tasks'
  BY DEF Told
<1>1. /\ tasks' = {t \in tasks : t[1] \notin D}
      /\ told'[w] = IF w \in D THEN {} ELSE told[w]
  BY DEF reset_worker
<1> QED
  BY <1>1 DEF Told

\* Withdrawn tasks have been unassigned.
LEMMA ToldDelete ==
  ASSUME TypeOK, Told, NEW S \in SUBSET tasks, tasks' = tasks \ S, send_unassign(S),
         workers' = workers
  PROVE  Told'
<1> SUFFICES ASSUME NEW w \in workers, NEW r \in Rooms
             PROVE  r \in told'[w] <=> <<w, r>> \in tasks'
  BY DEF Told
<1>1. S \subseteq Ids \X Rooms /\ w \in Ids
  BY DEF TypeOK
<1>2. told'[w] = told[w] \ RoomsOf(S, w)
  BY <1>1 DEF send_unassign
<1>3. r \in RoomsOf(S, w) <=> <<w, r>> \in S
  BY <1>1, RoomsOfMember
<1> QED
  BY <1>2, <1>3 DEF Told

\* Every step keeps the two accounts equal.
LEMMA ToldStep == Tables /\ Told /\ [Next]_vars => Told'
<1> SUFFICES ASSUME Tables, Told, [Next]_vars PROVE Told'
  OBVIOUS
<1>0. TypeOK /\ TasksBacked /\ Tables'
  BY TablesStep DEF Tables
<1>a. workers' \subseteq Ids /\ workers \subseteq Ids
  BY <1>0 DEF Tables, TypeOK
<1>1. ASSUME NEW w \in Ids, on_accept(w) PROVE Told'
  <2>1. reset_worker({w}, -1) /\ workers' = workers \cup {w}
    BY <1>1 DEF on_accept
  <2> QED
    BY <1>0, <1>a, <2>1, ToldReset
<1>2. ASSUME NEW w \in Ids, NEW m \in Caps, worker_ready(w, m) PROVE Told'
  <2>1. reset_worker({w}, m) /\ workers' = workers
    BY <1>2 DEF worker_ready
  <2> QED
    BY <1>0, <1>a, <2>1, ToldReset
<1>3. ASSUME NEW w \in Ids, worker_ready_rejected(w) PROVE Told'
  <2>1. reset_worker({w}, -1) /\ workers' = workers \ {w}
    BY <1>3 DEF worker_ready_rejected, delete_worker
  <2> QED
    BY <1>0, <1>a, <2>1, ToldReset
<1>4. ASSUME check_worker_interval PROVE Told'
  <2>1. PICK D \in SUBSET Overdue : reset_worker(D, -1) /\ workers' = workers \ D
    BY <1>4 DEF check_worker_interval, delete_worker
  <2>2. D \subseteq Ids
    BY <1>a DEF Overdue
  <2> QED
    BY <1>0, <1>a, <2>1, <2>2, ToldReset
<1>5. ASSUME NEW w \in Ids, NEW r \in Rooms, room_failed(w, r) PROVE Told'
  <2>1. /\ tasks' = tasks \ {<<w, r>>} /\ workers' = workers
        /\ told' = [told EXCEPT ![w] = @ \ {r}]
    BY <1>5 DEF room_failed, delete_task
  <2>2. ASSUME NEW v \in workers, NEW q \in Rooms
        PROVE  q \in told'[v] <=> <<v, q>> \in tasks'
    <3>1. told'[v] = IF v = w THEN told[v] \ {r} ELSE told[v]
      BY <1>0, <1>a, <2>1 DEF TypeOK
    <3> QED
      BY <2>1, <3>1 DEF Told
  <2> QED
    BY <2>1, <2>2 DEF Told
<1>6. ASSUME check_task_interval PROVE Told'
  <2> DEFINE S == {t \in tasks : task_idle[t] >= Timeout}
  <2>1. S \in SUBSET tasks /\ tasks' = tasks \ S /\ send_unassign(S) /\ workers' = workers
    BY <1>6 DEF check_task_interval, delete_task
  <2> HIDE DEF S
  <2> QED
    BY <1>0, <2>1, ToldDelete
<1>7. ASSUME delete_inactive_rooms PROVE Told'
  <2> DEFINE S == {t \in tasks : t[2] \notin active}
  <2>1. S \in SUBSET tasks /\ tasks' = tasks \ S /\ send_unassign(S) /\ workers' = workers
    BY <1>7 DEF delete_inactive_rooms, delete_task
  <2> HIDE DEF S
  <2> QED
    BY <1>0, <2>1, ToldDelete
<1>8. ASSUME NEW r \in Rooms, room_trimmed(r) PROVE Told'
  <2>1. PICK S \in SUBSET TasksIn(r) :
          tasks' = tasks \ S /\ send_unassign(S)
    BY <1>8 DEF room_trimmed, delete_task
  <2>2. S \in SUBSET tasks /\ workers' = workers
    BY <1>8 DEF room_trimmed, TasksIn
  <2> QED
    BY <1>0, <2>1, <2>2, ToldDelete
<1>9. ASSUME NEW w \in Ids, NEW r \in Rooms, room_assigned(w, r) PROVE Told'
  <2>1. /\ tasks' = tasks \cup {<<w, r>>} /\ workers' = workers
        /\ told' = [told EXCEPT ![w] = @ \cup {r}]
    BY <1>9 DEF room_assigned, assign_task
  <2>2. ASSUME NEW v \in workers, NEW q \in Rooms
        PROVE  q \in told'[v] <=> <<v, q>> \in tasks'
    <3>1. told'[v] = IF v = w THEN told[v] \cup {r} ELSE told[v]
      BY <1>0, <1>a, <2>1 DEF TypeOK
    <3> QED
      BY <2>1, <3>1 DEF Told
  <2> QED
    BY <2>1, <2>2 DEF Told
<1>10. ASSUME NEW w \in Ids, message_from_unknown(w) PROVE Told'
  BY <1>0, <1>10 DEF message_from_unknown, TasksBacked, Told, workerVars, history
<1>11. ASSUME \/ on_accept_peer_gone \/ on_timer_tick \/ Tick \/ check_done \/ collect_workers
              \/ UNCHANGED vars
              \/ \E w \in Ids : connection_lost(w)
              \/ \E w \in Ids, r \in Rooms : worker_data(w, r)
              \/ \E S \in SUBSET Rooms : update_room_lists(S)
              \/ \E r \in Rooms : room_skipped(r)
       PROVE  Told'
  <2>1. UNCHANGED <<tasks, workers, told>>
    BY <1>11 DEF on_accept_peer_gone, on_timer_tick, Tick, check_done, collect_workers, vars,
       connection_lost, worker_data, update_room_lists, room_skipped, workerVars, taskVars, history
  <2> QED
    BY <2>1 DEF Told
<1> QED
  BY <1>1, <1>2, <1>3, <1>4, <1>5, <1>6, <1>7, <1>8, <1>9, <1>10, <1>11 DEF Next, CheckStep

\* What the workers were told is what the supervisor believes, always.
THEOREM WorkersKnowTheirTasks == Spec => []ToldMatchesTasks
<1>1. Init => Tables /\ Told
  BY TablesInit DEF Init, Told
<1>2. (Tables /\ Told) /\ [Next]_vars => (Tables /\ Told)'
  BY TablesStep, ToldStep
<1>3. Tables /\ Told => ToldMatchesTasks
  BY ToldMeaning DEF Tables
<1> QED
  BY <1>1, <1>2, <1>3, PTL DEF Spec

----------------------------------------------------------------------------
(* A worker that failed a task rests.                                      *)

\* The rest a worker has had and the penalty left to it make up the whole
\* penalty; the workers collected for assignment have rested.
Rested ==
  /\ \A w \in Ids : cooldown[w] + rest[w] >= Penalty
  /\ \A w \in avail : rest[w] >= Penalty

\* Losing tasks in error sets the penalty and the rest back together.
LEMMA PenalisedIsPenalty ==
  ASSUME NeverPunished, NEW S
  PROVE  Penalised(S) = [w \in Ids |-> IF \E t \in S : t[1] = w THEN Penalty ELSE cooldown[w]]
<1>1. \A w \in Ids : ~punished[w]
  BY DEF NeverPunished
<1> QED
  BY <1>1, Zenon DEF Penalised

\* A penalty never shortens the one that runs.
LEMMA PenaltyGrows ==
  ASSUME TypeOK, Rested, NeverPunished, NEW S, NEW b \in BOOLEAN, delete_task(S, b)
  PROVE  \A w \in Ids : cooldown'[w] \in Nat /\ cooldown'[w] + rest[w] >= Penalty
<1>1. \/ cooldown' = cooldown
      \/ cooldown' = [w \in Ids |-> IF \E t \in S : t[1] = w THEN Penalty ELSE cooldown[w]]
  BY PenalisedIsPenalty DEF delete_task
<1>2. \A w \in Ids : cooldown[w] \in Nat /\ rest[w] \in Nat /\ cooldown[w] + rest[w] >= Penalty
  BY DEF TypeOK, Rested
<1> QED
  BY <1>1, <1>2, TimeAssumption

\* Resetting a worker lifts its penalty and restores its rest.
LEMMA ResetRested ==
  ASSUME TypeOK, Rested, NEW D, NEW m, reset_worker(D, m), avail' = avail, avail = {}
  PROVE  Rested'
<1>1. \A w \in Ids : /\ cooldown'[w] = IF w \in D THEN 0 ELSE cooldown[w]
                     /\ rest'[w] = IF w \in D THEN Penalty ELSE rest[w]
  BY DEF reset_worker, Zeroed, TypeOK
<1> QED
  BY <1>1, TimeAssumption DEF Rested, TypeOK

\* Every step keeps the two clocks in step.
LEMMA RestedStep == Tables /\ Rested /\ [Next]_vars => Rested'
<1> SUFFICES ASSUME Tables, Rested, [Next]_vars PROVE Rested'
  OBVIOUS
<1>0. TypeOK /\ NeverPunished /\ LocalsEmpty /\ avail \subseteq Ids
  BY DEF Tables, TypeOK
<1>1. ASSUME NEW w \in Ids, on_accept(w) PROVE Rested'
  BY <1>0, <1>1, ResetRested DEF on_accept, LocalsEmpty, localVars
<1>2. ASSUME NEW w \in Ids, NEW m \in Caps, worker_ready(w, m) PROVE Rested'
  BY <1>0, <1>2, ResetRested DEF worker_ready, LocalsEmpty, localVars
<1>3. ASSUME NEW w \in Ids, worker_ready_rejected(w) PROVE Rested'
  BY <1>0, <1>3, ResetRested DEF worker_ready_rejected, delete_worker, LocalsEmpty, localVars
<1>4. ASSUME check_worker_interval PROVE Rested'
  BY <1>0, <1>4, ResetRested DEF check_worker_interval, delete_worker, LocalsEmpty, localVars
<1>5. ASSUME NEW w \in Ids, NEW r \in Rooms, room_failed(w, r) PROVE Rested'
  <2> DEFINE S == {<<w, r>>} \cap tasks
  <2>1. /\ delete_task(S, TRUE) /\ avail' = {}
        /\ rest' = IF S = {} THEN rest ELSE [rest EXCEPT ![w] = 0]
    BY <1>0, <1>5 DEF room_failed, LocalsEmpty, localVars
  <2>2. cooldown' = [v \in Ids |-> IF \E t \in S : t[1] = v THEN Penalty ELSE cooldown[v]]
    BY <1>0, <2>1, PenalisedIsPenalty DEF delete_task
  <2>3. ASSUME NEW v \in Ids PROVE cooldown'[v] + rest'[v] >= Penalty
    <3>1. /\ cooldown[v] \in Nat /\ rest[v] \in Nat /\ cooldown[v] + rest[v] >= Penalty
          /\ rest \in [Ids -> 0 .. Penalty]
      BY <1>0 DEF TypeOK, Rested
    <3>2. CASE S = {}
      BY <2>1, <2>2, <3>1, <3>2
    <3>3. CASE S # {} /\ v = w
      <4>1. \E t \in S : t[1] = v
        BY <3>3
      <4> HIDE DEF S
      <4>2. cooldown'[v] = Penalty /\ rest'[v] = 0
        BY <2>1, <2>2, <3>1, <3>3, <4>1
      <4> QED
        BY <4>2, TimeAssumption
    <3>4. CASE S # {} /\ v # w
      <4>1. ~ \E t \in S : t[1] = v
        BY <3>4
      <4> HIDE DEF S
      <4>2. cooldown'[v] = cooldown[v] /\ rest'[v] = rest[v]
        BY <2>1, <2>2, <3>1, <3>4, <4>1
      <4> QED
        BY <4>2, <3>1
    <3> QED
      BY <3>2, <3>3, <3>4
  <2> QED
    BY <2>1, <2>3 DEF Rested
<1>6. ASSUME check_task_interval PROVE Rested'
  <2> DEFINE S == {t \in tasks : task_idle[t] >= Timeout}
  <2>1. /\ delete_task(S, TRUE) /\ avail' = {}
        /\ rest' = [w \in Ids |-> IF RoomsOf(S, w) # {} THEN 0 ELSE rest[w]]
    BY <1>0, <1>6 DEF check_task_interval, LocalsEmpty, localVars
  <2> HIDE DEF S
  <2>2. cooldown' = [v \in Ids |-> IF \E t \in S : t[1] = v THEN Penalty ELSE cooldown[v]]
    BY <1>0, <2>1, PenalisedIsPenalty DEF delete_task
  <2>3. ASSUME NEW v \in Ids PROVE cooldown'[v] + rest'[v] >= Penalty
    <3>1. (RoomsOf(S, v) # {}) <=> \E t \in S : t[1] = v
      BY DEF RoomsOf
    <3>2. cooldown[v] \in Nat /\ rest[v] \in Nat /\ cooldown[v] + rest[v] >= Penalty
      BY <1>0 DEF TypeOK, Rested
    <3> QED
      BY <2>1, <2>2, <3>1, <3>2, TimeAssumption
  <2> QED
    BY <2>1, <2>3 DEF Rested
<1>7. ASSUME NEW b \in BOOLEAN, NEW S, delete_task(S, b), avail' \subseteq avail, rest' = rest
      PROVE  Rested'
  BY <1>0, <1>7, PenaltyGrows DEF Rested
<1>8. ASSUME delete_inactive_rooms PROVE Rested'
  BY <1>7, <1>8 DEF delete_inactive_rooms
<1>9. ASSUME NEW r \in Rooms, room_trimmed(r) PROVE Rested'
  BY <1>7, <1>9 DEF room_trimmed, Looked
<1>10. ASSUME collect_workers PROVE Rested'
  <2>1. /\ \A w \in avail' : w \in Ids /\ cooldown[w] = 0
        /\ UNCHANGED <<cooldown, rest>>
    BY <1>0, <1>10 DEF collect_workers, history, TypeOK
  <2>2. \A w \in Ids : rest[w] \in Nat /\ cooldown[w] + rest[w] >= Penalty
    BY <1>0 DEF TypeOK, Rested
  <2> QED
    BY <2>1, <2>2 DEF Rested
<1>11. ASSUME Tick PROVE Rested'
  <2>1. /\ avail' = {}
        /\ cooldown' = [w \in Ids |-> IF cooldown[w] > 0 THEN cooldown[w] - 1 ELSE 0]
        /\ rest' = Older(rest, Penalty)
    BY <1>0, <1>11 DEF Tick, LocalsEmpty, localVars
  <2>2. ASSUME NEW w \in Ids PROVE cooldown'[w] + rest'[w] >= Penalty
    <3>1. cooldown[w] \in Nat /\ rest[w] \in 0 .. Penalty /\ cooldown[w] + rest[w] >= Penalty
      BY <1>0 DEF TypeOK, Rested
    <3>2. rest'[w] = IF rest[w] < Penalty THEN rest[w] + 1 ELSE rest[w]
      BY <1>0, <2>1 DEF Older, TypeOK
    <3> QED
      BY <2>1, <3>1, <3>2, TimeAssumption
  <2> QED
    BY <2>1, <2>2 DEF Rested
<1>12. ASSUME \/ on_accept_peer_gone \/ on_timer_tick \/ check_done \/ UNCHANGED vars
              \/ \E w \in Ids : connection_lost(w) \/ message_from_unknown(w)
              \/ \E w \in Ids, r \in Rooms : worker_data(w, r) \/ room_assigned(w, r)
              \/ \E S \in SUBSET Rooms : update_room_lists(S)
              \/ \E r \in Rooms : room_skipped(r)
       PROVE  Rested'
  <2>1. UNCHANGED <<cooldown, rest>> /\ avail' \subseteq avail
    BY <1>12 DEF on_accept_peer_gone, on_timer_tick, check_done, vars, connection_lost,
       message_from_unknown, worker_data, room_assigned, update_room_lists, room_skipped, Looked,
       workerVars, localVars, history
  <2> QED
    BY <2>1 DEF Rested
<1> QED
  BY <1>1, <1>2, <1>3, <1>4, <1>5, <1>6, <1>8, <1>9, <1>10, <1>11, <1>12 DEF Next, CheckStep

\* Only the assignment of a room adds a task, and it draws on the rested.
LEMMA NewTaskIsRested ==
  Tables /\ Rested /\ [Next]_vars => [\A t \in tasks' \ tasks : rest[t[1]] >= Penalty]_vars
<1> SUFFICES ASSUME Tables, Rested, Next, NEW t \in tasks', t \notin tasks
             PROVE  rest[t[1]] >= Penalty
  OBVIOUS
<1>1. CASE \E w \in Ids, r \in Rooms : room_assigned(w, r)
  <2>1. PICK w \in Ids, r \in Rooms : room_assigned(w, r)
    BY <1>1
  <2>2. t = <<w, r>> /\ w \in avail
    BY <2>1 DEF room_assigned, assign_task, First, Takers
  <2> QED
    BY <2>2 DEF Rested
<1>2. CASE ~ \E w \in Ids, r \in Rooms : room_assigned(w, r)
  <2>1. tasks' \subseteq tasks
    BY <1>2 DEF Next, CheckStep, on_accept, worker_ready, worker_ready_rejected, delete_worker,
       reset_worker, check_worker_interval, room_failed, check_task_interval,
       delete_inactive_rooms, room_trimmed, delete_task, on_accept_peer_gone, on_timer_tick,
       check_done, connection_lost, message_from_unknown, worker_data, update_room_lists,
       room_skipped, Tick, collect_workers, taskVars
  <2> QED
    BY <2>1
<1> QED
  BY <1>1, <1>2

\* A failed worker is left alone for the whole penalty, in every behaviour.
THEOREM FailedWorkersRest == Spec => FailedWorkerRests
<1>1. Init => Tables /\ Rested
  BY TablesInit, TimeAssumption DEF Init, Rested
<1>2. (Tables /\ Rested) /\ [Next]_vars => (Tables /\ Rested)'
  BY TablesStep, RestedStep
<1> QED
  BY <1>1, <1>2, NewTaskIsRested, PTL DEF Spec, FailedWorkerRests

----------------------------------------------------------------------------
(***************************************************************************)
(* The scheduler implements the task board, for all workers, rooms,        *)
(* capacities and times, as long as there is a penalty at all.  Every      *)
(* phase of a check is a step of the board of its own, or none.            *)
(***************************************************************************)

\* An identifier without a worker has nothing.
Gone == \A w \in Ids \ workers : told[w] = {}

\* What the refinement rests on.
Implements == Bookkeeping /\ Told /\ Rested /\ Gone

\* The messages account for the tasks of all identifiers.
AllTold == \A w \in Ids, r \in Rooms : r \in told[w] <=> <<w, r>> \in tasks

\* Every room somebody was told to receive is known.
HeldKnown == \A w \in Ids : told[w] \subseteq rooms

\* Both follow from the invariant.
LEMMA Account == Implements => TypeOK /\ TasksBacked /\ AllTold /\ HeldKnown
<1> SUFFICES ASSUME Implements PROVE TypeOK /\ TasksBacked /\ AllTold /\ HeldKnown
  OBVIOUS
<1>1. TypeOK /\ TasksBacked /\ Told /\ Gone
  BY DEF Implements, Bookkeeping, Tables
<1>2. AllTold
  BY <1>1 DEF AllTold, Told, Gone, TasksBacked
<1>3. ASSUME NEW w \in Ids, NEW r \in told[w] PROVE r \in rooms
  <2>1. <<w, r>> \in tasks
    BY <1>1, <1>2 DEF AllTold, TypeOK
  <2>. QED BY <1>1, <2>1 DEF TasksBacked
<1>. QED BY <1>1, <1>2, <1>3 DEF HeldKnown

----------------------------------------------------------------------------
\* What becomes of told in a step: identifiers without a worker get nothing.
LEMMA GoneStep == Tables /\ Gone /\ [Next]_vars => Gone'
<1> SUFFICES ASSUME Tables, Gone, [Next]_vars, NEW w \in Ids, w \notin workers'
             PROVE  told'[w] = {}
  BY DEF Gone
<1>0. TypeOK /\ avail \subseteq workers
  BY DEF Tables, TypeOK
<1>1. ASSUME NEW v \in Ids, on_accept(v) PROVE told'[w] = {}
  BY <1>1 DEF on_accept, reset_worker, Gone
<1>2. ASSUME NEW v \in Ids, NEW m \in Caps, worker_ready(v, m) PROVE told'[w] = {}
  BY <1>2 DEF worker_ready, reset_worker, Gone
<1>3. ASSUME NEW v \in Ids, worker_ready_rejected(v) PROVE told'[w] = {}
  BY <1>3 DEF worker_ready_rejected, delete_worker, reset_worker, Gone
<1>4. ASSUME check_worker_interval PROVE told'[w] = {}
  BY <1>4 DEF check_worker_interval, delete_worker, reset_worker, Gone
<1>5. ASSUME NEW v \in Ids, NEW r \in Rooms, room_failed(v, r) PROVE told'[w] = {}
  BY <1>0, <1>5 DEF room_failed, Gone, TypeOK
<1>6. ASSUME NEW S, send_unassign(S), workers' = workers PROVE told'[w] = {}
  BY <1>6 DEF send_unassign, Gone
<1>7. ASSUME check_task_interval \/ delete_inactive_rooms \/ \E r \in Rooms : room_trimmed(r)
      PROVE  told'[w] = {}
  BY <1>6, <1>7 DEF check_task_interval, delete_inactive_rooms, room_trimmed
<1>8. ASSUME NEW v \in Ids, NEW r \in Rooms, room_assigned(v, r) PROVE told'[w] = {}
  <2>1. v \in workers /\ workers' = workers /\ told' = [told EXCEPT ![v] = @ \cup {r}]
    BY <1>0, <1>8 DEF room_assigned, First, Takers, assign_task
  <2>. QED BY <1>0, <2>1 DEF Gone, TypeOK
<1>9. ASSUME \/ on_accept_peer_gone \/ on_timer_tick \/ Tick \/ collect_workers \/ check_done
             \/ UNCHANGED vars
             \/ \E v \in Ids : connection_lost(v) \/ message_from_unknown(v)
             \/ \E v \in Ids, r \in Rooms : worker_data(v, r)
             \/ \E S \in SUBSET Rooms : update_room_lists(S)
             \/ \E r \in Rooms : room_skipped(r)
      PROVE  told'[w] = {}
  <2>1. UNCHANGED <<workers, told>>
    BY <1>9 DEF on_accept_peer_gone, on_timer_tick, Tick, collect_workers, check_done, vars,
       connection_lost, message_from_unknown, worker_data, update_room_lists, room_skipped,
       workerVars, history
  <2>. QED BY <2>1 DEF Gone
<1>. QED BY <1>1, <1>2, <1>3, <1>4, <1>5, <1>7, <1>8, <1>9 DEF Next, CheckStep

\* The invariant the refinement rests on.
THEOREM ImplementsInvariant == Spec => []Implements
<1>1. Init => Implements
  BY BookkeepingInit, TimeAssumption DEF Init, Implements, Told, Rested, Gone
<1>2. Implements /\ [Next]_vars => Implements'
  BY BookkeepingStep, ToldStep, RestedStep, GoneStep DEF Implements, Bookkeeping
<1>. QED BY <1>1, <1>2, PTL DEF Spec

----------------------------------------------------------------------------
(* The steps.                                                              *)

Resting == {w \in Ids : rest[w] < Penalty}

\* reset_worker on the board.
LEMMA ResetIsFresh ==
  ASSUME TypeOK, NEW D, D \subseteq Ids, NEW m, reset_worker(D, m)
  PROVE  Board!Fresh(D, m)
<1>1. Resting' = Resting \ D
  <2>1. \A w \in Ids : rest'[w] = IF w \in D THEN Penalty ELSE rest[w]
    BY DEF reset_worker
  <2>. QED BY <2>1, TimeAssumption DEF Resting
<1>. QED BY <1>1 DEF reset_worker, Board!Fresh, Resting

\* Withdrawn tasks on the board: nothing is taken that was not held.
LEMMA UnassignShrinks ==
  ASSUME TypeOK, HeldKnown, NEW S, send_unassign(S)
  PROVE  /\ told' \in [Ids -> SUBSET rooms]
         /\ \A w \in Ids : told'[w] \subseteq told[w]
BY DEF send_unassign, TypeOK, HeldKnown

\* A worker connects.
LEMMA JoinStep ==
  ASSUME Implements, NEW w \in Ids, on_accept(w)
  PROVE  Board!Next
<1>1. Board!Fresh({w}, -1)
  BY Account, ResetIsFresh DEF on_accept
<1>2. Board!Join(w)
  BY <1>1 DEF Board!Join, on_accept, roomVars
<1>. QED BY <1>2 DEF Board!Next

\* A worker is ready.
LEMMA AnnounceStep ==
  ASSUME Implements, NEW w \in Ids, NEW m \in Caps, worker_ready(w, m)
  PROVE  Board!Next
<1>1. Board!Fresh({w}, m)
  BY Account, ResetIsFresh DEF worker_ready
<1>2. Board!Announce(w, m)
  BY <1>1 DEF Board!Announce, worker_ready, roomVars
<1>. QED BY <1>2 DEF Board!Next

\* Workers are dropped.
LEMMA Dropped ==
  ASSUME TypeOK, NEW D, D \subseteq Ids, delete_worker(D), rooms' = rooms
  PROVE  Board!Next
<1>1. Board!Fresh(D, -1)
  BY ResetIsFresh DEF delete_worker
<1>2. Board!Leave(D)
  BY <1>1 DEF Board!Leave, delete_worker
<1>. QED BY <1>2 DEF Board!Next

\* A worker that is not let in is dropped.
LEMMA LeaveStep ==
  ASSUME Implements, NEW w \in Ids, worker_ready_rejected(w)
  PROVE  Board!Next
BY Account, Dropped DEF worker_ready_rejected, roomVars

\* Workers that fell silent are dropped, however many the scan sees.
LEMMA OverdueStep ==
  ASSUME Implements, check_worker_interval
  PROVE  Board!Next
<1>1. PICK D \in SUBSET Overdue : delete_worker(D)
  BY DEF check_worker_interval
<1>2. TypeOK /\ D \subseteq Ids /\ rooms' = rooms
  BY Account DEF Overdue, TypeOK, check_worker_interval, roomVars
<1>. QED BY <1>1, <1>2, Dropped

\* A failed room: the worker's word.
LEMMA FailedStep ==
  ASSUME Implements, Penalty # 0, NEW w \in Ids, NEW r \in Rooms, room_failed(w, r)
  PROVE  [Board!Next]_(Board!bvars)
<1>0. TypeOK /\ AllTold /\ HeldKnown BY Account
<1>1. UNCHANGED <<workers, max_rooms, rooms>> /\ told' = [told EXCEPT ![w] = @ \ {r}]
  BY DEF room_failed
<1>2. CASE <<w, r>> \notin tasks
  <2>1. r \notin told[w]
    BY <1>0, <1>2 DEF AllTold
  <2>2. told' = told
    BY <1>0, <1>1, <2>1 DEF TypeOK
  <2>3. rest' = rest
    BY <1>2 DEF room_failed
  <2>. QED BY <1>1, <2>2, <2>3 DEF Board!bvars
<1>3. CASE <<w, r>> \in tasks
  <2>1. r \in told[w] /\ rest' = [rest EXCEPT ![w] = 0]
    BY <1>0, <1>3 DEF AllTold, room_failed
  <2>2. Resting' = Resting \cup {w}
    BY <1>0, <2>1, TimeAssumption DEF Resting, TypeOK
  <2>3. told' \in [Ids -> SUBSET rooms] /\ \A v \in Ids : told'[v] \subseteq told[v]
    BY <1>0, <1>1 DEF HeldKnown, TypeOK
  <2>4. {v \in Ids : told'[v] # told[v]} = {w}
    BY <1>0, <1>1, <2>1 DEF TypeOK
  <2>5. Board!Fail
    BY <1>1, <2>2, <2>3, <2>4 DEF Board!Fail, Resting
  <2>. QED BY <2>5 DEF Board!Next
<1>. QED BY <1>2, <1>3

\* Rooms that fell silent.
LEMMA SilentStep ==
  ASSUME Implements, Penalty # 0, check_task_interval
  PROVE  [Board!Next]_(Board!bvars)
<1>0. TypeOK /\ AllTold /\ HeldKnown BY Account
<1> DEFINE S == {t \in tasks : task_idle[t] >= Timeout}
<1>1. /\ send_unassign(S) /\ rest' = [w \in Ids |-> IF RoomsOf(S, w) # {} THEN 0 ELSE rest[w]]
      /\ UNCHANGED <<workers, max_rooms, rooms>> /\ S \subseteq tasks
  BY DEF check_task_interval
<1> HIDE DEF S
<1>2. ASSUME NEW w \in Ids PROVE told'[w] # told[w] <=> RoomsOf(S, w) # {}
  <2>1. told'[w] = told[w] \ RoomsOf(S, w)
    BY <1>1 DEF send_unassign
  <2>2. RoomsOf(S, w) \subseteq told[w]
    BY <1>0, <1>1 DEF RoomsOf, AllTold, TypeOK
  <2>. QED BY <2>1, <2>2
<1>3. Resting' = Resting \cup {w \in Ids : told'[w] # told[w]}
  BY <1>0, <1>1, <1>2, TimeAssumption DEF Resting, TypeOK
<1>4. Board!Fail
  BY <1>0, <1>1, <1>3, UnassignShrinks DEF Board!Fail, Resting
<1>. QED BY <1>4 DEF Board!Next

\* Rooms taken off the list lose their places on the board.
LEMMA DelistStep ==
  ASSUME Implements, delete_inactive_rooms
  PROVE  Board!Next
<1>0. TypeOK /\ AllTold /\ HeldKnown BY Account
<1> DEFINE S == {t \in tasks : t[2] \notin active}
           R == rooms \ active
<1>1. /\ send_unassign(S) /\ rooms' = active
      /\ UNCHANGED <<workers, max_rooms, rest>>
  BY DEF delete_inactive_rooms
<1>2. rooms' = rooms \ R /\ R \in SUBSET Rooms
  BY <1>0, <1>1 DEF TypeOK
<1>3. ASSUME NEW w \in Ids PROVE told[w] \ RoomsOf(S, w) = told[w] \ R
  <2>1. ASSUME NEW r \in told[w] PROVE r \in RoomsOf(S, w) <=> r \in R
    <3>1. r \in rooms /\ r \in Rooms /\ <<w, r>> \in tasks
      BY <1>0, <2>1 DEF AllTold, HeldKnown, TypeOK
    <3>2. r \in RoomsOf(S, w) <=> <<w, r>> \in S
      BY <1>0, RoomsOfMember DEF TypeOK
    <3>. QED BY <3>1, <3>2
  <2>. QED BY <2>1
<1>4. told' = [w \in Ids |-> told[w] \ R]
  <2> HIDE DEF S, R
  <2>. QED BY <1>1, <1>3 DEF send_unassign
<1>5. Board!Delist(R)
  BY <1>1, <1>2, <1>4 DEF Board!Delist
<1>. QED BY <1>2, <1>5 DEF Board!Next

\* A worker has been told of no more rooms than its counter says.
LEMMA HeldCounted ==
  ASSUME Implements, NEW w \in Ids
  PROVE  Cardinality(told[w]) <= conns[w]
<1>0. TypeOK /\ AllTold BY Account
<1>1. told[w] \in SUBSET Rooms /\ TasksOf(w) = {<<w, r>> : r \in told[w]}
  BY <1>0 DEF AllTold, TypeOK, TasksOf
<1>2. IsFiniteSet(TasksOf(w)) /\ conns[w] = Cardinality(TasksOf(w))
  BY <1>0, PartsFinite DEF Implements, Bookkeeping, Counts
<1> DEFINE f == [t \in TasksOf(w) |-> t[2]]
<1>3. f \in Surjection(TasksOf(w), told[w])
  <2>1. f \in [TasksOf(w) -> told[w]]
    BY <1>1
  <2>2. ASSUME NEW r \in told[w] PROVE \E t \in TasksOf(w) : f[t] = r
    <3>1. <<w, r>> \in TasksOf(w) /\ f[<<w, r>>] = r
      BY <1>1
    <3>. QED BY <3>1
  <2> HIDE DEF f
  <2>. QED BY <2>1, <2>2 DEF Surjection
<1>. QED BY <1>2, <1>3, FS_Surjection

\* The assignment of a room.
LEMMA GiveStep ==
  ASSUME Implements, NEW w \in Ids, NEW r \in Rooms, room_assigned(w, r)
  PROVE  Board!Next
<1>0. TypeOK /\ AllTold BY Account
<1>1. /\ w \in avail /\ Usable(w) /\ <<w, r>> \notin tasks /\ r \in todo
      /\ told' = [told EXCEPT ![w] = @ \cup {r}]
      /\ UNCHANGED <<workers, max_rooms, rooms, rest>>
  BY DEF room_assigned, First, Takers, NextRoom, assign_task
<1>2. w \in workers /\ w \notin Resting
  BY <1>0, <1>1, TimeAssumption DEF TypeOK, Implements, Rested, Resting
<1>3. r \in rooms /\ r \notin told[w]
  BY <1>0, <1>1 DEF TypeOK, AllTold
<1>4. Cardinality(told[w]) <= max_rooms[w]
  <2>1. conns[w] <= max_rooms[w] /\ conns[w] \in Int /\ max_rooms[w] \in Int
    BY <1>0, <1>1 DEF Usable, TypeOK
  <2>2. Cardinality(told[w]) \in Nat
    <3>1. told[w] \in SUBSET Rooms /\ IsFiniteSet(Rooms)
      BY <1>0, IdsAssumption DEF TypeOK
    <3>. QED BY <3>1, FS_Subset, FS_CardinalityType
  <2>. QED BY <2>1, <2>2, HeldCounted
<1>5. Board!Give(w, r)
  BY <1>1, <1>2, <1>3, <1>4 DEF Board!Give, Board!Cardinality, Cardinality, Resting
<1>. QED BY <1>5 DEF Board!Next

\* The withdrawal of a room's tasks beyond the limits.
LEMMA TrimStep ==
  ASSUME Implements, NEW r \in Rooms, room_trimmed(r)
  PROVE  Board!Next
<1>0. TypeOK /\ HeldKnown BY Account
<1>1. PICK S \in SUBSET TasksIn(r) : send_unassign(S)
  BY DEF room_trimmed
<1>2. UNCHANGED <<workers, max_rooms, rooms, rest>>
  BY DEF room_trimmed
<1>3. ASSUME NEW w \in Ids PROVE told[w] \ {r} \subseteq told'[w]
  <2>1. told'[w] = told[w] \ RoomsOf(S, w)
    BY <1>1 DEF send_unassign
  <2>2. RoomsOf(S, w) \subseteq {r}
    BY DEF RoomsOf, TasksIn
  <2>. QED BY <2>1, <2>2
<1>4. Board!Trim(r)
  BY <1>0, <1>1, <1>2, <1>3, UnassignShrinks DEF Board!Trim
<1>. QED BY <1>4 DEF Board!Next

\* The clock lets workers rest.
LEMMA RestStep ==
  ASSUME Implements, Tick
  PROVE  Board!Next
<1>0. TypeOK BY Account
<1>1. UNCHANGED <<workers, max_rooms, rooms, told>> /\ rest' = Older(rest, Penalty)
  BY DEF Tick, roomVars
<1>2. Resting' \subseteq Resting
  BY <1>0, <1>1, TimeAssumption DEF Resting, Older, TypeOK
<1>3. Board!Rested
  BY <1>1, <1>2 DEF Board!Rested, Resting
<1>. QED BY <1>3 DEF Board!Next

\* Every step of the scheduler is a step of the board or none.
LEMMA BoardStep == Penalty # 0 /\ Implements /\ [Next]_vars => [Board!Next]_(Board!bvars)
<1> SUFFICES ASSUME Penalty # 0, Implements, [Next]_vars PROVE [Board!Next]_(Board!bvars)
  OBVIOUS
<1>1. ASSUME NEW S \in SUBSET Rooms, update_room_lists(S) PROVE Board!Next
  <2>1. Board!List(S)
    BY <1>1 DEF update_room_lists, Board!List, workerVars, history
  <2>. QED BY <2>1 DEF Board!Next
<1>2. ASSUME \/ on_accept_peer_gone \/ on_timer_tick \/ collect_workers \/ check_done
             \/ UNCHANGED vars
             \/ \E w \in Ids : connection_lost(w) \/ message_from_unknown(w)
             \/ \E w \in Ids, r \in Rooms : worker_data(w, r)
             \/ \E r \in Rooms : room_skipped(r)
      PROVE  UNCHANGED Board!bvars
  <2>1. UNCHANGED <<workers, max_rooms, rooms, told, rest>>
    BY <1>2 DEF on_accept_peer_gone, on_timer_tick, collect_workers, check_done, vars,
       connection_lost, message_from_unknown, worker_data, room_skipped,
       workerVars, roomVars, history
  <2>. QED BY <2>1 DEF Board!bvars
<1>. QED BY <1>1, <1>2, JoinStep, AnnounceStep, LeaveStep, OverdueStep, FailedStep, SilentStep, DelistStep, GiveStep, TrimStep,
     RestStep DEF Next, CheckStep

\* If failures are penalised at all, the scheduler (its tables, the phases of
\* check_all_states, the messages it sends) implements the task board: what
\* workers are told is what the board allows, whatever the parameters are.
THEOREM SchedulerImplementsTaskBoard ==
  ASSUME Penalty # 0
  PROVE  Spec => ImplementsTaskBoard
<1>1. Init => Board!Init
  BY TimeAssumption DEF Init, Board!Init
<1>2. Implements /\ [Next]_vars => [Board!Next]_(Board!bvars)
  BY BoardStep
<1>. QED BY <1>1, <1>2, ImplementsInvariant, PTL DEF Spec, ImplementsTaskBoard
=============================================================================
