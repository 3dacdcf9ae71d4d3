------------------------- MODULE RoomServiceProofs -------------------------
(***************************************************************************)
(* Theorems about a worker's connections to its rooms, for any number of   *)
(* rooms, connections, failures and calls of close() under way.            *)
(***************************************************************************)
EXTENDS RoomService, TLAPS

Steps == {"test", "mark", "report", "erase"}
Stages == Connecting \cup {"open", "silent", "mute", "gone"}

\* A call of close() that has set _closed and not yet come to the map.
Leaving(c) == \E x \in closers : x.conn = c /\ x.step \in {"report", "erase"}

\* Stronger than ClosedEntriesLeave, which any connection's call satisfies: one
\* that closed the entry itself will take it out.  A call that finds _closed set
\* returns, so that a death it was to report is left to this one.
Leaves == \A r \in Rooms : connections[r] \in closed => Leaving(connections[r])

\* The calls of close(): the thread of the link and the loop of
\* close_all_connections make one at a time.
Calls ==
  /\ \A x \in closers : x \in [conn : Conns, failed : BOOLEAN, by : {"link", "all", "callback"}, step : Steps]
  /\ \A x, y \in closers : x.by = y.by /\ x.by # "callback" => x = y

Inv == TypeOK /\ Calls /\ Leaves /\ DeathsAreReported

\* What the scheduler's part of the state is made of does not matter here.
Untouched == UNCHANGED <<connections, parses, room, stage, closed, closers, clearing, reported>>

----------------------------------------------------------------------------
\* What the invariant speaks of is left alone.
LEMMA UntouchedKeeps == Inv /\ Untouched => Inv'
BY DEF Inv, Untouched, TypeOK, Calls, Leaves, Leaving, DeathsAreReported, Live

\* Nothing is connected in the beginning.
LEMMA InvInit == ServiceInit => Inv
<1>. SUFFICES ASSUME ServiceInit PROVE Inv
  OBVIOUS
<1>1. /\ connections = [r \in Rooms |-> None] /\ closers = {} /\ closed = {} /\ reported = {}
      /\ room \in [Conns -> Rooms] /\ stage = [c \in Conns |-> "gone"] /\ clearing = FALSE /\ parses \in BOOLEAN
  BY DEF ServiceInit, Init
<1>2. TypeOK
  BY <1>1 DEF TypeOK
<1>3. Calls /\ Leaves /\ DeathsAreReported
  BY <1>1 DEF Calls, Leaves, DeathsAreReported
<1>. QED BY <1>2, <1>3 DEF Inv

\* The destructors that run because of one pointer are one call at most.
LEMMA DestroyedIsOne ==
  ASSUME NEW D \in SUBSET Conns, NEW by \in {"link", "all", "callback"}, \A c, d \in D : c = d
  PROVE  /\ \A x \in Destroyed(D, by) :
              /\ x \in [conn : Conns, failed : BOOLEAN, by : {"link", "all", "callback"}, step : Steps]
              /\ x.by = by
         /\ \A x, y \in Destroyed(D, by) : x = y
<1>1. \A x \in Destroyed(D, by) : \E c \in D : x = [conn |-> c, failed |-> FALSE, by |-> by, step |-> "test"]
  BY DEF Destroyed, Closer
<1>2. ASSUME NEW x \in Destroyed(D, by)
      PROVE  /\ x \in [conn : Conns, failed : BOOLEAN, by : {"link", "all", "callback"}, step : Steps]
             /\ x.by = by
  <2>1. PICK c \in D : x = [conn |-> c, failed |-> FALSE, by |-> by, step |-> "test"]
    BY <1>1
  <2>2. c \in Conns /\ FALSE \in BOOLEAN /\ "test" \in Steps
    BY DEF Steps
  <2>. QED BY <2>1, <2>2
<1>3. ASSUME NEW x \in Destroyed(D, by), NEW y \in Destroyed(D, by) PROVE x = y
  BY <1>1
<1>. QED BY <1>2, <1>3

\* Orders of the supervisor.
LEMMA OrderKeeps == Inv /\ HandleOrder => Inv'
<1>. SUFFICES ASSUME Inv, NEW r \in Rooms,
                     open_connection_again(r) \/ close_connection(r) \/ \E c \in Conns : open_connection(r, c)
              PROVE  Inv'
  BY DEF HandleOrder
<1>1. CASE open_connection_again(r)
  <2> DEFINE D == {c \in {connections[r]} : ~Held(c)}
  <2>1. /\ connections' = [connections EXCEPT ![r] = None] /\ closers' = closers \cup Destroyed(D, "link")
        /\ connections[r] \in Conns /\ \A x \in closers : x.by # "link"
        /\ UNCHANGED <<parses, room, stage, closed, clearing, reported>>
    BY <1>1 DEF open_connection_again, Order, LinkThreadBusy, objects, Inv, TypeOK
  <2>2. /\ \A x \in Destroyed(D, "link") :
             /\ x \in [conn : Conns, failed : BOOLEAN, by : {"link", "all", "callback"}, step : Steps]
             /\ x.by = "link"
        /\ \A x, y \in Destroyed(D, "link") : x = y
    BY <2>1, DestroyedIsOne
  <2> HIDE DEF D
  <2>3. Calls'
    BY <2>1, <2>2 DEF Inv, Calls
  <2>4. \A q \in Rooms : connections'[q] = IF q = r THEN None ELSE connections[q]
    BY <2>1 DEF Inv, TypeOK
  <2>5. TypeOK'
    BY <2>1, <2>3, <2>4 DEF Inv, TypeOK, Calls, Steps
  <2>6. Leaves' /\ DeathsAreReported'
    BY <2>1, <2>4, FaultsAssumption DEF Inv, TypeOK, Leaves, Leaving, DeathsAreReported, Live
  <2>. QED BY <2>3, <2>5, <2>6 DEF Inv
<1>2. CASE close_connection(r)
  <2> DEFINE C == {Closer(c, FALSE, "link", "test") : c \in {connections[r]} \ {None}}
  <2>1. /\ closers' = closers \cup C /\ \A x \in closers : x.by # "link"
        /\ UNCHANGED <<connections, parses, room, stage, closed, clearing, reported>>
    BY <1>2 DEF close_connection, Order, LinkThreadBusy, objects
  <2>2. /\ \A x \in C :
             /\ x \in [conn : Conns, failed : BOOLEAN, by : {"link", "all", "callback"}, step : Steps]
             /\ x.by = "link"
        /\ \A x, y \in C : x = y
    <3>1. \A x \in C : connections[r] \in Conns
                      /\ x = [conn |-> connections[r], failed |-> FALSE, by |-> "link", step |-> "test"]
      BY DEF Closer, Inv, TypeOK
    <3>2. connections[r] \in Conns =>
            [conn |-> connections[r], failed |-> FALSE, by |-> "link", step |-> "test"]
              \in [conn : Conns, failed : BOOLEAN, by : {"link", "all", "callback"}, step : Steps]
      BY DEF Steps
    <3>. QED BY <3>1, <3>2
  <2> HIDE DEF C
  <2>3. Calls'
    BY <2>1, <2>2 DEF Inv, Calls
  <2>4. TypeOK'
    BY <2>1, <2>3 DEF Inv, TypeOK, Calls, Steps
  <2>5. Leaves' /\ DeathsAreReported'
    BY <2>1 DEF Inv, Leaves, Leaving, DeathsAreReported, Live
  <2>. QED BY <2>3, <2>4, <2>5 DEF Inv
<1>3. ASSUME NEW c \in Conns, open_connection(r, c) PROVE Inv'
  <2>1. /\ connections' = [connections EXCEPT ![r] = c]
        /\ room' = [room EXCEPT ![c] = r]
        /\ stage' = [stage EXCEPT ![c] = IF parses THEN "fetching" ELSE "gone"]
        /\ closed' = closed \ {c} /\ reported' = reported \ {c}
        /\ UNCHANGED <<parses, closers, clearing>>
    BY <1>3 DEF open_connection, async_fetch
  <2>2. /\ \A x \in closers : x.conn # c
        /\ \A q \in Rooms : connections[q] # c
    BY <1>3 DEF open_connection, Unused, Held, Registered
  <2>3. \A q \in Rooms : connections'[q] = IF q = r THEN c ELSE connections[q]
    BY <2>1 DEF Inv, TypeOK
  <2>4. \A d \in Conns : /\ room'[d] = IF d = c THEN r ELSE room[d]
                         /\ stage'[d] = IF d # c THEN stage[d] ELSE IF parses THEN "fetching" ELSE "gone"
    BY <2>1 DEF Inv, TypeOK
  <2>5. Calls'
    BY <2>1 DEF Inv, Calls
  <2>6. TypeOK'
    <3>1. /\ connections' \in [Rooms -> Conns \cup {None}] /\ room' \in [Conns -> Rooms]
          /\ stage' \in [Conns -> Connecting \cup {"open", "silent", "mute", "gone"}]
      BY <2>1 DEF Inv, TypeOK, Connecting
    <3>2. \A q \in Rooms : connections'[q] # None => room'[connections'[q]] = q
      BY <2>2, <2>3, <2>4, <3>1 DEF Inv, TypeOK
    <3>. QED BY <2>1, <3>1, <3>2 DEF Inv, TypeOK
  <2>7. Leaves'
    BY <2>1, <2>2, <2>3 DEF Inv, Leaves, Leaving
  <2>8. DeathsAreReported'
    <3>1. ASSUME parses, NEW q \in Rooms, connections'[q] # None, stage'[connections'[q]] = "gone"
          PROVE  q # r /\ ~Live(connections[q]) /\ connections[q] \in Conns \ {c}
      BY <2>2, <2>3, <2>4, <3>1 DEF Inv, TypeOK, Live
    <3>. QED BY <2>1, <2>3, <3>1 DEF Inv, DeathsAreReported, Live
  <2>. QED BY <2>5, <2>6, <2>7, <2>8 DEF Inv
<1>. QED BY <1>1, <1>2, <1>3

\* The steps of close().
LEMMA CloseKeeps ==
  ASSUME Inv, NEW x \in closers, CloseStep(x)
  PROVE  Inv'
<1> DEFINE Call == [conn : Conns, failed : BOOLEAN, by : {"link", "all", "callback"}, step : Steps]
<1>0. x \in Call
  BY DEF Inv, Calls
<1>1. ASSUME NEW N, closers' = (closers \ {x}) \cup N,
             \A y \in N : y \in Call /\ y.by = x.by, \A y, z \in N : y = z
      PROVE  Calls'
  BY <1>0, <1>1 DEF Inv, Calls
<1> HIDE DEF Call
<1>n. ASSUME NEW n \in Call, n.by = x.by, closers' = (closers \ {x}) \cup {n}
      PROVE  Calls'
  <2> DEFINE N == {n}
  <2>1. /\ closers' = (closers \ {x}) \cup N
        /\ \A y \in N : y \in Call /\ y.by = x.by
        /\ \A y, z \in N : y = z
    BY <1>n
  <2> HIDE DEF N
  <2>. QED BY <1>1, <2>1
<1>2. CASE close_test(x)
  <2> DEFINE N == IF x.conn \in closed THEN {} ELSE {[x EXCEPT !.step = "mark"]}
  <2>1. /\ x.step = "test" /\ closers' = (closers \ {x}) \cup N
        /\ UNCHANGED <<connections, parses, room, stage, closed, clearing, reported>>
    BY <1>2 DEF close_test, objects
  <2>2. /\ \A y \in N : y \in Call /\ y.by = x.by /\ y.conn = x.conn
        /\ \A y, z \in N : y = z
        /\ x.conn \notin closed => \E y \in N : y.conn = x.conn
    BY <1>0 DEF Steps, Call
  <2> HIDE DEF N
  <2>3. Calls'
    BY <1>1, <2>1, <2>2
  <2>4. TypeOK'
    BY <2>1, <2>3 DEF Inv, TypeOK, Calls, Steps
  <2>5. Leaves'
    BY <2>1 DEF Inv, Leaves, Leaving
  <2>6. DeathsAreReported'
    BY <2>1, <2>2 DEF Inv, Leaves, Leaving, DeathsAreReported, Live
  <2>. QED BY <2>3, <2>4, <2>5, <2>6 DEF Inv
<1>3. CASE close_mark(x)
  <2> DEFINE n == [x EXCEPT !.step = IF x.failed THEN "report" ELSE "erase"]
  <2>1. /\ closers' = (closers \ {x}) \cup {n} /\ x.step = "mark" /\ closed' = closed \cup {x.conn}
        /\ stage' = [stage EXCEPT ![x.conn] = IF @ \in Connecting THEN @ ELSE "gone"]
        /\ UNCHANGED <<connections, parses, room, clearing, reported>>
    BY <1>3 DEF close_mark
  <2>2. n \in Call /\ n.by = x.by /\ n.conn = x.conn /\ n.step \in {"report", "erase"}
    BY <1>0 DEF Steps, Call
  <2> HIDE DEF n
  <2>3. Calls'
    BY <1>n, <2>1, <2>2
  <2>4. stage' \in [Conns -> Connecting \cup {"open", "silent", "mute", "gone"}]
        /\ \A d \in Conns : d # x.conn => stage'[d] = stage[d]
    BY <1>0, <2>1 DEF Call, Inv, TypeOK
  <2>5. TypeOK'
    BY <1>0, <2>1, <2>3, <2>4 DEF Call, Inv, TypeOK, Calls, Steps
  <2>6. Leaves'
    BY <2>1, <2>2 DEF Inv, Leaves, Leaving
  <2>7. DeathsAreReported'
    BY <2>1, <2>2, <2>4 DEF Inv, TypeOK, DeathsAreReported, Live
  <2>. QED BY <2>3, <2>5, <2>6, <2>7 DEF Inv
<1>4. CASE close_report(x)
  <2> DEFINE n == [x EXCEPT !.step = "erase"]
  <2>1. /\ closers' = (closers \ {x}) \cup {n} /\ x.step = "report" /\ reported' = reported \cup {x.conn}
        /\ UNCHANGED <<connections, parses, room, stage, closed, clearing>>
    BY <1>4 DEF close_report
  <2>2. n \in Call /\ n.by = x.by /\ n.conn = x.conn /\ n.step = "erase"
    BY <1>0 DEF Steps, Call
  <2> HIDE DEF n
  <2>3. Calls'
    BY <1>n, <2>1, <2>2
  <2>4. TypeOK'
    BY <1>0, <2>1, <2>3 DEF Call, Inv, TypeOK, Calls, Steps
  <2>5. Leaves' /\ DeathsAreReported'
    BY <2>1, <2>2 DEF Inv, Leaves, Leaving, DeathsAreReported, Live
  <2>. QED BY <2>3, <2>4, <2>5 DEF Inv
<1>5. CASE on_room_closed(x)
  <2> DEFINE q == room[x.conn]
             N == Destroyed({d \in {connections[q]} \ {None, x.conn} : ~Held(d)}, x.by)
  <2>1. /\ connections' = [connections EXCEPT ![q] = None] /\ closers' = (closers \ {x}) \cup N
        /\ q \in Rooms /\ x.by \in {"link", "all", "callback"}
        /\ UNCHANGED <<parses, room, stage, closed, clearing, reported>>
    BY <1>0, <1>5 DEF Call, on_room_closed, objects, Inv, TypeOK
  <2>2. (\A y \in N : y \in Call /\ y.by = x.by) /\ \A y, z \in N : y = z
    <3>1. {d \in {connections[q]} \ {None, x.conn} : ~Held(d)} \in SUBSET Conns
      BY <2>1 DEF Inv, TypeOK
    <3>. QED BY <2>1, <3>1, DestroyedIsOne DEF Call
  <2>3. \A p \in Rooms : /\ connections'[p] = IF p = q THEN None ELSE connections[p]
                         /\ p # q /\ connections[p] # None => x.conn # connections[p]
    BY <2>1 DEF Inv, TypeOK
  <2> HIDE DEF N, q
  <2>4. Calls'
    BY <1>1, <2>1, <2>2
  <2>5. TypeOK'
    BY <2>1, <2>3, <2>4 DEF Inv, TypeOK, Calls, Steps
  <2>6. Leaves'
    <3>1. None \notin closed
      BY FaultsAssumption DEF Inv, TypeOK
    <3>. QED BY <2>1, <2>3, <3>1 DEF Inv, Leaves, Leaving
  <2>7. DeathsAreReported'
    BY <2>1, <2>3 DEF Inv, DeathsAreReported, Live
  <2>. QED BY <2>4, <2>5, <2>6, <2>7 DEF Inv
<1>. QED BY <1>2, <1>3, <1>4, <1>5 DEF CloseStep

\* The callbacks of a connection.
LEMMA CallbackKeeps ==
  ASSUME Inv, NEW c \in Conns, Proceeds(c) \/ stream_ended(c)
  PROVE  Inv'
<1> DEFINE Call == [conn : Conns, failed : BOOLEAN, by : {"link", "all", "callback"}, step : Steps]
<1>1. /\ UNCHANGED <<connections, parses, room, closed, clearing>>
      /\ stage' \in [Conns -> Connecting \cup {"open", "silent", "mute", "gone"}]
      /\ \A d \in Conns \ {c} : stage'[d] = stage[d]
      /\ reported \subseteq reported' /\ reported' \subseteq Conns
  <2>1. CASE stage_done(c)
    BY <2>1 DEF stage_done, Next_stage, Connecting, Inv, TypeOK
  <2>2. CASE not_found(c)
    BY <2>2 DEF not_found, Inv, TypeOK
  <2>3. CASE connection_failed(c) \/ heartbeat_failed(c)
    BY <2>3 DEF connection_failed, heartbeat_failed, Inv, TypeOK
  <2>4. CASE stream_ended(c)
    BY <2>4 DEF stream_ended, Inv, TypeOK
  <2>. QED BY <2>1, <2>2, <2>3, <2>4 DEF Proceeds
<1>2. closers \subseteq closers' /\ \A y \in closers' \ closers : y \in Call /\ y.by = "callback"
  <2>1. CASE stage_done(c) \/ stream_ended(c)
    BY <2>1 DEF stage_done, stream_ended
  <2>2. CASE not_found(c)
    <3> DEFINE D == {d \in {c} : ~Registered(d) /\ \A x \in closers : x.conn # d}
    <3>1. closers' = closers \cup Destroyed(D, "callback")
      BY <2>2 DEF not_found
    <3>2. D \in SUBSET Conns /\ \A d, e \in D : d = e
      OBVIOUS
    <3> HIDE DEF D
    <3>. QED BY <3>1, <3>2, DestroyedIsOne
  <2>3. CASE connection_failed(c) \/ heartbeat_failed(c)
    <3>1. closers' = closers \cup {[conn |-> c, failed |-> TRUE, by |-> "callback", step |-> "test"]}
      BY <2>3 DEF connection_failed, heartbeat_failed, Closer
    <3>2. [conn |-> c, failed |-> TRUE, by |-> "callback", step |-> "test"] \in Call
      BY DEF Steps
    <3>. QED BY <3>1, <3>2
  <2>. QED BY <2>1, <2>2, <2>3 DEF Proceeds
<1>3. stage'[c] = "gone" => c \in reported' \/ \E x \in closers' : x.conn = c
  <2>1. CASE stage_done(c)
    BY <2>1 DEF stage_done, Next_stage, Connecting, Inv, TypeOK
  <2>2. CASE not_found(c)
    BY <2>2 DEF not_found
  <2>3. CASE connection_failed(c) \/ heartbeat_failed(c)
    <3>1. Closer(c, TRUE, "callback", "test") \in closers'
      BY <2>3 DEF connection_failed, heartbeat_failed
    <3>2. Closer(c, TRUE, "callback", "test").conn = c
      BY DEF Closer
    <3>. QED BY <3>1, <3>2
  <2>4. CASE stream_ended(c)
    BY <2>4 DEF stream_ended, Inv, TypeOK
  <2>. QED BY <2>1, <2>2, <2>3, <2>4 DEF Proceeds
<1>4. Calls'
  BY <1>2 DEF Inv, Calls
<1>5. TypeOK'
  BY <1>1, <1>4 DEF Inv, TypeOK, Calls, Steps
<1>6. Leaves'
  BY <1>1, <1>2 DEF Inv, Leaves, Leaving
<1>7. DeathsAreReported'
  <2>1. ASSUME parses, NEW r \in Rooms, connections[r] # None, stage'[connections[r]] = "gone"
        PROVE  connections[r] \in reported' \/ \E x \in closers' : x.conn = connections[r]
    <3>1. CASE connections[r] = c
      BY <1>3, <2>1, <3>1
    <3>2. CASE connections[r] # c
      BY <1>1, <1>2, <2>1, <3>2 DEF Inv, TypeOK, DeathsAreReported, Live
    <3>. QED BY <3>1, <3>2
  <2>. QED BY <1>1, <2>1 DEF DeathsAreReported, Live
<1>. QED BY <1>4, <1>5, <1>6, <1>7 DEF Inv

\* A round of close_all_connections.
LEMMA ClearKeeps == Inv /\ close_all_connections => Inv'
<1>. SUFFICES ASSUME Inv, close_all_connections PROVE Inv'
  OBVIOUS
<1>1. /\ UNCHANGED <<connections, parses, room, stage, closed, reported>> /\ clearing' \in BOOLEAN
      /\ \A x \in closers : x.by # "all"
  BY DEF close_all_connections, objects, Inv, TypeOK
<1>2. CASE UNCHANGED closers
  BY <1>1, <1>2 DEF Inv, TypeOK, Calls, Leaves, Leaving, DeathsAreReported, Live
<1>3. CASE \E c \in Conns : Registered(c) /\ closers' = closers \cup {Closer(c, FALSE, "all", "test")}
  <2>1. PICK c \in Conns : closers' = closers \cup {Closer(c, FALSE, "all", "test")}
    BY <1>3
  <2> DEFINE n == Closer(c, FALSE, "all", "test")
  <2>2. /\ n \in [conn : Conns, failed : BOOLEAN, by : {"link", "all", "callback"}, step : Steps]
        /\ n.by = "all" /\ closers' = closers \cup {n}
    BY <2>1 DEF Closer, Steps
  <2> HIDE DEF n
  <2>3. Calls'
    BY <1>1, <2>2 DEF Inv, Calls
  <2>4. TypeOK'
    BY <1>1, <2>3 DEF Inv, TypeOK, Calls, Steps
  <2>5. Leaves' /\ DeathsAreReported'
    BY <1>1, <2>2 DEF Inv, Leaves, Leaving, DeathsAreReported, Live
  <2>. QED BY <2>3, <2>4, <2>5 DEF Inv
<1>. QED BY <1>2, <1>3 DEF close_all_connections

\* The scheduler and the link.
LEMMA SchedulerKeeps ==
  ASSUME Inv, link_lost \/ room_failed \/ worker_overdue \/ \E r \in Rooms : assign_task(r) \/ unassign(r) \/ task_overdue(r)
  PROVE  Inv'
<1>1. CASE link_lost
  <2>1. UNCHANGED <<connections, parses, room, stage, closed, closers, reported>> /\ clearing' = TRUE
    BY <1>1 DEF link_lost, on_supervisor_disconnected, objects
  <2>. QED BY <2>1 DEF Inv, TypeOK, Calls, Leaves, Leaving, DeathsAreReported, Live
<1>2. CASE room_failed \/ worker_overdue \/ \E r \in Rooms : assign_task(r) \/ unassign(r) \/ task_overdue(r)
  <2>1. Untouched
    BY <1>2 DEF room_failed, worker_overdue, assign_task, unassign, task_overdue, Worker, objects, Untouched
  <2>. QED BY <2>1, UntouchedKeeps
<1>. QED BY <1>1, <1>2

----------------------------------------------------------------------------
(* The theorems.                                                           *)

\* Every step keeps the invariant.
LEMMA InvNext == Inv /\ [ServiceNext]_svars => Inv'
<1>. SUFFICES ASSUME Inv, [ServiceNext]_svars PROVE Inv'
  OBVIOUS
<1>1. CASE WorkerNext
  BY <1>1, OrderKeeps, CloseKeeps, CallbackKeeps, ClearKeeps DEF WorkerNext
<1>2. CASE link_lost \/ room_failed \/ worker_overdue \/ \E r \in Rooms : assign_task(r) \/ unassign(r) \/ task_overdue(r)
  BY <1>2, SchedulerKeeps
<1>3. CASE UNCHANGED svars
  BY <1>3, UntouchedKeeps DEF svars, vars, objects, Untouched
<1>. QED BY <1>1, <1>2, <1>3 DEF ServiceNext

\* The invariant holds, and with it what it implies.
THEOREM Invariance == ServiceSpec => []Inv
BY InvInit, InvNext, PTL DEF ServiceSpec

\* The map, its objects and the calls of close() are typed, and each connection
\* in the map is under its own room.
THEOREM TypeCorrect == ServiceSpec => []TypeOK
<1>1. Inv => TypeOK
  BY DEF Inv
<1>. QED BY <1>1, Invariance, PTL

\* A closed connection in the map is about to leave it, whoever closes what.
THEOREM ClosedLeave == ServiceSpec => []ClosedEntriesLeave
<1>1. Inv => ClosedEntriesLeave
  <2>. SUFFICES ASSUME Inv, NEW r \in Rooms, connections[r] \in closed
                PROVE  \E x \in closers : room[x.conn] = r /\ x.step \in {"report", "erase"}
    BY DEF ClosedEntriesLeave
  <2>1. connections[r] # None /\ room[connections[r]] = r
    BY FaultsAssumption DEF Inv, TypeOK
  <2>. QED BY <2>1 DEF Inv, Leaves, Leaving
<1>. QED BY <1>1, Invariance, PTL

\* No connection dies in the map without being reported or closed, as long as
\* there is a URL to fetch its configuration from.
THEOREM DeathsReported == ServiceSpec => []DeathsAreReported
<1>1. Inv => DeathsAreReported
  BY DEF Inv
<1>. QED BY <1>1, Invariance, PTL
=============================================================================
