-------------------------- MODULE BiliConnections --------------------------
(***************************************************************************)
(* The worker's connections to the rooms: bilibili_connection_manager and  *)
(* its bilibili_connection_websocket objects.  The thread of the           *)
(* supervisor's link opens and closes them under _mutex; a pool of threads *)
(* runs their callbacks, which fail and close them without it; losing the  *)
(* link posts close_all_connections to the pool, without it too.           *)
(*                                                                         *)
(* close() is cut into the steps other threads can get in between: the     *)
(* test of _closed, its setting, the report of the failure and the removal *)
(* from the map.  An object whose pointers are all gone is closed by its   *)
(* destructor, and may then be made anew.                                  *)
(***************************************************************************)
EXTENDS Integers, Sequences, FiniteSets

CONSTANTS
  Rooms,      \* the rooms the supervisor may assign
  Conns,      \* bound: the connection objects there may be at a time
  None,       \* no connection
  MaxFaults   \* bound: how often a room, the network or the link fails

ASSUME FaultsAssumption == MaxFaults \in Nat /\ None \notin Conns

VARIABLES
  connections, \* _connections
  parses,      \* whether chat-config-url, which cannot change, is a URL
  room,        \* _room_id of each connection
  stage,       \* what its pending callback waits for; "gone" if there is none
  closed,      \* the connections whose _closed is set
  closers,     \* the calls of close() under way
  clearing,    \* close_all_connections is posted or running
  reported,    \* history: the connections whose failure was reported
  orders,      \* messages of the supervisor not handled yet
  reports,     \* failures reported to the supervisor
  faults       \* how often something has failed

objects == <<parses, room, stage, closed, reported>>
vars    == <<connections, objects, closers, clearing, orders, reports, faults>>

Connecting == {"fetching", "resolving", "connecting"}
Live(c)    == stage[c] # "gone"

Init ==
  /\ connections = [r \in Rooms |-> None]
  /\ parses \in BOOLEAN
  /\ room \in [Conns -> Rooms] /\ stage = [c \in Conns |-> "gone"]
  /\ \A c, d \in Conns : room[c] = room[d]
  /\ closed = {} /\ closers = {} /\ clearing = FALSE /\ reported = {}
  /\ orders = <<>> /\ reports = <<>> /\ faults = 0

Fault == faults < MaxFaults /\ faults' = faults + 1

\* A call of close(failed) that stands before a step.
Closer(c, failed, by, step) == [conn |-> c, failed |-> failed, by |-> by, step |-> step]

\* close_connection keeps _mutex while it closes.
LinkThreadBusy == \E x \in closers : x.by = "link"

Registered(c) == \E r \in Rooms : connections[r] = c
Held(c)       == Live(c) \/ \E x \in closers : x.conn = c
Unused(c)     == ~Held(c) /\ ~Registered(c)

\* Those of D, losing the pointer of the map or of their callback, whose
\* destructor runs and finds them not closed.
Destroyed(D, by) == {Closer(c, FALSE, by, "test") : c \in D \ closed}

----------------------------------------------------------------------------
(* The thread of the link handles the orders of the supervisor.            *)

\* Slip: orders are handled while another one is.
Slip_Order(op, r) == orders # <<>> /\ Head(orders) = <<op, r>> /\ orders' = Tail(orders)

\* The first order, which the thread takes on when it is done with the last.
Order(op, r) == orders # <<>> /\ Head(orders) = <<op, r>> /\ ~LinkThreadBusy /\ orders' = Tail(orders)

\* async_fetch_bilibili_live_config.  A URL that cannot be parsed is logged:
\* nothing is fetched and on_failed is not called.
async_fetch == IF parses THEN "fetching" ELSE "gone"

\* open_connection, no connection of the room being in the map, or a closed one.
open_connection(r, c) ==
  /\ Order("assign", r)
  /\ connections[r] = None \/ connections[r] \in closed
  /\ Unused(c)
  /\ connections' = [connections EXCEPT ![r] = c]
  /\ room' = [room EXCEPT ![c] = r] /\ stage' = [stage EXCEPT ![c] = async_fetch]
  /\ closed' = closed \ {c} /\ reported' = reported \ {c}
  /\ UNCHANGED <<parses, closers, clearing, reports, faults>>

\* The connection is there and not closed.  A second one is made for emplace,
\* which does not insert it: its destructor closes it, and so takes the first
\* one out of the map.
open_connection_again(r) ==
  /\ Order("assign", r)
  /\ connections[r] # None /\ connections[r] \notin closed
  /\ connections' = [connections EXCEPT ![r] = None]
  /\ closers' = closers \cup Destroyed({c \in {connections[r]} : ~Held(c)}, "link")
  /\ UNCHANGED <<objects, clearing, reports, faults>>

\* close_connection calls close(), if the room has a connection.
close_connection(r) ==
  /\ Order("unassign", r)
  /\ closers' = closers \cup {Closer(c, FALSE, "link", "test") : c \in {connections[r]} \ {None}}
  /\ UNCHANGED <<connections, objects, clearing, reports, faults>>

----------------------------------------------------------------------------
(* The steps of close().                                                   *)

\* if (_closed) return;
close_test(x) ==
  /\ x.step = "test"
  /\ closers' = (closers \ {x}) \cup (IF x.conn \in closed THEN {} ELSE {[x EXCEPT !.step = "mark"]})
  /\ UNCHANGED <<connections, objects, clearing, orders, reports, faults>>

\* _closed = true; cancel the heartbeat and close the stream.  A connection
\* that is not open yet has no stream to close, and goes on connecting.
close_mark(x) ==
  /\ x.step = "mark"
  /\ closed' = closed \cup {x.conn}
  /\ stage' = [stage EXCEPT ![x.conn] = IF @ \in Connecting THEN @ ELSE "gone"]
  /\ closers' = (closers \ {x}) \cup {[x EXCEPT !.step = IF x.failed THEN "report" ELSE "erase"]}
  /\ UNCHANGED <<connections, parses, room, reported, clearing, orders, reports, faults>>

\* _session->on_room_failed(_room_id)
close_report(x) ==
  /\ x.step = "report"
  /\ reports' = Append(reports, room[x.conn]) /\ reported' = reported \cup {x.conn}
  /\ closers' = (closers \ {x}) \cup {[x EXCEPT !.step = "erase"]}
  /\ UNCHANGED <<connections, parses, room, stage, closed, clearing, orders, faults>>

\* Slip: an entry is erased only if it is a failed one's.
Slip_on_room_closed(x) ==
  /\ x.step = "erase"
  /\ x.by = "link" \/ ~LinkThreadBusy
  /\ connections' = IF x.failed THEN [connections EXCEPT ![room[x.conn]] = None] ELSE connections
  /\ closers' = closers \ {x}
  /\ UNCHANGED <<objects, clearing, orders, reports, faults>>

\* _session->on_room_closed(_room_id) erases what the map has for the room.
on_room_closed(x) ==
  /\ x.step = "erase"
  /\ x.by = "link" \/ ~LinkThreadBusy
  /\ connections' = [connections EXCEPT ![room[x.conn]] = None]
  /\ LET c == connections[room[x.conn]] IN
       closers' = (closers \ {x}) \cup
                  Destroyed({d \in {c} \ {None, x.conn} : ~Held(d)}, x.by)
  /\ UNCHANGED <<objects, clearing, orders, reports, faults>>

----------------------------------------------------------------------------
(* The callbacks of a connection.                                          *)

Next_stage == [fetching |-> "resolving", resolving |-> "connecting", connecting |-> "open"]

\* on_config_fetched, on_resolved, on_connected ... on_handshake: each starts
\* what comes next; none looks at _closed.
stage_done(c) ==
  /\ stage[c] \in Connecting
  /\ stage' = [stage EXCEPT ![c] = Next_stage[@]]
  /\ UNCHANGED <<connections, parses, room, closed, reported, closers, clearing, orders, reports, faults>>

\* Slip: a failed resolution is logged only.
Slip_not_found(c) ==
  /\ stage[c] \in {"fetching", "resolving"} /\ Fault
  /\ stage' = [stage EXCEPT ![c] = "gone"]
  /\ UNCHANGED <<connections, parses, room, closed, reported, closers, clearing, orders, reports>>

\* The configuration or the host of the room is not to be had: the failure is
\* reported, and the connection stays in the map, not closed; one that is not
\* in the map any more is destroyed.
not_found(c) ==
  /\ stage[c] \in {"fetching", "resolving"} /\ Fault
  /\ stage' = [stage EXCEPT ![c] = "gone"]
  /\ reports' = Append(reports, room[c]) /\ reported' = reported \cup {c}
  /\ closers' = closers \cup
                Destroyed({d \in {c} : ~Registered(d) /\ \A x \in closers : x.conn # d}, "callback")
  /\ UNCHANGED <<connections, parses, room, closed, clearing, orders>>

\* A handshake, a read or a heartbeat fails, or a packet is malformed.
connection_failed(c) ==
  /\ stage[c] \in {"connecting", "open"} /\ Fault
  /\ stage' = [stage EXCEPT ![c] = "gone"]
  /\ closers' = closers \cup {Closer(c, TRUE, "callback", "test")}
  /\ UNCHANGED <<connections, parses, room, closed, reported, clearing, orders, reports>>

\* on_receive returns at the end of the stream without closing: no read is
\* pending any more, but the heartbeat still is.
stream_ended(c) ==
  /\ stage[c] = "open" /\ Fault
  /\ \E s \in {"silent", "mute"} : stage' = [stage EXCEPT ![c] = s]
  /\ UNCHANGED <<connections, parses, room, closed, reported, closers, clearing, orders, reports>>

\* The next heartbeat fails.  After a close frame of the room its error is one
\* that on_heartbeat_sent passes over: such a connection is mute for ever.
heartbeat_failed(c) ==
  /\ stage[c] = "silent"
  /\ stage' = [stage EXCEPT ![c] = "gone"]
  /\ closers' = closers \cup {Closer(c, TRUE, "callback", "test")}
  /\ UNCHANGED <<connections, parses, room, closed, reported, clearing, orders, reports, faults>>

----------------------------------------------------------------------------
(* The link to the supervisor is lost.                                     *)

\* Messages in flight are lost; on_supervisor_disconnected posts
\* close_all_connections.
on_supervisor_disconnected ==
  /\ ~LinkThreadBusy /\ Fault
  /\ orders' = <<>> /\ reports' = <<>> /\ clearing' = TRUE
  /\ UNCHANGED <<connections, objects, closers>>

\* A round of the loop of close_all_connections.
close_all_connections ==
  /\ clearing /\ ~\E x \in closers : x.by = "all"
  /\ \/ /\ \E c \in Conns : Registered(c) /\ closers' = closers \cup {Closer(c, FALSE, "all", "test")}
        /\ UNCHANGED clearing
     \/ ~(\E c \in Conns : Registered(c)) /\ clearing' = FALSE /\ UNCHANGED closers
  /\ UNCHANGED <<connections, objects, orders, reports, faults>>

----------------------------------------------------------------------------
HandleOrder == \E r \in Rooms :
  open_connection_again(r) \/ close_connection(r) \/ \E c \in Conns : open_connection(r, c)

CloseStep(x) == close_test(x) \/ close_mark(x) \/ close_report(x) \/ on_room_closed(x)

Proceeds(c) == stage_done(c) \/ not_found(c) \/ connection_failed(c) \/ heartbeat_failed(c)

WorkerNext ==
  \/ HandleOrder \/ close_all_connections
  \/ \E x \in closers : CloseStep(x)
  \/ \E c \in Conns : Proceeds(c) \/ stream_ended(c)

----------------------------------------------------------------------------
\* The map and its objects, each under its own room; the calls of close(), of
\* which the thread of the link and close_all_connections make one at a time.
TypeOK ==
  /\ connections \in [Rooms -> Conns \cup {None}] /\ room \in [Conns -> Rooms]
  /\ \A r \in Rooms : connections[r] # None => room[connections[r]] = r
  /\ stage \in [Conns -> Connecting \cup {"open", "silent", "mute", "gone"}]
  /\ parses \in BOOLEAN /\ closed \subseteq Conns /\ reported \subseteq Conns /\ clearing \in BOOLEAN
  /\ \A x \in closers : x.conn \in Conns /\ x.step \in {"test", "mark", "report", "erase"}
  /\ \A x, y \in closers : x.by = y.by /\ x.by # "callback" => x = y

\* on_room_closed: a closed connection is in the map only while a call of close() is about to
\* take it out: the loop of close_all_connections, which closes the first
\* entry until the map is empty, cannot meet one that stays.
ClosedEntriesLeave ==
  \A r \in Rooms : connections[r] \in closed =>
    \E x \in closers : room[x.conn] = r /\ x.step \in {"report", "erase"}

\* on_room_failed: a connection that has come to its end while the supervisor counts on it,
\* being in the map, has been reported or is about to be closed, if there is a
\* URL to fetch from: async_fetch_bilibili_live_config drops on_failed for one
\* that does not parse.
DeathsAreReported ==
  parses => \A r \in Rooms : LET c == connections[r] IN
              c # None /\ ~Live(c) => c \in reported \/ \E x \in closers : x.conn = c

\* close_all_connections comes to its end, whatever closes and opens meanwhile.
ClearingEnds == clearing ~> ~clearing
=============================================================================
