----------------------------- MODULE BiliPacket -----------------------------
(***************************************************************************)
(* What a worker makes of the messages its rooms send.  A message is a row *)
(* of packets, a compressed packet a row of packets inside; handle_buffer  *)
(* and handle_packet call each other, on any thread of the pool, and share *)
(* per thread one buffer to decompress into and one parse_context, whose   *)
(* message is lent to the handler that copies it for the supervisor.       *)
(*                                                                         *)
(* Packets: "chat", a JSON command the worker translates; "broken", one    *)
(* whose fields it finds wrong half-way; "foreign", JSON without a command *)
(* it knows; "online", a heartbeat's answer; "other", anything that is     *)
(* logged and passed over (unknown operations, data that does not          *)
(* decompress); "cut", too short, incomplete or too big, which ends its    *)
(* row; "bad", a header of the wrong length; "zip", compressed.  What is   *)
(* inside a compressed packet is not compressed again (the buffer it is    *)
(* read from would be written over), and no packet claims to be shorter    *)
(* than its header (the loop stands still at length 0, and the size of the *)
(* payload wraps at 1 to 15).                                              *)
(***************************************************************************)
EXTENDS Integers, SequencesExt

CONSTANTS
  Threads,      \* threads of the pool
  Conns,        \* connections, one for each room
  Messages,     \* what a room may send: rows of packets
  MaxHeard      \* bound: what a room's messages amount to, in all

None == "none"

Kinds     == {"chat", "broken", "foreign", "online", "other", "cut", "bad"}
Plain     == [kind : Kinds, body : Nat, inside : {<<>>}]
AnyPacket == Plain \cup [kind : {"zip"}, body : Nat, inside : Seq(Plain)]

ASSUME MessagesAssumption == MaxHeard \in Nat /\ Messages \subseteq Seq(AnyPacket) /\ None \notin Conns

VARIABLES
  reading,   \* per connection: "pending" async_read, the "busy" handler, "over"
  buffer,    \* per connection: its _read_buffer
  failed,    \* the connections that reported a failure: close(true)
  pos,       \* per thread: where its calls of handle_buffer stand, outermost first
  serving,   \* per thread: the connection it serves
  zlib,      \* per thread: its zlib_buffer
  context,   \* per thread: the message of its parse_context
  lent,      \* the threads whose message is with the handler
  due,       \* history: what each room's messages should amount to
  heard      \* history: what was copied for the supervisor, per room

vars == <<reading, buffer, failed, pos, serving, zlib, context, lent, due, heard>>

----------------------------------------------------------------------------
(* What a message amounts to, by what it is and not by how it is handled.  *)

Before(row, kind) ==
  LET stops == {i \in DOMAIN row : row[i].kind = kind}
  IN  IF stops = {} THEN row ELSE SubSeq(row, 1, (CHOOSE i \in stops : \A j \in stops : i <= j) - 1)

Inside(p) == IF p.kind = "zip" THEN Before(p.inside, "cut") ELSE <<p>>

Flat(row) == FlattenSeq([i \in DOMAIN Before(row, "cut") |-> Inside(row[i])])

Said(c, p) ==
  IF p.kind \in {"chat", "online"}
  THEN <<[room |-> c, key |-> <<c, p.kind>>, body |-> {p.body},
          crc |-> IF p.kind = "online" THEN 0 ELSE p.body]>>
  ELSE <<>>

Saying(c, packets) ==
  LET ps == Before(packets, "bad") IN FlattenSeq([i \in DOMAIN ps |-> Said(c, ps[i])])

Wanted(c, row) == Saying(c, Flat(row))

----------------------------------------------------------------------------
Init ==
  /\ reading = [c \in Conns |-> "pending"] /\ buffer = [c \in Conns |-> <<>>]
  /\ failed = {}
  /\ pos = [t \in Threads |-> <<>>] /\ serving = [t \in Threads |-> None]
  /\ zlib = [t \in Threads |-> <<>>]
  /\ context = [t \in Threads |-> [room |-> None, key |-> None, body |-> {}, crc |-> 0]]
  /\ lent = {}
  /\ due = [c \in Conns |-> <<>>] /\ heard = [c \in Conns |-> <<>>]

\* Slip: the next read is started before what was read is handled.
Slip_Enter(t, c, row) ==
  /\ reading[c] = "pending" /\ pos[t] = <<>>
  /\ reading' = reading
  /\ buffer' = [buffer EXCEPT ![c] = row]
  /\ pos' = [pos EXCEPT ![t] = <<1>>]
  /\ serving' = [serving EXCEPT ![t] = c]
  /\ due' = [due EXCEPT ![c] = @ \o Wanted(c, row)]
  /\ Len(due'[c]) <= MaxHeard
  /\ UNCHANGED <<zlib, context, lent, heard>>

\* handle_buffer is called on what was read.
Enter(t, c, row) ==
  /\ reading[c] = "pending" /\ pos[t] = <<>>
  /\ reading' = [reading EXCEPT ![c] = "busy"]
  /\ buffer' = [buffer EXCEPT ![c] = row]
  /\ pos' = [pos EXCEPT ![t] = <<1>>]
  /\ serving' = [serving EXCEPT ![t] = c]
  /\ due' = [due EXCEPT ![c] = @ \o Wanted(c, row)]
  /\ Len(due'[c]) <= MaxHeard
  /\ UNCHANGED <<zlib, context, lent, heard>>

\* on_receive of a message.  A close the supervisor ordered does not keep
\* what is under way from being handled; a stream that failed brings no more.
on_receive(t, c) ==
  /\ c \notin failed
  /\ \E row \in Messages : Enter(t, c, row)
  /\ UNCHANGED failed

\* on_receive when the read failed: close(true), and for want of a return the
\* part of the message that came is handled like a message.
on_receive_failed(t, c) ==
  /\ c \notin failed
  /\ \E row \in Messages : \E n \in 0 .. Len(row) - 1 :
       Enter(t, c, Append(SubSeq(row, 1, n), [kind |-> "cut", body |-> 0, inside |-> <<>>]))
  /\ failed' = failed \cup {c}

\* on_receive of a read that our own close, or the end of the stream, ended.
on_receive_ended(c) ==
  /\ reading[c] = "pending"
  /\ reading' = [reading EXCEPT ![c] = "over"]
  /\ UNCHANGED <<buffer, failed, pos, serving, zlib, context, lent, due, heard>>

----------------------------------------------------------------------------
(* The loop of handle_buffer, in the innermost call of thread t.           *)

Row(t)  == IF Len(pos[t]) = 1 THEN buffer[serving[t]] ELSE zlib[t]
Here(t) == IF Last(pos[t]) <= Len(Row(t)) THEN Row(t)[Last(pos[t])].kind ELSE "end"
At(t, kinds) == pos[t] # <<>> /\ t \notin lent /\ Here(t) \in kinds
Packet(t) == Row(t)[Last(pos[t])]

\* The loop goes on behind the packet.
Advance(t) == pos' = [pos EXCEPT ![t][Len(pos[t])] = @ + 1]

\* The call returns: the one around it goes on, or on_receive starts to read.
return_from_buffer(t) ==
  /\ At(t, {"end", "cut"})
  /\ pos' = [pos EXCEPT ![t] = Front(@)]
  /\ IF Len(pos[t]) > 1 THEN UNCHANGED <<reading, serving>>
     ELSE /\ reading' = [reading EXCEPT ![serving[t]] = "pending"]
          /\ serving' = [serving EXCEPT ![t] = None]
  /\ UNCHANGED <<buffer, failed, zlib, context, lent, due, heard>>

\* malformed_packet, caught in on_receive: it closes and does not read again.
malformed_packet(t) ==
  /\ At(t, {"bad"})
  /\ pos' = [pos EXCEPT ![t] = <<>>]
  /\ failed' = failed \cup {serving[t]}
  /\ reading' = [reading EXCEPT ![serving[t]] = "over"]
  /\ serving' = [serving EXCEPT ![t] = None]
  /\ UNCHANGED <<buffer, zlib, context, lent, due, heard>>

\* handle_packet, a packet passed over.
passed_over(t) ==
  /\ At(t, {"other"}) /\ Advance(t)
  /\ UNCHANGED <<reading, buffer, failed, serving, zlib, context, lent, due, heard>>

\* Slip: the buffer belongs to all threads.
Slip_decompress_buffer(t) == zlib' = [u \in Threads |-> Packet(t).inside]

\* decompress_buffer, into the buffer of the thread.
decompress_buffer(t) == zlib' = [zlib EXCEPT ![t] = Packet(t).inside]

\* handle_packet, compressed: handle_buffer on what was inside.
handle_compressed(t) ==
  /\ At(t, {"zip"})
  /\ decompress_buffer(t)
  /\ pos' = [pos EXCEPT ![t] = <<@[1] + 1, 1>>]
  /\ UNCHANGED <<reading, buffer, failed, serving, context, lent, due, heard>>

\* Slip: one parse_context for all threads.
Slip_Filled(t, msg) == [u \in Threads |-> msg]

\* The message of the thread's parse_context becomes msg.
Filled(t, msg) == [context EXCEPT ![t] = msg]

\* Slip: the message is not cleared.
Slip_Cleared(t) == context[t].body

\* What RoomMessage::Clear leaves of the message before.
Cleared(t) == {}

\* parse_context::serialize of JSON: the checksum is that of the text, and the
\* command, if there is one for it, sets the routing key and fills in the rest
\* as far as it gets.
serialize_buffer(t) ==
  /\ At(t, {"chat", "broken", "foreign"})
  /\ LET p == Packet(t)  c == serving[t]  known == p.kind # "foreign" IN
       context' = Filled(t, [room |-> c, crc |-> p.body,
                             key |-> IF known THEN <<c, "chat">> ELSE context[t].key,
                             body |-> Cleared(t) \cup IF known THEN {p.body} ELSE {}])
  /\ IF Here(t) = "chat" THEN lent' = lent \cup {t} /\ pos' = pos ELSE lent' = lent /\ Advance(t)
  /\ UNCHANGED <<reading, buffer, failed, serving, zlib, due, heard>>

\* Slip: the checksum of the message before is kept.
Slip_NoChecksum(t) == context[t].crc

\* The checksum that stands for none (simple_worker_proto.h).
NoChecksum(t) == 0

\* parse_context::serialize of the popularity.
serialize_popularity(t) ==
  /\ At(t, {"online"})
  /\ context' = Filled(t, [room |-> serving[t], key |-> <<serving[t], "online">>,
                           body |-> Cleared(t) \cup {Packet(t).body}, crc |-> NoChecksum(t)])
  /\ lent' = lent \cup {t}
  /\ UNCHANGED <<reading, buffer, failed, pos, serving, zlib, due, heard>>

\* on_room_data, on_message: the lent message is laid out in a packet of its
\* own, room and routing key and checksum and body, and the loop moves on.
on_room_data(t) ==
  /\ t \in lent /\ lent' = lent \ {t}
  /\ heard' = [heard EXCEPT ![serving[t]] = Append(@, context[t])]
  /\ Advance(t)
  /\ UNCHANGED <<reading, buffer, failed, serving, zlib, context, due>>

HandlerStep(t) ==
  \/ return_from_buffer(t) \/ malformed_packet(t) \/ passed_over(t) \/ handle_compressed(t)
  \/ serialize_buffer(t) \/ serialize_popularity(t) \/ on_room_data(t)

Next ==
  \/ \E t \in Threads : HandlerStep(t)
  \/ \E t \in Threads, c \in Conns : on_receive(t, c) \/ on_receive_failed(t, c)
  \/ \E c \in Conns : on_receive_ended(c)

Spec == Init /\ [][Next]_vars

----------------------------------------------------------------------------
TypeOK ==
  /\ reading \in [Conns -> {"pending", "busy", "over"}] /\ failed \subseteq Conns
  /\ lent \subseteq Threads /\ \A t \in Threads : Len(pos[t]) <= 2 /\ (pos[t] = <<>> <=> serving[t] = None)
  /\ \A c \in Conns : Cardinality({t \in Threads : serving[t] = c}) = (IF reading[c] = "busy" THEN 1 ELSE 0)

\* However the threads take turns, and whatever stands before and behind it
\* in its row, each packet that means something reaches the supervisor once,
\* in order, under its room, with its own routing key, body and checksum; a
\* packet that is passed over, cut or bad takes no other with it.
HeardAsSent ==
  \A c \in Conns :
    IF reading[c] = "busy" THEN IsPrefix(heard[c], due[c]) ELSE heard[c] = due[c]
=============================================================================
