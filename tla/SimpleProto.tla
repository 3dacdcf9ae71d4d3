---------------------------- MODULE SimpleProto ----------------------------
(***************************************************************************)
(* How both processes cut the byte stream of a connection into messages:   *)
(* simple_worker_proto_handler reads blocks of any size into its buffer    *)
(* and handle_simple_message takes the complete messages out of it.        *)
(*                                                                         *)
(* The peer sends messages for ever; each is a header that says how long   *)
(* its payload is, and the payload.  The bytes themselves are left out:    *)
(* `arrived` counts those read since the start of the message the reader   *)
(* should be at, so that Drift says how far it is from there.              *)
(***************************************************************************)
EXTENDS Integers

CONSTANTS
  HeaderLen,   \* simple_message_header_length
  BufferSize,  \* _read_buffer_size, from the option read-buffer
  Lengths,     \* the payload lengths the peer may send
  SizeMod      \* the modulus of size_t arithmetic

ASSUME SizesAssumption ==
  /\ HeaderLen \in Nat /\ BufferSize \in Nat /\ 0 < HeaderLen /\ HeaderLen < BufferSize
  /\ Lengths \subseteq Nat
  /\ SizeMod \in Nat /\ SizeMod > 0

VARIABLES
  pc,           \* "reading", "parsing" while in handle_simple_message, "down"
  offset,       \* _read_buffer_offset
  skipping,     \* _skipping_bytes
  transferred,  \* bytes of the block being handled
  remaining,    \* bytes of the buffer from begin on
  len,          \* payload length of the message the reader should be at
  arrived,      \* history: bytes read from the socket since the start of it
  oversized     \* history: a message too big was disposed on this connection

vars == <<pc, offset, skipping, transferred, remaining, len, arrived, oversized>>

\* Where the next header is looked for, relative to the start of the message
\* the reader should be at: after the bytes to skip, before those it kept.
Drift == IF pc = "parsing" THEN arrived - remaining ELSE arrived - offset + skipping

\* The length found in the header at begin.  Off the start of a message it
\* is whatever the bytes say.
HeaderSays(length) == length \in Lengths /\ (Drift = 0 => length = len)

\* Leave handle_simple_message with what it returns.
Return(new_offset, new_skipping_bytes) ==
  /\ offset' = new_offset /\ skipping' = new_skipping_bytes
  /\ pc' = "reading" /\ remaining' = 0 /\ transferred' = 0

Init ==
  /\ pc = "reading" /\ offset = 0 /\ skipping = 0 /\ transferred = 0 /\ remaining = 0
  /\ len \in Lengths /\ arrived = 0 /\ oversized = FALSE

\* Slip: the block may be as long as the whole buffer, wherever it starts.
Slip_on_receive(n) ==
  /\ pc = "reading" /\ n \in 1 .. BufferSize
  /\ IF skipping > n
     THEN Return(0, skipping - n)
     ELSE /\ pc' = "parsing" /\ transferred' = n
          /\ remaining' = n - skipping + offset
          /\ UNCHANGED <<offset, skipping>>
  /\ arrived' = arrived + n
  /\ UNCHANGED <<len, oversized>>

\* on_receive without an error, and the head of handle_simple_message.
on_receive(n) ==
  /\ pc = "reading" /\ n \in 1 .. BufferSize - offset
  /\ IF skipping > n
     THEN Return(0, skipping - n)
     ELSE /\ pc' = "parsing" /\ transferred' = n
          /\ remaining' = n - skipping + offset
          /\ UNCHANGED <<offset, skipping>>
  /\ arrived' = arrived + n
  /\ UNCHANGED <<len, oversized>>

\* The loop ends, all bytes being used.
used_up ==
  /\ pc = "parsing" /\ remaining = 0
  /\ Return(0, 0)
  /\ UNCHANGED <<len, arrived, oversized>>

\* The bytes left are not even a header: they move to the head of the buffer.
header_incomplete ==
  /\ pc = "parsing" /\ remaining > 0 /\ remaining < HeaderLen
  /\ Return(remaining, 0)
  /\ UNCHANGED <<len, arrived, oversized>>

\* A message longer than the buffer is disposed of.  The number of bytes to
\* skip is unsigned, and counts from the payload's length.  A reader that is
\* off the messages already is taken to stay as far off.
Disposed(length) == (length - remaining) % SizeMod
packet_too_big(length) ==
  /\ pc = "parsing" /\ remaining >= HeaderLen /\ HeaderSays(length)
  /\ length + HeaderLen > BufferSize
  /\ Return(0, Disposed(length))
  /\ arrived' = IF Drift = 0 THEN arrived - (HeaderLen + length) ELSE Drift - Disposed(length)
  /\ len' \in Lengths
  /\ oversized' = TRUE

\* Slip: the bytes that are there are forgotten.
Slip_packet_forgotten(length) ==
  /\ pc = "parsing" /\ remaining >= HeaderLen /\ HeaderSays(length)
  /\ length + HeaderLen <= BufferSize /\ length + HeaderLen > remaining
  /\ Return(0, 0)
  /\ UNCHANGED <<len, arrived, oversized>>

\* Slip: a message of which not one byte is missing is taken for incomplete.
Slip_packet_incomplete(length) ==
  /\ pc = "parsing" /\ remaining >= HeaderLen /\ HeaderSays(length)
  /\ length + HeaderLen <= BufferSize /\ length + HeaderLen >= remaining
  /\ Return(remaining, 0)
  /\ UNCHANGED <<len, arrived, oversized>>

\* The message is not complete yet: its bytes move to the head of the buffer.
packet_incomplete(length) ==
  /\ pc = "parsing" /\ remaining >= HeaderLen /\ HeaderSays(length)
  /\ length + HeaderLen <= BufferSize /\ length + HeaderLen > remaining
  /\ Return(remaining, 0)
  /\ UNCHANGED <<len, arrived, oversized>>

\* A complete message is handed on.
packet_handled(length) ==
  /\ pc = "parsing" /\ remaining >= HeaderLen /\ HeaderSays(length)
  /\ length + HeaderLen <= BufferSize /\ length + HeaderLen <= remaining
  /\ remaining' = remaining - (length + HeaderLen)
  /\ arrived' = arrived - (length + HeaderLen)
  /\ len' \in Lengths
  /\ UNCHANGED <<pc, offset, skipping, transferred, oversized>>

\* on_receive with an error: the connection is gone.
connection_failed ==
  /\ pc = "reading"
  /\ pc' = "down"
  /\ UNCHANGED <<offset, skipping, transferred, remaining, len, arrived, oversized>>

\* The supervisor makes a new handler for each connection it accepts.
start ==
  /\ pc = "down"
  /\ pc' = "reading" /\ offset' = 0 /\ skipping' = 0
  /\ len' \in Lengths /\ arrived' = 0 /\ oversized' = FALSE
  /\ UNCHANGED <<transferred, remaining>>

\* The worker gives its only handler the new socket.  The buffer's offset and
\* the bytes to skip are those of the old connection.
reset ==
  /\ pc = "down"
  /\ pc' = "reading"
  /\ len' \in Lengths /\ arrived' = 0 /\ oversized' = FALSE
  /\ UNCHANGED <<offset, skipping, transferred, remaining>>

handle_simple_message ==
  \/ used_up \/ header_incomplete
  \/ \E length \in Lengths :
       packet_too_big(length) \/ packet_incomplete(length) \/ packet_handled(length)

Reading == handle_simple_message \/ connection_failed \/ \E n \in 1 .. BufferSize : on_receive(n)

\* The supervisor's end of a connection, and the worker's.
Next       == Reading \/ start
WorkerNext == Reading \/ reset

Spec       == Init /\ [][Next]_vars
WorkerSpec == Init /\ [][WorkerNext]_vars

----------------------------------------------------------------------------
\* The buffer of handle_simple_message: no read is longer than the room left
\* in it, and what is taken out of it was read.
TypeOK ==
  /\ pc \in {"reading", "parsing", "down"}
  /\ offset \in 0 .. BufferSize - 1 /\ skipping \in 0 .. SizeMod - 1
  /\ transferred \in 0 .. BufferSize /\ remaining \in 0 .. BufferSize
  /\ len \in Lengths /\ arrived \in Int /\ oversized \in BOOLEAN

\* However the stream is cut into blocks, handle_simple_message looks for a
\* header only where a message begins, as long as every message fits into the
\* buffer.
StandsAtHeader == ~oversized => Drift = 0

\* handle_simple_message never returns while a complete message is in its
\* buffer, and start_async_read always has room for at least one more byte: a
\* read of length 0 would complete at once and for ever.
NothingHeldBack ==
  pc = "reading" => /\ offset < BufferSize
                    /\ Drift = 0 => offset < HeaderLen + len

----------------------------------------------------------------------------
(* What the documentation says and the code does not do.                   *)

\* simple_worker_proto.h: handle_simple_message asserts that the very
\* beginning of buf is a packet header.
BufferStartsWithHeader == pc = "parsing" => Drift = 0
=============================================================================
