---------------------------- MODULE Publication ----------------------------
(***************************************************************************)
(* The path of a message through the supervisor: workers deliver copies of *)
(* it, supervisor_global_context drops those deduplicate_context has seen, *)
(* and the others are posted to the connection of AmqpClient.  Messages    *)
(* without a checksum, the popularity of a room, are alike for all copies: *)
(* the scheduler lets one through per room and interval.                   *)
(***************************************************************************)
EXTENDS AmqpClient

CONSTANTS
  Unchecked,  \* the payloads whose checksum is 0, one for each room
  MaxCopies   \* bound: copies of a message the workers deliver

ASSUME CopiesAssumption == Unchecked \subseteq Payloads /\ MaxCopies \in Nat

VARIABLES
  seen,   \* _container of deduplicate_context
  copies, \* how many copies of each message were delivered
  recent, \* the unchecked with last_empty_crc_received within the interval
  periods \* history: the intervals of each unchecked message, and the lifetimes
          \* of the others, that have begun

pvars == <<vars, seen, copies, recent, periods>>

PublicationInit ==
  /\ Init /\ seen = {} /\ recent = {}
  /\ copies = [m \in Payloads |-> 0] /\ periods = [m \in Payloads |-> 1]

\* Slip: an entry is added whether or not there was one.
Slip_check_and_add(m) == seen' = seen \cup {m}

\* deduplicate_context::check_and_add, where it says that the entry is new.
check_and_add(m) == m \notin seen /\ seen' = seen \cup {m}

Delivered(m) == running /\ copies[m] < MaxCopies /\ copies' = [copies EXCEPT ![m] = @ + 1]

\* Slip: last_empty_crc_received is not set.
Slip_Passes_throttle(m) == m \notin recent /\ recent' = recent

\* handle_buffer of data without a checksum: once in an interval for a room.
Passes_throttle(m) == m \notin recent /\ recent' = recent \cup {m}

\* For an unchecked message min-interval-popularity-sec pass, or its room is
\* deleted and listed again; for another message-ttl-sec pass, and nothing
\* happens: check_expire would remove its entry, and is never called.
interval_passed(m) ==
  /\ copies[m] < MaxCopies /\ periods[m] <= copies[m]  \* bounds
  /\ m \in seen \cup recent /\ recent' = recent \ {m}
  /\ periods' = [periods EXCEPT ![m] = @ + 1]
  /\ UNCHANGED <<vars, seen, copies>>

\* on_worker_data, post_payload
on_worker_data(m) ==
  /\ Delivered(m)
  /\ \/ m \in Unchecked /\ Passes_throttle(m) /\ seen' = seen
     \/ m \notin Unchecked /\ check_and_add(m) /\ recent' = recent
  /\ ready' = Append(ready, Posted(m))
  /\ UNCHANGED <<running, pc, conn, amqp, retry, beat, published, faults, periods>>

\* on_worker_data, of a duplicate; handle_buffer, of what is throttled.
duplicate_dropped(m) == Delivered(m) /\ m \in seen \cup recent /\ UNCHANGED <<vars, seen, recent, periods>>

PublicationNext ==
  \/ ClientNext /\ UNCHANGED <<seen, copies, recent, periods>>
  \/ \E m \in Payloads : on_worker_data(m) \/ duplicate_dropped(m) \/ interval_passed(m)

PublicationSpec == PublicationInit /\ [][PublicationNext]_pvars /\ ClientFairness

----------------------------------------------------------------------------
\* However many workers deliver a message, and whatever happens to the
\* connection, the broker gets one with a checksum once at most in each lifetime
\* of its entry (message-ttl-sec), one without once at most in each interval
\* (min-interval-popularity-sec), and never more copies than were delivered.
AtMostOnce ==
  \A m \in Payloads : published[m] <= periods[m] /\ published[m] <= copies[m]

\* What is posted while publishing is possible, and stays so, is published:
\* nothing of an earlier connection gets in its way.
PublishedWhenUp ==
  \A m \in Payloads : [](Queued("post", {m}) # {} /\ []Up => <>(published[m] > 0))
=============================================================================
