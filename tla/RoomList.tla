------------------------------ MODULE RoomList ------------------------------
(***************************************************************************)
(* How the supervisor learns which rooms there are, and how its options    *)
(* change while it runs.  Four threads: the updater asks a server for the  *)
(* list, blocking, in intervals; the threads that take commands assign     *)
(* options; the scheduler's thread runs what the others post to it, and    *)
(* its check.  Commands replace strings that are read meanwhile, without a *)
(* lock: a read within an assignment may find anything.                    *)
(***************************************************************************)
EXTENDS Integers, Sequences, FiniteSets

CONSTANTS
  Rooms,
  Codes,       \* values of auth-code: their first auth_code_size bytes, and whether they fit
  MaxFaults,   \* bound: failed requests, bad answers and changes of the list
  MaxSets,     \* bound: options set by commands
  MaxPosted    \* bound: functions not yet run when an interval ends

Sizes == {"fits", "long"}
ASSUME CodesAssumption == Codes \subseteq [key : STRING \ {"garbage"}, size : Sizes]
ASSUME BoundsAssumption == MaxFaults \in Nat /\ MaxSets \in Nat /\ MaxPosted \in Nat \ {0}

VARIABLES
  listing,     \* the server's list
  option,      \* room-list-update-url and auth-code of the configuration
  command,     \* what each thread that takes commands is doing
  updater,     \* the updater's thread: "waiting", "due", "asking"
  asked,       \* the URL of its request
  posted,      \* functions posted to the scheduler's thread
  rooms, active,  \* keys of _rooms, and those whose room_status.active is set
  auth_code,   \* _auth_code, as far as workers are compared with it
  undefined,   \* two assignments overlapped, or a copy ran over the end of _auth_code
  faults, sets

served   == <<rooms, active>>
requests == <<updater, asked>>
options  == <<option, command, undefined>>
vars == <<listing, options, requests, posted, served, auth_code, faults, sets>>

Urls == {"good", "wrong"}
Idle == [doing |-> "nothing", name |-> "none", value |-> "none"]

\* Commands come from the console and, on Remotery's thread, from the profiler.
Writers == {"console", "remotery"}

\* The options of link_config that may change and that are strings, and what
\* may be found in one of them that is being replaced.
Anything == [url |-> Urls, auth |-> Codes \cup [key : {"garbage"}, size : Sizes]]

Assigning(t, name) == command[t].doing = "assigning" /\ command[t].name = name

\* What a thread finds in an option.
Reads(name) ==
  IF \E t \in Writers : Assigning(t, name) THEN Anything[name] ELSE {option[name]}

\* load_auth_code clears auth_code_size + 1 bytes and copies size() of them.
Overruns(code) == code.size = "long"

Init ==
  /\ listing \in SUBSET Rooms
  /\ option \in [url : {"good"}, auth : Codes]
  /\ command = [t \in Writers |-> Idle] /\ updater = "due" /\ asked = "none" /\ posted = <<>>
  /\ rooms = {} /\ active = {} /\ auth_code = option.auth.key /\ undefined = Overruns(option.auth)
  /\ faults = 0 /\ sets = 0

Fault == faults < MaxFaults /\ faults' = faults + 1

\* The server adds rooms and drops rooms.
listing_changes ==
  /\ Fault /\ listing' \in SUBSET Rooms \ {listing}
  /\ UNCHANGED <<options, requests, posted, served, auth_code, sets>>

----------------------------------------------------------------------------
(* The updater's thread.                                                   *)

\* on_timer_tick, refresh, setup_curl: libcURL copies the URL.
refresh ==
  /\ updater = "due"
  /\ updater' = "asking" /\ asked' \in Reads("url")
  /\ UNCHANGED <<listing, options, posted, served, auth_code, faults, sets>>

\* reschedule_timer
reschedule_timer == updater' = "waiting" /\ asked' = "none"

\* Slip: a failed refresh leaves on_timer_tick without a new timer.
Slip_request_failed ==
  /\ updater = "asking" /\ Fault
  /\ updater' = "failed" /\ asked' = "none"
  /\ UNCHANGED <<listing, options, posted, served, auth_code, sets>>

\* curl_easy_perform fails, by its timeout or an answer beyond 4 MB too, or
\* what was answered is not a list: on_updated returns.
request_failed ==
  /\ updater = "asking" /\ (IF asked = "good" THEN Fault ELSE faults' = faults)
  /\ reschedule_timer
  /\ UNCHANGED <<listing, options, posted, served, auth_code, sets>>

\* The answer is a list, and on_updated posts update_room_lists.  An answer
\* with another status than 200 is used like any other; elements that are not
\* rooms are left out, and one whose liveInfo has no roomId is compared with
\* the end of another object, so that anything may be read for it.
Answered(S) ==
  /\ updater = "asking" /\ asked = "good"
  /\ posted' = Append(posted, [run |-> "update_room_lists", list |-> S])
  /\ reschedule_timer
on_updated ==
  /\ Answered(listing)
  /\ UNCHANGED <<listing, options, served, auth_code, faults, sets>>
on_updated_wrongly ==
  /\ Fault /\ \E S \in SUBSET Rooms : Answered(S)
  /\ UNCHANGED <<listing, options, served, auth_code, sets>>

timer_expired ==
  /\ updater = "waiting" /\ Len(posted) < MaxPosted /\ updater' = "due"
  /\ UNCHANGED <<listing, options, asked, posted, served, auth_code, faults, sets>>

----------------------------------------------------------------------------
(* The threads that take commands.                                         *)

\* `set name value` reaches update_config, which begins to assign the string.
\* Unknown names, names that may not change and numbers change none of this.
\* Nothing keeps the other thread from assigning the same string.
set(t, name, value) ==
  /\ command[t] = Idle /\ sets < MaxSets /\ sets' = sets + 1
  /\ command' = [command EXCEPT ![t] = [doing |-> "assigning", name |-> name, value |-> value]]
  /\ undefined' = (\E u \in Writers : Assigning(u, name))
  /\ UNCHANGED <<listing, option, requests, posted, served, auth_code, faults>>

assigned(t) ==
  /\ command[t].doing = "assigning"
  /\ option' = [option EXCEPT ![command[t].name] = command[t].value]
  /\ command' = [command EXCEPT ![t].doing = "firing"]
  /\ UNCHANGED <<listing, undefined, requests, posted, served, auth_code, faults, sets>>

\* Slip: the scheduler is not told.
Slip_on_config_updated(name) == posted' = posted

\* The listener of the scheduler.
on_config_updated(name) ==
  posted' = IF name = "auth" THEN Append(posted, [run |-> "load_auth_code", list |-> {}])
            ELSE posted

\* fire_config_changed
fire_config_changed(t) ==
  /\ command[t].doing = "firing"
  /\ on_config_updated(command[t].name)
  /\ command' = [command EXCEPT ![t] = Idle]
  /\ UNCHANGED <<listing, option, undefined, requests, served, auth_code, faults, sets>>

----------------------------------------------------------------------------
(* The scheduler's thread.                                                 *)

Next_posted(name) == posted # <<>> /\ Head(posted).run = name /\ posted' = Tail(posted)

\* The rooms that keep their flag: nothing sets it again for a room that is
\* listed anew while its entry has not been deleted.
Still(S) == active \cap S

\* What update_room_lists posts.
update_room_lists ==
  /\ Next_posted("update_room_lists")
  /\ LET S == Head(posted).list IN
       rooms' = rooms \cup S /\ active' = Still(S) \cup (S \ rooms)
  /\ UNCHANGED <<listing, options, requests, auth_code, faults, sets>>

\* load_auth_code copies what it finds.  strncmp will look at the first
\* auth_code_size bytes; what is longer than the array, which is the last
\* member, goes over whatever lies behind the scheduler.
load_auth_code ==
  /\ Next_posted("load_auth_code")
  /\ \E code \in Reads("auth") : auth_code' = code.key /\ undefined' = Overruns(code)
  /\ UNCHANGED <<listing, option, command, requests, served, faults, sets>>

\* Slip: the flag is tested the wrong way round.
Slip_delete_inactive_rooms ==
  /\ rooms # active /\ rooms' = rooms \ active
  /\ UNCHANGED <<listing, options, requests, posted, active, auth_code, faults, sets>>

\* check_all_states, as far as the list is concerned.
delete_inactive_rooms ==
  /\ rooms # active /\ rooms' = active
  /\ UNCHANGED <<listing, options, requests, posted, active, auth_code, faults, sets>>

\* From what is undefined on nothing is known of the process: two assignments
\* may have freed one buffer twice, and a copy has replaced what is not its own.
Defined == ~undefined

Updater     == Defined /\ (refresh \/ request_failed \/ on_updated \/ timer_expired)
Commands(t) == Defined /\ (assigned(t) \/ fire_config_changed(t))
Scheduled   == Defined /\ (update_room_lists \/ load_auth_code)
Check       == Defined /\ delete_inactive_rooms
Disturbance ==
  /\ Defined
  /\ \/ listing_changes \/ on_updated_wrongly
     \/ \E t \in Writers, u \in Urls : set(t, "url", u)
     \/ \E t \in Writers, c \in Codes : set(t, "auth", c)
Unknown == undefined /\ UNCHANGED vars

Next ==
  \/ Updater \/ Scheduled \/ Check \/ Disturbance \/ Unknown
  \/ \E t \in Writers : Commands(t)

\* Each thread runs; a request ends (room-list-update-timeout-sec is not 0);
\* the check comes round.  The server answers unless there is a fault.
Spec ==
  /\ Init /\ [][Next]_vars
  /\ WF_vars(Updater) /\ WF_vars(Scheduled) /\ WF_vars(Check)
  /\ \A t \in Writers : WF_vars(Commands(t))

----------------------------------------------------------------------------
TypeOK ==
  /\ listing \subseteq Rooms /\ option \in [url : Urls, auth : Codes] /\ undefined \in BOOLEAN
  /\ updater \in {"waiting", "due", "asking"} /\ asked \in Urls \cup {"none"}
  /\ rooms \subseteq Rooms /\ active \subseteq rooms /\ auth_code \in {code.key : code \in Anything.auth}

\* Whatever the scheduler's thread read while a command was writing, workers
\* are compared with the configured code once nothing is under way: the load
\* that follows the last assignment comes last.  This asks that no two
\* assignments overlapped and that no code was longer than the array.
AuthCodeFollows ==
  /\ ~undefined
  /\ \A t \in Writers : command[t] = Idle
  /\ \A i \in DOMAIN posted : posted[i].run # "load_auth_code"
  => auth_code = option.auth.key

\* As long as the URL is right in the end, the supervisor's rooms become and
\* stay those of the server's list: no failure, no bad answer and no room
\* listed anew before its deletion leaves a lasting difference.
ListFollowed ==
  []~undefined /\ <>[](option.url = "good") => <>[](rooms = listing /\ active = listing)
=============================================================================
