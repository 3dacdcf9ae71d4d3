--------------------------- MODULE RoomListProofs ---------------------------
(***************************************************************************)
(* Theorems about RoomList: for any rooms, codes and bounds, the tables    *)
(* and options are what they should be, and the auth code workers are      *)
(* compared with is the configured one whenever nothing is under way.      *)
(***************************************************************************)
EXTENDS RoomList, TLAPS

Posts == [run : {"update_room_lists", "load_auth_code"}, list : SUBSET Rooms]

\* What a thread that takes commands is doing, and what it has in hand.
Doing == [doing : {"nothing", "assigning", "firing"}, name : {"none", "url", "auth"},
          value : Urls \cup Codes \cup {"none"}]

CommandsTyped ==
  /\ command \in [Writers -> Doing]
  /\ \A t \in Writers :
       /\ command[t].doing = "nothing" => command[t] = Idle
       /\ command[t].doing # "nothing" =>
            \/ command[t].name = "url" /\ command[t].value \in Urls
            \/ command[t].name = "auth" /\ command[t].value \in Codes

Typed == TypeOK /\ posted \in Seq(Posts) /\ CommandsTyped

\* A load of the auth code is posted and has not run.
LoadPosted == \E i \in DOMAIN posted : posted[i].run = "load_auth_code"

\* No thread has the auth code in hand.
NoneInHand == \A t \in Writers : command[t].name # "auth"

\* The code is current unless an assignment is under way or a load is due.
CodeCurrent == Defined /\ NoneInHand /\ ~LoadPosted => auth_code = option.auth.key

Inv == Typed /\ CodeCurrent

USE DEF Urls, Idle, requests, served, options, Sizes

\* The invariant holds when the program starts.
LEMMA InitInv == Init => Inv
<1>. SUFFICES ASSUME Init PROVE Inv
  OBVIOUS
<1>1. TypeOK
  BY CodesAssumption DEF Init, TypeOK, Overruns, Anything
<1>2. posted \in Seq(Posts) /\ CommandsTyped
  BY DEF Init, Posts, CommandsTyped, Doing
<1>. QED BY <1>1, <1>2 DEF Init, Inv, Typed, CodeCurrent

\* The steps of the server and of the updater that post nothing.
LEMMA UpdaterInv ==
  ASSUME Inv,
         listing_changes \/ refresh \/ request_failed \/ timer_expired
  PROVE  Inv'
<1>1. TypeOK'
  <2>1. CASE listing_changes
    BY <2>1 DEF Inv, listing_changes, Fault, Typed, TypeOK
  <2>2. CASE refresh
    BY <2>2 DEF Inv, refresh, Reads, Anything, Typed, TypeOK
  <2>3. CASE request_failed
    BY <2>3 DEF Inv, request_failed, reschedule_timer, Fault, Typed, TypeOK
  <2>4. CASE timer_expired
    BY <2>4 DEF Inv, timer_expired, Typed, TypeOK
  <2>. QED BY <2>1, <2>2, <2>3, <2>4
<1>2. UNCHANGED <<option, command, undefined, posted, auth_code>>
  BY DEF listing_changes, refresh, request_failed, timer_expired
<1>. QED BY <1>1, <1>2 DEF Inv, Typed, CommandsTyped, CodeCurrent, Defined, NoneInHand, LoadPosted

\* A function that is posted goes behind those that wait.
LEMMA Posting ==
  ASSUME NEW s \in Seq(Posts), NEW p \in Posts
  PROVE  /\ Append(s, p) \in Seq(Posts)
         /\ \A i \in DOMAIN s : i \in DOMAIN Append(s, p) /\ Append(s, p)[i] = s[i]
         /\ Len(s) + 1 \in DOMAIN Append(s, p) /\ Append(s, p)[Len(s) + 1] = p
OBVIOUS

\* An answer that is used, whatever it says.
LEMMA AnswerInv ==
  ASSUME Inv, on_updated \/ on_updated_wrongly
  PROVE  Inv'
<1>1. PICK S \in SUBSET Rooms : Answered(S)
  BY DEF Inv, Typed, TypeOK, on_updated, on_updated_wrongly
<1>2. UNCHANGED <<listing, option, command, undefined, rooms, active, auth_code>>
  BY DEF on_updated, on_updated_wrongly
<1>3. posted' \in Seq(Posts) /\ (LoadPosted => LoadPosted')
  <2> DEFINE p == [run |-> "update_room_lists", list |-> S]
  <2>1. p \in Posts /\ posted \in Seq(Posts) /\ posted' = Append(posted, p)
    BY <1>1 DEF Posts, Answered, Inv, Typed
  <2> HIDE DEF p
  <2>. QED BY <2>1, Posting DEF LoadPosted
<1>4. TypeOK'
  BY <1>1, <1>2 DEF Answered, reschedule_timer, Inv, Typed, TypeOK
<1>. QED BY <1>2, <1>3, <1>4 DEF Inv, Typed, CommandsTyped, CodeCurrent, Defined, NoneInHand

\* A command that begins leaves the code alone, and one that assigns the code
\* has it in hand from here on.
LEMMA SetInv ==
  ASSUME Inv, Defined, NEW t \in Writers, NEW name \in {"url", "auth"}, NEW value,
         name = "url" => value \in Urls, name = "auth" => value \in Codes,
         set(t, name, value)
  PROVE  Inv'
<1> DEFINE c == [doing |-> "assigning", name |-> name, value |-> value]
<1>1. /\ command' = [command EXCEPT ![t] = c]
      /\ command[t] = Idle
      /\ UNCHANGED <<listing, option, updater, asked, posted, rooms, active, auth_code>>
      /\ undefined' \in BOOLEAN
  BY DEF set
<1>2. c \in Doing /\ c.doing = "assigning" /\ c.name = name /\ c.value = value
  BY DEF Doing
<1> HIDE DEF c
<1>3. CommandsTyped'
  <2>1. command \in [Writers -> Doing]
    BY DEF CommandsTyped, Inv, Typed
  <2>2. command' \in [Writers -> Doing] /\ command'[t] = c /\ \A u \in Writers \ {t} : command'[u] = command[u]
    BY <1>1, <1>2, <2>1
  <2>. QED BY <1>2, <2>2 DEF CommandsTyped, Inv, Typed
<1>4. Typed'
  BY <1>1, <1>3 DEF Inv, Typed, TypeOK
<1>5. NoneInHand' => NoneInHand
  BY <1>1, <1>2 DEF NoneInHand, CommandsTyped, Inv, Typed
<1>. QED BY <1>1, <1>4, <1>5 DEF Inv, CodeCurrent, LoadPosted, Defined

\* The steps of a command: the code may differ from the option only while a
\* thread has the code in hand, and a load is posted when it is put down.
LEMMA CommandsInv ==
  ASSUME Inv, NEW t \in Writers, assigned(t) \/ fire_config_changed(t)
  PROVE  Inv'
<1>0. command \in [Writers -> Doing] /\ posted \in Seq(Posts)
  BY DEF Inv, Typed, CommandsTyped
<1>1. CASE assigned(t)
  <2>1. /\ command' = [command EXCEPT ![t].doing = "firing"] /\ command[t].doing = "assigning"
        /\ option' = [option EXCEPT ![command[t].name] = command[t].value]
        /\ UNCHANGED <<listing, undefined, updater, asked, posted, rooms, active, auth_code>>
    BY <1>1 DEF assigned
  <2>2. \/ command[t].name = "url" /\ command[t].value \in Urls
        \/ command[t].name = "auth" /\ command[t].value \in Codes
    BY <2>1 DEF Inv, Typed, CommandsTyped
  <2>3. /\ command' \in [Writers -> Doing]
        /\ command'[t].doing = "firing" /\ command'[t].name = command[t].name /\ command'[t].value = command[t].value
        /\ \A u \in Writers \ {t} : command'[u] = command[u]
    BY <1>0, <2>1 DEF Doing
  <2>4. CommandsTyped'
    BY <2>2, <2>3 DEF CommandsTyped, Inv, Typed
  <2>5. option' \in [url : Urls, auth : Codes]
    BY <2>1, <2>2 DEF Inv, Typed, TypeOK
  <2>6. Typed'
    BY <2>1, <2>4, <2>5 DEF Inv, Typed, TypeOK
  <2>7. NoneInHand' => NoneInHand /\ option'.auth = option.auth
    BY <2>1, <2>2, <2>3 DEF NoneInHand, Inv, Typed, TypeOK
  <2>. QED BY <2>1, <2>6, <2>7 DEF Inv, CodeCurrent, LoadPosted, Defined
<1>2. CASE fire_config_changed(t)
  <2>1. /\ UNCHANGED <<listing, option, undefined, updater, asked, rooms, active, auth_code>>
        /\ command' = [command EXCEPT ![t] = Idle]
        /\ on_config_updated(command[t].name)
    BY <1>2 DEF fire_config_changed
  <2>2. CommandsTyped' /\ \A u \in Writers \ {t} : command'[u] = command[u]
    BY <2>1, <1>0 DEF CommandsTyped, Inv, Typed, Doing
  <2>3. CASE command[t].name = "auth"
    <3> DEFINE p == [run |-> "load_auth_code", list |-> {}]
    <3>1. p \in Posts /\ posted' = Append(posted, p) /\ p.run = "load_auth_code"
      BY <2>1, <2>3 DEF Posts, on_config_updated
    <3> HIDE DEF p
    <3>2. posted' \in Seq(Posts) /\ LoadPosted'
      BY <1>0, <3>1, Posting DEF LoadPosted
    <3>. QED BY <2>1, <2>2, <3>2 DEF Inv, Typed, TypeOK, CodeCurrent
  <2>4. CASE command[t].name # "auth"
    <3>1. posted' = posted
      BY <2>1, <2>4 DEF on_config_updated
    <3>2. NoneInHand' => NoneInHand
      BY <2>2, <2>4 DEF NoneInHand
    <3>. QED BY <2>1, <2>2, <3>1, <3>2 DEF Inv, Typed, TypeOK, CodeCurrent, LoadPosted, Defined
  <2>. QED BY <2>3, <2>4
<1>. QED BY <1>1, <1>2

\* What is left when the first of the posted functions has run.
LEMMA Running ==
  ASSUME NEW s \in Seq(Posts), s # <<>>
  PROVE  /\ Tail(s) \in Seq(Posts) /\ Head(s) \in Posts
         /\ s[1] = Head(s)
         /\ \A i \in DOMAIN s \ {1} : i - 1 \in DOMAIN Tail(s) /\ Tail(s)[i - 1] = s[i]
OBVIOUS

\* The steps of the scheduler's thread.
LEMMA SchedulerInv ==
  ASSUME Inv, Defined, update_room_lists \/ load_auth_code \/ delete_inactive_rooms
  PROVE  Inv'
<1>1. CASE update_room_lists
  <2>1. posted \in Seq(Posts) /\ posted # <<>> /\ Head(posted).run = "update_room_lists" /\ posted' = Tail(posted)
    BY <1>1 DEF update_room_lists, Next_posted, Inv, Typed
  <2>2. posted' \in Seq(Posts) /\ Head(posted).list \in SUBSET Rooms
    BY <2>1, Running DEF Posts
  <2>3. LoadPosted => LoadPosted'
    BY <2>1, Running DEF LoadPosted
  <2>4. active' \subseteq rooms' /\ rooms' \subseteq Rooms
    BY <1>1, <2>2 DEF update_room_lists, Still, Inv, Typed, TypeOK
  <2>5. UNCHANGED <<listing, option, command, undefined, updater, asked, auth_code>>
    BY <1>1 DEF update_room_lists
  <2>6. Typed'
    BY <2>2, <2>4, <2>5 DEF Inv, Typed, TypeOK, CommandsTyped
  <2>. QED BY <2>3, <2>5, <2>6 DEF Inv, CodeCurrent, Defined, NoneInHand
<1>2. CASE load_auth_code
  <2>1. posted \in Seq(Posts) /\ posted # <<>> /\ posted' = Tail(posted)
    BY <1>2 DEF load_auth_code, Next_posted, Inv, Typed
  <2>2. posted' \in Seq(Posts)
    BY <2>1, Running
  <2>3. UNCHANGED <<listing, option, command, updater, asked, rooms, active>>
    BY <1>2 DEF load_auth_code
  <2>4. PICK code \in Reads("auth") : auth_code' = code.key /\ undefined' = Overruns(code)
    BY <1>2 DEF load_auth_code
  <2>5. code \in Anything.auth
    BY <2>4 DEF Reads, Anything, Inv, Typed, TypeOK
  <2>6. Typed'
    BY <2>2, <2>3, <2>4, <2>5 DEF Overruns, Inv, Typed, TypeOK, CommandsTyped
  <2>7. NoneInHand => code = option.auth
    BY <2>4 DEF NoneInHand, Reads, Assigning
  <2>. QED BY <2>3, <2>4, <2>6, <2>7 DEF Inv, CodeCurrent, NoneInHand
<1>3. CASE delete_inactive_rooms
  <2>1. Typed'
    BY <1>3 DEF delete_inactive_rooms, Inv, Typed, TypeOK, CommandsTyped
  <2>. QED BY <1>3, <2>1 DEF delete_inactive_rooms, Inv, CodeCurrent, LoadPosted, NoneInHand, Defined
<1>. QED BY <1>1, <1>2, <1>3

\* The invariant holds in every reachable state.
THEOREM Invariance == Spec => []Inv
<1>1. Inv /\ [Next]_vars => Inv'
  <2>. SUFFICES ASSUME Inv, [Next]_vars PROVE Inv'
    OBVIOUS
  <2>1. CASE UNCHANGED vars
    BY <2>1 DEF vars, Inv, Typed, TypeOK, CommandsTyped, CodeCurrent, LoadPosted, NoneInHand, Defined
  <2>2. CASE Updater \/ listing_changes \/ on_updated_wrongly
    BY <2>2, UpdaterInv, AnswerInv DEF Updater
  <2>3. CASE Scheduled \/ Check
    BY <2>3, SchedulerInv DEF Scheduled, Check
  <2>4. ASSUME NEW t \in Writers, Commands(t) PROVE Inv'
    BY <2>4, CommandsInv DEF Commands
  <2>5. ASSUME Defined, NEW t \in Writers, NEW u \in Urls, set(t, "url", u) PROVE Inv'
    BY <2>5, SetInv
  <2>6. ASSUME Defined, NEW t \in Writers, NEW c \in Codes, set(t, "auth", c) PROVE Inv'
    BY <2>6, SetInv
  <2>. QED BY <2>1, <2>2, <2>3, <2>4, <2>5, <2>6 DEF Next, Disturbance, Unknown
<1>. QED BY <1>1, InitInv, PTL DEF Spec

\* Type correctness of the list, its updater and the options.
THEOREM TypeCorrect == Spec => []TypeOK
<1>1. Inv => TypeOK BY DEF Inv, Typed
<1>. QED BY <1>1, Invariance, PTL

\* Whatever load_auth_code read from a string being replaced, the code in
\* force is the configured one as soon as no assignment is under way and no
\* load is posted: on_config_updated posts a load behind each assignment, on
\* whichever thread it was made.
THEOREM CodeFollowsOption == Spec => []AuthCodeFollows
<1>1. Inv => AuthCodeFollows
  BY DEF Inv, CodeCurrent, LoadPosted, NoneInHand, Defined, AuthCodeFollows
<1>. QED BY <1>1, Invariance, PTL
=============================================================================
