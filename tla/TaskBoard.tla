----------------------------- MODULE TaskBoard -----------------------------
(***************************************************************************)
(* What the scheduler promises, without its tables, counters, sorting and  *)
(* phases: a board that says which rooms each worker has been told to      *)
(* receive.  A room is given to one worker at a time, to one that is a     *)
(* member, that rests from no failure and that does not exceed what it     *)
(* announced; a room leaves the board only with its worker's leave, or     *)
(* reset, with a message to it, with one from it, or with the room itself. *)
(***************************************************************************)
EXTENDS Integers, FiniteSets

CONSTANTS Workers, Rooms, Caps

VARIABLES
  members,  \* the workers known
  cap,      \* the number of rooms a member announced, -1 before it does
  known,    \* the rooms to be received
  holds,    \* the rooms each worker has been told to receive
  resting   \* the workers that lost a room by a failure, for a while

bvars == <<members, cap, known, holds, resting>>

Init ==
  /\ members = {} /\ cap = [w \in Workers |-> -1] /\ known = {}
  /\ holds = [w \in Workers |-> {}] /\ resting = {}

\* The workers of D start afresh, with m for their capacity.
Fresh(D, m) ==
  /\ cap' = [w \in Workers |-> IF w \in D THEN m ELSE cap[w]]
  /\ holds' = [w \in Workers |-> IF w \in D THEN {} ELSE holds[w]]
  /\ resting' = resting \ D

Join(w)        == members' = members \cup {w} /\ Fresh({w}, -1) /\ known' = known
Leave(D)       == members' = members \ D /\ Fresh(D, -1) /\ known' = known
Announce(w, m) == w \in members /\ Fresh({w}, m) /\ UNCHANGED <<members, known>>

\* One room is given to one worker.
Give(w, r) ==
  /\ w \in members \ resting /\ r \in known \ holds[w]
  /\ Cardinality(holds[w]) <= cap[w]
  /\ holds' = [holds EXCEPT ![w] = @ \cup {r}]
  /\ UNCHANGED <<members, cap, known, resting>>

\* Rooms of some workers fail, by their word or by their silence.
Fail ==
  /\ holds' \in [Workers -> SUBSET known]
  /\ \A w \in Workers : holds'[w] \subseteq holds[w]
  /\ resting' = resting \cup {w \in Workers : holds'[w] # holds[w]}
  /\ UNCHANGED <<members, cap, known>>

\* One room has more workers than it needs.
Trim(r) ==
  /\ holds' \in [Workers -> SUBSET known]
  /\ \A w \in Workers : holds[w] \ {r} \subseteq holds'[w] /\ holds'[w] \subseteq holds[w]
  /\ UNCHANGED <<members, cap, known, resting>>

\* Rooms are listed, or the rooms of R are not any more and are taken away.
List(R) == known' = known \cup R /\ UNCHANGED <<members, cap, holds, resting>>
Delist(R) ==
  /\ known' = known \ R
  /\ holds' = [w \in Workers |-> holds[w] \ R]
  /\ UNCHANGED <<members, cap, resting>>

Rested == resting' \subseteq resting /\ UNCHANGED <<members, cap, known, holds>>

Next ==
  \/ Fail \/ Rested
  \/ \E w \in Workers : Join(w) \/ \E m \in Caps : Announce(w, m)
  \/ \E D \in SUBSET Workers : Leave(D)
  \/ \E r \in Rooms : Trim(r) \/ \E w \in Workers : Give(w, r)
  \/ \E R \in SUBSET Rooms : List(R) \/ Delist(R)

Spec == Init /\ [][Next]_bvars
=============================================================================
