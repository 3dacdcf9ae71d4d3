----------------------------- MODULE MCRoomList -----------------------------
(* A small instance of RoomList for TLC: two codes that differ in what is  *)
(* compared, and one that is too long.                                     *)
EXTENDS RoomList

MCCodes == {[key |-> "a", size |-> "fits"], [key |-> "b", size |-> "fits"], [key |-> "b", size |-> "long"]}
=============================================================================
