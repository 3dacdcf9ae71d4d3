--------------------------- MODULE MCRoomService ---------------------------
(* A small instance of RoomService for TLC.                                *)
EXTENDS RoomService
=============================================================================
