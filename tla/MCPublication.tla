--------------------------- MODULE MCPublication ---------------------------
(* A small instance of Publication for TLC.                                *)
EXTENDS Publication
=============================================================================
