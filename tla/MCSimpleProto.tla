--------------------------- MODULE MCSimpleProto ---------------------------
(* A small instance of SimpleProto for TLC.                                *)
EXTENDS SimpleProto
=============================================================================
