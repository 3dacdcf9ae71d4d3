-------------------------- MODULE MCSchedulerCalm --------------------------
(* A small instance of SchedulerCalm for TLC.                              *)
EXTENDS SchedulerCalm
=============================================================================
