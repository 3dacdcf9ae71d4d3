---------------------------- MODULE MCWorkerLink ----------------------------
(* A small instance of WorkerLink for TLC: two publishing threads, two     *)
(* messages at a time, and a network that fails twice.                     *)
EXTENDS WorkerLink
=============================================================================
