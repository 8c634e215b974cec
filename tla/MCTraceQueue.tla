---------------------------- MODULE MCTraceQueue ---------------------------
(* A small instance of TraceQueue for TLC. *)
EXTENDS TraceQueue, TLC
=============================================================================
