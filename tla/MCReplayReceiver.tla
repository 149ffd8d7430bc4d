-------------------------- MODULE MCReplayReceiver --------------------------
(***************************************************************************)
(* A window of 4 bits over counters 0 .. 10: room for the ring to be reused *)
(* more than twice, and for jumps shorter than, equal to and beyond W.     *)
(***************************************************************************)
EXTENDS ReplayReceiver

MCCounters == 0 .. 10
=============================================================================
