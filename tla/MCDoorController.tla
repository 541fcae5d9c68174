-------------------------- MODULE MCDoorController --------------------------
(* Three callers: one in a pulse and two in the queue of the relay, under   *)
(* each of the eight wirings, or three overlapping pulses of the mock door. *)
EXTENDS DoorController
=============================================================================
