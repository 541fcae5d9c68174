---------------------------- MODULE MCLifecycle ----------------------------
(* Two cards, two threads and one crash, on a fail-secure door: two threads *)
(* are enough to have all of them orphaned while a call waits, and to read  *)
(* one serial line by both.                                                 *)
EXTENDS Lifecycle
=============================================================================
