--------------------------- MODULE MCEventThreads ---------------------------
(***************************************************************************)
(* EventThreads with three connections, the main thread, two workers and  *)
(* a socketpair that is full after one byte.                               *)
(***************************************************************************)
EXTENDS EventThreads, TLC
=============================================================================
