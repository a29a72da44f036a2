----------------------------- MODULE MCBackends -----------------------------
(***************************************************************************)
(* Backends with two connections and two backends.                         *)
(***************************************************************************)
EXTENDS Backends
=============================================================================
