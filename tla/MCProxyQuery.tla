---------------------------- MODULE MCProxyQuery ----------------------------
(* Model checking ProxyQuery: the bounds are in the .cfg files. *)
EXTENDS ProxyQuery
=============================================================================
