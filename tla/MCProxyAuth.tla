---------------------------- MODULE MCProxyAuth -----------------------------
(* Model checking ProxyAuth: the bounds are in the .cfg files. *)
EXTENDS ProxyAuth
=============================================================================
