----------------------------- MODULE MCConnPool -----------------------------
(* Model checking ConnPool. The sockets are interchangeable. *)
EXTENDS ConnPool, TLC
SocketSymmetry == Permutations(Sockets)
=============================================================================
