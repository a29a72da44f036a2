--------------------------- MODULE MCQueryResult ----------------------------
(***************************************************************************)
(* QueryResult with every command and the server the tracker was written   *)
(* for, or with one of the things it was not written for.                  *)
(***************************************************************************)
EXTENDS QueryResult
=============================================================================
