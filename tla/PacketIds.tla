----------------------------- MODULE PacketIds ------------------------------
(***************************************************************************)
(* The packet ids of a network_socket (src/src/network-mysqld.c): an 8-bit *)
(* sequence number per socket that both directions share, and the flag     *)
(* packet_id_is_reset, set where a new exchange begins.                    *)
(***************************************************************************)
EXTENDS Naturals

Ids == 0..255
Sockets == [last : Ids, reset : BOOLEAN]
Succ(id) == (id + 1) % 256
Pred(id) == (id + 255) % 256

NewSocket == [last |-> 0, reset |-> TRUE]
queue_reset(s) == [s EXCEPT !.reset = TRUE]
\* The flag of the destination stays as it is.
queue_sync(dst, src) == [dst EXCEPT !.last = Pred(src.last)]

\* The id a packet leaves with: an existing packet keeps its id at the start
\* of an exchange and is patched after that; a new payload starts with 0.
RawId(s, id) == IF s.reset THEN id ELSE Succ(s.last)
NewId(s) == IF s.reset THEN 0 ELSE Succ(s.last)
Numbered(id) == [last |-> id, reset |-> FALSE]
queue_append_raw(s, id) == Numbered(RawId(s, id))
queue_append(s) == Numbered(NewId(s))

\* network_mysqld_con_get_packet() takes any id at the start of an exchange.
Accepts(s, id) == s.reset \/ id = Succ(s.last)
get_packet(s, id) == Numbered(id)
=============================================================================
