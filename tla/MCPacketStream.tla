--------------------------- MODULE MCPacketStream ---------------------------
(***************************************************************************)
(* PacketStream with payloads of up to two full packets, headers and       *)
(* payloads cut at every place, and more chunks than writev() takes.       *)
(***************************************************************************)
EXTENDS PacketStream
=============================================================================
