----------------------------- MODULE MysqldCon ------------------------------
(***************************************************************************)
(* What every state of network_mysqld_con_handle() shares                  *)
(* (src/src/network-mysqld.c): the state of one connection, the event it   *)
(* waits for, its two sockets, and the peers behind them.                  *)
(*                                                                         *)
(* A connection is handled by one thread at a time (see EventThreads), so  *)
(* one turn of the do { switch (con->state) } loop is one action, enabled  *)
(* while event = "run". WAIT_FOR_EVENT leaves the loop with one event      *)
(* armed; leaving it any other way leaves "none".                          *)
(*                                                                         *)
(* The wires hold complete packets: bytes of a packet that is not complete *)
(* yet are bytes network_mysqld_read() answers WAIT_FOR_EVENT to.          *)
(***************************************************************************)
EXTENDS Integers, Sequences

VARIABLES
    state,         \* con->state
    event,         \* the event con_handle() left armed, or "run"
    server,        \* con->server: "none", "connecting", "plain", "pooled"
    client_send,   \* con->client->send_queue
    server_send,   \* con->server->send_queue
    server_alive,  \* the server keeps its end of the connection open
    client,        \* what the client does: see Clients
    client_out,    \* packets from the client, not yet read
    client_in,     \* packets written to the client, not yet seen by it
    server_out,    \* packets from the server, not yet read
    server_in      \* packets written to the server, not yet answered

conVars == <<state, event, server>>
queueVars == <<client_send, server_send>>
clientVars == <<client, client_out, client_in>>
serverVars == <<server_alive, server_out, server_in>>
mysqldVars == <<conVars, queueVars, clientVars, serverVars>>

States == {"INIT", "CONNECT_SERVER", "READ_HANDSHAKE", "SEND_HANDSHAKE",
    "READ_AUTH", "SEND_AUTH", "READ_AUTH_RESULT", "SEND_AUTH_RESULT",
    "READ_AUTH_OLD_PASSWORD", "SEND_AUTH_OLD_PASSWORD", "READ_QUERY",
    "SEND_QUERY", "READ_QUERY_RESULT", "SEND_QUERY_RESULT",
    "READ_LOCAL_INFILE_DATA", "SEND_LOCAL_INFILE_DATA",
    "READ_LOCAL_INFILE_RESULT", "SEND_LOCAL_INFILE_RESULT",
    "CLOSE_CLIENT", "CLOSE_SERVER", "SEND_ERROR", "ERROR"}
Armed == {"client_read", "client_write", "server_read", "server_write"}
Events == Armed \cup {"run", "none", "freed"}
Servers == {"none", "connecting", "plain", "pooled"}
Clients == {"idle", "waiting", "infile", "closed"}

HasServer == server # "none"
At(s) == event = "run" /\ state = s
Goto(s) == state' = s /\ event' = event
Stay == UNCHANGED <<state, event>>
WaitFor(e) == event' = e /\ state' = state
\* The handler returns without an event for the connection.
ReturnInError == state' = "ERROR" /\ event' = "none"
-----------------------------------------------------------------------------
\* network_mysqld_write() on the client: all of the queue goes out, or a part
\* of it and the rest waits for EV_WRITE, or the write fails.
ClientWritten ==
    /\ client_in' = client_in \o client_send
    /\ client_send' = <<>>
ClientWriteWaits ==
    /\ \E n \in 0..(Len(client_send) - 1) :
          /\ client_in' = client_in \o SubSeq(client_send, 1, n)
          /\ client_send' = SubSeq(client_send, n + 1, Len(client_send))
    /\ WaitFor("client_write")
ClientWriteFails ==
    /\ client_send # <<>>
    /\ Goto("ERROR")
    /\ UNCHANGED <<client_in, client_send>>

\* The same on the server.
ServerWritten ==
    /\ server_in' = server_in \o server_send
    /\ server_send' = <<>>
ServerWriteWaits ==
    /\ \E n \in 0..(Len(server_send) - 1) :
          /\ server_in' = server_in \o SubSeq(server_send, 1, n)
          /\ server_send' = SubSeq(server_send, n + 1, Len(server_send))
    /\ WaitFor("server_write")
ServerWriteFails ==
    /\ server_send # <<>>
    /\ Goto("ERROR")
    /\ UNCHANGED <<server_in, server_send>>
-----------------------------------------------------------------------------
\* network_mysqld_con_handle() is called back: EV_WRITE, or EV_READ with
\* FIONREAD telling how much there is to read.
FireWritable ==
    /\ event \in {"client_write", "server_write"}
    /\ event' = "run"
    /\ UNCHANGED <<state, server, queueVars, clientVars, serverVars>>

FireReadable ==
    /\ \/ event = "client_read" /\ client_out # <<>>
       \/ event = "server_read" /\ server_out # <<>>
    /\ event' = "run"
    /\ UNCHANGED <<state, server, queueVars, clientVars, serverVars>>

\* Nothing to read on a readable socket: the peer has closed it.
FireClosed(com_quit_seen) ==
    /\ \/ /\ event = "client_read" /\ client_out = <<>> /\ client = "closed"
          /\ state' = "CLOSE_CLIENT"
       \/ /\ event = "server_read" /\ server_out = <<>> /\ ~server_alive
          /\ state' = IF com_quit_seen THEN "CLOSE_SERVER" ELSE "ERROR"
    /\ event' = "run"
    /\ UNCHANGED <<server, queueVars, clientVars, serverVars>>

\* The states that end the connection: plugin_call_cleanup(), then
\* network_mysqld_con_free() closes both sockets.
CloseCon ==
    /\ event = "run"
    /\ state \in {"ERROR", "CLOSE_CLIENT", "CLOSE_SERVER"}
    /\ event' = "freed"
    /\ server' = "none"
    /\ client' = "closed"
    /\ server_alive' = FALSE
    /\ UNCHANGED <<state, queueVars, client_out, client_in, server_out, server_in>>

\* SEND_ERROR: flush the client's queue, then close; a failed write sets
\* CON_STATE_ERROR, which the assignment behind the switch overwrites.
SendError ==
    /\ At("SEND_ERROR")
    /\ \/ ClientWritten /\ Goto("CLOSE_CLIENT")
       \/ ClientWriteWaits
       \/ /\ client_send # <<>>
          /\ Goto("CLOSE_CLIENT")
          /\ UNCHANGED <<client_in, client_send>>
    /\ UNCHANGED <<server, server_send, client, client_out, serverVars>>

\* The peers hang up.
ClientCloses ==
    /\ client # "closed"
    /\ client' = "closed"
    /\ UNCHANGED <<conVars, queueVars, client_out, client_in, serverVars>>

ServerCloses ==
    /\ HasServer
    /\ server_alive
    /\ server_alive' = FALSE
    /\ UNCHANGED <<conVars, queueVars, clientVars, server_out, server_in>>
=============================================================================
