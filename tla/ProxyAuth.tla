----------------------------- MODULE ProxyAuth ------------------------------
(***************************************************************************)
(* The first half of a proxied connection: the states INIT ...             *)
(* SEND_AUTH_OLD_PASSWORD of network_mysqld_con_handle()                   *)
(* (src/src/network-mysqld.c) with the hooks of the proxy plugin           *)
(* (src/plugins/proxy/proxy-plugin.c), up to READ_QUERY, where ProxyQuery  *)
(* goes on. Packets carry the ids of PacketIds, so that each peer can tell *)
(* whether it got the packet it expects.                                   *)
(*                                                                         *)
(* A "careful" script may deny the client at each hook, answer itself when *)
(* there is no server, write the client's answer anew, take a connection   *)
(* from the pool, and give the connection back when the exchange with the  *)
(* server pauses. Backends that failed stay DOWN until the login is over.  *)
(***************************************************************************)
EXTENDS MysqldCon, PacketIds

CONSTANTS
    Setups,          \* how the proxy and the peers may be set up, see setup
    PoolChangeUser,  \* the values of config->pool_change_user
    Backends,        \* number of backends
    MaxId            \* bound: the last id at which a server asks for more

ASSUME AuthAssumption ==
    /\ Setups \subseteq {"plain", "win", "script", "script_win"}
    /\ PoolChangeUser \subseteq BOOLEAN
    /\ Backends \in Nat /\ MaxId \in Ids

VARIABLES
    setup,             \* one of Setups, for good
    client_ids,        \* con->client: last_packet_id, packet_id_is_reset
    server_ids,        \* con->server: the same
    result,            \* con->auth_result_state
    method,            \* con->auth_switch_to_method: "win", "other" or "none"
    next_from_server,  \* con->auth_next_packet_is_from_server
    change_user,       \* st->is_in_com_change_user
    untried,           \* backends that are not DOWN
    session,           \* where the server is in its dialogue
    got,               \* the last packet the client got
    client_next,       \* the packet id the client expects
    server_next,       \* the packet id the server expects
    surprised          \* a peer got a packet it cannot make sense of

idVars == <<client_ids, server_ids>>
trackVars == <<result, method, next_from_server>>
proxyVars == <<change_user, untried>>
peerVars == <<session, got, client_next, server_next, surprised>>
authVars == <<idVars, trackVars, proxyVars, peerVars>>
vars == <<setup, mysqldVars, authVars>>

\* There is a script, and connections in the pool for it.
Scripted == setup \in {"script", "script_win"}
\* Server and client know authentication_windows_client.
WinAuth == setup \in {"win", "script_win"}

ServerKinds == {"CHALLENGE", "BAD", "OK", "ERR", "SWITCH_WIN", "SWITCH_OTHER", "MORE",
                "DONE", "INVALID"}
ClientKinds == {"AUTH", "BAD", "OLD", "LONG", "DATA"}
ToClient == [kind : ServerKinds, id : Ids]
ToServer == [kind : ClientKinds \cup {"CHANGE_USER"}, id : Ids]
FromClient == [kind : ClientKinds, id : Ids]
Results == {"OK", "ERR", "EOF", "0x01"}
Sessions == {"none", "greeted", "win", "other", "authed", "denied"}
\* The states that use con->server without asking whether it is there.
ServerStates == {"READ_HANDSHAKE", "SEND_AUTH", "READ_AUTH_RESULT", "SEND_AUTH_OLD_PASSWORD"}

TypeOK ==
    /\ setup \in Setups
    /\ state \in States /\ event \in Events /\ server \in Servers
    /\ client_send \in Seq(ToClient) /\ server_send \in Seq(ToServer)
    /\ client \in Clients /\ client_out \in Seq(FromClient) /\ client_in \in Seq(ToClient)
    /\ server_alive \in BOOLEAN /\ server_out \in Seq(ToClient) /\ server_in \in Seq(ToServer)
    /\ client_ids \in Sockets /\ server_ids \in Sockets
    /\ result \in Results /\ method \in {"none", "win", "other"} /\ next_from_server \in BOOLEAN
    /\ change_user \in BOOLEAN /\ untried \in 0..Backends
    /\ session \in Sessions /\ got \in ServerKinds \cup {"none"}
    /\ client_next \in Ids /\ server_next \in Ids /\ surprised \in BOOLEAN

\* network_mysqld_con_accept(): a new connection, handled at once.
\* auth_result_state is 0 in it, which is MYSQLD_PACKET_OK.
Init ==
    /\ setup \in Setups
    /\ state = "INIT" /\ event = "run" /\ server = "none"
    /\ client_send = <<>> /\ server_send = <<>>
    /\ client = "waiting" /\ client_out = <<>> /\ client_in = <<>>
    /\ server_alive = FALSE /\ server_out = <<>> /\ server_in = <<>>
    /\ client_ids = NewSocket /\ server_ids = NewSocket
    /\ result = "OK" /\ method = "none" /\ next_from_server = FALSE
    /\ change_user = FALSE /\ untried = Backends
    /\ session = "none" /\ got = "none" /\ client_next = 0 /\ server_next = 0
    /\ surprised = FALSE
-----------------------------------------------------------------------------
\* A payload for the client; one that ends an exchange and resets the ids, as
\* con_send_ok(), con_send_error() and proxy.response do; and a packet of the
\* server that is passed on.
ToClientNew(k, ids) ==
    /\ client_send' = Append(client_send, [kind |-> k, id |-> NewId(ids)])
    /\ client_ids' = queue_append(ids)
ToClientFinal(k, ids) ==
    /\ client_send' = Append(client_send, [kind |-> k, id |-> NewId(ids)])
    /\ client_ids' = queue_reset(queue_append(ids))
ToClientRaw(p) ==
    /\ client_send' = Append(client_send, [p EXCEPT !.id = RawId(client_ids, p.id)])
    /\ client_ids' = queue_append_raw(client_ids, p.id)
\* The same for the server.
ToServerNew(k) ==
    /\ server_send' = Append(server_send, [kind |-> k, id |-> NewId(server_ids)])
    /\ server_ids' = queue_append(server_ids)
ToServerRaw(p) ==
    /\ server_send' = Append(server_send, [p EXCEPT !.id = RawId(server_ids, p.id)])
    /\ server_ids' = queue_append_raw(server_ids, p.id)
-----------------------------------------------------------------------------
(***************************************************************************)
(* INIT and CONNECT_SERVER. A backend that cannot be reached is DOWN, and  *)
(* the loop comes back for another one.                                    *)
(***************************************************************************)
ConInit ==
    /\ At("INIT")
    /\ Goto("CONNECT_SERVER")
    /\ UNCHANGED <<server, queueVars, clientVars, serverVars, authVars>>

Connected ==
    /\ server' = "plain" /\ server_alive' = TRUE
    /\ Goto("READ_HANDSHAKE")
    /\ UNCHANGED <<client_send, client_ids, untried, session>>

\* Mutant: a failed backend is not marked as DOWN.
ConnectFailedUnmarked ==
    /\ server' = "none"
    /\ Stay
    /\ UNCHANGED <<client_send, client_ids, server_alive, session, untried>>

ConnectFailed ==
    /\ server' = "none" /\ untried' = untried - 1
    /\ Stay
    /\ UNCHANGED <<client_send, client_ids, server_alive, session>>

ConnectPending ==
    /\ server' = "connecting"
    /\ WaitFor("server_write")
    /\ UNCHANGED <<client_send, client_ids, untried, server_alive, session>>

\* PROXY_SEND_RESULT, or a script that cannot be loaded: "who needs a server?"
ConnectAnswered ==
    /\ Scripted
    /\ \E k \in {"ERR", "CHALLENGE"} : ToClientFinal(k, client_ids)
    /\ Goto("SEND_HANDSHAKE")
    /\ UNCHANGED <<server, server_alive, untried, session>>

\* PROXY_IGNORE_RESULT with a connection from the pool: its old challenge is
\* sent again.
ConnectPooled ==
    /\ Scripted
    /\ server' = "pooled" /\ server_alive' = TRUE /\ session' = "authed"
    /\ ToClientNew("CHALLENGE", client_ids)
    /\ Goto("SEND_HANDSHAKE")
    /\ UNCHANGED untried

AllBackendsDown ==
    /\ untried = 0
    /\ ToClientFinal("ERR", client_ids)
    /\ Goto("SEND_ERROR")
    /\ UNCHANGED <<server, server_alive, untried, session>>

ConnectServer ==
    /\ At("CONNECT_SERVER")
    /\ \/ server = "connecting" /\ (Connected \/ ConnectFailed)
       \/ /\ server = "none"
          /\ \/ ConnectAnswered \/ ConnectPooled \/ AllBackendsDown
             \/ untried > 0 /\ (Connected \/ ConnectFailed \/ ConnectPending)
    /\ UNCHANGED <<server_send, clientVars, server_out, server_in, server_ids, trackVars,
                   change_user, got, client_next, server_next, surprised>>
-----------------------------------------------------------------------------
(***************************************************************************)
(* The handshake: the server's challenge to the client, its answer back.   *)
(***************************************************************************)
\* network_mysqld_read(): nothing there yet, an error of the socket or a
\* packet with another id than expected, or a packet.
ServerSilent == server_out = <<>> /\ WaitFor("server_read")
ServerReadFails == server_out # <<>> /\ Goto("ERROR")
ServerPacket == server_out # <<>> /\ Accepts(server_ids, Head(server_out).id)
ClientSilent == client_out = <<>> /\ WaitFor("client_read")
ClientPacket == client_out # <<>> /\ Accepts(client_ids, Head(client_out).id)

proxy_read_handshake(p) ==
    \/ /\ p.kind = "ERR"
       /\ ToClientRaw(p)
       /\ Goto("SEND_ERROR")
    \/ /\ p.kind = "BAD"
       /\ Goto("SEND_ERROR")
       /\ UNCHANGED <<client_send, client_ids>>
    \/ /\ p.kind = "CHALLENGE" /\ Scripted
       /\ ToClientFinal("ERR", client_ids)
       /\ Goto("SEND_ERROR")
    \/ /\ p.kind = "CHALLENGE"
       /\ ToClientNew("CHALLENGE", queue_sync(client_ids, server_ids'))
       /\ Goto("SEND_HANDSHAKE")

ReadHandshake ==
    /\ At("READ_HANDSHAKE")
    /\ \/ (ServerSilent \/ ServerReadFails) /\ UNCHANGED <<client_send, server_out, idVars>>
       \/ /\ ServerPacket
          /\ server_out' = Tail(server_out)
          /\ server_ids' = get_packet(server_ids, Head(server_out).id)
          /\ proxy_read_handshake(Head(server_out))
    /\ UNCHANGED <<server, server_send, clientVars, server_alive, server_in, trackVars,
                   proxyVars, peerVars>>

SendHandshake ==
    /\ At("SEND_HANDSHAKE")
    /\ (ClientWritten /\ Goto("READ_AUTH")) \/ ClientWriteWaits \/ ClientWriteFails
    /\ UNCHANGED <<server, server_send, client, client_out, serverVars, authVars>>

\* The script answers instead of the server, or writes the answer anew.
ReadAuthAnswer(ids) ==
    /\ Scripted
    /\ \E k \in {"OK", "ERR"} : (k = "OK" => ~HasServer) /\ ToClientFinal(k, ids)
    /\ Goto("SEND_AUTH_RESULT")
    /\ UNCHANGED <<server_send, server_ids, change_user>>

ReadAuthInject(ids) ==
    /\ Scripted /\ server = "plain"
    /\ ToServerNew("AUTH")
    /\ client_ids' = ids
    /\ Goto("SEND_AUTH")
    /\ UNCHANGED <<client_send, change_user>>

\* Mutant: the client is let in with a server that was not asked.
ReadAuthNoServerUnasked(ids) ==
    /\ ToClientFinal("OK", ids)
    /\ Goto("SEND_AUTH_RESULT")
    /\ UNCHANGED <<server_send, server_ids, change_user>>

\* Nobody to ask: the client is let in.
ReadAuthNoServer(ids) ==
    /\ ~HasServer
    /\ ToClientFinal("OK", ids)
    /\ Goto("SEND_AUTH_RESULT")
    /\ UNCHANGED <<server_send, server_ids, change_user>>

\* A connection from the pool is authenticated again with COM_CHANGE_USER.
ReadAuthChangeUser(ids) ==
    /\ server = "pooled" /\ TRUE \in PoolChangeUser
    /\ ToServerNew("CHANGE_USER")
    /\ client_ids' = ids
    /\ change_user' = TRUE
    /\ Goto("SEND_AUTH")
    /\ UNCHANGED client_send

\* Without pool_change_user the credentials of its last user are compared.
ReadAuthCompare(ids) ==
    /\ server = "pooled" /\ FALSE \in PoolChangeUser
    /\ \E k \in {"OK", "ERR"} : ToClientFinal(k, ids)
    /\ server_ids' = queue_reset(server_ids)
    /\ Goto("SEND_AUTH_RESULT")
    /\ UNCHANGED <<server_send, change_user>>

ReadAuthForward(p, ids) ==
    /\ server = "plain"
    /\ ToServerRaw(p)
    /\ client_ids' = ids
    /\ Goto("SEND_AUTH")
    /\ UNCHANGED <<client_send, change_user>>

\* An answer that cannot be parsed, of the 4.0 protocol, or a long one of
\* authentication_windows_client.
ReadAuthRefused(p, ids) ==
    /\ \/ p.kind = "BAD" /\ client_ids' = ids /\ UNCHANGED client_send
       \/ p.kind = "OLD" /\ ToClientNew("ERR", ids)
       \/ p.kind = "LONG" /\ ToClientFinal("ERR", ids)
    /\ Goto("SEND_ERROR")
    /\ UNCHANGED <<server_send, server_ids, change_user>>

proxy_read_auth(p, ids) ==
    \/ ReadAuthRefused(p, ids)
    \/ /\ p.kind = "AUTH"
       /\ \/ ReadAuthAnswer(ids) \/ ReadAuthInject(ids) \/ ReadAuthNoServer(ids)
          \/ ReadAuthChangeUser(ids) \/ ReadAuthCompare(ids) \/ ReadAuthForward(p, ids)

ReadAuth ==
    /\ At("READ_AUTH")
    /\ \/ /\ ClientSilent \/ (client_out # <<>> /\ Goto("ERROR"))
          /\ UNCHANGED <<queueVars, client_out, idVars, change_user>>
       \/ /\ ClientPacket
          /\ client_out' = Tail(client_out)
          /\ proxy_read_auth(Head(client_out), get_packet(client_ids, Head(client_out).id))
    /\ UNCHANGED <<server, client, client_in, serverVars, trackVars, untried, peerVars>>

SendAuth ==
    /\ At("SEND_AUTH")
    /\ (ServerWritten /\ Goto("READ_AUTH_RESULT")) \/ ServerWriteWaits \/ ServerWriteFails
    /\ UNCHANGED <<server, client_send, clientVars, server_alive, server_out, authVars>>
-----------------------------------------------------------------------------
(***************************************************************************)
(* The verdict of the server, or its wish for more from the client.        *)
(***************************************************************************)
\* con_track_auth_result_state(): what the packet says about the next step.
track_auth_result_state(k) ==
    /\ result' = CASE k = "OK" -> "OK" [] k = "ERR" -> "ERR"
                   [] k \in {"SWITCH_WIN", "SWITCH_OTHER"} -> "EOF" [] OTHER -> "0x01"
    /\ method' = CASE k = "SWITCH_WIN" -> "win" [] k = "SWITCH_OTHER" -> "other"
                   [] OTHER -> method
    /\ next_from_server' = CASE k \in {"SWITCH_WIN", "SWITCH_OTHER"} -> FALSE
                             [] k = "DONE" /\ method = "win" -> TRUE
                             [] OTHER -> next_from_server

\* Mutant: the id is corrected on every connection.
CorrectedIdAlways(p) == [p EXCEPT !.id = 2]
\* A server that is_authed answers a COM_CHANGE_USER: the id becomes 2.
CorrectedId(p) == IF server = "pooled" THEN [p EXCEPT !.id = 2] ELSE p

\* Mutant: the ids of the server are not reset.
proxy_read_auth_result_kept(p) ==
    /\ client_send' = Append(client_send, [p EXCEPT !.id = RawId(client_ids, CorrectedId(p).id)])
    /\ client_ids' = queue_reset(queue_append_raw(client_ids, CorrectedId(p).id))
    /\ server_ids' = get_packet(server_ids, p.id)
    /\ Goto("SEND_AUTH_RESULT")
    /\ UNCHANGED server

\* The script may deny the client, and may give the connection to the pool.
\* The exchange with the server is taken to be over.
proxy_read_auth_result(p) ==
    /\ \/ /\ client_send' = Append(client_send, [p EXCEPT !.id = RawId(client_ids, CorrectedId(p).id)])
          /\ client_ids' = queue_reset(queue_append_raw(client_ids, CorrectedId(p).id))
       \/ Scripted /\ p.kind \in {"OK", "ERR"} /\ ToClientFinal("ERR", client_ids)
    /\ \/ UNCHANGED server
       \/ Scripted /\ p.kind \in {"OK", "SWITCH_OTHER"} /\ server' = "none"
    /\ server_ids' = queue_reset(get_packet(server_ids, p.id))
    /\ Goto("SEND_AUTH_RESULT")

ReadAuthResult ==
    /\ At("READ_AUTH_RESULT")
    /\ \/ /\ ServerSilent \/ ServerReadFails
          /\ UNCHANGED <<server, client_send, server_out, idVars, trackVars>>
       \/ /\ ServerPacket
          /\ server_out' = Tail(server_out)
          /\ track_auth_result_state(Head(server_out).kind)
          /\ IF Head(server_out).kind = "INVALID" /\ method = "win"
             THEN Goto("ERROR") /\ UNCHANGED <<server, client_send, idVars>>
             ELSE proxy_read_auth_result(Head(server_out))
    /\ UNCHANGED <<server_send, clientVars, server_alive, server_in, proxyVars, peerVars>>

\* Mutants: after 0x01 it is always the server's turn, or always the client's.
AfterAuthResultServer ==
    CASE result = "OK" -> "READ_QUERY" [] result = "ERR" -> "ERROR"
      [] result = "0x01" -> "READ_AUTH_RESULT" [] OTHER -> "READ_AUTH_OLD_PASSWORD"
AfterAuthResultClient ==
    CASE result = "OK" -> "READ_QUERY" [] result = "ERR" -> "ERROR"
      [] OTHER -> "READ_AUTH_OLD_PASSWORD"
\* The default of plugin_call(): where the tracked verdict leads.
AfterAuthResult ==
    CASE result = "OK" -> "READ_QUERY"
      [] result = "ERR" -> "ERROR"
      [] result = "0x01" /\ method = "win" /\ next_from_server -> "READ_AUTH_RESULT"
      [] OTHER -> "READ_AUTH_OLD_PASSWORD"

SendAuthResult ==
    /\ At("SEND_AUTH_RESULT")
    /\ (ClientWritten /\ Goto(AfterAuthResult)) \/ ClientWriteWaits \/ ClientWriteFails
    /\ UNCHANGED <<server, server_send, client, client_out, serverVars, authVars>>

\* Mutant: the id of the packet is kept.
proxy_read_auth_old_password_kept(p, ids) ==
    /\ HasServer
    /\ ToServerRaw(p)
    /\ client_ids' = ids
    /\ Goto("SEND_AUTH_OLD_PASSWORD")
    /\ UNCHANGED client_send

proxy_read_auth_old_password(p, ids) ==
    LET long == method = "win" /\ p.kind = "LONG"
        patched == IF change_user THEN [p EXCEPT !.id = Succ(server_ids.last)] ELSE p IN
    IF ~HasServer \/ long
    THEN /\ ToClientFinal("ERR", ids)
         /\ Goto("SEND_ERROR")
         /\ UNCHANGED <<server_send, server_ids>>
    ELSE /\ ToServerRaw(patched)
         /\ client_ids' = ids
         /\ Goto("SEND_AUTH_OLD_PASSWORD")
         /\ UNCHANGED client_send

\* A failed read returns from con_handle().
ReadAuthOldPassword ==
    /\ At("READ_AUTH_OLD_PASSWORD")
    /\ \/ /\ ClientSilent \/ (client_out # <<>> /\ ReturnInError)
          /\ UNCHANGED <<queueVars, client_out, idVars>>
       \/ /\ ClientPacket
          /\ client_out' = Tail(client_out)
          /\ proxy_read_auth_old_password(Head(client_out),
                                          get_packet(client_ids, Head(client_out).id))
    /\ UNCHANGED <<server, client, client_in, serverVars, trackVars, proxyVars, peerVars>>

SendAuthOldPassword ==
    /\ At("SEND_AUTH_OLD_PASSWORD")
    /\ (ServerWritten /\ Goto("READ_AUTH_RESULT")) \/ ServerWriteWaits \/ ServerWriteFails
    /\ UNCHANGED <<server, client_send, clientVars, server_alive, server_out, authVars>>
-----------------------------------------------------------------------------
\* proxy_timeout(): a backend that does not answer to connect() is DOWN, a
\* server that does not take the client's answer is reported to the client,
\* everything else ends the connection.
FireTimeout ==
    /\ event \in Armed
    /\ event' = "run"
    /\ \/ /\ state = "CONNECT_SERVER"
          /\ server' = "none" /\ untried' = untried - 1
          /\ UNCHANGED <<state, client_send, client_ids>>
       \/ /\ state = "SEND_AUTH"
          /\ ToClientFinal("ERR", client_ids)
          /\ state' = "SEND_AUTH_RESULT"
          /\ UNCHANGED <<server, untried>>
       \/ /\ state \notin {"CONNECT_SERVER", "SEND_AUTH"}
          /\ state' = "ERROR"
          /\ UNCHANGED <<server, untried, client_send, client_ids>>
    /\ UNCHANGED <<setup, server_send, clientVars, serverVars, server_ids, trackVars, change_user, peerVars>>

Callback ==
    /\ FireWritable \/ FireReadable \/ FireClosed(FALSE)
    /\ UNCHANGED <<setup, authVars>>

Finish ==
    /\ CloseCon \/ SendError
    /\ UNCHANGED authVars
-----------------------------------------------------------------------------
(***************************************************************************)
(* The peers. The client answers a challenge, a switch and a wish for more *)
(* data, and hangs up when it is refused.                                  *)
(***************************************************************************)
Answers(k) ==
    CASE k = "CHALLENGE" -> {"AUTH", "BAD", "OLD"} \cup IF WinAuth THEN {"LONG"} ELSE {}
      [] k \in {"SWITCH_WIN", "SWITCH_OTHER", "MORE", "INVALID"} ->
            {"DATA"} \cup IF WinAuth THEN {"LONG"} ELSE {}
      [] OTHER -> {}

ClientReceive ==
    /\ client = "waiting" /\ ~surprised
    /\ client_in # <<>>
    /\ client_in' = Tail(client_in)
    /\ LET p == Head(client_in) IN
       IF p.id = client_next
       THEN /\ got' = p.kind
            /\ client' = CASE p.kind = "OK" -> "idle" [] p.kind = "ERR" -> "closed"
                           [] OTHER -> "waiting"
            /\ IF Answers(p.kind) = {}
               THEN client_next' = Succ(p.id) /\ UNCHANGED client_out
               ELSE /\ \E a \in Answers(p.kind) :
                          client_out' = Append(client_out, [kind |-> a, id |-> Succ(p.id)])
                    /\ client_next' = Succ(Succ(p.id))
            /\ UNCHANGED surprised
       ELSE surprised' = TRUE /\ UNCHANGED <<got, client, client_out, client_next>>
    /\ UNCHANGED <<setup, conVars, queueVars, serverVars, idVars, trackVars, proxyVars, session, server_next>>

\* The server greets, and then answers each packet it gets: with a verdict,
\* with a switch to another method as its first answer, with a wish for more,
\* or with the last token of authentication_windows_client and the verdict.
ServerGreets ==
    /\ server = "plain" /\ server_alive /\ session = "none"
    /\ \E k \in {"CHALLENGE", "BAD", "ERR"} :
          /\ server_out' = <<[kind |-> k, id |-> 0]>>
          /\ session' = IF k = "ERR" THEN "denied" ELSE "greeted"
          /\ server_alive' = (k # "ERR")
    /\ server_next' = 1
    /\ UNCHANGED <<setup, conVars, queueVars, clientVars, server_in, idVars, trackVars, proxyVars,
                   got, client_next, surprised>>

Expected(k) ==
    CASE session = "greeted" -> k = "AUTH"
      [] session = "authed" -> k = "CHANGE_USER"
      [] session \in {"win", "other"} -> k \in {"DATA", "LONG"}
      [] OTHER -> FALSE

Verdicts == {<<"OK">>, <<"ERR">>}
Replies(id) ==
    Verdicts
    \cup (IF session \in {"greeted", "authed"}
          THEN {<<"SWITCH_OTHER">>} \cup IF WinAuth THEN {<<"SWITCH_WIN">>} ELSE {}
          ELSE {})
    \cup (IF session \in {"win", "other"} /\ id < MaxId THEN {<<"MORE">>} ELSE {})
    \cup (IF session = "win" THEN {<<"DONE", "OK">>, <<"DONE", "ERR">>, <<"INVALID">>} ELSE {})

ServerAnswers ==
    /\ server_alive /\ ~surprised /\ server_in # <<>>
    /\ server_in' = Tail(server_in)
    /\ LET p == Head(server_in) IN
       IF p.id = server_next /\ Expected(p.kind)
       THEN \E r \in Replies(p.id) :
              LET last == r[Len(r)] IN
              /\ server_out' = server_out \o
                    [i \in 1..Len(r) |-> [kind |-> r[i], id |-> (p.id + i) % 256]]
              /\ server_next' = (p.id + Len(r) + 1) % 256
              /\ session' = CASE last = "OK" -> "authed" [] last = "ERR" -> "denied"
                              [] last = "SWITCH_WIN" -> "win" [] last = "SWITCH_OTHER" -> "other"
                              [] OTHER -> session
              /\ server_alive' = (last # "ERR")
              /\ UNCHANGED surprised
       ELSE surprised' = TRUE /\ UNCHANGED <<server_out, server_next, session, server_alive>>
    /\ UNCHANGED <<setup, conVars, queueVars, clientVars, idVars, trackVars, proxyVars, got, client_next>>

HangUp ==
    /\ ClientCloses \/ ServerCloses
    /\ UNCHANGED <<setup, authVars>>
-----------------------------------------------------------------------------
Handle ==
    /\ \/ ConInit \/ ConnectServer \/ ReadHandshake \/ SendHandshake \/ ReadAuth \/ SendAuth
       \/ ReadAuthResult \/ SendAuthResult \/ ReadAuthOldPassword \/ SendAuthOldPassword
       \/ Finish
    /\ UNCHANGED setup

Next ==
    \/ Handle \/ Callback \/ FireTimeout
    \/ ClientReceive \/ ServerGreets \/ ServerAnswers \/ HangUp

\* The event threads call a connection back and run its handler (see
\* EventThreads), the peers answer what they get, and a write that can go
\* on for ever completes.
Fairness ==
    /\ WF_vars(Handle) /\ WF_vars(Callback)
    /\ WF_vars(ClientReceive) /\ WF_vars(ServerGreets) /\ WF_vars(ServerAnswers)
    /\ SF_vars(Handle /\ (server_send # <<>> /\ server_send' = <<>>))
    /\ SF_vars(Handle /\ (client_send # <<>> /\ client_send' = <<>>))

Spec == Init /\ [][Next]_vars /\ Fairness
-----------------------------------------------------------------------------
(***************************************************************************)
(* Properties                                                              *)
(***************************************************************************)
\* Each peer gets the packets it expects, numbered as it expects them:
\* queue_append_raw(), the corrected ids around COM_CHANGE_USER and the
\* resets after each verdict of the server agree with the peers' counting.
InSequence == ~surprised

\* con_handle() never waits for a peer that waits for the proxy: it reads
\* from the client only when it is the client's turn, and from the server
\* only when the server still owes packets.
NoMutualWait ==
    /\ event = "client_read" /\ client_out = <<>> /\ client_in = <<>> => client # "waiting"
    /\ event = "server_read" /\ server_out = <<>> /\ server_alive
          => server_in # <<>> \/ session = "none"

\* A client that was let in and is connected to a server is let in by that
\* server, whatever answers of the server, of the script and of the pool's
\* comparison came in between.
LetInByServer == state = "READ_QUERY" /\ got = "OK" /\ HasServer => session = "authed"

\* The command phase starts as ProxyQuery assumes: nothing is left in a queue
\* or on a wire, and both sockets take the first id of the next exchange.
HandsOver ==
    state = "READ_QUERY" /\ client = "idle"
        => /\ client_send = <<>> /\ server_send = <<>>
           /\ client_out = <<>> /\ client_in = <<>>
           /\ HasServer => server_out = <<>> /\ server_in = <<>> /\ server_ids.reset
           /\ client_ids.reset

\* The states that use con->server are reached only with one.
ServerWhereUsed == state \in ServerStates /\ event # "freed" => HasServer

\* A client that was told ERR does not reach the command phase.
RefusedIsClosed == got = "ERR" => state # "READ_QUERY"

\* con_handle() leaves a connection with an event armed, or frees it.
ArmedOrFreed == event # "none"

\* A login ends: with the command phase, or with the connection given up.
LoginEnds == <>(state = "READ_QUERY" \/ event \in {"freed", "none"})
=============================================================================
