----------------------------- MODULE ProxyQuery -----------------------------
(***************************************************************************)
(* The command phase of a proxied connection: the states READ_QUERY ...    *)
(* SEND_LOCAL_INFILE_RESULT of network_mysqld_con_handle()                 *)
(* (src/src/network-mysqld.c) with the hooks of the proxy plugin           *)
(* (src/plugins/proxy/proxy-plugin.c), between a client that sends one     *)
(* command at a time and a server that answers in order.                   *)
(*                                                                         *)
(* The Lua script is a choice at each hook. A "careful" script keeps to    *)
(* the contract of src/doc/chapter/scripting.txt: it answers what expects  *)
(* an answer, and lets exactly one of its injected queries reach the       *)
(* client. A "free" script does what the hooks accept.                     *)
(***************************************************************************)
EXTENDS MysqldCon

CONSTANTS
    Script,            \* "none", "careful" or "free"
    ResultHook,        \* the script defines read_query_result()
    Commands,          \* commands the client sends
    LongCommands,      \* the client also sends commands of two packets
    BrokenChangeUser,  \* the server is a 5.1.14 ... 5.1.17 (Bug #25371)
    MaxQueries,        \* bound: commands the client sends
    MaxInjections,     \* bound: queries the script appends per command
    MaxPackets         \* bound: packets of one transfer under way

AllCommands == {"QUERY", "LOAD", "CLOSE", "DUMP", "CHANGE_USER", "QUIT"}
Expecting == {"QUERY", "LOAD", "CHANGE_USER"}

ASSUME ScriptAssumption == Script \in {"none", "careful", "free"}
ASSUME FlagsAssumption ==
    /\ ResultHook \in BOOLEAN
    /\ LongCommands \in BOOLEAN
    /\ BrokenChangeUser \in BOOLEAN
ASSUME CommandsAssumption == Commands \subseteq AllCommands
ASSUME BoundsAssumption ==
    MaxQueries \in Nat /\ MaxInjections \in Nat /\ MaxPackets \in Nat

VARIABLES
    client_recv,      \* con->client->recv_queue
    server_recv,      \* con->server->recv_queue
    offset,           \* con->server->send_queue->offset # 0
    command,          \* con->parse.command, "none" for -1
    infile,           \* com_query->state: "data", "result" or "none"
    needed,           \* con->resultset_is_needed
    finished,         \* con->resultset_is_finished
    ldli_done,        \* con->local_file_data_is_finished
    com_quit_seen,    \* con->com_quit_seen
    injected,         \* st->injected.queries
    sent,             \* st->injected.sent_resultset
    closing,          \* st->connection_close
    asked,            \* commands the client has sent
    surprised         \* a peer got a packet it cannot make sense of

parseVars == <<command, infile, com_quit_seen>>
resultVars == <<needed, finished, ldli_done>>
scriptVars == <<injected, sent, closing>>
peerVars == <<asked, surprised>>
recvVars == <<client_recv, server_recv, offset>>
vars == <<mysqldVars, recvVars, parseVars, resultVars, scriptVars, peerVars>>

\* What a packet can begin with: a command of the client or of the script,
\* the second packet of a command, a piece of a file. A server that waits for
\* a file has noted so in "INFILE".
Heads == Commands \cup {"QUERY", "LOAD", "CLOSE", "DATA", "END"}
Packet(cmds) == [cmd : cmds, q : 0..MaxQueries, more : BOOLEAN]
Requests == Packet(Heads)
Jobs == Packet(Heads \cup {"INFILE"})
Replies == [q : 0..MaxQueries, kind : {"more", "last", "infile", "err", "event"}]
Injections == [needed : BOOLEAN, cmd : {"QUERY", "LOAD"}]
Request(c, m) == [cmd |-> c, q |-> asked, more |-> m]
Reply(k) == [q |-> asked, kind |-> k]
\* The command byte of a packet: LOAD DATA LOCAL INFILE is a COM_QUERY, and
\* the empty packet has none. "DATA" is a byte that names no command.
CommandByte(c) == CASE c = "LOAD" -> "QUERY" [] c = "END" -> "none" [] OTHER -> c

\* The states that use con->server without asking whether it is there.
ServerStates == {"SEND_QUERY", "READ_QUERY_RESULT", "SEND_LOCAL_INFILE_DATA",
                 "READ_LOCAL_INFILE_RESULT"}
QueryStates == ServerStates \cup {"READ_QUERY", "SEND_QUERY_RESULT",
    "READ_LOCAL_INFILE_DATA", "SEND_LOCAL_INFILE_RESULT"}

TypeOK ==
    /\ state \in States /\ event \in Events /\ server \in Servers
    /\ client_send \in Seq(Replies) /\ server_send \in Seq(Requests)
    /\ client \in Clients /\ client_out \in Seq(Requests) /\ client_in \in Seq(Replies)
    /\ server_alive \in BOOLEAN /\ server_out \in Seq(Replies) /\ server_in \in Seq(Jobs)
    /\ client_recv \in Seq(Requests) /\ server_recv \in Seq(Replies) /\ offset \in BOOLEAN
    /\ command \in Heads \cup {"none"} /\ infile \in {"none", "data", "result"}
    /\ com_quit_seen \in BOOLEAN
    /\ needed \in BOOLEAN /\ finished \in BOOLEAN /\ ldli_done \in BOOLEAN
    /\ injected \in Seq(Injections) /\ sent \in Nat /\ closing \in BOOLEAN
    /\ asked \in 0..MaxQueries /\ surprised \in BOOLEAN

\* The command phase begins: SEND_AUTH_RESULT has switched to READ_QUERY.
Init ==
    /\ state = "READ_QUERY" /\ event = "run"
    /\ server \in {"plain"} \cup IF Script = "free" THEN {"none"} ELSE {}
    /\ client_send = <<>> /\ server_send = <<>>
    /\ client = "idle" /\ client_out = <<>> /\ client_in = <<>>
    /\ server_alive = TRUE /\ server_out = <<>> /\ server_in = <<>>
    /\ client_recv = <<>> /\ server_recv = <<>> /\ offset = FALSE
    /\ command = "none" /\ infile = "none" /\ com_quit_seen = FALSE
    /\ needed = FALSE /\ finished = FALSE /\ ldli_done = FALSE
    /\ injected = <<>> /\ sent = 0 /\ closing = FALSE
    /\ asked = 0 /\ surprised = FALSE
-----------------------------------------------------------------------------
\* The script may ask to close the connection at any hook.
ScriptMayClose == closing' \in IF Script = "none" THEN {closing} ELSE {closing, TRUE}

\* The script sets proxy.connection.backend_ndx = 0: the server connection,
\* with its queues, moves to the pool.
DropServer ==
    /\ server' = "none"
    /\ server_recv' = <<>> /\ server_send' = <<>>
    /\ server_out' = <<>> /\ server_in' = <<>>
    /\ offset' = FALSE
    /\ UNCHANGED server_alive

ResetParse == command' = "none" /\ infile' = "none" /\ UNCHANGED com_quit_seen

\* What the script may leave in proxy.queries.
Queues == UNION {[1..n -> Injections] : n \in 1..MaxInjections}
CarefulQueue(qs) ==
    /\ \A i, j \in DOMAIN qs : ~qs[i].needed /\ ~qs[j].needed => i = j
    /\ \A i \in DOMAIN qs : qs[i].cmd = "LOAD" => i = Len(qs)
    /\ (\E i \in DOMAIN qs : ~qs[i].needed) => qs[Len(qs)].cmd # "LOAD" \/ ~qs[Len(qs)].needed
-----------------------------------------------------------------------------
(***************************************************************************)
(* CON_STATE_READ_QUERY. The packets of an overlong command are read one   *)
(* by one; with the last one the plugin decides. recv is the recv_queue    *)
(* with that last packet.                                                  *)
(***************************************************************************)
\* Mutant: the server is not looked for before the packets are forwarded.
ReadQueryForwardBlindly(recv) ==
    /\ injected' \in {<<>>} \cup IF Script = "free" THEN Queues ELSE {}
    /\ server_send' = server_send \o recv
    /\ client_recv' = <<>>
    /\ needed' = FALSE
    /\ ResetParse
    /\ Goto("SEND_QUERY")
    /\ UNCHANGED <<server, client_send, server_recv, offset, finished, serverVars>>

\* No decision, PROXY_SEND_QUERY without a queue, or a script that failed:
\* the packets go to the server. A failed script leaves what it appended.
ReadQueryForward(recv) ==
    /\ HasServer
    /\ injected' \in {<<>>} \cup IF Script = "free" THEN Queues ELSE {}
    /\ server_send' = server_send \o recv
    /\ client_recv' = <<>>
    /\ needed' = FALSE
    /\ ResetParse
    /\ Goto("SEND_QUERY")
    /\ UNCHANGED <<server, client_send, server_recv, offset, finished, serverVars>>

\* PROXY_SEND_QUERY with injected queries: the first one replaces the packets.
ReadQueryInject(recv) ==
    /\ Script # "none"
    /\ HasServer
    /\ injected' \in Queues
    /\ Script = "careful" => CarefulQueue(injected') /\ recv[1].cmd \in {"QUERY", "LOAD"}
    /\ needed' = injected'[1].needed
    /\ server_send' = Append(server_send, Request(injected'[1].cmd, FALSE))
    /\ client_recv' = <<>>
    /\ ResetParse
    /\ Goto("SEND_QUERY")
    /\ UNCHANGED <<server, client_send, server_recv, offset, finished, serverVars>>

\* PROXY_SEND_RESULT: the script answers, and the answer is tracked like one
\* of a server. Also taken when the script cannot be loaded: the SEND_ERROR
\* that proxy_lua_read_query() sets is overwritten.
ReadQueryAnswer(recv) ==
    /\ Script # "none"
    /\ Script = "careful" => recv[1].cmd \in Expecting
    /\ injected' \in {<<>>} \cup IF Script = "free" THEN Queues ELSE {}
    /\ \/ UNCHANGED <<server, server_recv, server_send, offset, serverVars>>
       \/ HasServer /\ DropServer
    /\ \E k \in {"last", "infile"} :
          /\ k = "infile" => recv[1].cmd = "LOAD" /\ (Script = "careful" => server' = "none")
          /\ client_send' = Append(client_send, Reply(k))
          /\ infile' = IF k = "infile" THEN "data" ELSE "none"
    /\ command' = CommandByte(recv[1].cmd)
    /\ com_quit_seen' = (com_quit_seen \/ recv[1].cmd = "QUIT")
    /\ client_recv' = <<>>
    /\ finished' = TRUE
    /\ Goto("SEND_QUERY_RESULT")
    /\ UNCHANGED needed

\* Anything but an answer of the script needs a server.
ReadQueryNoServer(recv) ==
    /\ \/ ~HasServer /\ UNCHANGED <<server, server_send, server_recv, offset, serverVars>>
       \/ HasServer /\ Script # "none" /\ DropServer
    /\ Goto("ERROR")
    /\ client_recv' = recv
    /\ injected' = <<>>
    /\ UNCHANGED <<client_send, parseVars, needed, finished>>

\* Bug #25371: COM_CHANGE_USER is refused without asking the plugin. The
\* packet stays at the head of the recv_queue.
ReadQueryRefused(recv) ==
    /\ client_recv' = recv
    /\ client_send' = Append(client_send, Reply("last"))
    /\ Goto("SEND_QUERY_RESULT")
    /\ UNCHANGED <<server, server_send, server_recv, offset, serverVars,
                   parseVars, needed, finished, scriptVars>>

Refused(recv) == BrokenChangeUser /\ HasServer /\ recv[1].cmd = "CHANGE_USER"

proxy_read_query(recv) ==
    /\ sent' = 0
    /\ ScriptMayClose
    /\ \/ ReadQueryForward(recv)
       \/ ReadQueryInject(recv)
       \/ ReadQueryAnswer(recv)
       \/ ReadQueryNoServer(recv)

ReadQuery ==
    /\ At("READ_QUERY")
    /\ \/ /\ client_out = <<>>
          /\ WaitFor("client_read")
          /\ UNCHANGED <<server, client_send, server_send, serverVars, recvVars,
                         parseVars, needed, finished, scriptVars, client_out>>
       \/ /\ client_out # <<>>
          /\ ReturnInError
          /\ UNCHANGED <<server, client_send, server_send, serverVars, recvVars,
                         parseVars, needed, finished, scriptVars, client_out>>
       \/ /\ client_out # <<>>
          /\ client_out' = Tail(client_out)
          /\ LET recv == Append(client_recv, Head(client_out)) IN
             \/ /\ Head(client_out).more
                /\ client_recv' = recv
                /\ Stay
                /\ UNCHANGED <<server, client_send, server_send, server_recv, offset,
                               serverVars, parseVars, needed, finished, scriptVars>>
             \/ ~Head(client_out).more /\ Refused(recv) /\ ReadQueryRefused(recv)
             \/ ~Head(client_out).more /\ ~Refused(recv) /\ proxy_read_query(recv)
    /\ UNCHANGED <<client, client_in, ldli_done, peerVars>>

(***************************************************************************)
(* CON_STATE_SEND_QUERY. The command is taken from the head of the queue   *)
(* whenever no part of the head has been written yet.                      *)
(***************************************************************************)
command_states_init ==
    IF offset THEN UNCHANGED parseVars
    ELSE /\ command' = CommandByte(Head(server_send).cmd)
         /\ infile' = "none"
         /\ com_quit_seen' = (com_quit_seen \/ Head(server_send).cmd = "QUIT")
\* Mutant: every command is taken to be answered.
AfterSendQueryAnswered(c) == "READ_QUERY_RESULT"
\* COM_STMT_CLOSE (and COM_STMT_SEND_LONG_DATA) are not answered.
AfterSendQuery(c) == IF c = "CLOSE" THEN "READ_QUERY" ELSE "READ_QUERY_RESULT"
NoCommandByte == ~offset /\ Head(server_send).cmd = "END"

SendQuery ==
    /\ At("SEND_QUERY")
    /\ \/ /\ NoCommandByte
          /\ Goto("ERROR")
          /\ UNCHANGED <<server_send, server_in, offset, parseVars>>
       \/ /\ ~NoCommandByte
          /\ command_states_init
          /\ \/ ServerWritten /\ offset' = FALSE /\ Goto(AfterSendQuery(command'))
             \/ ServerWriteWaits /\ offset' \in BOOLEAN
             \/ ServerWriteFails /\ UNCHANGED offset
    /\ UNCHANGED <<server, client_send, clientVars, server_alive, server_out,
                   client_recv, server_recv, resultVars, scriptVars, peerVars>>

(***************************************************************************)
(* CON_STATE_READ_QUERY_RESULT. Each packet is tracked; an unbuffered one  *)
(* goes to the client's queue at once. With the last one, the injection    *)
(* is taken off its queue and read_query_result() decides about the        *)
(* buffered packets: toClient and recv are the two queues at that time.    *)
(***************************************************************************)
\* Each way read_query_result() can end: the two queues and sent_resultset.
Outcome(toClient, recv, n) == [send |-> toClient, recv |-> recv, sent |-> n]

\* PROXY_NO_DECISION: the first result-set of a command is sent, a further
\* one is dropped - if it is still here.
ResultNoDecision(toClient, recv) ==
    Outcome(IF sent = 0 THEN toClient \o recv ELSE toClient,
            IF sent = 0 \/ needed THEN <<>> ELSE recv,
            sent + 1)

\* Mutant: the buffered packets are sent as well.
ResultNotReplaced(toClient, recv) ==
    Outcome(Append(toClient \o recv, Reply("last")), <<>>, sent + 1)

\* PROXY_SEND_RESULT: the script's response replaces the buffered packets,
\* whatever was sent before.
ResultReplaced(toClient, recv) ==
    Outcome(Append(toClient, Reply("last")), <<>>, sent + 1)

\* A response that cannot be used is an ERR, unless a result-set was sent.
ResultUnusable(toClient, recv) ==
    Outcome(IF sent = 0 THEN Append(toClient, Reply("last")) ELSE toClient, <<>>, sent + 1)

\* Mutant: the packets are kept.
ResultIgnoredKept(toClient, recv) == Outcome(toClient, recv, sent)

\* PROXY_IGNORE_RESULT
ResultIgnored(toClient, recv) == Outcome(toClient, <<>>, sent)

\* Any other return code: "will ignore the result".
ResultOther(toClient, recv) == Outcome(<<>>, recv, sent)

\* The script cannot be loaded: an ERR is queued and the function returns.
ResultLoadFailed(toClient, recv) == Outcome(Append(toClient, Reply("last")), recv, sent)

\* A careful script sends one result-set, the last one at the latest.
MaySend(load) ==
    /\ sent = 0
    /\ \A i \in 2..Len(injected) : injected[i].needed
    /\ load \/ \A i \in 2..Len(injected) : injected[i].cmd # "LOAD"
MustSend == sent = 0 /\ Len(injected) = 1

CarefulResults(toClient, recv) ==
    LET load == injected[1].cmd = "LOAD" IN
    (IF ~needed \/ MaySend(load) THEN {ResultNoDecision(toClient, recv)} ELSE {})
    \cup (IF needed /\ MaySend(load) /\ ~load THEN {ResultReplaced(toClient, recv)} ELSE {})
    \cup (IF needed /\ ~MustSend /\ ~load THEN {ResultIgnored(toClient, recv)} ELSE {})

\* What the script wants of a result-set that is not buffered is ignored.
FreeResults(toClient, recv) ==
    {ResultNoDecision(toClient, recv), ResultLoadFailed(toClient, recv)}
    \cup IF needed THEN {ResultReplaced(toClient, recv), ResultUnusable(toClient, recv),
                         ResultIgnored(toClient, recv), ResultOther(toClient, recv)} ELSE {}

\* Nothing was injected, or the script has no such function: as it is.
proxy_lua_read_query_result(toClient, recv) ==
    IF injected = <<>> \/ ~ResultHook
    THEN {Outcome(toClient, recv, sent)}
         \cup IF injected # <<>> /\ Script = "free" THEN {ResultLoadFailed(toClient, recv)} ELSE {}
    ELSE IF Script = "careful" THEN CarefulResults(toClient, recv)
    ELSE FreeResults(toClient, recv)

get_query_result(p) ==
    /\ infile' = IF p.kind = "infile" /\ command = "QUERY" THEN "data" ELSE infile
    /\ UNCHANGED <<command, com_quit_seen>>
\* Mutant: the request for a file is not the end of what the server says.
LastPacketNoInfile(p) == p.kind \notin {"more", "infile"} \/ command = "DUMP"
LastPacket(p) == p.kind # "more" \/ command = "DUMP"

\* Not the last packet: forward or buffer it; with more than 64 kbyte
\* waiting, send them before reading on.
ReadResultMore(p) ==
    /\ ~LastPacket(p)
    /\ finished' = FALSE
    /\ server_recv' = IF needed THEN Append(server_recv, p) ELSE server_recv
    /\ client_send' = IF needed THEN client_send ELSE Append(client_send, p)
    /\ Stay \/ (~needed /\ Goto("SEND_QUERY_RESULT"))
    /\ server_out' = Tail(server_out)
    /\ UNCHANGED <<server, server_send, offset, server_in, server_alive, scriptVars>>

\* The last packet. The script may give the server connection to the pool; a
\* careful one does so only when nothing is left to do there.
ReadResultLast(p) ==
    /\ LastPacket(p)
    /\ finished' = TRUE
    /\ Goto("SEND_QUERY_RESULT")
    /\ injected' = IF injected = <<>> THEN <<>> ELSE Tail(injected)
    /\ \E o \in IF needed
                THEN proxy_lua_read_query_result(client_send, Append(server_recv, p))
                ELSE proxy_lua_read_query_result(Append(client_send, p), server_recv) :
          /\ client_send' = o.send
          /\ sent' = o.sent
          /\ \/ /\ server_recv' = o.recv
                /\ server_out' = Tail(server_out)
                /\ UNCHANGED <<server, server_send, offset, server_in, server_alive>>
             \/ /\ injected # <<>> /\ ResultHook
                /\ Script = "careful" => injected' = <<>> /\ p.kind # "infile"
                /\ DropServer
    /\ IF injected = <<>> THEN UNCHANGED closing ELSE ScriptMayClose

ReadQueryResult ==
    /\ At("READ_QUERY_RESULT")
    /\ \/ /\ server_out = <<>>
          /\ WaitFor("server_read")
          /\ UNCHANGED <<server, queueVars, recvVars, serverVars, parseVars, finished, scriptVars>>
       \/ /\ server_out # <<>>
          /\ Goto("ERROR")
          /\ UNCHANGED <<server, queueVars, recvVars, serverVars, parseVars, finished, scriptVars>>
       \/ /\ server_out # <<>>
          /\ get_query_result(Head(server_out))
          /\ ReadResultMore(Head(server_out)) \/ ReadResultLast(Head(server_out))
          /\ UNCHANGED client_recv
    /\ UNCHANGED <<clientVars, needed, ldli_done, peerVars>>

(***************************************************************************)
(* CON_STATE_SEND_QUERY_RESULT. With the queue written, go on reading, or  *)
(* let proxy_send_query_result() pick the next injected query or the next  *)
(* command of the client.                                                  *)
(***************************************************************************)
\* Mutant: a further query may stream its result-set too.
NextInjectionUnchecked ==
    /\ injected # <<>> /\ HasServer
    /\ needed' = injected[1].needed
    /\ server_send' = Append(server_send, Request(injected[1].cmd, FALSE))
    /\ ResetParse
    /\ Goto("SEND_QUERY")
    /\ UNCHANGED injected

NextInjection ==
    /\ injected # <<>> /\ HasServer
    /\ needed' = injected[1].needed
    /\ IF ~injected[1].needed /\ sent > 0
       THEN Goto("ERROR") /\ UNCHANGED <<server_send, parseVars>>
       ELSE /\ server_send' = Append(server_send, Request(injected[1].cmd, FALSE))
            /\ ResetParse
            /\ Goto("SEND_QUERY")
    /\ UNCHANGED injected

NoInjection ==
    /\ injected = <<>> \/ ~HasServer
    /\ injected' = <<>>
    /\ Goto(IF command = "QUERY" /\ infile = "data"
            THEN "READ_LOCAL_INFILE_DATA" ELSE "READ_QUERY")
    /\ UNCHANGED <<server_send, parseVars, needed>>

\* Mutant: an event of a dump ends it.
proxy_send_query_result_dumped ==
    IF closing
    THEN Goto("ERROR") /\ UNCHANGED <<server_send, parseVars, needed, injected>>
    ELSE NextInjection \/ NoInjection

proxy_send_query_result ==
    IF closing \/ command = "DUMP"
    THEN /\ Goto(IF closing THEN "ERROR" ELSE "READ_QUERY_RESULT")
         /\ UNCHANGED <<server_send, parseVars, needed, injected>>
    ELSE NextInjection \/ NoInjection

SendQueryResult ==
    /\ At("SEND_QUERY_RESULT")
    /\ \/ /\ ClientWriteWaits \/ ClientWriteFails
          /\ UNCHANGED <<server_send, parseVars, needed, injected>>
       \/ /\ ClientWritten
          /\ IF ~finished /\ HasServer
             THEN Goto("READ_QUERY_RESULT") /\ UNCHANGED <<server_send, parseVars, needed, injected>>
             ELSE proxy_send_query_result
    /\ UNCHANGED <<server, client, client_out, serverVars, recvVars, finished, ldli_done,
                   sent, closing, peerVars>>

(***************************************************************************)
(* LOAD DATA LOCAL INFILE: the client's packets go to the server until an  *)
(* empty one, then the server's verdict goes to the client. Without a      *)
(* server the data is dropped and the proxy answers OK.                    *)
(***************************************************************************)
ReadLocalInfileData ==
    /\ At("READ_LOCAL_INFILE_DATA")
    /\ \/ /\ client_out = <<>>
          /\ WaitFor("client_read")
          /\ UNCHANGED <<queueVars, client_out, infile, ldli_done>>
       \/ /\ client_out # <<>>
          /\ Goto("ERROR")
          /\ UNCHANGED <<queueVars, client_out, infile, ldli_done>>
       \/ /\ client_out # <<>>
          /\ client_out' = Tail(client_out)
          /\ LET end == Head(client_out).cmd = "END" IN
             /\ ldli_done' = end
             /\ infile' = IF end THEN "result" ELSE infile
             /\ IF HasServer
                THEN /\ server_send' = Append(server_send, Head(client_out))
                     /\ Goto("SEND_LOCAL_INFILE_DATA")
                     /\ UNCHANGED client_send
                ELSE /\ client_send' = IF end THEN Append(client_send, Reply("last")) ELSE client_send
                     /\ IF end THEN Goto("SEND_LOCAL_INFILE_RESULT") ELSE Stay
                     /\ UNCHANGED server_send
    /\ UNCHANGED <<server, client, client_in, serverVars, recvVars, command, com_quit_seen,
                   needed, finished, scriptVars, peerVars>>

SendLocalInfileData ==
    /\ At("SEND_LOCAL_INFILE_DATA")
    /\ \/ /\ ServerWritten
          /\ Goto(IF ldli_done THEN "READ_LOCAL_INFILE_RESULT" ELSE "READ_LOCAL_INFILE_DATA")
       \/ ServerWriteWaits
       \/ ServerWriteFails
    /\ UNCHANGED <<server, client_send, clientVars, server_alive, server_out, recvVars,
                   parseVars, resultVars, scriptVars, peerVars>>

\* Only an OK is understood here, see PARSE_COM_QUERY_LOCAL_INFILE_RESULT.
ReadLocalInfileResult ==
    /\ At("READ_LOCAL_INFILE_RESULT")
    /\ \/ /\ server_out = <<>>
          /\ WaitFor("server_read")
          /\ UNCHANGED <<client_send, server_out>>
       \/ /\ server_out # <<>>
          /\ Goto("ERROR")
          /\ UNCHANGED <<client_send, server_out>>
       \/ /\ server_out # <<>>
          /\ Head(server_out).kind = "last"
          /\ client_send' = Append(client_send, Head(server_out))
          /\ server_out' = Tail(server_out)
          /\ Goto("SEND_LOCAL_INFILE_RESULT")
    /\ UNCHANGED <<server, server_send, clientVars, server_alive, server_in, recvVars,
                   parseVars, resultVars, scriptVars, peerVars>>

SendLocalInfileResult ==
    /\ At("SEND_LOCAL_INFILE_RESULT")
    /\ \/ ClientWritten /\ Goto("READ_QUERY")
       \/ ClientWriteWaits
       \/ ClientWriteFails
    /\ UNCHANGED <<server, server_send, client, client_out, serverVars, recvVars,
                   parseVars, resultVars, scriptVars, peerVars>>
-----------------------------------------------------------------------------
queryVars == <<recvVars, parseVars, resultVars, scriptVars, peerVars>>

\* The connection is called back, or closed; EV_TIMEOUT ends it.
FireTimeout ==
    /\ event \in Armed
    /\ event' = "run"
    /\ state' = "ERROR"
    /\ UNCHANGED <<server, queueVars, clientVars, serverVars, queryVars>>

Callback ==
    /\ FireWritable \/ FireReadable \/ FireClosed(com_quit_seen)
    /\ UNCHANGED queryVars

Finish ==
    /\ CloseCon \/ SendError
    /\ UNCHANGED queryVars
-----------------------------------------------------------------------------
(***************************************************************************)
(* The peers: the client of the protocol, which reads what it got before   *)
(* it speaks, and the server. A peer that got a packet it cannot make      *)
(* sense of does nothing more than hang up.                                *)
(***************************************************************************)
\* A second packet of a command begins with any byte of the payload, or is
\* empty when the payload fills the first one.
Packets(c) ==
    {<<[cmd |-> c, q |-> asked + 1, more |-> FALSE]>>}
    \cup IF LongCommands /\ c = "QUERY"
         THEN {<<[cmd |-> c, q |-> asked + 1, more |-> TRUE],
                 [cmd |-> b, q |-> asked + 1, more |-> FALSE]>> : b \in {"QUERY", "CLOSE", "END"}}
         ELSE {}

ClientCommand(c) ==
    /\ client = "idle" /\ client_in = <<>> /\ ~surprised
    /\ asked < MaxQueries
    /\ asked' = asked + 1
    /\ \E ps \in Packets(c) : client_out' = client_out \o ps
    /\ client' = IF c = "CLOSE" THEN "idle" ELSE "waiting"
    /\ UNCHANGED <<conVars, queueVars, client_in, serverVars, recvVars, parseVars,
                   resultVars, scriptVars, surprised>>

ClientData(c) ==
    /\ client = "infile"
    /\ client_out = <<>>
    /\ client_in = <<>> /\ ~surprised
    /\ c = "DATA" => Len(server_in) + Len(server_send) + Len(server_recv) <= MaxPackets
    /\ client_out' = <<Request(c, FALSE)>>
    /\ client' = IF c = "END" THEN "waiting" ELSE "infile"
    /\ UNCHANGED <<conVars, queueVars, client_in, serverVars, queryVars>>

ClientReceive ==
    /\ client # "closed" /\ ~surprised
    /\ client_in # <<>>
    /\ client_in' = Tail(client_in)
    /\ LET p == Head(client_in) IN
       IF client = "waiting" /\ p.q = asked
       THEN /\ client' = CASE p.kind \in {"last", "err"} -> "idle"
                           [] p.kind = "infile" -> "infile"
                           [] OTHER -> "waiting"
            /\ UNCHANGED surprised
       ELSE surprised' = TRUE /\ UNCHANGED client
    /\ UNCHANGED <<conVars, queueVars, client_out, serverVars, recvVars, parseVars,
                   resultVars, scriptVars, asked>>

\* The server works on the command at the head of what it has received.
Job == Head(server_in)
JobComplete == server_in # <<>> /\ (Job.more => Len(server_in) > 1)
AfterJob == SubSeq(server_in, IF Job.more THEN 3 ELSE 2, Len(server_in))

ServerSays(k, in) ==
    /\ server_alive /\ JobComplete /\ server_out = <<>>
    /\ server_out' = <<[q |-> Job.q, kind |-> k]>>
    /\ server_in' = in
    /\ UNCHANGED <<conVars, queueVars, clientVars, server_alive, queryVars>>

Room == Len(server_recv) + Len(client_send) + Len(client_in) < MaxPackets
ServerMore == Job.cmd = "QUERY" /\ Room /\ ServerSays("more", server_in)
ServerEvent == Job.cmd = "DUMP" /\ Room /\ ServerSays("event", server_in)
ServerLast == Job.cmd \in Expecting /\ ServerSays("last", AfterJob)
ServerInfile ==
    Job.cmd = "LOAD" /\ ServerSays("infile", <<[Job EXCEPT !.cmd = "INFILE"]>> \o AfterJob)
\* The file has arrived; the rows of it may be refused.
ServerLoaded ==
    /\ Job.cmd = "INFILE" /\ Len(server_in) > 1 /\ server_in[2].cmd = "END"
    /\ \E k \in {"last", "err"} : ServerSays(k, SubSeq(server_in, 3, Len(server_in)))
\* What takes no answer: a piece of the file, COM_STMT_CLOSE, COM_QUIT; and
\* what a server that is asked in order never sees.
ServerTakes ==
    /\ server_alive /\ JobComplete
    /\ \/ /\ Job.cmd = "INFILE" /\ Len(server_in) > 1 /\ server_in[2].cmd # "END"
          /\ server_in' = <<Job>> \o SubSeq(server_in, 3, Len(server_in))
          /\ surprised' = (surprised \/ server_in[2].cmd # "DATA")
          /\ UNCHANGED server_alive
       \/ /\ Job.cmd \in {"CLOSE", "QUIT", "DATA", "END"}
          /\ server_in' = AfterJob
          /\ surprised' = (surprised \/ Job.cmd \in {"DATA", "END"})
          /\ server_alive' = (Job.cmd # "QUIT")
    /\ UNCHANGED <<conVars, queueVars, clientVars, server_out, recvVars, parseVars,
                   resultVars, scriptVars, asked>>

Server ==
    /\ server_in # <<>> /\ ~surprised
    /\ ServerMore \/ ServerEvent \/ ServerLast \/ ServerInfile \/ ServerLoaded \/ ServerTakes
HangUp ==
    /\ ClientCloses \/ ServerCloses
    /\ UNCHANGED queryVars
-----------------------------------------------------------------------------
Handle ==
    \/ ReadQuery \/ SendQuery \/ ReadQueryResult \/ SendQueryResult
    \/ ReadLocalInfileData \/ SendLocalInfileData
    \/ ReadLocalInfileResult \/ SendLocalInfileResult
    \/ Finish

Next ==
    \/ Handle \/ Callback \/ FireTimeout
    \/ \E c \in Commands : ClientCommand(c)
    \/ \E c \in {"DATA", "END"} : ClientData(c)
    \/ ClientReceive
    \/ Server \/ HangUp

\* The event threads call a connection back and run its handler (see
\* EventThreads); the peers take what is written to them and go on with
\* their work. A result-set is finite, and so is a file: the last packet
\* comes, however often another one was possible. A file written for ever
\* is no file, and a write that never completes times out.
Fairness ==
    /\ WF_vars(Handle) /\ WF_vars(Callback)
    /\ WF_vars(ClientReceive) /\ WF_vars(ServerTakes)
    /\ SF_vars(server_in # <<>> /\ ServerLast)
    /\ SF_vars(server_in # <<>> /\ ServerLoaded)
    /\ SF_vars(ClientData("END"))
    /\ SF_vars(Handle /\ (server_send # <<>> /\ server_send' = <<>>))
    /\ SF_vars(Handle /\ (client_send # <<>> /\ client_send' = <<>>))

Spec == Init /\ [][Next]_vars /\ Fairness
-----------------------------------------------------------------------------
(***************************************************************************)
(* Properties                                                              *)
(***************************************************************************)
\* Every packet the client gets belongs to the command it waits for, and the
\* server never gets file data it has not asked for: injected queries,
\* streamed result-sets and LOAD DATA LOCAL INFILE keep both sides in step.
InSync == ~surprised

\* con_handle() never waits for a peer that waits for the proxy: it reads
\* from the client only when it is the client's turn, and from the server
\* only when the server still owes packets.
NoMutualWait ==
    /\ event = "client_read" /\ client_out = <<>> /\ client_in = <<>>
          => client # "waiting"
    /\ event = "server_read" /\ server_out = <<>> /\ server_alive => server_in # <<>>

\* The states that use con->server are reached only with one.
ServerWhereUsed == state \in ServerStates /\ event # "freed" => HasServer

\* When the next command is read, nothing of the one before is left over in
\* a queue: not a packet, not an injected query, not half a write.
CleanBetweenCommands ==
    state = "READ_QUERY" /\ event = "client_read" /\ client_recv = <<>>
        => /\ client_send = <<>> /\ server_send = <<>> /\ server_recv = <<>>
           /\ injected = <<>> /\ ~offset

\* A result-set that is streamed cannot be taken back: no query is sent for
\* streaming once a result-set of the same command was counted as sent. (The
\* events of a dump are one endless result, each of them counted.)
StreamOnce ==
    state \in {"SEND_QUERY", "READ_QUERY_RESULT"} /\ ~needed /\ command # "DUMP"
        => sent = 0

\* A connection that serves COM_BINLOG_DUMP never takes another command.
DumpIsForever == command = "DUMP" => state # "READ_QUERY"

\* con_handle() leaves a connection with an event armed, or frees it.
ArmedOrFreed == event # "none"

\* A client that waits for an answer gets it, unless the connection is given
\* up (closed, or left in ERROR by the READ_QUERY branch of ArmedOrFreed).
ClientIsAnswered == (client = "waiting") ~> (client # "waiting" \/ event = "none")
=============================================================================
