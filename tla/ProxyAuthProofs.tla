-------------------------- MODULE ProxyAuthProofs ---------------------------
(***************************************************************************)
(* The login, for any number of backends, any values of pool_change_user   *)
(* and any length of the exchange: client, proxy and server stay in step,  *)
(* and the command phase begins as ProxyQuery assumes.                     *)
(***************************************************************************)
EXTENDS ProxyAuth, TLAPS

(***************************************************************************)
(* Sequences: the facts about the packet queues that the proofs cite.      *)
(***************************************************************************)
\* The empty sequence is a sequence over any set, and the only one of length zero.
LEMMA EmptyFits ==
  ASSUME NEW A
  PROVE  /\ <<>> \in Seq(A) /\ Len(<<>>) = 0
         /\ \A s \in Seq(A) : s # <<>> => Len(s) \in Nat \ {0}
OBVIOUS

\* Equal lengths and equal entries make equal sequences.
LEMMA SameEntries ==
  ASSUME NEW A, NEW s \in Seq(A), NEW t \in Seq(A), Len(s) = Len(t), \A i \in 1..Len(s) : s[i] = t[i]
  PROVE  s = t
OBVIOUS

\* Concatenating nothing changes nothing.
LEMMA JoinedToNone ==
  ASSUME NEW A, NEW s \in Seq(A)
  PROVE  s \o <<>> = s /\ <<>> \o s = s
OBVIOUS

\* The entries of a subsequence.
LEMMA CutEntries ==
  ASSUME NEW A, NEW s, NEW i \in Int, NEW j \in Int, \A k \in i..j : s[k] \in A
  PROVE  /\ SubSeq(s, i, j) \in Seq(A) /\ Len(SubSeq(s, i, j)) = IF i <= j THEN j - i + 1 ELSE 0
         /\ \A k \in 1..j - i + 1 : SubSeq(s, i, j)[k] = s[i + k - 1]
OBVIOUS

\* The subsequence of all positions is the sequence.
LEMMA CutWhole ==
  ASSUME NEW A, NEW s \in Seq(A)
  PROVE  SubSeq(s, 1, Len(s)) = s
OBVIOUS

\* Append as a concatenation.
LEMMA AppendJoins ==
  ASSUME NEW A, NEW s \in Seq(A), NEW e \in A
  PROVE  Append(s, e) = s \o <<e>>
OBVIOUS

\* Without a script that keeps a pool and authentication_windows_client in one
\* setup: there the ids of the client go astray, see the README.
Separate == "script_win" \notin Setups
-----------------------------------------------------------------------------
(***************************************************************************)
(* Ids and sockets.                                                        *)
(***************************************************************************)
\* The server numbers what it sends as the sockets of the proxy count.
LEMMA Successors ==
    ASSUME NEW i \in Ids
    PROVE  /\ Succ(i) \in Ids /\ Pred(i) \in Ids
           /\ (i + 1) % 256 = Succ(i)
           /\ (i + 1 + 1) % 256 = Succ(Succ(i))
           /\ (i + 2) % 256 = Succ(Succ(i))
           /\ (i + 2 + 1) % 256 = Succ(Succ(Succ(i)))
BY DEF Ids, Succ, Pred

LEMMA SmallIds == Succ(0) = 1 /\ Succ(1) = 2 /\ 0 \in Ids /\ 1 \in Ids /\ 2 \in Ids
BY DEF Succ, Ids

\* What the operators of PacketIds return.
LEMMA SocketTypes ==
    ASSUME NEW s \in Sockets, NEW i \in Ids
    PROVE  /\ NewId(s) \in Ids /\ RawId(s, i) \in Ids
           /\ queue_reset(s) \in Sockets /\ Numbered(i) \in Sockets
           /\ queue_append(s) \in Sockets /\ queue_append_raw(s, i) \in Sockets
           /\ get_packet(s, i) \in Sockets /\ s.last \in Ids /\ s.reset \in BOOLEAN
<1>1. s.last \in Ids /\ s.reset \in BOOLEAN BY DEF Sockets
<1>2. NewId(s) \in Ids /\ RawId(s, i) \in Ids
  BY <1>1, Successors, SmallIds DEF NewId, RawId
<1>3. \A j \in Ids : Numbered(j) \in Sockets BY DEF Numbered, Sockets
<1>4. queue_reset(s) \in Sockets BY Zenon DEF queue_reset, Sockets
<1> QED BY <1>1, <1>2, <1>3, <1>4, Zenon DEF queue_append, queue_append_raw, get_packet

LEMMA SocketFields ==
    /\ \A i : Numbered(i).last = i /\ Numbered(i).reset = FALSE
    /\ \A i : get_packet(client_ids, i) = Numbered(i) /\ get_packet(server_ids, i) = Numbered(i)
    /\ \A s \in Sockets : queue_reset(s).last = s.last /\ queue_reset(s).reset = TRUE
    /\ NewSocket.last = 0 /\ NewSocket.reset = TRUE /\ NewSocket \in Sockets
BY DEF Numbered, get_packet, queue_reset, NewSocket, Sockets, Ids

\* A packet that gets another id, and a new one.
LEMMA Renumbered ==
    /\ \A p \in ToClient, i \in Ids :
          [p EXCEPT !.id = i] \in ToClient /\ [p EXCEPT !.id = i].kind = p.kind
          /\ [p EXCEPT !.id = i].id = i
    /\ \A p \in ToServer, i \in Ids :
          [p EXCEPT !.id = i] \in ToServer /\ [p EXCEPT !.id = i].kind = p.kind
          /\ [p EXCEPT !.id = i].id = i
BY DEF ToClient, ToServer

LEMMA Packed ==
    /\ \A k \in ServerKinds, i \in Ids :
          [kind |-> k, id |-> i] \in ToClient
    /\ \A k \in ClientKinds, i \in Ids : [kind |-> k, id |-> i] \in FromClient
    /\ \A k \in ClientKinds \cup {"CHANGE_USER"}, i \in Ids : [kind |-> k, id |-> i] \in ToServer
    /\ FromClient \subseteq ToServer
    /\ \A p \in ToClient : p.kind \in ServerKinds /\ p.id \in Ids
    /\ \A p \in ToServer : p.id \in Ids
    /\ \A p \in FromClient : p.kind \in ClientKinds /\ p.id \in Ids
BY DEF ToClient, FromClient, ToServer
-----------------------------------------------------------------------------
(***************************************************************************)
(* Queues of no more than two packets.                                     *)
(***************************************************************************)
LEMMA Taken ==
    ASSUME NEW S, NEW s \in Seq(S), s # <<>>
    PROVE  Head(s) \in S /\ Tail(s) \in Seq(S)
OBVIOUS

LEMMA Put ==
    ASSUME NEW S, NEW s \in Seq(S), NEW e \in S
    PROVE  Append(s, e) \in Seq(S) /\ <<e>> \in Seq(S) /\ <<>> \in Seq(S)
OBVIOUS

LEMMA Joined ==
    ASSUME NEW S, NEW s \in Seq(S), NEW t \in Seq(S)
    PROVE  s \o t \in Seq(S)
OBVIOUS

LEMMA Cut ==
    ASSUME NEW S, NEW s \in Seq(S), NEW m \in 1..(Len(s) + 1), NEW n \in Nat, n <= Len(s)
    PROVE  SubSeq(s, m, n) \in Seq(S)
BY CutEntries

LEMMA OfOne ==
    ASSUME NEW a
    PROVE  /\ <<a>> # <<>> /\ Head(<<a>>) = a /\ Tail(<<a>>) = <<>> /\ Len(<<a>>) = 1
           /\ <<a>>[1] = a /\ Append(<<>>, a) = <<a>> /\ <<>> \o <<a>> = <<a>>
<1>1. a \in {a} /\ <<a>> \in Seq({a}) /\ <<>> \in Seq({a}) OBVIOUS
<1>2. /\ <<a>> # <<>> /\ Head(<<a>>) = a /\ Tail(<<a>>) = <<>> /\ Len(<<a>>) = 1
      /\ <<a>>[1] = a
  OBVIOUS
<1>3. <<>> \o <<a>> = <<a>> BY <1>1, JoinedToNone, Zenon
<1>4. Append(<<>>, a) = <<>> \o <<a>> BY <1>1, AppendJoins, Zenon
<1> QED BY <1>2, <1>3, <1>4, Zenon

LEMMA OfTwo ==
    ASSUME NEW a, NEW b
    PROVE  /\ <<a, b>> # <<>> /\ Head(<<a, b>>) = a /\ Tail(<<a, b>>) = <<b>>
           /\ <<a>> \o <<b>> = <<a, b>> /\ <<a, b>>[2] = b /\ Len(<<a, b>>) = 2
<1>1. <<a, b>> # <<>> /\ Head(<<a, b>>) = a /\ <<a, b>>[2] = b /\ Len(<<a, b>>) = 2 OBVIOUS
<1>2. Tail(<<a, b>>) = <<b>> OBVIOUS
<1>3. <<a>> \o <<b>> = <<a, b>>
  <2> DEFINE s == <<a>> \o <<b>>
             t == <<a, b>>
  <2>1. s \in Seq({a, b}) /\ t \in Seq({a, b}) OBVIOUS
  <2>2. Len(s) = 2 /\ Len(t) = 2 OBVIOUS
  <2>3. s[1] = a /\ s[2] = b /\ t[1] = a /\ t[2] = b OBVIOUS
  <2> HIDE DEF s, t
  <2>4. \A i \in 1..Len(s) : s[i] = t[i] BY <2>2, <2>3
  <2>5. s = t BY <2>1, <2>2, <2>4, SameEntries, Zenon
  <2> QED BY <2>5, Zenon DEF s, t
<1> QED BY <1>1, <1>2, <1>3

-----------------------------------------------------------------------------
(***************************************************************************)
(* The inductive invariant. The exchange is one packet that goes round:    *)
(* client, proxy, server, proxy, client. Only the last token of            *)
(* authentication_windows_client is followed by a second packet of the     *)
(* server. For each state of con_handle() the invariant says where the     *)
(* packet is on the client's side, where it is on the server's, and how    *)
(* the two counts of ids relate.                                           *)
(***************************************************************************)
\* The states that end a connection.
Ending == {"ERROR", "CLOSE_CLIENT", "CLOSE_SERVER", "SEND_ERROR"}

\* What the client may be told: to begin with, in between, in the end.
Challenges == {"CHALLENGE", "ERR"}
Questions == {"SWITCH_WIN", "SWITCH_OTHER", "MORE"}
Verdict == {"OK", "ERR"}

\* On the client's side: nothing was said yet ...
ClientNew ==
    /\ client_in = <<>> /\ client_send = <<>> /\ client_out = <<>>
    /\ client_next = 0 /\ client_ids = NewSocket

\* ... a packet is to be written, alone or after the last token ...
ToldAlone(K) ==
    /\ client_in = <<>> /\ client_out = <<>>
    /\ \E p \in ToClient : /\ client_send = <<p>> /\ p.kind \in K
                           /\ p.id = client_next /\ p.id = client_ids.last

ToldAfterDone(K) ==
    /\ client_out = <<>>
    /\ \E d, p \in ToClient :
          /\ client_in = <<d>> /\ d.kind = "DONE" /\ d.id = client_next
          /\ client_send = <<p>> /\ p.kind \in K
          /\ p.id = Succ(d.id) /\ p.id = client_ids.last

Told(K) == ToldAlone(K) \/ ToldAfterDone(K)

\* ... the client has to answer it, has answered, or has gone ...
ClientTurn(K, A) ==
    /\ client_send = <<>>
    /\ \/ /\ client_out = <<>>
          /\ \E p \in ToClient : /\ client_in = <<p>> /\ p.kind \in K
                                 /\ p.id = client_next /\ p.id = client_ids.last
       \/ /\ client_in = <<>>
          /\ \E a \in FromClient : /\ client_out = <<a>> /\ a.kind \in A
                                   /\ a.id = Succ(client_ids.last) /\ client_next = Succ(a.id)
       \/ client_in = <<>> /\ client_out = <<>> /\ client = "closed"

\* ... the proxy has taken the answer ...
ClientHeard ==
    /\ client_in = <<>> /\ client_send = <<>> /\ client_out = <<>>
    /\ client_next = Succ(client_ids.last) /\ ~client_ids.reset

\* ... the client got, or gets, the last token and waits for the verdict.
ClientAhead ==
    /\ client_send = <<>> /\ client_out = <<>> /\ client_ids.reset
    /\ \/ client_in = <<>> /\ client_next = Succ(client_ids.last)
       \/ \E d \in ToClient : /\ client_in = <<d>> /\ d.kind = "DONE"
                              /\ d.id = client_next /\ d.id = client_ids.last

\* On the server's side: no word yet, or the greeting on its way ...
ServerQuiet == server_in = <<>> /\ server_send = <<>> /\ server_out = <<>>
ServerNew == ServerQuiet /\ session = "none" /\ server_next = 0 /\ server_ids = NewSocket
ServerGreeting ==
    /\ server = "plain" /\ server_in = <<>> /\ server_send = <<>> /\ server_ids = NewSocket
    /\ \/ session = "none" /\ server_out = <<>> /\ server_next = 0
       \/ \E g \in ToClient : /\ server_out = <<g>> /\ g.id = 0 /\ server_next = 1
                              /\ g.kind \in {"CHALLENGE", "BAD", "ERR"}
                              /\ session = IF g.kind = "ERR" THEN "denied" ELSE "greeted"
\* ... a server that awaits the client's answer, or none at all ...
ServerOpen ==
    \/ server = "none" /\ ServerNew
    \/ server = "plain" /\ ServerQuiet /\ session = "greeted" /\ server_next = 1
          /\ server_ids = Numbered(0)
    \/ server = "pooled" /\ ServerQuiet /\ session = "authed" /\ server_next = 0
          /\ server_ids = NewSocket

\* ... a packet to be written that is the one the server expects ...
Asks(q) == q.id = server_next /\ Expected(q.kind)
ServerAsk ==
    /\ server_in = <<>> /\ server_out = <<>> /\ ~server_ids.reset
    /\ \E q \in ToServer : server_send = <<q>> /\ Asks(q) /\ q.id = server_ids.last

\* What a packet on its way tells about the server.
Means(k) ==
    CASE k = "OK" -> session = "authed" [] k = "ERR" -> session = "denied"
      [] k = "SWITCH_WIN" -> session = "win" [] k = "SWITCH_OTHER" -> session = "other"
      [] k = "MORE" -> session \in {"win", "other"} /\ (session = "win" => method = "win")
      [] k = "INVALID" -> session = "win" /\ method = "win"
      [] OTHER -> FALSE
\* ... that packet with the server, or its answer on the way ...
ServerWork ==
    /\ server_send = <<>> /\ ~server_ids.reset
    /\ \/ /\ server_out = <<>>
          /\ \E q \in ToServer : server_in = <<q>> /\ Asks(q) /\ q.id = server_ids.last
          /\ session = "win" => method = "win"
       \/ /\ server_in = <<>>
          /\ \E r \in ToClient : /\ server_out = <<r>> /\ r.id = Succ(server_ids.last)
                                 /\ server_next = Succ(r.id) /\ Means(r.kind)
       \/ /\ server_in = <<>> /\ method = "win"
          /\ \E d, v \in ToClient : /\ server_out = <<d, v>> /\ d.kind = "DONE"
                                    /\ v.kind \in Verdict /\ Means(v.kind)
                                    /\ d.id = Succ(server_ids.last) /\ v.id = Succ(d.id)
                                    /\ server_next = Succ(v.id)
\* ... the verdict on the way, the last token having been read ...
ServerHalf ==
    /\ server_send = <<>> /\ server_in = <<>> /\ server_ids.reset
    /\ server = "plain" /\ method = "win" /\ next_from_server
    /\ \E v \in ToClient : /\ server_out = <<v>> /\ v.kind \in Verdict /\ Means(v.kind)
                           /\ v.id = Succ(server_ids.last) /\ server_next = Succ(v.id)
\* ... or the server waits for more of the client.
ServerPaused ==
    /\ ServerQuiet /\ server_ids.reset /\ ~next_from_server
    /\ server_next = Succ(server_ids.last)
    /\ session \in {"win", "other"} /\ (session = "win" => method = "win")
\* Whatever else: the server is never asked what it does not expect.
ServerEnding ==
    /\ session = "none" => server_in = <<>>
    /\ server_in = <<>> \/ \E q \in ToServer : server_in = <<q>> /\ Asks(q)
\* The server has let the client in and waits for a command.
ServerReady ==
    /\ server_send = <<>>
    /\ HasServer => server_out = <<>> /\ server_in = <<>> /\ server_ids.reset /\ session = "authed"

\* No verdict was tracked yet; and how the two counts relate: a new server
\* counts as the client does, for one from the pool the proxy keeps both.
Untracked == result = "OK" /\ method = "none" /\ ~next_from_server
InStep ==
    /\ server \in {"plain", "pooled"}
    /\ change_user = (server = "pooled")
    /\ server = "plain" => client_ids.last = server_ids.last

\* The states of con_handle().
AtConnect ==
    /\ ClientNew /\ ServerNew /\ Untracked /\ ~change_user
    /\ server \in {"none", "connecting"} /\ (server = "connecting" => untried > 0)
    /\ event # "run" => server = "connecting"
AtReadHandshake == ClientNew /\ ServerGreeting /\ Untracked /\ ~change_user
AtSendHandshake ==
    /\ ToldAlone(Challenges) /\ ServerOpen /\ Untracked /\ ~change_user /\ client_ids.last = 0
AtReadAuth ==
    /\ ClientTurn(Challenges, {"AUTH", "BAD", "OLD", "LONG"}) /\ ServerOpen /\ Untracked
    /\ ~change_user /\ client_ids.last = 0
AtSendAuth ==
    /\ ClientHeard /\ ServerAsk /\ Untracked /\ InStep
    /\ session \in {"greeted", "authed"}
AtReadAuthResult ==
    /\ InStep
    /\ (ClientHeard /\ ServerWork /\ ~next_from_server) \/ (ClientAhead /\ ServerHalf)
AtSendAuthResult ==
    /\ client_ids.reset
    /\ \/ /\ result = "OK" /\ Told(Verdict) /\ ServerEnding
          /\ client_send[1].kind = "OK" => ServerReady
       \/ result = "ERR" /\ Told(Verdict) /\ ServerEnding
       \/ /\ result \in {"EOF", "0x01"} /\ ToldAlone(Questions)
          /\ ServerPaused /\ (server = "none" \/ InStep)
       \/ result = "0x01" /\ ToldAlone({"DONE"}) /\ ServerHalf /\ InStep
AtReadOld ==
    /\ ClientTurn(Questions, {"DATA", "LONG"})
    /\ ServerPaused /\ (server = "none" \/ InStep)
AtSendOld ==
    /\ ClientHeard /\ ServerAsk /\ InStep /\ ~next_from_server
    /\ session \in {"win", "other"} /\ (session = "win" => method = "win")
Served(k) == k \in Verdict /\ got # "OK" /\ (k = "OK" => ServerReady)
AtReadQuery ==
    /\ event = "run" /\ client_send = <<>> /\ client_out = <<>> /\ client_ids.reset
    /\ ServerEnding
    /\ \/ client_in = <<>> /\ (got = "OK" => ServerReady)
       \/ \E p \in ToClient : client_in = <<p>> /\ p.id = client_next /\ Served(p.kind)
       \/ \E d, p \in ToClient :
             /\ client_in = <<d, p>> /\ d.id = client_next /\ p.id = Succ(d.id)
             /\ d.kind = "DONE" /\ Served(p.kind)
\* What is to be written or on its way is numbered as the client expects it.
ClientEnding ==
    \/ client_in = <<>> /\ client_send = <<>>
    \/ /\ client_out = <<>>
       /\ \/ \E p \in ToClient :
                /\ p.id = client_next
                /\ \/ client_in = <<p>> /\ client_send = <<>>
                   \/ client_in = <<>> /\ client_send = <<p>>
          \/ \E d, p \in ToClient :
                /\ d.id = client_next /\ p.id = Succ(d.id) /\ d.kind = "DONE"
                /\ \/ client_in = <<d, p>> /\ client_send = <<>>
                   \/ client_in = <<d>> /\ client_send = <<p>>
AtEnding == ClientEnding /\ ServerEnding

Where ==
    /\ state \in {"INIT", "CONNECT_SERVER"} => AtConnect
    /\ state = "READ_HANDSHAKE" => AtReadHandshake
    /\ state = "SEND_HANDSHAKE" => AtSendHandshake
    /\ state = "READ_AUTH" => AtReadAuth
    /\ state = "SEND_AUTH" => AtSendAuth
    /\ state = "READ_AUTH_RESULT" => AtReadAuthResult
    /\ state = "SEND_AUTH_RESULT" => AtSendAuthResult
    /\ state = "READ_AUTH_OLD_PASSWORD" => AtReadOld
    /\ state = "SEND_AUTH_OLD_PASSWORD" => AtSendOld
    /\ state = "READ_QUERY" => AtReadQuery
    /\ state \in Ending => AtEnding
\* con_handle() waits for a packet in the states that read one only.
Waits ==
    /\ event = "client_read" => state \in {"READ_AUTH", "READ_AUTH_OLD_PASSWORD"}
    /\ event = "server_read" => state \in {"READ_HANDSHAKE", "READ_AUTH_RESULT"}
LoginStates == {"INIT", "CONNECT_SERVER", "READ_HANDSHAKE", "SEND_HANDSHAKE",
    "READ_AUTH", "SEND_AUTH", "READ_AUTH_RESULT", "SEND_AUTH_RESULT",
    "READ_AUTH_OLD_PASSWORD", "SEND_AUTH_OLD_PASSWORD", "READ_QUERY"}
AuthInv ==
    /\ TypeOK /\ ~surprised /\ Waits /\ Where
    /\ state \in LoginStates \cup Ending
    /\ client \in {"waiting", "idle", "closed"}
    /\ client = "idle" => got = "OK"
    /\ got = "OK" => state \in {"READ_QUERY"} \cup Ending
    /\ session = "win" \/ method = "win" => WinAuth
    /\ server = "pooled" => Scripted
-----------------------------------------------------------------------------
(***************************************************************************)
(* Types.                                                                  *)
(***************************************************************************)
ConOK ==
    /\ setup \in Setups /\ state \in States /\ event \in Events /\ server \in Servers
    /\ client \in Clients /\ result \in Results /\ method \in {"none", "win", "other"}
    /\ session \in Sessions /\ got \in ServerKinds \cup {"none"} /\ untried \in 0..Backends
FlagsOK ==
    /\ server_alive \in BOOLEAN /\ next_from_server \in BOOLEAN /\ change_user \in BOOLEAN
    /\ surprised \in BOOLEAN
IdsOK ==
    /\ client_ids \in Sockets /\ server_ids \in Sockets
    /\ client_next \in Ids /\ server_next \in Ids
QueuesOK ==
    /\ client_send \in Seq(ToClient) /\ client_in \in Seq(ToClient) /\ server_out \in Seq(ToClient)
    /\ server_send \in Seq(ToServer) /\ server_in \in Seq(ToServer)
    /\ client_out \in Seq(FromClient)

LEMMA TypeParts == TypeOK <=> ConOK /\ FlagsOK /\ IdsOK /\ QueuesOK
BY DEF TypeOK, ConOK, FlagsOK, IdsOK, QueuesOK

LEMMA FlagsStep == ASSUME FlagsOK, [Next]_vars PROVE FlagsOK'
<1> USE DEF FlagsOK
<1>1. CASE ConInit
  BY <1>1, Zenon DEF ConInit, authVars, serverVars, trackVars, proxyVars, peerVars
<1>2. CASE ConnectServer
  <2>1. server_alive' \in BOOLEAN
    BY <1>2, Zenon DEF ConnectServer, Connected, ConnectFailed, ConnectPending, ConnectAnswered,
                       ConnectPooled, AllBackendsDown
  <2> QED BY <1>2, <2>1, Zenon DEF ConnectServer, trackVars
<1>3. CASE ReadHandshake
  BY <1>3, Zenon DEF ReadHandshake, trackVars, proxyVars, peerVars
<1>4. CASE SendHandshake \/ SendAuth \/ SendAuthResult \/ SendAuthOldPassword
  BY <1>4, Zenon DEF SendHandshake, SendAuth, SendAuthResult, SendAuthOldPassword, serverVars,
                     authVars, trackVars, proxyVars, peerVars
<1>5. CASE ReadAuth
  <2>1. change_user' \in BOOLEAN
    BY <1>5, Zenon DEF ReadAuth, proxy_read_auth, ReadAuthRefused, ReadAuthAnswer, ReadAuthInject,
                       ReadAuthNoServer, ReadAuthChangeUser, ReadAuthCompare, ReadAuthForward
  <2> QED BY <1>5, <2>1, Zenon DEF ReadAuth, serverVars, trackVars, peerVars
<1>6. CASE ReadAuthResult
  <2>1. next_from_server' \in BOOLEAN
    BY <1>6, Zenon DEF ReadAuthResult, track_auth_result_state, trackVars
  <2> QED BY <1>6, <2>1, Zenon DEF ReadAuthResult, proxyVars, peerVars
<1>7. CASE ReadAuthOldPassword
  BY <1>7, Zenon DEF ReadAuthOldPassword, serverVars, trackVars, proxyVars, peerVars
<1>8. CASE Finish
  BY <1>8, Zenon DEF Finish, CloseCon, SendError, serverVars, authVars, trackVars, proxyVars, peerVars
<1>9. CASE Callback \/ HangUp
  BY <1>9, Zenon DEF Callback, FireWritable, FireReadable, FireClosed, HangUp, ClientCloses,
                     ServerCloses, serverVars, authVars, trackVars, proxyVars, peerVars
<1>10. CASE FireTimeout
  BY <1>10, Zenon DEF FireTimeout, serverVars, trackVars, peerVars
<1>11. CASE ClientReceive
  BY <1>11, Zenon DEF ClientReceive, serverVars, trackVars, proxyVars
<1>12. CASE ServerGreets
  BY <1>12, Zenon DEF ServerGreets, trackVars, proxyVars
<1>13. CASE ServerAnswers
  BY <1>13, Zenon DEF ServerAnswers, trackVars, proxyVars
<1>14. CASE UNCHANGED vars
  BY <1>14, Zenon DEF vars, mysqldVars, authVars, serverVars, trackVars, proxyVars, peerVars
<1> QED
  BY <1>1, <1>2, <1>3, <1>4, <1>5, <1>6, <1>7, <1>8, <1>9, <1>10, <1>11, <1>12, <1>13, <1>14
     DEF Next, Handle

\* The fields of the connection and of the peers keep their types.
LEMMA ConStep ==
    ASSUME ConOK, QueuesOK, state = "CONNECT_SERVER" => AtConnect, [Next]_vars
    PROVE  ConOK'
<1> USE DEF ConOK
<1>0. /\ \A s \in {"CONNECT_SERVER", "READ_HANDSHAKE", "SEND_HANDSHAKE", "READ_AUTH", "SEND_AUTH",
                   "READ_AUTH_RESULT", "SEND_AUTH_RESULT", "READ_AUTH_OLD_PASSWORD",
                   "SEND_AUTH_OLD_PASSWORD", "READ_QUERY", "ERROR", "CLOSE_CLIENT",
                   "CLOSE_SERVER", "SEND_ERROR"} : s \in States
      /\ \A e \in Armed \cup {"run", "none", "freed"} : e \in Events
      /\ \A s \in {"none", "connecting", "plain", "pooled"} : s \in Servers
  BY DEF States, Events, Servers
<1>s. setup' \in Setups
  BY Zenon DEF Next, Handle, Callback, FireTimeout, ClientReceive, ServerGreets, ServerAnswers, HangUp,
        vars
<1> USE DEF Goto, Stay, WaitFor, ReturnInError, Armed
<1>1. CASE ConInit
  BY <1>s, <1>0, <1>1 DEF ConInit, authVars, clientVars, serverVars, trackVars, proxyVars, peerVars
<1>2. CASE ConnectServer
  <2>1. untried' \in 0..Backends
    <3>1. CASE ConnectFailed /\ untried > 0
      BY <3>1, AuthAssumption DEF ConnectFailed
    <3>2. CASE ConnectFailed /\ server = "connecting"
      BY <1>2, <3>1, <3>2, Zenon DEF ConnectServer, At, AtConnect
    <3>3. CASE UNCHANGED untried
      BY <3>3
    <3> QED
      BY <1>2, <3>1, <3>2, <3>3, Zenon
         DEF ConnectServer, Connected, ConnectPending, ConnectAnswered, ConnectPooled, AllBackendsDown
  <2>2. state' \in States /\ event' \in Events /\ server' \in Servers /\ session' \in Sessions
    BY <1>0, <1>2 DEF ConnectServer, Connected, ConnectFailed, ConnectPending, ConnectAnswered,
                      ConnectPooled, AllBackendsDown, Sessions
  <2> QED BY <1>s, <1>2, <2>1, <2>2, Zenon DEF ConnectServer, clientVars, trackVars, Connected,
        ConnectFailed, ConnectPending, ConnectAnswered, ConnectPooled, AllBackendsDown
<1>3. CASE ReadHandshake
  <2>1. state' \in States /\ event' \in Events
    BY <1>0, <1>3 DEF ReadHandshake, ServerSilent, ServerReadFails, proxy_read_handshake
  <2> QED BY <1>s, <1>3, <2>1, Zenon DEF ReadHandshake, ServerSilent, ServerReadFails,
        proxy_read_handshake, clientVars, trackVars, proxyVars, peerVars
<1>4. CASE SendHandshake \/ SendAuth \/ SendAuthResult \/ SendAuthOldPassword
  <2>1. state' \in States /\ event' \in Events /\ UNCHANGED <<server, client>>
    BY <1>0, <1>4 DEF SendHandshake, SendAuth, SendAuthResult, SendAuthOldPassword, AfterAuthResult,
        ClientWriteWaits, ClientWriteFails, ServerWriteWaits, ServerWriteFails, clientVars
  <2> QED BY <1>s, <1>4, <2>1, Zenon DEF SendHandshake, SendAuth, SendAuthResult, SendAuthOldPassword,
        authVars, trackVars, proxyVars, peerVars
<1>5. CASE ReadAuth
  <2>1. state' \in States /\ event' \in Events
    <3>1. CASE ClientSilent \/ Goto("ERROR") BY <1>0, <3>1 DEF ClientSilent
    <3>2. CASE \E p, ids : proxy_read_auth(p, ids)
      BY <1>0, <3>2, Zenon DEF proxy_read_auth, ReadAuthRefused, ReadAuthAnswer, ReadAuthInject,
         ReadAuthNoServer, ReadAuthChangeUser, ReadAuthCompare, ReadAuthForward
    <3> QED BY <1>s, <1>5, <3>1, <3>2, Zenon DEF ReadAuth
  <2> QED BY <1>s, <1>5, <2>1, Zenon DEF ReadAuth, trackVars, peerVars
<1>6. CASE ReadAuthResult
  <2>1. state' \in States /\ event' \in Events /\ server' \in Servers
    BY <1>0, <1>6 DEF ReadAuthResult, ServerSilent, ServerReadFails, proxy_read_auth_result
  <2>2. result' \in Results /\ method' \in {"none", "win", "other"}
    BY <1>6, Zenon DEF ReadAuthResult, track_auth_result_state, trackVars, Results
  <2> QED BY <1>s, <1>6, <2>1, <2>2, Zenon DEF ReadAuthResult, clientVars, proxyVars, peerVars
<1>7. CASE ReadAuthOldPassword
  <2>1. state' \in States /\ event' \in Events
    BY <1>0, <1>7 DEF ReadAuthOldPassword, ClientSilent, proxy_read_auth_old_password
  <2> QED BY <1>s, <1>7, <2>1, Zenon DEF ReadAuthOldPassword, trackVars, proxyVars, peerVars
<1>8. CASE Finish
  <2>1. /\ state' \in States /\ event' \in Events /\ server' \in Servers /\ client' \in Clients
    BY <1>0, <1>8 DEF Finish, CloseCon, SendError, ClientWriteWaits, Clients
  <2> QED BY <1>s, <1>8, <2>1, Zenon DEF Finish, authVars, trackVars, proxyVars, peerVars
<1>9. CASE Callback \/ HangUp
  <2>1. /\ state' \in States /\ event' \in Events /\ server' \in Servers /\ client' \in Clients
    BY <1>0, <1>9 DEF Callback, FireWritable, FireReadable, FireClosed, HangUp, ClientCloses,
                      ServerCloses, conVars, clientVars, Clients
  <2> QED BY <1>s, <1>9, <2>1, Zenon DEF Callback, HangUp, authVars, trackVars, proxyVars, peerVars
<1>10. CASE FireTimeout
  <2>1. CASE state = "CONNECT_SERVER"
    <3>1. untried > 0
      BY <1>10, <2>1, Zenon DEF FireTimeout, AtConnect
    <3>2. untried' \in 0..Backends
      BY <1>10, <3>1, AuthAssumption DEF FireTimeout
    <3>3. state' \in States /\ event' \in Events /\ server' \in Servers
      BY <1>0, <1>10, <2>1 DEF FireTimeout
    <3> QED BY <1>s, <1>10, <3>2, <3>3, Zenon DEF FireTimeout, clientVars, trackVars, peerVars
  <2>2. CASE state # "CONNECT_SERVER"
    <3>1. state' \in States /\ event' \in Events /\ server' \in Servers /\ untried' = untried
      BY <1>0, <1>10, <2>2 DEF FireTimeout
    <3> QED BY <1>s, <1>10, <3>1, Zenon DEF FireTimeout, clientVars, trackVars, peerVars
  <2> QED BY <2>1, <2>2
<1>11. CASE ClientReceive
  <2>1. CASE client_in # <<>>
    <3>1. Head(client_in).kind \in ServerKinds BY <2>1, Taken, Packed DEF QueuesOK
    <3>2. got' \in ServerKinds \cup {"none"} /\ client' \in Clients
      BY <1>11, <3>1 DEF ClientReceive, Clients
    <3> QED BY <1>s, <1>11, <3>2, Zenon DEF ClientReceive, conVars, trackVars, proxyVars
  <2> QED BY <1>s, <1>11, <2>1 DEF ClientReceive
<1>12. CASE ServerGreets
  <2>1. session' \in Sessions BY <1>12 DEF ServerGreets, Sessions
  <2> QED BY <1>s, <1>12, <2>1, Zenon DEF ServerGreets, conVars, clientVars, trackVars, proxyVars
<1>13. CASE ServerAnswers
  <2>1. session' \in Sessions BY <1>13, Zenon DEF ServerAnswers, Sessions
  <2> QED BY <1>s, <1>13, <2>1, Zenon DEF ServerAnswers, conVars, clientVars, trackVars, proxyVars
<1>14. CASE UNCHANGED vars
  BY <1>s, <1>14, Zenon DEF vars, mysqldVars, conVars, clientVars, authVars, trackVars, proxyVars, peerVars
<1> QED
  BY <1>1, <1>2, <1>3, <1>4, <1>5, <1>6, <1>7, <1>8, <1>9, <1>10, <1>11, <1>12, <1>13, <1>14, Zenon
     DEF Next, Handle

\* What is sent has the type of the queue.
LEMMA Sent ==
    ASSUME IdsOK, QueuesOK
    PROVE  /\ \A k \in ServerKinds, ids \in Sockets :
                 ToClientNew(k, ids) \/ ToClientFinal(k, ids)
                    => client_send' \in Seq(ToClient) /\ client_ids' \in Sockets
           /\ \A p \in ToClient :
                 ToClientRaw(p) => client_send' \in Seq(ToClient) /\ client_ids' \in Sockets
           /\ \A k \in ClientKinds \cup {"CHANGE_USER"} :
                 ToServerNew(k) => server_send' \in Seq(ToServer) /\ server_ids' \in Sockets
           /\ \A p \in ToServer :
                 ToServerRaw(p) => server_send' \in Seq(ToServer) /\ server_ids' \in Sockets
<1>0. /\ client_ids \in Sockets /\ server_ids \in Sockets
      /\ client_send \in Seq(ToClient) /\ server_send \in Seq(ToServer)
  BY DEF IdsOK, QueuesOK
<1>1. ASSUME NEW k \in ServerKinds, NEW ids \in Sockets,
             ToClientNew(k, ids) \/ ToClientFinal(k, ids)
      PROVE  client_send' \in Seq(ToClient) /\ client_ids' \in Sockets
  <2>1. [kind |-> k, id |-> NewId(ids)] \in ToClient BY SocketTypes, SmallIds, Packed, Zenon
  <2>2. queue_append(ids) \in Sockets BY SocketTypes, SmallIds, Zenon
  <2>3. queue_reset(queue_append(ids)) \in Sockets BY <2>2, SocketTypes, SmallIds, Zenon
  <2> QED BY <1>0, <1>1, <2>1, <2>2, <2>3, Put, Zenon DEF ToClientNew, ToClientFinal
<1>2. ASSUME NEW p \in ToClient, ToClientRaw(p)
      PROVE  client_send' \in Seq(ToClient) /\ client_ids' \in Sockets
  <2>1. p.id \in Ids BY Packed
  <2>2. [p EXCEPT !.id = RawId(client_ids, p.id)] \in ToClient
    BY <1>0, <2>1, SocketTypes, Renumbered, Zenon
  <2> QED BY <1>0, <1>2, <2>1, <2>2, Put, SocketTypes, Zenon DEF ToClientRaw
<1>3. ASSUME NEW k \in ClientKinds \cup {"CHANGE_USER"}, ToServerNew(k)
      PROVE  server_send' \in Seq(ToServer) /\ server_ids' \in Sockets
  <2>1. [kind |-> k, id |-> NewId(server_ids)] \in ToServer
    BY <1>0, SocketTypes, SmallIds, Packed, Zenon
  <2> QED BY <1>0, <1>3, <2>1, Put, SocketTypes, SmallIds, Zenon DEF ToServerNew
<1>4. ASSUME NEW p \in ToServer, ToServerRaw(p)
      PROVE  server_send' \in Seq(ToServer) /\ server_ids' \in Sockets
  <2>1. p.id \in Ids BY Packed
  <2>2. [p EXCEPT !.id = RawId(server_ids, p.id)] \in ToServer
    BY <1>0, <2>1, SocketTypes, Renumbered, Zenon
  <2> QED BY <1>0, <1>4, <2>1, <2>2, Put, SocketTypes, Zenon DEF ToServerRaw
<1> QED BY <1>1, <1>2, <1>3, <1>4, Zenon

\* So do the parts of a queue that are written.
LEMMA WrittenTypes ==
    ASSUME QueuesOK
    PROVE  /\ ClientWritten \/ ClientWriteWaits \/ ClientWriteFails
                 => client_send' \in Seq(ToClient) /\ client_in' \in Seq(ToClient)
           /\ ServerWritten \/ ServerWriteWaits \/ ServerWriteFails
                 => server_send' \in Seq(ToServer) /\ server_in' \in Seq(ToServer)
<1> USE DEF QueuesOK
<1>0. <<>> \in Seq(ToClient) /\ <<>> \in Seq(ToServer) OBVIOUS
<1>1. ClientWritten \/ ClientWriteFails
        => client_send' \in Seq(ToClient) /\ client_in' \in Seq(ToClient)
  BY <1>0, Joined, Zenon DEF ClientWritten, ClientWriteFails
<1>2. ServerWritten \/ ServerWriteFails
        => server_send' \in Seq(ToServer) /\ server_in' \in Seq(ToServer)
  BY <1>0, Joined, Zenon DEF ServerWritten, ServerWriteFails
<1>3. ASSUME ClientWriteWaits PROVE client_send' \in Seq(ToClient) /\ client_in' \in Seq(ToClient)
  <2>1. PICK n \in 0..(Len(client_send) - 1) :
               /\ client_in' = client_in \o SubSeq(client_send, 1, n)
               /\ client_send' = SubSeq(client_send, n + 1, Len(client_send))
    BY <1>3, Zenon DEF ClientWriteWaits
  <2>2. SubSeq(client_send, 1, n) \in Seq(ToClient) BY Cut
  <2>3. SubSeq(client_send, n + 1, Len(client_send)) \in Seq(ToClient) BY Cut
  <2> QED BY <2>1, <2>2, <2>3, Joined, Zenon
<1>4. ASSUME ServerWriteWaits PROVE server_send' \in Seq(ToServer) /\ server_in' \in Seq(ToServer)
  <2>1. PICK n \in 0..(Len(server_send) - 1) :
               /\ server_in' = server_in \o SubSeq(server_send, 1, n)
               /\ server_send' = SubSeq(server_send, n + 1, Len(server_send))
    BY <1>4, Zenon DEF ServerWriteWaits
  <2>2. SubSeq(server_send, 1, n) \in Seq(ToServer) BY Cut
  <2>3. SubSeq(server_send, n + 1, Len(server_send)) \in Seq(ToServer) BY Cut
  <2> QED BY <2>1, <2>2, <2>3, Joined, Zenon
<1> QED BY <1>1, <1>2, <1>3, <1>4, Zenon

\* The replies of a server: one packet, or the last token and a verdict.
LEMMA ReplyForms ==
    ASSUME NEW id, NEW r \in Replies(id)
    PROVE  \/ \E k \in {"OK", "ERR", "SWITCH_OTHER", "SWITCH_WIN", "MORE", "INVALID"} :
                 /\ r = <<k>> /\ (k = "SWITCH_WIN" => WinAuth)
                 /\ (k = "MORE" => session \in {"win", "other"}) /\ (k = "INVALID" => session = "win")
           \/ \E v \in Verdict : r = <<"DONE", v>> /\ session = "win"
BY Zenon DEF Replies, Verdicts, Verdict

\* What a server does with a packet it expects.
LEMMA AnswerForms ==
    ASSUME ServerAnswers, server_next \in Ids, Asks(Head(server_in))
    PROVE  /\ server_in # <<>> /\ server_in' = Tail(server_in) /\ UNCHANGED surprised
           /\ \/ \E k \in {"OK", "ERR", "SWITCH_OTHER", "SWITCH_WIN", "MORE", "INVALID"} :
                    /\ server_out' = server_out \o <<[kind |-> k, id |-> Succ(server_next)]>>
                    /\ server_next' = Succ(Succ(server_next))
                    /\ session' = CASE k = "OK" -> "authed" [] k = "ERR" -> "denied"
                                    [] k = "SWITCH_WIN" -> "win" [] k = "SWITCH_OTHER" -> "other"
                                    [] OTHER -> session
                    /\ k = "SWITCH_WIN" => WinAuth
                    /\ k = "MORE" => session \in {"win", "other"}
                    /\ k = "INVALID" => session = "win"
              \/ \E v \in Verdict :
                    /\ server_out' = server_out \o
                          <<[kind |-> "DONE", id |-> Succ(server_next)],
                            [kind |-> v, id |-> Succ(Succ(server_next))]>>
                    /\ server_next' = Succ(Succ(Succ(server_next)))
                    /\ session' = IF v = "OK" THEN "authed" ELSE "denied"
                    /\ session = "win"
<1> DEFINE p == Head(server_in)
           Numbers(r) == [i \in 1..Len(r) |-> [kind |-> r[i], id |-> (p.id + i) % 256]]
           Last(r) == r[Len(r)]
<1>1. p.id = server_next /\ Expected(p.kind) BY DEF Asks
<1>2. PICK r \in Replies(p.id) :
         /\ server_out' = server_out \o Numbers(r)
         /\ server_next' = (p.id + Len(r) + 1) % 256
         /\ session' = CASE Last(r) = "OK" -> "authed" [] Last(r) = "ERR" -> "denied"
                         [] Last(r) = "SWITCH_WIN" -> "win" [] Last(r) = "SWITCH_OTHER" -> "other"
                         [] OTHER -> session
         /\ UNCHANGED surprised
  BY <1>1, Zenon DEF ServerAnswers
<1>3. server_in # <<>> /\ server_in' = Tail(server_in) BY Zenon DEF ServerAnswers
<1>4. ASSUME NEW k PROVE /\ Numbers(<<k>>) = <<[kind |-> k, id |-> Succ(server_next)]>>
                         /\ Last(<<k>>) = k /\ (p.id + Len(<<k>>) + 1) % 256 = Succ(Succ(server_next))
  <2>1. Len(<<k>>) = 1 /\ <<k>>[1] = k BY OfOne
  <2>2. (p.id + 1) % 256 = Succ(server_next) /\ (p.id + 1 + 1) % 256 = Succ(Succ(server_next))
    BY <1>1, Successors
  <2>3. Numbers(<<k>>) = <<[kind |-> k, id |-> Succ(server_next)]>> BY <2>1, <2>2
  <2> QED BY <2>1, <2>2, <2>3
<1>5. ASSUME NEW v PROVE
        /\ Numbers(<<"DONE", v>>) = <<[kind |-> "DONE", id |-> Succ(server_next)],
                                      [kind |-> v, id |-> Succ(Succ(server_next))]>>
        /\ Last(<<"DONE", v>>) = v
        /\ (p.id + Len(<<"DONE", v>>) + 1) % 256 = Succ(Succ(Succ(server_next)))
  <2>1. Len(<<"DONE", v>>) = 2 /\ <<"DONE", v>>[1] = "DONE" /\ <<"DONE", v>>[2] = v OBVIOUS
  <2>2. /\ (p.id + 1) % 256 = Succ(server_next) /\ (p.id + 2) % 256 = Succ(Succ(server_next))
        /\ (p.id + 2 + 1) % 256 = Succ(Succ(Succ(server_next)))
    BY <1>1, Successors
  <2>3. Numbers(<<"DONE", v>>) = <<[kind |-> "DONE", id |-> Succ(server_next)],
                                   [kind |-> v, id |-> Succ(Succ(server_next))]>>
    BY <2>1, <2>2
  <2> QED BY <2>1, <2>2, <2>3
<1>6. CASE \E k \in {"OK", "ERR", "SWITCH_OTHER", "SWITCH_WIN", "MORE", "INVALID"} :
              /\ r = <<k>> /\ (k = "SWITCH_WIN" => WinAuth)
              /\ (k = "MORE" => session \in {"win", "other"}) /\ (k = "INVALID" => session = "win")
  <2> HIDE DEF Numbers, Last
  <2> QED BY <1>2, <1>3, <1>4, <1>6, Zenon
<1>7. CASE \E v \in Verdict : r = <<"DONE", v>> /\ session = "win"
  <2>1. PICK v \in Verdict : r = <<"DONE", v>> /\ session = "win" BY <1>7
  <2> HIDE DEF Numbers, Last
  <2>2. /\ server_out' = server_out \o <<[kind |-> "DONE", id |-> Succ(server_next)],
                                         [kind |-> v, id |-> Succ(Succ(server_next))]>>
        /\ server_next' = Succ(Succ(Succ(server_next))) /\ Last(r) = v
    BY <1>2, <1>5, <2>1, Zenon
  <2>3. session' = IF v = "OK" THEN "authed" ELSE "denied" BY <1>2, <2>2 DEF Verdict
  <2> QED BY <1>2, <1>3, <2>1, <2>2, <2>3, Zenon
<1> QED BY <1>2, <1>6, <1>7, ReplyForms, Zenon

\* The sockets, the queues and the wires keep their types.
LEMMA PacketsStep == ASSUME IdsOK, QueuesOK, ConOK, [Next]_vars PROVE IdsOK' /\ QueuesOK'
<1> USE DEF IdsOK, QueuesOK
<1>0. /\ \A k \in {"CHALLENGE", "ERR", "OK"} : k \in ServerKinds
      /\ "AUTH" \in ClientKinds
  BY DEF ServerKinds, ClientKinds
<1>1. CASE ConInit
  BY <1>1, Zenon DEF ConInit, queueVars, clientVars, serverVars, authVars, idVars, peerVars
<1>2. CASE ConnectServer
  <2>1. client_send' \in Seq(ToClient) /\ client_ids' \in Sockets
    BY <1>0, <1>2, Sent, Zenon DEF ConnectServer, Connected, ConnectFailed, ConnectPending,
                               ConnectAnswered, ConnectPooled, AllBackendsDown
  <2> QED BY <1>2, <2>1, Zenon DEF ConnectServer, clientVars
<1>3. CASE ReadHandshake
  <2>1. CASE ServerPacket /\ server_out' = Tail(server_out)
             /\ server_ids' = get_packet(server_ids, Head(server_out).id)
             /\ proxy_read_handshake(Head(server_out))
    <3>1. Head(server_out) \in ToClient /\ Tail(server_out) \in Seq(ToClient)
      BY <2>1, Taken, Zenon DEF ServerPacket
    <3>2. server_ids' \in Sockets BY <2>1, <3>1, SocketTypes, Packed, Zenon
    <3>3. queue_sync(client_ids, server_ids') \in Sockets
      <4>1. server_ids'.last \in Ids BY <3>2 DEF Sockets
      <4>2. Pred(server_ids'.last) \in Ids BY <4>1, Successors, Zenon
      <4> QED BY <4>2, Zenon DEF queue_sync, Sockets
    <3>4. client_send' \in Seq(ToClient) /\ client_ids' \in Sockets
      BY <1>0, <2>1, <3>1, <3>3, Sent, Zenon DEF proxy_read_handshake
    <3> QED BY <1>3, <2>1, <3>1, <3>2, <3>4, Zenon DEF ReadHandshake, clientVars, peerVars
  <2>2. CASE UNCHANGED <<client_send, server_out, idVars>>
    BY <1>3, <2>2, Zenon DEF ReadHandshake, idVars, clientVars, peerVars
  <2> QED BY <1>3, <2>1, <2>2, Zenon DEF ReadHandshake
<1>4. CASE SendHandshake \/ SendAuthResult
  BY <1>4, WrittenTypes, Zenon DEF SendHandshake, SendAuthResult, serverVars, authVars, idVars, peerVars
<1>5. CASE SendAuth \/ SendAuthOldPassword
  BY <1>5, WrittenTypes, Zenon DEF SendAuth, SendAuthOldPassword, clientVars, authVars, idVars, peerVars
<1>6. CASE ReadAuth
  <2>1. CASE UNCHANGED <<queueVars, client_out, idVars, change_user>>
    BY <1>6, <2>1, Zenon DEF ReadAuth, queueVars, idVars, serverVars, peerVars
  <2>2. CASE ClientPacket /\ client_out' = Tail(client_out)
             /\ proxy_read_auth(Head(client_out), get_packet(client_ids, Head(client_out).id))
    <3> DEFINE p == Head(client_out)
               ids == get_packet(client_ids, p.id)
    <3>1. p \in FromClient /\ Tail(client_out) \in Seq(FromClient)
      BY <2>2, Taken, Zenon DEF ClientPacket
    <3>2. p \in ToServer /\ p.id \in Ids BY <3>1, Packed, Zenon
    <3>3. ids \in Sockets BY <3>2, SocketTypes, Zenon
    <3>4. queue_reset(server_ids) \in Sockets BY SocketTypes, SmallIds, Zenon
    <3>5. proxy_read_auth(p, ids) BY <2>2
    <3> HIDE DEF p, ids
    <3>6. client_send' \in Seq(ToClient) /\ client_ids' \in Sockets
      BY <1>0, <3>3, <3>5, Sent, Zenon DEF proxy_read_auth, ReadAuthRefused, ReadAuthAnswer,
         ReadAuthInject, ReadAuthNoServer, ReadAuthChangeUser, ReadAuthCompare, ReadAuthForward
    <3>7. server_send' \in Seq(ToServer) /\ server_ids' \in Sockets
      BY <1>0, <3>2, <3>4, <3>5, Sent, Zenon DEF proxy_read_auth, ReadAuthRefused, ReadAuthAnswer,
         ReadAuthInject, ReadAuthNoServer, ReadAuthChangeUser, ReadAuthCompare, ReadAuthForward
    <3> QED BY <1>6, <2>2, <3>1, <3>6, <3>7, Zenon DEF ReadAuth, serverVars, peerVars
  <2> QED BY <1>6, <2>1, <2>2, Zenon DEF ReadAuth
<1>7. CASE ReadAuthResult
  <2>1. CASE UNCHANGED <<client_send, idVars>>
    <3>1. server_out' \in Seq(ToClient)
      BY <1>7, Taken, Zenon DEF ReadAuthResult, ServerPacket
    <3> QED BY <1>7, <2>1, <3>1, Zenon DEF ReadAuthResult, idVars, clientVars, peerVars
  <2>2. CASE ServerPacket /\ server_out' = Tail(server_out) /\ proxy_read_auth_result(Head(server_out))
    <3> DEFINE p == Head(server_out)
    <3>1. p \in ToClient /\ Tail(server_out) \in Seq(ToClient) BY <2>2, Taken, Zenon DEF ServerPacket
    <3>2. p.id \in Ids /\ proxy_read_auth_result(p) BY <2>2, <3>1, Packed, Zenon
    <3> HIDE DEF p
    <3>3. CorrectedId(p).id \in Ids BY <3>1, <3>2, Renumbered, SmallIds, Zenon DEF CorrectedId
    <3>4. [p EXCEPT !.id = RawId(client_ids, CorrectedId(p).id)] \in ToClient
      BY <3>1, <3>3, Renumbered, SocketTypes, Zenon
    <3>5. queue_append_raw(client_ids, CorrectedId(p).id) \in Sockets BY <3>3, SocketTypes, Zenon
    <3>6. queue_reset(queue_append_raw(client_ids, CorrectedId(p).id)) \in Sockets
      BY <3>3, <3>5, SocketTypes, Zenon
    <3>7. queue_reset(get_packet(server_ids, p.id)) \in Sockets BY <3>2, SocketTypes, Zenon
    <3>8. client_send' \in Seq(ToClient) /\ client_ids' \in Sockets /\ server_ids' \in Sockets
      BY <1>0, <3>2, <3>4, <3>6, <3>7, Sent, Put, Zenon DEF proxy_read_auth_result
    <3> QED BY <1>7, <2>2, <3>1, <3>8, Zenon DEF ReadAuthResult, clientVars, peerVars
  <2> QED BY <1>7, <2>1, <2>2, Zenon DEF ReadAuthResult
<1>8. CASE ReadAuthOldPassword
  <2>1. CASE UNCHANGED <<queueVars, client_out, idVars>>
    BY <1>8, <2>1, Zenon DEF ReadAuthOldPassword, queueVars, idVars, serverVars, peerVars
  <2>2. CASE ClientPacket /\ client_out' = Tail(client_out)
             /\ proxy_read_auth_old_password(Head(client_out),
                                             get_packet(client_ids, Head(client_out).id))
    <3> DEFINE p == Head(client_out)
               ids == get_packet(client_ids, p.id)
               q == IF change_user THEN [p EXCEPT !.id = Succ(server_ids.last)] ELSE p
    <3>1. p \in FromClient /\ Tail(client_out) \in Seq(FromClient)
      BY <2>2, Taken, Zenon DEF ClientPacket
    <3>2. p \in ToServer /\ p.id \in Ids BY <3>1, Packed, Zenon
    <3>3. ids \in Sockets BY <3>2, SocketTypes, Zenon
    <3>4. Succ(server_ids.last) \in Ids BY Successors DEF Sockets
    <3>5. q \in ToServer BY <3>2, <3>4, Renumbered, Zenon
    <3>6. \/ ToClientFinal("ERR", ids) /\ UNCHANGED <<server_send, server_ids>>
          \/ ToServerRaw(q) /\ client_ids' = ids /\ UNCHANGED client_send
      BY <2>2, Zenon DEF proxy_read_auth_old_password
    <3> HIDE DEF p, ids, q
    <3>7. client_send' \in Seq(ToClient) /\ client_ids' \in Sockets
      BY <1>0, <3>3, <3>6, Sent, Zenon
    <3>8. server_send' \in Seq(ToServer) /\ server_ids' \in Sockets
      BY <3>5, <3>6, Sent, Zenon
    <3> QED BY <1>8, <2>2, <3>1, <3>7, <3>8, Zenon DEF ReadAuthOldPassword, serverVars, peerVars
  <2> QED BY <1>8, <2>1, <2>2, Zenon DEF ReadAuthOldPassword
<1>9. CASE Finish
  <2>1. CASE CloseCon
    BY <1>9, <2>1, Zenon DEF Finish, CloseCon, queueVars, authVars, idVars, peerVars
  <2>2. CASE SendError
    <3>1. client_send' \in Seq(ToClient) /\ client_in' \in Seq(ToClient)
      BY <2>2, WrittenTypes, Zenon DEF SendError
    <3> QED BY <1>9, <2>2, <3>1, Zenon DEF Finish, SendError, serverVars, authVars, idVars, peerVars
  <2> QED BY <1>9, <2>1, <2>2, Zenon DEF Finish
<1>10. CASE Callback \/ HangUp
  BY <1>10, Zenon DEF Callback, FireWritable, FireReadable, FireClosed, HangUp, ClientCloses,
        ServerCloses, queueVars, clientVars, serverVars, authVars, idVars, peerVars
<1>11. CASE FireTimeout
  <2>1. client_send' \in Seq(ToClient) /\ client_ids' \in Sockets
    BY <1>0, <1>11, Sent, Zenon DEF FireTimeout
  <2> QED BY <1>11, <2>1, Zenon DEF FireTimeout, clientVars, serverVars, peerVars
<1>12. CASE ClientReceive
  <2> DEFINE p == Head(client_in)
  <2>1. p \in ToClient /\ Tail(client_in) \in Seq(ToClient)
    BY <1>12, Taken, Zenon DEF ClientReceive
  <2>2. p.id \in Ids /\ Succ(p.id) \in Ids /\ Succ(Succ(p.id)) \in Ids
    <3>1. p.id \in Ids BY <2>1, Packed, Zenon
    <3>2. Succ(p.id) \in Ids BY <3>1, Successors, Zenon
    <3> QED BY <3>1, <3>2, Successors, Zenon
  <2>3. \A a \in Answers(p.kind) : a \in ClientKinds BY DEF Answers, ClientKinds
  <2>4. \A a \in Answers(p.kind) :
           Append(client_out, [kind |-> a, id |-> Succ(p.id)]) \in Seq(FromClient)
    BY <2>2, <2>3, Packed, Put, ZenonT(60)
  <2>5. client_out' \in Seq(FromClient) /\ client_next' \in Ids
    BY <1>12, <2>2, <2>4, Zenon DEF ClientReceive
  <2> QED BY <1>12, <2>1, <2>5, Zenon DEF ClientReceive, queueVars, serverVars, idVars
<1>13. CASE ServerGreets
  <2>1. \A k \in {"CHALLENGE", "BAD", "ERR"} : <<[kind |-> k, id |-> 0]>> \in Seq(ToClient)
    BY Packed, Put, SmallIds DEF ServerKinds
  <2>2. server_out' \in Seq(ToClient) /\ server_next' \in Ids
    BY <1>13, <2>1, SmallIds, Zenon DEF ServerGreets
  <2> QED BY <1>13, <2>2, Zenon DEF ServerGreets, queueVars, clientVars, idVars
<1>14. CASE ServerAnswers
  <2>1. server_in' \in Seq(ToServer) BY <1>14, Taken, Zenon DEF ServerAnswers
  <2>2. server_out' \in Seq(ToClient) /\ server_next' \in Ids
    <3>1. CASE Asks(Head(server_in))
      <4>1. /\ Succ(server_next) \in Ids /\ Succ(Succ(server_next)) \in Ids
            /\ Succ(Succ(Succ(server_next))) \in Ids
        BY Successors
      <4>2. \A k \in {"OK", "ERR", "SWITCH_OTHER", "SWITCH_WIN", "MORE", "INVALID", "DONE"}, i \in Ids :
               [kind |-> k, id |-> i] \in ToClient
        BY Packed DEF ServerKinds
      <4>3. \A x, y \in ToClient : <<x>> \in Seq(ToClient) /\ <<x, y>> \in Seq(ToClient) OBVIOUS
      <4>4. CASE \E k \in {"OK", "ERR", "SWITCH_OTHER", "SWITCH_WIN", "MORE", "INVALID"} :
                    /\ server_out' = server_out \o <<[kind |-> k, id |-> Succ(server_next)]>>
                    /\ server_next' = Succ(Succ(server_next))
        <5>1. PICK k \in {"OK", "ERR", "SWITCH_OTHER", "SWITCH_WIN", "MORE", "INVALID"} :
                    /\ server_out' = server_out \o <<[kind |-> k, id |-> Succ(server_next)]>>
                    /\ server_next' = Succ(Succ(server_next))
          BY <4>4, Zenon
        <5>2. [kind |-> k, id |-> Succ(server_next)] \in ToClient BY <4>1, <4>2
        <5>3. <<[kind |-> k, id |-> Succ(server_next)]>> \in Seq(ToClient) BY <4>3, <5>2, Zenon
        <5> QED BY <4>1, <5>1, <5>3, Joined, Zenon
      <4>5. CASE \E v \in Verdict :
                    /\ server_out' = server_out \o
                          <<[kind |-> "DONE", id |-> Succ(server_next)],
                            [kind |-> v, id |-> Succ(Succ(server_next))]>>
                    /\ server_next' = Succ(Succ(Succ(server_next)))
        <5>1. PICK v \in Verdict :
                    /\ server_out' = server_out \o
                          <<[kind |-> "DONE", id |-> Succ(server_next)],
                            [kind |-> v, id |-> Succ(Succ(server_next))]>>
                    /\ server_next' = Succ(Succ(Succ(server_next)))
          BY <4>5, Zenon
        <5>2. /\ [kind |-> "DONE", id |-> Succ(server_next)] \in ToClient
              /\ [kind |-> v, id |-> Succ(Succ(server_next))] \in ToClient
          BY <4>1, <4>2 DEF Verdict
        <5>3. <<[kind |-> "DONE", id |-> Succ(server_next)],
                [kind |-> v, id |-> Succ(Succ(server_next))]>> \in Seq(ToClient)
          BY <4>3, <5>2, Zenon
        <5> QED BY <4>1, <5>1, <5>3, Joined, Zenon
      <4> QED BY <1>14, <3>1, <4>4, <4>5, AnswerForms, Zenon
    <3>2. CASE ~Asks(Head(server_in))
      BY <1>14, <3>2, Zenon DEF ServerAnswers, Asks
    <3> QED BY <3>1, <3>2
  <2> QED BY <1>14, <2>1, <2>2, Zenon DEF ServerAnswers, queueVars, clientVars, idVars
<1>15. CASE UNCHANGED vars
  BY <1>15, Zenon DEF vars, mysqldVars, queueVars, clientVars, serverVars, authVars, idVars, peerVars
<1> QED
  BY <1>1, <1>2, <1>3, <1>4, <1>5, <1>6, <1>7, <1>8, <1>9, <1>10, <1>11, <1>12, <1>13, <1>14, <1>15,
     Zenon DEF Next, Handle

LEMMA TypeStep ==
    ASSUME TypeOK, state = "CONNECT_SERVER" => AtConnect, [Next]_vars
    PROVE  TypeOK'
<1>1. TypeOK' <=> ConOK' /\ FlagsOK' /\ IdsOK' /\ QueuesOK'
  BY DEF TypeOK, ConOK, FlagsOK, IdsOK, QueuesOK
<1> QED BY <1>1, TypeParts, ConStep, FlagsStep, PacketsStep, Zenon

-----------------------------------------------------------------------------
(***************************************************************************)
(* What leaves one side of the exchange as it is.                          *)
(***************************************************************************)
clientSide == <<client_in, client_out, client_send, client_next, client_ids>>
serverSide == <<server_in, server_out, server_send, server_next, server_ids, session>>

\* The client may hang up at any time.
LEMMA ClientSame ==
    ASSUME UNCHANGED clientSide, client' = client \/ client' = "closed"
    PROVE  /\ ClientNew => ClientNew'
           /\ \A K : ToldAlone(K) => ToldAlone(K)'
           /\ \A K : Told(K) => Told(K)'
           /\ \A K, A : ClientTurn(K, A) => ClientTurn(K, A)'
           /\ ClientHeard => ClientHeard'
           /\ ClientAhead => ClientAhead'
           /\ ClientEnding => ClientEnding'
<1> USE DEF clientSide
<1>1. ClientNew => ClientNew' BY Zenon DEF ClientNew
<1>2. \A K : ToldAlone(K) => ToldAlone(K)' BY Zenon DEF ToldAlone
<1>3. \A K : ToldAfterDone(K) => ToldAfterDone(K)' BY Zenon DEF ToldAfterDone
<1>4. \A K, A : ClientTurn(K, A) => ClientTurn(K, A)' BY Zenon DEF ClientTurn
<1>5. ClientHeard => ClientHeard' BY Zenon DEF ClientHeard
<1>6. ClientAhead => ClientAhead' BY Zenon DEF ClientAhead
<1>7. ClientEnding => ClientEnding' BY Zenon DEF ClientEnding
<1> QED BY <1>1, <1>2, <1>3, <1>4, <1>5, <1>6, <1>7, Zenon DEF Told

LEMMA ServerSame ==
    ASSUME UNCHANGED serverSide, UNCHANGED trackVars
    PROVE  /\ (ServerQuiet => ServerQuiet') /\ (ServerNew => ServerNew')
           /\ (ServerAsk => ServerAsk') /\ (ServerWork => ServerWork')
           /\ (ServerPaused => ServerPaused') /\ (ServerEnding => ServerEnding')
           /\ Untracked => Untracked'
           /\ UNCHANGED server =>
                 /\ ServerGreeting => ServerGreeting'
                 /\ (ServerOpen => ServerOpen') /\ (ServerHalf => ServerHalf')
                 /\ ServerReady => ServerReady'
<1> USE DEF serverSide, trackVars
<1>1. (ServerQuiet => ServerQuiet') /\ (ServerNew => ServerNew') BY Zenon DEF ServerQuiet, ServerNew
<1>2. \A q : Asks(q) => Asks(q)' BY Zenon DEF Asks, Expected
<1>3. \A k : Means(k) => Means(k)' BY Zenon DEF Means
<1>4. ServerAsk => ServerAsk' BY <1>2, Zenon DEF ServerAsk
<1>5. ServerWork => ServerWork' BY <1>2, <1>3, Zenon DEF ServerWork
<1>6. ServerPaused => ServerPaused' BY <1>1, Zenon DEF ServerPaused
<1>7. ServerEnding => ServerEnding' BY <1>2, Zenon DEF ServerEnding
<1>8. Untracked => Untracked' BY Zenon DEF Untracked
<1>9. ASSUME UNCHANGED server
      PROVE  /\ ServerGreeting => ServerGreeting'
             /\ (ServerOpen => ServerOpen') /\ (ServerHalf => ServerHalf')
             /\ ServerReady => ServerReady'
  <2>1. ServerGreeting => ServerGreeting' BY <1>9, Zenon DEF ServerGreeting
  <2>2. ServerOpen => ServerOpen' BY <1>1, <1>9, Zenon DEF ServerOpen
  <2>3. ServerHalf => ServerHalf' BY <1>3, <1>9, Zenon DEF ServerHalf
  <2>4. ServerReady => ServerReady' BY <1>9, Zenon DEF ServerReady, HasServer
  <2> QED BY <2>1, <2>2, <2>3, <2>4
<1> QED BY <1>1, <1>4, <1>5, <1>6, <1>7, <1>8, <1>9, Zenon

\* Wherever the exchange is, the connection may be given up.
LEMMA MayEnd == ASSUME AuthInv PROVE ClientEnding /\ ServerEnding
<1>1. /\ ClientNew => ClientEnding
      /\ \A K : ToldAlone(K) => ClientEnding
      /\ \A K : ToldAfterDone(K) => ClientEnding
      /\ ClientHeard => ClientEnding
  <2>1. ClientNew \/ ClientHeard => ClientEnding BY Zenon DEF ClientNew, ClientHeard, ClientEnding
  <2>2. \A K : ToldAlone(K) => ClientEnding BY Zenon DEF ToldAlone, ClientEnding
  <2>3. \A K : ToldAfterDone(K) => ClientEnding BY Zenon DEF ToldAfterDone, ClientEnding
  <2> QED BY <2>1, <2>2, <2>3, Zenon
<1>2. \A K, A : ClientTurn(K, A) => ClientEnding BY Zenon DEF ClientTurn, ClientEnding
<1>3. ClientAhead => ClientEnding BY Zenon DEF ClientAhead, ClientEnding
<1>4. AtReadQuery => ClientEnding BY Zenon DEF AtReadQuery, ClientEnding
<1>5. ServerNew \/ ServerGreeting \/ ServerOpen \/ ServerAsk \/ ServerHalf \/ ServerPaused
        => ServerEnding
  BY Zenon DEF ServerNew, ServerQuiet, ServerGreeting, ServerOpen, ServerAsk, ServerHalf,
               ServerPaused, ServerEnding
<1>6. ServerWork => ServerEnding
  <2>1. ASSUME NEW q, Asks(q) PROVE session # "none" BY <2>1 DEF Asks, Expected
  <2> QED BY <2>1, Zenon DEF ServerWork, ServerEnding
<1>7. ClientEnding
  <2>1. CASE state \in {"INIT", "CONNECT_SERVER", "READ_HANDSHAKE", "SEND_HANDSHAKE", "READ_AUTH",
                        "SEND_AUTH"}
    BY <1>1, <1>2, <2>1, Zenon
       DEF AuthInv, Where, AtConnect, AtReadHandshake, AtSendHandshake, AtReadAuth, AtSendAuth
  <2>2. CASE state \in {"READ_AUTH_RESULT", "SEND_AUTH_RESULT", "READ_AUTH_OLD_PASSWORD",
                        "SEND_AUTH_OLD_PASSWORD"}
    BY <1>1, <1>2, <1>3, <2>2, Zenon
       DEF AuthInv, Where, AtReadAuthResult, AtSendAuthResult, AtReadOld, AtSendOld, Told
  <2>3. CASE state \in {"READ_QUERY"} \cup Ending
    BY <1>4, <2>3, Zenon DEF AuthInv, Where, AtEnding
  <2> QED BY <2>1, <2>2, <2>3 DEF AuthInv, LoginStates
<1>8. ServerEnding
  <2>1. CASE state \in {"INIT", "CONNECT_SERVER", "READ_HANDSHAKE", "SEND_HANDSHAKE", "READ_AUTH",
                        "SEND_AUTH"}
    BY <1>5, <2>1, Zenon
       DEF AuthInv, Where, AtConnect, AtReadHandshake, AtSendHandshake, AtReadAuth, AtSendAuth
  <2>2. CASE state \in {"READ_AUTH_RESULT", "SEND_AUTH_RESULT", "READ_AUTH_OLD_PASSWORD",
                        "SEND_AUTH_OLD_PASSWORD"}
    BY <1>5, <1>6, <2>2, Zenon
       DEF AuthInv, Where, AtReadAuthResult, AtSendAuthResult, AtReadOld, AtSendOld
  <2>3. CASE state \in {"READ_QUERY"} \cup Ending
    BY <2>3, Zenon DEF AuthInv, Where, AtEnding, AtReadQuery
  <2> QED BY <2>1, <2>2, <2>3 DEF AuthInv, LoginStates
<1> QED BY <1>7, <1>8

-----------------------------------------------------------------------------
(***************************************************************************)
(* The peers.                                                              *)
(***************************************************************************)
\* The client gets the packet it expects.
LEMMA ClientGets ==
    ASSUME AuthInv, ClientReceive
    PROVE  LET p == Head(client_in) IN
           /\ client_in # <<>> /\ p \in ToClient /\ p.id = client_next /\ ~surprised'
           /\ client_in' = Tail(client_in) /\ got' = p.kind
           /\ client' = CASE p.kind = "OK" -> "idle" [] p.kind = "ERR" -> "closed"
                          [] OTHER -> "waiting"
           /\ p.kind \in {"OK", "ERR", "DONE"}
                 => client_next' = Succ(client_next) /\ client_out' = client_out
           /\ p.kind = "CHALLENGE"
                 => \E a \in {"AUTH", "BAD", "OLD", "LONG"} :
                       /\ client_out' = Append(client_out, [kind |-> a, id |-> Succ(client_next)])
                       /\ client_next' = Succ(Succ(client_next))
           /\ p.kind \in Questions
                 => \E a \in {"DATA", "LONG"} :
                       /\ client_out' = Append(client_out, [kind |-> a, id |-> Succ(client_next)])
                       /\ client_next' = Succ(Succ(client_next))
<1> DEFINE p == Head(client_in)
<1>1. client_in # <<>> /\ client_in' = Tail(client_in) /\ ~surprised
  BY Zenon DEF ClientReceive
<1>2. p \in ToClient BY <1>1, Taken DEF AuthInv, TypeOK
<1>3. p.id = client_next
  <2>1. CASE \E x \in ToClient : x.id = client_next /\ client_in = <<x>>
    BY <2>1, OfOne
  <2>2. CASE \E x, y \in ToClient : x.id = client_next /\ client_in = <<x, y>>
    BY <2>2, OfTwo
  <2> QED BY <1>1, <2>1, <2>2, MayEnd, Zenon DEF ClientEnding
<1>4. /\ got' = p.kind
      /\ client' = CASE p.kind = "OK" -> "idle" [] p.kind = "ERR" -> "closed" [] OTHER -> "waiting"
      /\ IF Answers(p.kind) = {}
         THEN client_next' = Succ(p.id) /\ UNCHANGED client_out
         ELSE /\ \E a \in Answers(p.kind) :
                    client_out' = Append(client_out, [kind |-> a, id |-> Succ(p.id)])
              /\ client_next' = Succ(Succ(p.id))
      /\ UNCHANGED surprised
  BY <1>3, Zenon DEF ClientReceive
<1>5. ASSUME p.kind \in {"OK", "ERR", "DONE"}
      PROVE  client_next' = Succ(client_next) /\ client_out' = client_out
  <2>1. Answers(p.kind) = {} BY <1>5 DEF Answers
  <2> QED BY <1>3, <1>4, <2>1, Zenon
<1>6. ASSUME p.kind = "CHALLENGE"
      PROVE  \E a \in {"AUTH", "BAD", "OLD", "LONG"} :
                /\ client_out' = Append(client_out, [kind |-> a, id |-> Succ(client_next)])
                /\ client_next' = Succ(Succ(client_next))
  <2>1. Answers(p.kind) # {} /\ Answers(p.kind) \subseteq {"AUTH", "BAD", "OLD", "LONG"}
    BY <1>6 DEF Answers
  <2> QED BY <1>3, <1>4, <2>1, Zenon
<1>7. ASSUME p.kind \in Questions
      PROVE  \E a \in {"DATA", "LONG"} :
                /\ client_out' = Append(client_out, [kind |-> a, id |-> Succ(client_next)])
                /\ client_next' = Succ(Succ(client_next))
  <2>1. Answers(p.kind) # {} /\ Answers(p.kind) \subseteq {"DATA", "LONG"}
    BY <1>7 DEF Answers, Questions
  <2> QED BY <1>3, <1>4, <2>1, Zenon
<1> HIDE DEF p
<1>8. /\ client_in # <<>> /\ p \in ToClient /\ p.id = client_next /\ ~surprised'
      /\ client_in' = Tail(client_in) /\ got' = p.kind
  BY <1>1, <1>2, <1>3, <1>4
<1> QED BY <1>4, <1>5, <1>6, <1>7, <1>8, Zenon DEF p

\* What the client does with it.
LEMMA ClientTurns ==
    ASSUME AuthInv, ClientReceive, client_ids' = client_ids, client_send' = client_send
    PROVE  /\ ClientTurn(Challenges, {"AUTH", "BAD", "OLD", "LONG"})
                 => ClientTurn(Challenges, {"AUTH", "BAD", "OLD", "LONG"})'
           /\ ClientTurn(Questions, {"DATA", "LONG"}) => ClientTurn(Questions, {"DATA", "LONG"})'
           /\ ClientAhead => ClientAhead'
           /\ ToldAfterDone(Verdict) => ToldAlone(Verdict)'
           /\ ClientEnding => ClientEnding'
<1>0. /\ client_in # <<>> /\ client_in' = Tail(client_in)
      /\ client_next \in Ids
  BY ClientGets DEF AuthInv, TypeOK
<1>1. ASSUME NEW x \in ToClient, client_in = <<x>>
      PROVE  Head(client_in) = x /\ client_in' = <<>>
  BY <1>0, <1>1, OfOne
<1>2. ASSUME NEW x \in ToClient, NEW y \in ToClient, client_in = <<x, y>>
      PROVE  Head(client_in) = x /\ client_in' = <<y>>
  BY <1>0, <1>2, OfTwo
<1>3. ASSUME NEW K, NEW A, ClientTurn(K, A)
      PROVE  \E x \in ToClient : client_in = <<x>> /\ x.kind \in K /\ x.id = client_next
                                 /\ x.id = client_ids.last /\ client_send = <<>> /\ client_out = <<>>
  BY <1>0, <1>3, Zenon DEF ClientTurn
<1>4. ASSUME NEW a \in ClientKinds
      PROVE  [kind |-> a, id |-> Succ(client_next)] \in FromClient
  BY <1>0, <1>4, Packed, Successors, Zenon
<1>5. ASSUME ClientTurn(Challenges, {"AUTH", "BAD", "OLD", "LONG"})
      PROVE  ClientTurn(Challenges, {"AUTH", "BAD", "OLD", "LONG"})'
  <2>1. PICK x \in ToClient : client_in = <<x>> /\ x.kind \in Challenges /\ x.id = client_next
                              /\ x.id = client_ids.last /\ client_send = <<>> /\ client_out = <<>>
    BY <1>3, <1>5, Zenon
  <2>2. Head(client_in) = x /\ client_in' = <<>> BY <1>1, <2>1, Zenon
  <2>3. CASE x.kind = "ERR"
    <3>1. client' = "closed" /\ client_out' = <<>> BY <2>1, <2>2, <2>3, ClientGets
    <3> QED BY <2>1, <2>2, <3>1, Zenon DEF ClientTurn
  <2>4. CASE x.kind = "CHALLENGE"
    <3>1. PICK a \in {"AUTH", "BAD", "OLD", "LONG"} :
             /\ client_out' = Append(client_out, [kind |-> a, id |-> Succ(client_next)])
             /\ client_next' = Succ(Succ(client_next))
      BY <2>2, <2>4, ClientGets, Zenon
    <3>2. [kind |-> a, id |-> Succ(client_next)] \in FromClient BY <1>4 DEF ClientKinds
    <3>3. client_out' = <<[kind |-> a, id |-> Succ(client_next)]>> BY <2>1, <3>1, OfOne, Zenon
    <3>4. /\ [kind |-> a, id |-> Succ(client_next)].kind \in {"AUTH", "BAD", "OLD", "LONG"}
          /\ [kind |-> a, id |-> Succ(client_next)].id = Succ(client_ids'.last)
          /\ client_next' = Succ([kind |-> a, id |-> Succ(client_next)].id)
      BY <2>1, <3>1, Zenon
    <3> QED BY <2>1, <2>2, <3>2, <3>3, <3>4, Zenon DEF ClientTurn
  <2> QED BY <2>1, <2>3, <2>4, Zenon DEF Challenges
<1>6. ASSUME ClientTurn(Questions, {"DATA", "LONG"}) PROVE ClientTurn(Questions, {"DATA", "LONG"})'
  <2>1. PICK x \in ToClient : client_in = <<x>> /\ x.kind \in Questions /\ x.id = client_next
                              /\ x.id = client_ids.last /\ client_send = <<>> /\ client_out = <<>>
    BY <1>3, <1>6, Zenon
  <2>2. Head(client_in) = x /\ client_in' = <<>> BY <1>1, <2>1, Zenon
  <2>3. PICK a \in {"DATA", "LONG"} :
           /\ client_out' = Append(client_out, [kind |-> a, id |-> Succ(client_next)])
           /\ client_next' = Succ(Succ(client_next))
    BY <2>1, <2>2, ClientGets, Zenon
  <2>4. [kind |-> a, id |-> Succ(client_next)] \in FromClient BY <1>4 DEF ClientKinds
  <2>5. client_out' = <<[kind |-> a, id |-> Succ(client_next)]>> BY <2>1, <2>3, OfOne, Zenon
  <2>6. /\ [kind |-> a, id |-> Succ(client_next)].kind \in {"DATA", "LONG"}
        /\ [kind |-> a, id |-> Succ(client_next)].id = Succ(client_ids'.last)
        /\ client_next' = Succ([kind |-> a, id |-> Succ(client_next)].id)
    BY <2>1, <2>3, Zenon
  <2> QED BY <2>1, <2>2, <2>4, <2>5, <2>6, Zenon DEF ClientTurn
<1>7. ASSUME ClientAhead PROVE ClientAhead'
  <2>1. PICK d \in ToClient : client_in = <<d>> /\ d.kind = "DONE" /\ d.id = client_next
                              /\ d.id = client_ids.last
    BY <1>0, <1>7, Zenon DEF ClientAhead
  <2>2. Head(client_in) = d /\ client_in' = <<>> BY <1>1, <2>1, Zenon
  <2>3. client_next' = Succ(client_next) /\ client_out' = client_out BY <2>1, <2>2, ClientGets, Zenon
  <2> QED BY <1>7, <2>1, <2>2, <2>3, Zenon DEF ClientAhead
<1>8. ASSUME ToldAfterDone(Verdict) PROVE ToldAlone(Verdict)'
  <2>1. PICK d \in ToClient, p \in ToClient :
               /\ client_in = <<d>> /\ d.kind = "DONE" /\ d.id = client_next
               /\ client_send = <<p>> /\ p.kind \in Verdict
               /\ p.id = Succ(d.id) /\ p.id = client_ids.last
    BY <1>8, Zenon DEF ToldAfterDone
  <2>2. Head(client_in) = d /\ client_in' = <<>> BY <1>1, <2>1, Zenon
  <2>3. client_next' = Succ(client_next) /\ client_out' = client_out BY <2>1, <2>2, ClientGets, Zenon
  <2> QED BY <1>8, <2>1, <2>2, <2>3, Zenon DEF ToldAlone, ToldAfterDone
<1>9. ASSUME ClientEnding PROVE ClientEnding'
  <2>1. CASE \E p \in ToClient : client_in = <<p>> /\ client_send = <<>>
    BY <1>1, <2>1, Zenon DEF ClientEnding
  <2>2. CASE \E d, p \in ToClient :
                /\ d.id = client_next /\ p.id = Succ(d.id) /\ d.kind = "DONE" /\ client_out = <<>>
                /\ client_in = <<d, p>> /\ client_send = <<>>
    <3>1. PICK d \in ToClient, p \in ToClient :
                /\ d.id = client_next /\ p.id = Succ(d.id) /\ d.kind = "DONE" /\ client_out = <<>>
                /\ client_in = <<d, p>> /\ client_send = <<>>
      BY <2>2, Zenon
    <3>2. Head(client_in) = d /\ client_in' = <<p>> BY <1>2, <3>1, Zenon
    <3>3. client_next' = Succ(client_next) /\ client_out' = client_out
      BY <3>1, <3>2, ClientGets, Zenon
    <3> QED BY <3>1, <3>2, <3>3, Zenon DEF ClientEnding
  <2>3. CASE \E d, p \in ToClient :
                /\ d.id = client_next /\ p.id = Succ(d.id) /\ d.kind = "DONE" /\ client_out = <<>>
                /\ client_in = <<d>> /\ client_send = <<p>>
    <3>1. PICK d \in ToClient, p \in ToClient :
                /\ d.id = client_next /\ p.id = Succ(d.id) /\ d.kind = "DONE" /\ client_out = <<>>
                /\ client_in = <<d>> /\ client_send = <<p>>
      BY <2>3, Zenon
    <3>2. Head(client_in) = d /\ client_in' = <<>> BY <1>1, <3>1, Zenon
    <3>3. client_next' = Succ(client_next) /\ client_out' = client_out
      BY <3>1, <3>2, ClientGets, Zenon
    <3> QED BY <3>1, <3>2, <3>3, Zenon DEF ClientEnding
  <2> QED BY <1>0, <1>9, <2>1, <2>2, <2>3, Zenon DEF ClientEnding
<1> QED BY <1>5, <1>6, <1>7, <1>8, <1>9, Zenon

LEMMA ClientReceiveStep ==
    ASSUME AuthInv, ClientReceive
    PROVE  /\ Where' /\ ~surprised' /\ client' \in {"waiting", "idle", "closed"}
           /\ client' = "idle" => got' = "OK"
           /\ got' = "OK" => state' \in {"READ_QUERY"} \cup Ending
<1>0. /\ client_in # <<>> /\ client_in' = Tail(client_in) /\ ~surprised'
      /\ UNCHANGED <<state, event, server, client_send, server_send, serverVars, idVars, trackVars,
                     proxyVars, session, server_next>>
  BY ClientGets, Zenon DEF ClientReceive, conVars, queueVars
<1>1. UNCHANGED <<serverSide, trackVars, server, change_user, client_ids, client_send, state, event>>
  BY <1>0, Zenon DEF serverSide, serverVars, idVars, proxyVars
<1>2. /\ got' = Head(client_in).kind /\ client' \in {"waiting", "idle", "closed"}
      /\ client' = "idle" => got' = "OK"
  <2>1. /\ got' = Head(client_in).kind
        /\ client' = CASE Head(client_in).kind = "OK" -> "idle"
                       [] Head(client_in).kind = "ERR" -> "closed" [] OTHER -> "waiting"
    BY ClientGets
  <2> QED BY <2>1
<1>3. InStep => InStep' BY <1>1, Zenon DEF InStep, serverSide
<1>4. /\ ~ClientNew /\ ~ClientHeard /\ \A K : ~ToldAlone(K)
  BY <1>0, Zenon DEF ClientNew, ClientHeard, ToldAlone
<1>5. state \in {"READ_AUTH", "READ_AUTH_RESULT", "SEND_AUTH_RESULT", "READ_AUTH_OLD_PASSWORD",
                 "READ_QUERY"} \cup Ending
  BY <1>4, Zenon DEF AuthInv, LoginStates, Where, AtConnect, AtReadHandshake, AtSendHandshake,
                     AtSendAuth, AtSendOld
<1>6. CASE state = "READ_AUTH"
  <2>1. AtReadAuth BY <1>6, Zenon DEF AuthInv, Where
  <2>2. AtReadAuth' BY <1>1, <2>1, ClientTurns, ServerSame, Zenon DEF AtReadAuth
  <2>3. got' # "OK"
    <3>1. PICK x \in ToClient : client_in = <<x>> /\ x.kind \in Challenges
      BY <1>0, <2>1, Zenon DEF AtReadAuth, ClientTurn
    <3> QED BY <1>2, <3>1, OfOne DEF Challenges
  <2> QED BY <1>0, <1>1, <1>2, <1>6, <2>2, <2>3, Zenon DEF Where, Ending
<1>7. CASE state = "READ_AUTH_RESULT"
  <2>1. AtReadAuthResult BY <1>7, Zenon DEF AuthInv, Where
  <2>2. AtReadAuthResult'
    BY <1>1, <1>3, <1>4, <2>1, ClientTurns, ServerSame, Zenon DEF AtReadAuthResult
  <2>3. got' # "OK"
    <3>1. PICK x \in ToClient : client_in = <<x>> /\ x.kind = "DONE"
      BY <1>0, <1>4, <2>1, Zenon DEF AtReadAuthResult, ClientAhead
    <3> QED BY <1>2, <3>1, OfOne
  <2> QED BY <1>0, <1>1, <1>2, <1>7, <2>2, <2>3, Zenon DEF Where, Ending
<1>8. CASE state = "SEND_AUTH_RESULT"
  <2>1. AtSendAuthResult BY <1>8, Zenon DEF AuthInv, Where
  <2>2. ToldAfterDone(Verdict) BY <1>4, <2>1, Zenon DEF AtSendAuthResult, Told
  <2>3. Told(Verdict)' BY <1>1, <2>2, ClientTurns, Zenon DEF Told
  <2>4. AtSendAuthResult'
    BY <1>1, <1>4, <2>1, <2>3, ServerSame, Zenon DEF AtSendAuthResult, trackVars
  <2>5. got' # "OK"
    <3>1. PICK x \in ToClient : client_in = <<x>> /\ x.kind = "DONE"
      BY <2>2, Zenon DEF ToldAfterDone
    <3> QED BY <1>2, <3>1, OfOne
  <2> QED BY <1>0, <1>1, <1>2, <1>8, <2>4, <2>5, Zenon DEF Where, Ending
<1>9. CASE state = "READ_AUTH_OLD_PASSWORD"
  <2>1. AtReadOld BY <1>9, Zenon DEF AuthInv, Where
  <2>2. AtReadOld' BY <1>1, <1>3, <2>1, ClientTurns, ServerSame, Zenon DEF AtReadOld
  <2>3. got' # "OK"
    <3>1. PICK x \in ToClient : client_in = <<x>> /\ x.kind \in Questions
      BY <1>0, <2>1, Zenon DEF AtReadOld, ClientTurn
    <3> QED BY <1>2, <3>1, OfOne DEF Questions
  <2> QED BY <1>0, <1>1, <1>2, <1>9, <2>2, <2>3, Zenon DEF Where, Ending
<1>10. CASE state = "READ_QUERY"
  <2>1. AtReadQuery BY <1>10, Zenon DEF AuthInv, Where
  <2>2. AtReadQuery'
    <3>1. CASE \E p \in ToClient : client_in = <<p>> /\ p.id = client_next /\ Served(p.kind)
      <4>1. PICK p \in ToClient : client_in = <<p>> /\ p.id = client_next /\ Served(p.kind) BY <3>1
      <4>2. Head(client_in) = p /\ client_in' = <<>> BY <1>0, <4>1, OfOne
      <4>3. client_out' = <<>> BY <2>1, <4>1, <4>2, ClientGets DEF AtReadQuery, Served, Verdict
      <4>4. got' = "OK" => ServerReady' BY <1>1, <1>2, <4>1, <4>2, ServerSame, Zenon DEF Served
      <4> QED BY <1>1, <2>1, <4>2, <4>3, <4>4, ServerSame, Zenon DEF AtReadQuery
    <3>2. CASE \E d, p \in ToClient :
             /\ client_in = <<d, p>> /\ d.id = client_next /\ p.id = Succ(d.id)
             /\ d.kind = "DONE" /\ Served(p.kind)
      <4>1. PICK d \in ToClient, p \in ToClient :
               /\ client_in = <<d, p>> /\ d.id = client_next /\ p.id = Succ(d.id)
               /\ d.kind = "DONE" /\ Served(p.kind)
        BY <3>2
      <4>2. Head(client_in) = d /\ client_in' = <<p>> BY <1>0, <4>1, OfTwo
      <4>3. /\ client_out' = <<>> /\ client_next' = Succ(client_next) /\ got' = "DONE"
        BY <2>1, <4>1, <4>2, ClientGets DEF AtReadQuery
      <4>4. Served(p.kind)' BY <1>1, <4>1, <4>3, ServerSame, Zenon DEF Served
      <4> QED BY <1>1, <2>1, <4>1, <4>2, <4>3, <4>4, ServerSame, Zenon DEF AtReadQuery
    <3> QED BY <1>0, <2>1, <3>1, <3>2, Zenon DEF AtReadQuery
  <2> QED BY <1>0, <1>1, <1>2, <1>10, <2>2, Zenon DEF Where, Ending
<1>11. CASE state \in Ending
  <2>1. AtEnding' BY <1>1, MayEnd, ClientTurns, ServerSame, Zenon DEF AtEnding
  <2> QED BY <1>0, <1>1, <1>2, <1>11, <2>1, Zenon DEF Where, Ending
<1> QED BY <1>5, <1>6, <1>7, <1>8, <1>9, <1>10, <1>11, Zenon

\* The server greets only while its greeting is awaited, or ignored.
LEMMA ServerGreetsStep == ASSUME AuthInv, ServerGreets PROVE Where'
<1>0. /\ server = "plain" /\ session = "none" /\ server_next' = 1
      /\ UNCHANGED <<state, event, server, client_send, server_send, clientVars, server_in, idVars,
                     trackVars, change_user, got, client_next>>
  BY Zenon DEF ServerGreets, conVars, queueVars, proxyVars
<1>1. UNCHANGED <<clientSide, client, trackVars, server, change_user, got, state, event, server_in,
                  server_send, server_ids>>
  BY <1>0, Zenon DEF clientSide, clientVars, idVars
<1>2. /\ ~ServerOpen /\ \A k : ~Means(k) /\ ~ServerReady /\ \A q : ~Asks(q)
  BY <1>0 DEF ServerOpen, ServerNew, Means, ServerReady, HasServer, Asks, Expected
<1>3. ~ServerAsk /\ ~ServerWork /\ ~ServerHalf /\ ~ServerPaused
  BY <1>0, <1>2, Zenon DEF ServerAsk, ServerWork, ServerHalf, ServerPaused
<1>4. ServerEnding'
  <2>1. server_in = <<>> BY <1>0, MayEnd DEF ServerEnding
  <2> QED BY <1>1, <2>1, Zenon DEF ServerEnding
<1>5. state \in {"READ_HANDSHAKE", "SEND_AUTH_RESULT", "READ_QUERY"} \cup Ending
  BY <1>0, <1>2, <1>3, Zenon DEF AuthInv, LoginStates, Where, AtConnect, AtSendHandshake, AtReadAuth,
        AtSendAuth, AtReadAuthResult, AtReadOld, AtSendOld
<1>6. CASE state = "READ_HANDSHAKE"
  <2>1. AtReadHandshake BY <1>6, Zenon DEF AuthInv, Where
  <2>2. ServerGreeting'
    <3>1. PICK k \in {"CHALLENGE", "BAD", "ERR"} :
             /\ server_out' = <<[kind |-> k, id |-> 0]>>
             /\ session' = IF k = "ERR" THEN "denied" ELSE "greeted"
      BY Zenon DEF ServerGreets
    <3>2. [kind |-> k, id |-> 0] \in ToClient BY Packed, SmallIds DEF ServerKinds
    <3>3. [kind |-> k, id |-> 0].kind = k /\ [kind |-> k, id |-> 0].id = 0 OBVIOUS
    <3> QED BY <1>0, <1>1, <2>1, <3>1, <3>2, <3>3, Zenon DEF AtReadHandshake, ServerGreeting
  <2>3. AtReadHandshake'
    BY <1>1, <2>1, <2>2, ClientSame, Zenon DEF AtReadHandshake, Untracked, trackVars
  <2> QED BY <1>1, <1>6, <2>3, Zenon DEF Where, Ending
<1>7. CASE state = "SEND_AUTH_RESULT"
  <2>1. AtSendAuthResult BY <1>7, Zenon DEF AuthInv, Where
  <2>2. AtSendAuthResult'
    BY <1>1, <1>2, <1>3, <1>4, <2>1, ClientSame, Zenon DEF AtSendAuthResult, trackVars, clientSide
  <2> QED BY <1>1, <1>7, <2>2, Zenon DEF Where, Ending
<1>8. CASE state = "READ_QUERY"
  <2>1. AtReadQuery BY <1>8, Zenon DEF AuthInv, Where
  <2>2. \A k : Served(k) => Served(k)' BY <1>1, <1>2, Zenon DEF Served
  <2>3. AtReadQuery'
    BY <1>1, <1>2, <1>4, <2>1, <2>2, Zenon DEF AtReadQuery, clientSide
  <2> QED BY <1>1, <1>8, <2>3, Zenon DEF Where, Ending
<1>9. CASE state \in Ending
  BY <1>1, <1>4, <1>9, MayEnd, ClientSame, Zenon DEF Where, AtEnding, Ending
<1> QED BY <1>5, <1>6, <1>7, <1>8, <1>9, Zenon

\* The server gets the packet it expects.
LEMMA ServerAnswersStep ==
    ASSUME AuthInv, ServerAnswers
    PROVE  Where' /\ ~surprised' /\ (session' = "win" => WinAuth)
<1>0. /\ server_in # <<>> /\ ~surprised
      /\ UNCHANGED <<state, event, server, client_send, server_send, clientVars, idVars,
                     trackVars, change_user, got, client_next>>
  BY Zenon DEF ServerAnswers, conVars, queueVars, proxyVars
<1>1. UNCHANGED <<clientSide, client, trackVars, server, change_user, got, state, event,
                  server_send, server_ids>>
  BY <1>0, Zenon DEF clientSide, clientVars, idVars
<1>2. PICK q \in ToServer : server_in = <<q>> /\ Asks(q)
  BY <1>0, MayEnd, Zenon DEF ServerEnding
<1>3. Head(server_in) = q /\ Tail(server_in) = <<>> BY <1>2, OfOne
<1>4. server_next \in Ids BY DEF AuthInv, TypeOK
<1>5. server_in' = <<>> /\ ~surprised' /\ (session' = "win" => session = "win" \/ WinAuth)
  <2>0. Asks(Head(server_in)) BY <1>2, <1>3
  <2>1. server_in' = Tail(server_in) /\ UNCHANGED surprised BY <1>4, <2>0, AnswerForms
  <2>2. session' = "win" => session = "win" \/ WinAuth BY <1>2, <1>3, <1>4, AnswerForms, Zenon
  <2> QED BY <1>0, <1>3, <2>1, <2>2
<1>6. session' = "win" => WinAuth BY <1>5, Zenon DEF AuthInv
<1>7. ServerEnding' BY <1>5, Zenon DEF ServerEnding
<1>8. /\ ~ServerQuiet /\ ~ServerGreeting /\ ~ServerAsk /\ ~ServerHalf
  BY <1>0, Zenon DEF ServerQuiet, ServerGreeting, ServerAsk, ServerHalf
<1>9. ServerReady => ServerReady'
  BY <1>0, <1>1, Zenon DEF ServerReady, HasServer
<1>10. state \in {"READ_AUTH_RESULT", "SEND_AUTH_RESULT", "READ_QUERY"} \cup Ending
  BY <1>8, Zenon DEF AuthInv, LoginStates, Where, AtConnect, AtReadHandshake, AtSendHandshake,
        AtReadAuth, AtSendAuth, AtReadOld, AtSendOld, ServerNew, ServerOpen, ServerPaused
<1>11. CASE state = "READ_AUTH_RESULT"
  <2>1. AtReadAuthResult BY <1>11, Zenon DEF AuthInv, Where
  <2>2. ClientHeard /\ ServerWork /\ ~next_from_server /\ InStep
    BY <1>8, <2>1, Zenon DEF AtReadAuthResult
  <2>3. /\ server_send = <<>> /\ ~server_ids.reset /\ server_out = <<>>
        /\ q.id = server_ids.last /\ (session = "win" => method = "win")
    <3>1. \E x \in ToServer : server_in = <<x>> /\ x.id = server_ids.last
      BY <1>0, <2>2, Zenon DEF ServerWork
    <3>2. q.id = server_ids.last BY <1>3, <3>1, OfOne
    <3> QED BY <1>0, <2>2, <3>2, Zenon DEF ServerWork
  <2>4. server_next = server_ids.last BY <1>2, <2>3 DEF Asks
  <2>5. Succ(server_next) \in Ids /\ Succ(Succ(server_next)) \in Ids BY <1>4, Successors
  <2>6. ServerWork'
    <3>1. CASE \E k \in {"OK", "ERR", "SWITCH_OTHER", "SWITCH_WIN", "MORE", "INVALID"} :
                    /\ server_out' = server_out \o <<[kind |-> k, id |-> Succ(server_next)]>>
                    /\ server_next' = Succ(Succ(server_next))
                    /\ session' = CASE k = "OK" -> "authed" [] k = "ERR" -> "denied"
                                    [] k = "SWITCH_WIN" -> "win" [] k = "SWITCH_OTHER" -> "other"
                                    [] OTHER -> session
                    /\ k = "MORE" => session \in {"win", "other"}
                    /\ k = "INVALID" => session = "win"
      <4>1. PICK k \in {"OK", "ERR", "SWITCH_OTHER", "SWITCH_WIN", "MORE", "INVALID"} :
                    /\ server_out' = server_out \o <<[kind |-> k, id |-> Succ(server_next)]>>
                    /\ server_next' = Succ(Succ(server_next))
                    /\ session' = CASE k = "OK" -> "authed" [] k = "ERR" -> "denied"
                                    [] k = "SWITCH_WIN" -> "win" [] k = "SWITCH_OTHER" -> "other"
                                    [] OTHER -> session
                    /\ k = "MORE" => session \in {"win", "other"}
                    /\ k = "INVALID" => session = "win"
        BY <3>1
      <4> DEFINE r == [kind |-> k, id |-> Succ(server_next)]
      <4>2. r.kind = k /\ r.id = Succ(server_next) OBVIOUS
      <4>3. r \in ToClient BY <2>5, Packed DEF ServerKinds
      <4>4. server_out' = <<r>> BY <2>3, <4>1, OfOne, Zenon
      <4>5. method' = method BY <1>1 DEF trackVars
      <4>6. Means(k)' BY <2>3, <4>1, <4>5 DEF Means
      <4> HIDE DEF r
      <4> QED BY <1>1, <1>5, <2>3, <2>4, <4>1, <4>2, <4>3, <4>4, <4>6, Zenon DEF ServerWork
    <3>2. CASE \E v \in Verdict :
                    /\ server_out' = server_out \o
                          <<[kind |-> "DONE", id |-> Succ(server_next)],
                            [kind |-> v, id |-> Succ(Succ(server_next))]>>
                    /\ server_next' = Succ(Succ(Succ(server_next)))
                    /\ session' = IF v = "OK" THEN "authed" ELSE "denied"
                    /\ session = "win"
      <4>1. PICK v \in Verdict :
                    /\ server_out' = server_out \o
                          <<[kind |-> "DONE", id |-> Succ(server_next)],
                            [kind |-> v, id |-> Succ(Succ(server_next))]>>
                    /\ server_next' = Succ(Succ(Succ(server_next)))
                    /\ session' = IF v = "OK" THEN "authed" ELSE "denied"
                    /\ session = "win"
        BY <3>2
      <4> DEFINE d == [kind |-> "DONE", id |-> Succ(server_next)]
                 w == [kind |-> v, id |-> Succ(Succ(server_next))]
      <4>2. d.kind = "DONE" /\ d.id = Succ(server_next) /\ w.kind = v /\ w.id = Succ(d.id) OBVIOUS
      <4>3. d \in ToClient /\ w \in ToClient BY <2>5, Packed DEF ServerKinds, Verdict
      <4>4. server_out' = <<d, w>>
        <5>1. <<d, w>> \in Seq(ToClient) BY <4>3
        <5> HIDE DEF d, w
        <5>2. server_out' = <<>> \o <<d, w>> BY <2>3, <4>1 DEF d, w
        <5> QED BY <5>1, <5>2, JoinedToNone, Zenon
      <4>5. method' = "win" BY <1>1, <2>3, <4>1 DEF trackVars
      <4>6. Means(v)' BY <4>1 DEF Means, Verdict
      <4> HIDE DEF d, w
      <4> QED BY <1>1, <1>5, <2>3, <2>4, <4>1, <4>2, <4>3, <4>4, <4>5, <4>6, Zenon DEF ServerWork
    <3> QED BY <1>2, <1>3, <1>4, <3>1, <3>2, AnswerForms, Zenon
  <2>7. InStep' BY <1>1, <2>2, Zenon DEF InStep, clientSide
  <2>8. AtReadAuthResult'
    BY <1>1, <2>2, <2>6, <2>7, ClientSame, Zenon DEF AtReadAuthResult, trackVars
  <2> QED BY <1>1, <1>5, <1>6, <1>11, <2>8, Zenon DEF Where, Ending
<1>12. CASE state = "SEND_AUTH_RESULT"
  <2>1. AtSendAuthResult BY <1>12, Zenon DEF AuthInv, Where
  <2>2. AtSendAuthResult'
    BY <1>1, <1>7, <1>8, <1>9, <2>1, ClientSame, Zenon
       DEF AtSendAuthResult, trackVars, clientSide, ServerPaused
  <2> QED BY <1>1, <1>5, <1>6, <1>12, <2>2, Zenon DEF Where, Ending
<1>13. CASE state = "READ_QUERY"
  <2>1. AtReadQuery BY <1>13, Zenon DEF AuthInv, Where
  <2>2. \A k : Served(k) => Served(k)' BY <1>1, <1>9, Zenon DEF Served
  <2>3. AtReadQuery' BY <1>1, <1>7, <1>9, <2>1, <2>2, Zenon DEF AtReadQuery, clientSide
  <2> QED BY <1>1, <1>5, <1>6, <1>13, <2>3, Zenon DEF Where, Ending
<1>14. CASE state \in Ending
  BY <1>1, <1>5, <1>6, <1>7, <1>14, MayEnd, ClientSame, Zenon DEF Where, AtEnding, Ending
<1> QED BY <1>10, <1>11, <1>12, <1>13, <1>14, Zenon

-----------------------------------------------------------------------------
(***************************************************************************)
(* Steps that move no packet.                                              *)
(***************************************************************************)
\* con_handle() waits, or is called back, or a peer hangs up.
LEMMA Unmoved ==
    ASSUME AuthInv, UNCHANGED <<clientSide, serverSide, trackVars, proxyVars, server, got, state>>,
           client' = client \/ client' = "closed",
           event' \in {event, "run"} \/ state \notin {"INIT", "CONNECT_SERVER", "READ_QUERY"}
    PROVE  Where'
<1>1. UNCHANGED clientSide /\ UNCHANGED serverSide /\ UNCHANGED trackVars /\ UNCHANGED server
      /\ UNCHANGED change_user /\ UNCHANGED untried /\ UNCHANGED state /\ UNCHANGED got
  BY Zenon DEF proxyVars
<1>2. InStep => InStep' BY <1>1, Zenon DEF InStep, clientSide, serverSide
<1>3. client_ids' = client_ids /\ client_send' = client_send BY <1>1, Zenon DEF clientSide
<1>4. session' = session /\ next_from_server' = next_from_server /\ method' = method
  BY <1>1, Zenon DEF serverSide, trackVars
<1>5. state' \in {"INIT", "CONNECT_SERVER"} => AtConnect'
  BY <1>1, ClientSame, ServerSame, Zenon DEF AuthInv, Where, AtConnect
<1>6. state' = "READ_HANDSHAKE" => AtReadHandshake'
  BY <1>1, ClientSame, ServerSame, Zenon DEF AuthInv, Where, AtReadHandshake
<1>7. state' = "SEND_HANDSHAKE" => AtSendHandshake'
  BY <1>1, <1>3, ClientSame, ServerSame, Zenon DEF AuthInv, Where, AtSendHandshake
<1>8. state' = "READ_AUTH" => AtReadAuth'
  BY <1>1, <1>3, ClientSame, ServerSame, Zenon DEF AuthInv, Where, AtReadAuth
<1>9. state' = "SEND_AUTH" => AtSendAuth'
  BY <1>1, <1>2, <1>4, ClientSame, ServerSame, Zenon DEF AuthInv, Where, AtSendAuth
<1>10. state' = "READ_AUTH_RESULT" => AtReadAuthResult'
  <2>1. AtReadAuthResult => AtReadAuthResult'
    BY <1>1, <1>2, <1>4, ClientSame, ServerSame, Zenon DEF AtReadAuthResult
  <2> QED BY <1>1, <2>1, Zenon DEF AuthInv, Where
<1>11. state' = "SEND_AUTH_RESULT" => AtSendAuthResult'
  <2>1. AtSendAuthResult => AtSendAuthResult'
    BY <1>1, <1>2, <1>3, ClientSame, ServerSame, Zenon DEF AtSendAuthResult, trackVars
  <2> QED BY <1>1, <2>1, Zenon DEF AuthInv, Where
<1>12. state' = "READ_AUTH_OLD_PASSWORD" => AtReadOld'
  BY <1>1, <1>2, ClientSame, ServerSame, Zenon DEF AuthInv, Where, AtReadOld
<1>13. state' = "SEND_AUTH_OLD_PASSWORD" => AtSendOld'
  <2>1. AtSendOld => AtSendOld'
    BY <1>1, <1>2, <1>4, ClientSame, ServerSame, Zenon DEF AtSendOld
  <2> QED BY <1>1, <2>1, Zenon DEF AuthInv, Where
<1>14. state' = "READ_QUERY" => AtReadQuery'
  <2>1. \A k : Served(k) => Served(k)' BY <1>1, ServerSame, Zenon DEF Served
  <2>2. AtReadQuery /\ state = "READ_QUERY" => AtReadQuery'
    BY <1>1, <2>1, ServerSame, Zenon DEF AtReadQuery, clientSide
  <2> QED BY <1>1, <2>2, Zenon DEF AuthInv, Where
<1>15. state' \in Ending => AtEnding'
  BY <1>1, MayEnd, ClientSame, ServerSame, Zenon DEF AtEnding
<1> QED
  BY <1>5, <1>6, <1>7, <1>8, <1>9, <1>10, <1>11, <1>12, <1>13, <1>14, <1>15 DEF Where

\* The connection is given up as it is.
LEMMA GivenUp ==
    ASSUME AuthInv, UNCHANGED <<clientSide, serverSide, trackVars>>,
           client' = client \/ client' = "closed", state' \in Ending
    PROVE  Where'
<1>1. AtEnding' BY MayEnd, ClientSame, ServerSame, Zenon DEF AtEnding
<1> QED BY <1>1, Zenon DEF Where, Ending

LEMMA HangUpStep == ASSUME AuthInv, HangUp PROVE Where'
BY Unmoved, Zenon DEF HangUp, ClientCloses, ServerCloses, conVars, queueVars, clientVars, serverVars,
      authVars, idVars, trackVars, proxyVars, peerVars, clientSide, serverSide

LEMMA CallbackStep == ASSUME AuthInv, Callback PROVE Where'
<1>0. UNCHANGED <<clientSide, serverSide, trackVars, proxyVars, server, got, client>>
  BY Zenon DEF Callback, FireWritable, FireReadable, FireClosed, queueVars, clientVars, serverVars,
      authVars, idVars, trackVars, proxyVars, peerVars, clientSide, serverSide
<1>1. CASE FireWritable \/ FireReadable
  BY <1>0, <1>1, Unmoved, Zenon DEF FireWritable, FireReadable
<1>2. CASE FireClosed(FALSE)
  <2>1. state' \in Ending BY <1>2, Zenon DEF FireClosed, Ending
  <2> QED BY <1>0, <2>1, GivenUp, Zenon
<1> QED BY <1>1, <1>2, Zenon DEF Callback

\* A packet for the client when nothing else is on its way.
LEMMA Says ==
    ASSUME NEW p \in ToClient, NEW K, p.kind \in K,
           client_send = <<>>, client_in' = <<>>, client_out' = <<>>,
           client_send' = Append(client_send, p), p.id = client_next', client_ids'.last = p.id
    PROVE  ToldAlone(K)' /\ client_send'[1].kind = p.kind /\ ClientEnding'
<1>1. client_send' = <<p>> BY OfOne, Zenon
<1>2. client_send'[1] = p BY <1>1, OfOne, Zenon
<1>3. ToldAlone(K)' BY <1>1, Zenon DEF ToldAlone
<1>4. ClientEnding' BY <1>1, Zenon DEF ClientEnding
<1> QED BY <1>2, <1>3, <1>4, Zenon

LEMMA NewPacket ==
    ASSUME NEW k \in ServerKinds, NEW ids \in Sockets,
           ToClientNew(k, ids) \/ ToClientFinal(k, ids)
    PROVE  \E p \in ToClient :
              /\ p.kind = k /\ p.id = NewId(ids) /\ client_send' = Append(client_send, p)
              /\ client_ids'.last = p.id /\ (ToClientFinal(k, ids) => client_ids'.reset)
<1> DEFINE p == [kind |-> k, id |-> NewId(ids)]
<1>1. NewId(ids) \in Ids /\ queue_append(ids) \in Sockets BY SocketTypes, SmallIds, Zenon
<1>2. p \in ToClient /\ p.kind = k /\ p.id = NewId(ids) BY <1>1, Packed
<1>3. queue_append(ids).last = NewId(ids) BY SocketFields, Zenon DEF queue_append
<1>4. /\ queue_reset(queue_append(ids)).last = NewId(ids)
      /\ queue_reset(queue_append(ids)).reset = TRUE
  BY <1>1, <1>3, SocketFields, Zenon
<1>5. client_send' = Append(client_send, p) BY Zenon DEF ToClientNew, ToClientFinal
<1>6. client_ids'.last = p.id BY <1>2, <1>3, <1>4, Zenon DEF ToClientNew, ToClientFinal
<1>7. ToClientFinal(k, ids) => client_ids'.reset BY <1>4, Zenon DEF ToClientFinal
<1> HIDE DEF p
<1> QED BY <1>2, <1>5, <1>6, <1>7, Zenon

\* The client is told when all is heard of it.
LEMMA Answered ==
    ASSUME NEW k \in ServerKinds, NEW ids \in Sockets, NEW K, k \in K,
           ToClientNew(k, ids) \/ ToClientFinal(k, ids),
           client_send = <<>>, client_in' = <<>>, client_out' = <<>>, NewId(ids) = client_next'
    PROVE  /\ ToldAlone(K)' /\ client_send'[1].kind = k /\ ClientEnding'
           /\ client_ids'.last = client_next' /\ (ToClientFinal(k, ids) => client_ids'.reset)
<1>1. PICK p \in ToClient :
         /\ p.kind = k /\ p.id = NewId(ids) /\ client_send' = Append(client_send, p)
         /\ client_ids'.last = p.id /\ (ToClientFinal(k, ids) => client_ids'.reset)
  BY NewPacket, Zenon
<1> QED BY <1>1, Says, Zenon

LEMMA FireTimeoutStep == ASSUME AuthInv, FireTimeout PROVE Where'
<1>0. /\ event \in Armed /\ event' = "run"
      /\ UNCHANGED <<client, client_in, client_out, client_next, serverSide, trackVars, change_user, got>>
  BY Zenon DEF FireTimeout, clientVars, serverVars, serverSide, peerVars
<1>1. CASE state = "CONNECT_SERVER"
  <2>1. AtConnect BY <1>1, Zenon DEF AuthInv, Where
  <2>2. server' = "none" /\ UNCHANGED <<clientSide, state>>
    BY <1>0, <1>1, Zenon DEF FireTimeout, clientSide
  <2>3. AtConnect' BY <1>0, <2>1, <2>2, ClientSame, ServerSame, Zenon DEF AtConnect
  <2> QED BY <1>1, <2>2, <2>3, Zenon DEF Where, Ending
<1>2. CASE state = "SEND_AUTH"
  <2>1. AtSendAuth BY <1>2, Zenon DEF AuthInv, Where
  <2>2. ToClientFinal("ERR", client_ids) /\ state' = "SEND_AUTH_RESULT"
    BY <1>2, Zenon DEF FireTimeout
  <2>3. NewId(client_ids) = client_next' /\ client_ids \in Sockets
    BY <1>0, <2>1, Zenon DEF AtSendAuth, ClientHeard, NewId, AuthInv, TypeOK
  <2>4. "ERR" \in ServerKinds /\ "ERR" \in Verdict BY DEF ServerKinds, Verdict
  <2>5. client_send = <<>> /\ client_in' = <<>> /\ client_out' = <<>>
    BY <1>0, <2>1, Zenon DEF AtSendAuth, ClientHeard
  <2>6. ToldAlone(Verdict)' /\ client_send'[1].kind = "ERR" /\ client_ids'.reset
    BY <2>2, <2>3, <2>4, <2>5, Answered, Zenon
  <2>7. ServerEnding' BY <1>0, MayEnd, ServerSame, Zenon
  <2>8. result' = "OK" BY <1>0, <2>1, Zenon DEF AtSendAuth, Untracked, trackVars
  <2>9. AtSendAuthResult' BY <2>6, <2>7, <2>8, Zenon DEF AtSendAuthResult, Told
  <2> QED BY <2>2, <2>9, Zenon DEF Where, Ending
<1>3. CASE state \notin {"CONNECT_SERVER", "SEND_AUTH"}
  <2>1. state' = "ERROR" /\ UNCHANGED clientSide BY <1>0, <1>3, Zenon DEF FireTimeout, clientSide
  <2> QED BY <1>0, <2>1, GivenUp, Zenon DEF Ending
<1> QED BY <1>1, <1>2, <1>3, Zenon

\* A queue of one packet is written, or waits.
LEMMA OneWritten ==
    ASSUME NEW S, NEW s \in Seq(S), NEW p \in S
    PROVE  /\ s \o SubSeq(<<p>>, 1, 0) = s /\ SubSeq(<<p>>, 1, Len(<<p>>)) = <<p>>
           /\ s \o <<>> = s
<1>1. <<p>> \in Seq(S) /\ Len(<<p>>) = 1 OBVIOUS
<1>2. SubSeq(<<p>>, 1, 0) = <<>> BY <1>1, EmptyFits, CutEntries
<1>3. SubSeq(<<p>>, 1, Len(<<p>>)) = <<p>> BY <1>1, CutWhole, Zenon
<1>4. s \o <<>> = s BY JoinedToNone, Zenon
<1> QED BY <1>2, <1>3, <1>4

LEMMA ClientWrites ==
    ASSUME TypeOK, NEW p \in ToClient, client_send = <<p>>, ClientWriteWaits
    PROVE  UNCHANGED <<client_in, client_send, state>>
<1>1. PICK n \in 0..(Len(client_send) - 1) :
         /\ client_in' = client_in \o SubSeq(client_send, 1, n)
         /\ client_send' = SubSeq(client_send, n + 1, Len(client_send))
  BY Zenon DEF ClientWriteWaits
<1>2. Len(client_send) = 1 BY OfOne, Zenon
<1>3. n = 0 BY <1>2
<1>4. n + 1 = 1 BY <1>3
<1>5. client_in \in Seq(ToClient) BY DEF TypeOK
<1>6. client_in' = client_in \o SubSeq(<<p>>, 1, 0) /\ client_send' = SubSeq(<<p>>, 1, Len(<<p>>))
  BY <1>1, <1>3, <1>4, Zenon
<1> QED BY <1>5, <1>6, OneWritten, Zenon DEF ClientWriteWaits, WaitFor

LEMMA ServerWrites ==
    ASSUME TypeOK, NEW p \in ToServer, server_send = <<p>>, ServerWriteWaits
    PROVE  UNCHANGED <<server_in, server_send, state>>
<1>1. PICK n \in 0..(Len(server_send) - 1) :
         /\ server_in' = server_in \o SubSeq(server_send, 1, n)
         /\ server_send' = SubSeq(server_send, n + 1, Len(server_send))
  BY Zenon DEF ServerWriteWaits
<1>2. Len(server_send) = 1 BY OfOne, Zenon
<1>3. n = 0 BY <1>2
<1>4. n + 1 = 1 BY <1>3
<1>5. server_in \in Seq(ToServer) BY DEF TypeOK
<1>6. server_in' = server_in \o SubSeq(<<p>>, 1, 0) /\ server_send' = SubSeq(<<p>>, 1, Len(<<p>>))
  BY <1>1, <1>3, <1>4, Zenon
<1> QED BY <1>5, <1>6, OneWritten, Zenon DEF ServerWriteWaits, WaitFor
-----------------------------------------------------------------------------
(***************************************************************************)
(* The states of con_handle(), one by one.                                 *)
(***************************************************************************)
LEMMA ConInitStep == ASSUME AuthInv, ConInit PROVE Where'
<1>1. UNCHANGED <<clientSide, serverSide, trackVars, change_user, untried, server, event, client>>
      /\ state' = "CONNECT_SERVER"
  BY Zenon DEF ConInit, Goto, queueVars, clientVars, serverVars, authVars, idVars, proxyVars, peerVars,
        clientSide, serverSide
<1>2. AtConnect BY Zenon DEF AuthInv, Where, ConInit, At
<1>3. AtConnect' BY <1>1, <1>2, ClientSame, ServerSame, Zenon DEF AtConnect
<1> QED BY <1>1, <1>3, Zenon DEF Where, Ending

LEMMA ConnectServerStep ==
    ASSUME AuthInv, ConnectServer PROVE Where' /\ (server' = "pooled" => Scripted)
<1>0. /\ AtConnect /\ event = "run" /\ client_ids \in Sockets
      /\ UNCHANGED <<server_send, client, client_in, client_out, server_out, server_in, server_ids,
                     trackVars, change_user, client_next, server_next>>
  BY Zenon DEF AuthInv, Where, ConnectServer, At, clientVars, TypeOK
<1>1. NewId(client_ids) = 0 /\ client_next' = 0 /\ client_send = <<>> /\ client_in' = <<>>
      /\ client_out' = <<>>
  <2>1. client_ids.reset = TRUE BY <1>0, SocketFields, Zenon DEF AtConnect, ClientNew
  <2> QED BY <1>0, <2>1, Zenon DEF AtConnect, ClientNew, NewId
<1>2. ASSUME UNCHANGED client_send, UNCHANGED client_ids PROVE ClientNew'
  BY <1>0, <1>2, ClientSame, Zenon DEF AtConnect, clientSide
<1>3. Untracked' /\ ~change_user'
  <2>1. Untracked' BY <1>0, Zenon DEF AtConnect, Untracked, trackVars
  <2> QED BY <1>0, <2>1, Zenon DEF AtConnect
<1>4. ASSUME UNCHANGED session PROVE ServerNew'
  BY <1>0, <1>4, ServerSame, Zenon DEF AtConnect, serverSide
<1>5. CASE Connected
  <2>1. ServerGreeting' BY <1>0, <1>4, <1>5, Zenon DEF Connected, ServerGreeting, ServerNew, ServerQuiet
  <2>2. AtReadHandshake' BY <1>2, <1>3, <1>5, <2>1, Zenon DEF AtReadHandshake, Connected
  <2> QED BY <1>5, <2>2, Zenon DEF Where, Ending, Connected, Goto
<1>6. CASE ConnectFailed
  <2>1. AtConnect' BY <1>0, <1>2, <1>3, <1>4, <1>6, Zenon DEF AtConnect, ConnectFailed, Stay
  <2> QED BY <1>6, <2>1, Zenon DEF Where, Ending, ConnectFailed, Stay, ConnectServer, At
<1>7. CASE ConnectPending /\ untried > 0
  <2>1. AtConnect'
    <3>1. untried' = untried /\ untried' > 0 BY <1>7 DEF ConnectPending
    <3> QED BY <1>2, <1>3, <1>4, <1>7, <3>1, Zenon DEF AtConnect, ConnectPending
  <2> QED BY <1>7, <2>1, Zenon DEF Where, Ending, ConnectPending, WaitFor, ConnectServer, At
<1>8. CASE ConnectAnswered /\ server = "none"
  <2>1. PICK k \in {"ERR", "CHALLENGE"} : ToClientFinal(k, client_ids)
    BY <1>8, Zenon DEF ConnectAnswered
  <2>2. k \in ServerKinds /\ k \in Challenges BY DEF ServerKinds, Challenges
  <2>3. ToldAlone(Challenges)' /\ client_ids'.last = 0
    BY <1>0, <1>1, <2>1, <2>2, Answered, Zenon
  <2>4. ServerOpen' BY <1>4, <1>8, Zenon DEF ConnectAnswered, ServerOpen
  <2>5. AtSendHandshake' BY <1>3, <2>3, <2>4, Zenon DEF AtSendHandshake
  <2> QED BY <1>8, <2>5, Zenon DEF Where, Ending, ConnectAnswered, Goto
<1>9. CASE ConnectPooled
  <2>1. "CHALLENGE" \in ServerKinds /\ "CHALLENGE" \in Challenges BY DEF ServerKinds, Challenges
  <2>2. ToldAlone(Challenges)' /\ client_ids'.last = 0
    BY <1>0, <1>1, <1>9, <2>1, Answered, Zenon DEF ConnectPooled
  <2>3. ServerOpen'
    BY <1>0, <1>9, Zenon DEF ConnectPooled, ServerOpen, AtConnect, ServerNew, ServerQuiet
  <2>4. AtSendHandshake' BY <1>3, <2>2, <2>3, Zenon DEF AtSendHandshake
  <2> QED BY <1>9, <2>4, Zenon DEF Where, Ending, ConnectPooled, Goto
<1>10. CASE AllBackendsDown
  <2>1. "ERR" \in ServerKinds BY DEF ServerKinds
  <2>2. ClientEnding' BY <1>0, <1>1, <1>10, <2>1, Answered, Zenon DEF AllBackendsDown
  <2>3. ServerEnding'
    BY <1>4, <1>10, Zenon DEF AllBackendsDown, ServerNew, ServerQuiet, ServerEnding
  <2>4. AtEnding' /\ state' = "SEND_ERROR"
    BY <1>10, <2>2, <2>3, Zenon DEF AllBackendsDown, Goto, AtEnding
  <2>5. server' # "pooled" BY <1>0, <1>10, Zenon DEF AtConnect, AllBackendsDown
  <2> QED BY <2>4, <2>5, Zenon DEF Where, Ending
<1> QED BY <1>5, <1>6, <1>7, <1>8, <1>9, <1>10, Zenon DEF ConnectServer

LEMMA ReadHandshakeStep == ASSUME AuthInv, ReadHandshake PROVE Where'
<1>0. /\ AtReadHandshake /\ state = "READ_HANDSHAKE" /\ client_ids \in Sockets
      /\ UNCHANGED <<server, server_send, client, client_in, client_out, server_in, trackVars, proxyVars,
                     session, got, client_next, server_next>>
  BY Zenon DEF AuthInv, Where, ReadHandshake, At, clientVars, TypeOK, peerVars
<1>1. CASE ServerSilent /\ UNCHANGED <<client_send, server_out, idVars>>
  BY <1>0, <1>1, Unmoved, Zenon DEF ServerSilent, WaitFor, idVars, clientSide, serverSide
<1>2. CASE ServerReadFails /\ UNCHANGED <<client_send, server_out, idVars>>
  BY <1>0, <1>2, GivenUp, Zenon DEF ServerReadFails, Goto, idVars, clientSide, serverSide, Ending
<1>3. CASE /\ ServerPacket /\ server_out' = Tail(server_out)
           /\ server_ids' = get_packet(server_ids, Head(server_out).id)
           /\ proxy_read_handshake(Head(server_out))
  <2>1. PICK g \in ToClient : /\ server_out = <<g>> /\ g.id = 0 /\ server_next = 1
                              /\ session = IF g.kind = "ERR" THEN "denied" ELSE "greeted"
    BY <1>0, <1>3, Zenon DEF AtReadHandshake, ServerGreeting, ServerPacket
  <2>2. Head(server_out) = g /\ server_out' = <<>> BY <1>3, <2>1, OfOne
  <2>3. server_ids' = Numbered(0) BY <1>3, <2>1, <2>2, SocketFields, Zenon
  <2>4. /\ client_send = <<>> /\ client_in' = <<>> /\ client_out' = <<>> /\ client_next' = 0
        /\ client_ids = NewSocket
    BY <1>0, Zenon DEF AtReadHandshake, ClientNew
  <2>5. NewId(client_ids) = 0 /\ RawId(client_ids, g.id) = 0
    BY <2>1, <2>4, SocketFields, Zenon DEF NewId, RawId
  <2>6. ServerEnding'
    BY <1>0, Zenon DEF AtReadHandshake, ServerGreeting, ServerEnding
  <2>7. "ERR" \in ServerKinds /\ "CHALLENGE" \in ServerKinds /\ "CHALLENGE" \in Challenges
    BY DEF ServerKinds, Challenges
  <2>8. CASE ToClientRaw(g) /\ state' = "SEND_ERROR"
    <3>1. /\ [g EXCEPT !.id = 0] \in ToClient /\ [g EXCEPT !.id = 0].id = 0
          /\ client_send' = Append(client_send, [g EXCEPT !.id = 0])
      BY <2>5, <2>8, Renumbered, SmallIds, Zenon DEF ToClientRaw
    <3>2. client_ids'.last = 0
      BY <2>5, <2>8, SocketFields, Zenon DEF ToClientRaw, queue_append_raw
    <3>3. ClientEnding'
      <4> DEFINE h == [g EXCEPT !.id = 0]
      <4> HIDE DEF h
      <4> QED BY <2>4, <3>1, <3>2, Says, Zenon DEF h
    <3> QED BY <2>6, <2>8, <3>3, Zenon DEF Where, Ending, AtEnding
  <2>9. CASE UNCHANGED <<client_send, client_ids>> /\ state' = "SEND_ERROR"
    <3>1. ClientEnding' BY <2>4, <2>9, Zenon DEF ClientEnding
    <3> QED BY <2>6, <2>9, <3>1, Zenon DEF Where, Ending, AtEnding
  <2>10. CASE ToClientFinal("ERR", client_ids) /\ state' = "SEND_ERROR"
    <3>1. ClientEnding' BY <1>0, <2>4, <2>5, <2>7, <2>10, Answered, Zenon
    <3> QED BY <2>6, <2>10, <3>1, Zenon DEF Where, Ending, AtEnding
  <2>11. CASE /\ g.kind = "CHALLENGE" /\ state' = "SEND_HANDSHAKE"
              /\ ToClientNew("CHALLENGE", queue_sync(client_ids, server_ids'))
    <3>1. queue_sync(client_ids, server_ids') \in Sockets /\ NewId(queue_sync(client_ids, server_ids')) = 0
      <4>1. server_ids'.last = 0 /\ client_ids.reset = TRUE BY <2>3, <2>4, SocketFields, Zenon
      <4>2. Pred(server_ids'.last) \in Ids BY <4>1, SmallIds, Successors
      <4>3. ASSUME NEW s \in Sockets, NEW i \in Ids
            PROVE  [s EXCEPT !.last = i] \in Sockets /\ [s EXCEPT !.last = i].reset = s.reset
        BY DEF Sockets
      <4>4. /\ queue_sync(client_ids, server_ids') \in Sockets
            /\ queue_sync(client_ids, server_ids').reset = client_ids.reset
        BY <1>0, <4>2, <4>3, Zenon DEF queue_sync
      <4> QED BY <4>1, <4>4, Zenon DEF NewId
    <3>2. ToldAlone(Challenges)' /\ client_ids'.last = 0
      BY <2>4, <2>7, <2>11, <3>1, Answered, Zenon
    <3>3. ServerOpen'
      <4>1. server = "plain" /\ server_in = <<>> /\ server_send = <<>>
        BY <1>0, Zenon DEF AtReadHandshake, ServerGreeting
      <4>2. session = "greeted" BY <2>1, <2>11
      <4> QED BY <1>0, <2>1, <2>2, <2>3, <4>1, <4>2, Zenon DEF ServerOpen, ServerQuiet
    <3>4. Untracked' /\ ~change_user'
      <4>1. Untracked' BY <1>0, Zenon DEF AtReadHandshake, Untracked, trackVars
      <4> QED BY <1>0, <4>1, Zenon DEF AtReadHandshake, proxyVars
    <3>5. AtSendHandshake' BY <3>2, <3>3, <3>4, Zenon DEF AtSendHandshake
    <3> QED BY <2>11, <3>5, Zenon DEF Where, Ending
  <2> QED BY <1>3, <2>2, <2>8, <2>9, <2>10, <2>11, Zenon DEF proxy_read_handshake, Goto
<1> QED BY <1>1, <1>2, <1>3, Zenon DEF ReadHandshake

LEMMA SendHandshakeStep == ASSUME AuthInv, SendHandshake PROVE Where'
<1>0. /\ AtSendHandshake /\ state = "SEND_HANDSHAKE" /\ TypeOK
      /\ UNCHANGED <<client, client_out, client_ids, client_next, got, serverSide, trackVars, proxyVars,
                     server>>
  BY Zenon DEF AuthInv, Where, SendHandshake, At, serverVars, authVars, idVars, peerVars, serverSide
<1>1. PICK p \in ToClient : /\ client_send = <<p>> /\ p.kind \in Challenges
                            /\ p.id = client_next /\ p.id = client_ids.last
                            /\ client_in = <<>> /\ client_out = <<>>
  BY <1>0, Zenon DEF AtSendHandshake, ToldAlone
<1>2. CASE ClientWritten /\ Goto("READ_AUTH")
  <2>1. client_in' = <<p>> /\ client_send' = <<>> BY <1>1, <1>2, OfOne, Zenon DEF ClientWritten
  <2>2. ClientTurn(Challenges, {"AUTH", "BAD", "OLD", "LONG"})'
    BY <1>0, <1>1, <2>1, Zenon DEF ClientTurn
  <2>3. ~change_user' BY <1>0, Zenon DEF AtSendHandshake, proxyVars
  <2>4. AtReadAuth' BY <1>0, <2>2, <2>3, ServerSame, Zenon DEF AtSendHandshake, AtReadAuth
  <2> QED BY <1>2, <2>4, Zenon DEF Where, Ending, Goto
<1>3. CASE ClientWriteWaits
  <2>1. UNCHANGED <<client_in, client_send, state>> BY <1>0, <1>1, <1>3, ClientWrites, Zenon
  <2>2. UNCHANGED clientSide BY <1>0, <2>1, Zenon DEF clientSide
  <2> QED BY <1>0, <2>1, <2>2, Unmoved, Zenon
<1>4. CASE ClientWriteFails
  BY <1>0, <1>4, GivenUp, Zenon DEF ClientWriteFails, Goto, clientSide, Ending
<1> QED BY <1>2, <1>3, <1>4, Zenon DEF SendHandshake

\* The client's answer is heard, and the client waits for the next packet.
LEMMA Heard ==
    ASSUME TypeOK, NEW K, NEW A, ClientTurn(K, A), ClientPacket, client_out' = Tail(client_out),
           UNCHANGED <<client_in, client_next>>
    PROVE  LET a == Head(client_out) IN
           /\ a \in FromClient /\ a \in ToServer /\ a.id \in Ids /\ a.kind \in A
           /\ a.id = Succ(client_ids.last) /\ client_next' = Succ(a.id)
           /\ client_send = <<>> /\ client_in' = <<>> /\ client_out' = <<>>
           /\ get_packet(client_ids, a.id) = Numbered(a.id) /\ Numbered(a.id) \in Sockets
           /\ NewId(Numbered(a.id)) = Succ(a.id)
<1>1. PICK a \in FromClient : /\ client_out = <<a>> /\ a.kind \in A /\ client_in = <<>>
                              /\ a.id = Succ(client_ids.last) /\ client_next = Succ(a.id)
  BY Zenon DEF ClientTurn, ClientPacket
<1>2. Head(client_out) = a /\ client_out' = <<>> BY <1>1, OfOne
<1>3. a.id \in Ids /\ a \in ToServer BY Packed, Zenon
<1>4. NewId(Numbered(a.id)) = Succ(a.id) BY SocketFields, Zenon DEF NewId
<1>5. client_send = <<>> BY Zenon DEF ClientTurn
<1>6. Numbered(a.id) \in Sockets BY <1>3, SocketFields, SocketTypes, Zenon
<1> QED BY <1>1, <1>2, <1>3, <1>4, <1>5, <1>6, SocketFields, Zenon

\* A packet for the server when nothing else is on its way.
LEMMA Asked ==
    ASSUME NEW q \in ToServer, server_send = <<>>, server_in' = <<>>, server_out' = <<>>,
           server_send' = Append(server_send, q), server_ids' = Numbered(q.id), Asks(q)'
    PROVE  ServerAsk' /\ ServerEnding'
<1>1. server_send' = <<q>> BY OfOne, Zenon
<1>2. server_ids'.last = q.id /\ server_ids'.reset = FALSE BY SocketFields, Zenon
<1>3. ServerAsk' BY <1>1, <1>2, Zenon DEF ServerAsk
<1>4. ServerEnding' BY Zenon DEF ServerEnding
<1> QED BY <1>3, <1>4

LEMMA ReadAuthStep == ASSUME AuthInv, ReadAuth PROVE Where'
<1>0. /\ AtReadAuth /\ state = "READ_AUTH" /\ client_ids \in Sockets /\ server_ids \in Sockets /\ TypeOK
      /\ UNCHANGED <<server, client, client_in, server_out, server_in, trackVars, untried, session, got,
                     client_next, server_next>>
  BY Zenon DEF AuthInv, Where, ReadAuth, At, serverVars, TypeOK, peerVars
<1>1. CASE ClientSilent /\ UNCHANGED <<queueVars, client_out, idVars, change_user>>
  BY <1>0, <1>1, Unmoved, Zenon DEF ClientSilent, WaitFor, idVars, queueVars, clientSide, serverSide, proxyVars
<1>2. CASE Goto("ERROR") /\ UNCHANGED <<queueVars, client_out, idVars, change_user>>
  BY <1>0, <1>2, GivenUp, Zenon DEF Goto, queueVars, idVars, clientSide, serverSide, Ending
<1>3. CASE /\ ClientPacket /\ client_out' = Tail(client_out)
           /\ proxy_read_auth(Head(client_out), get_packet(client_ids, Head(client_out).id))
  <2> DEFINE a == Head(client_out)
             ids == Numbered(a.id)
  <2>1. /\ a \in FromClient /\ a \in ToServer /\ a.id \in Ids
        /\ a.id = Succ(client_ids.last) /\ client_next' = Succ(a.id)
        /\ client_send = <<>> /\ client_in' = <<>> /\ client_out' = <<>>
        /\ get_packet(client_ids, a.id) = ids /\ ids \in Sockets /\ NewId(ids) = Succ(a.id)
    BY <1>0, <1>3, Heard, Zenon DEF AtReadAuth
  <2>2. proxy_read_auth(a, ids) BY <1>3, <2>1, Zenon
  <2>3. a.id = 1 BY <1>0, <2>1, SmallIds, Zenon DEF AtReadAuth
  <2> HIDE DEF a
  <2>4. ids.last = 1 /\ ids.reset = FALSE BY <2>3, SocketFields, Zenon
  <2> HIDE DEF ids
  <2>5. server_in = <<>> /\ server_out = <<>> /\ server_send = <<>> /\ ServerEnding'
    BY <1>0, Zenon DEF AtReadAuth, ServerOpen, ServerNew, ServerQuiet, ServerEnding
  <2>6. \A k \in {"OK", "ERR"} : k \in ServerKinds /\ k \in Verdict BY DEF ServerKinds, Verdict
  <2>7. Untracked' /\ result' = "OK" BY <1>0, Zenon DEF AtReadAuth, Untracked, trackVars
  <2>8. ASSUME NEW k \in {"OK", "ERR"}, ToClientFinal(k, ids), state' = "SEND_AUTH_RESULT",
               k = "OK" => ServerReady'
        PROVE  Where'
    <3>1. ToldAlone(Verdict)' /\ client_send'[1].kind = k /\ client_ids'.reset
      BY <2>1, <2>6, <2>8, Answered, Zenon
    <3>2. AtSendAuthResult' BY <2>5, <2>7, <2>8, <3>1, Zenon DEF AtSendAuthResult, Told
    <3> QED BY <2>8, <3>2, Zenon DEF Where, Ending
  <2>9. ASSUME client_ids' = ids, UNCHANGED client_send, state' = "SEND_AUTH", NEW q \in ToServer,
               server_send' = Append(server_send, q), server_ids' = Numbered(q.id), Asks(q)',
               server' \in {"plain", "pooled"}, change_user' = (server' = "pooled"),
               server' = "plain" => q.id = 1, session' \in {"greeted", "authed"}
        PROVE  Where'
    <3>1. ServerAsk' BY <1>0, <2>5, <2>9, Asked, Zenon
    <3>2. ClientHeard' BY <2>1, <2>3, <2>4, <2>9, Zenon DEF ClientHeard
    <3>3. server_ids'.last = q.id BY <2>9, SocketFields, Zenon
    <3>4. InStep' BY <2>4, <2>9, <3>3, Zenon DEF InStep
    <3>5. AtSendAuth' BY <2>7, <2>9, <3>1, <3>2, <3>4, Zenon DEF AtSendAuth
    <3> QED BY <2>9, <3>5, Zenon DEF Where, Ending
  <2>10. CASE ReadAuthRefused(a, ids)
    <3>1. ClientEnding'
      <4>1. CASE client_ids' = ids /\ UNCHANGED client_send BY <2>1, <4>1, Zenon DEF ClientEnding
      <4>2. CASE ToClientNew("ERR", ids) \/ ToClientFinal("ERR", ids)
        BY <2>1, <2>6, <4>2, Answered, Zenon
      <4> QED BY <2>10, <4>1, <4>2, Zenon DEF ReadAuthRefused
    <3> QED BY <2>5, <2>10, <3>1, Zenon DEF ReadAuthRefused, Goto, Where, Ending, AtEnding
  <2>11. CASE ReadAuthAnswer(ids) \/ ReadAuthNoServer(ids)
    <3>1. PICK k \in {"OK", "ERR"} :
             (k = "OK" => ~HasServer) /\ ToClientFinal(k, ids) /\ state' = "SEND_AUTH_RESULT"
             /\ UNCHANGED server_send
      BY <2>11, Zenon DEF ReadAuthAnswer, ReadAuthNoServer, Goto
    <3>2. k = "OK" => ServerReady' BY <1>0, <2>5, <3>1, Zenon DEF ServerReady, HasServer
    <3> QED BY <2>8, <3>1, <3>2, Zenon
  <2>12. CASE ReadAuthCompare(ids)
    <3>1. PICK k \in {"OK", "ERR"} : ToClientFinal(k, ids)
      BY <2>12, Zenon DEF ReadAuthCompare
    <3>2. server_ids'.reset BY <1>0, <2>12, SocketFields, Zenon DEF ReadAuthCompare
    <3>3. session = "authed"
      BY <1>0, <2>12, Zenon DEF ReadAuthCompare, AtReadAuth, ServerOpen
    <3>4. ServerReady'
      BY <1>0, <2>5, <2>12, <3>2, <3>3, Zenon DEF ServerReady, ReadAuthCompare
    <3> QED BY <2>8, <2>12, <3>1, <3>4, Zenon DEF ReadAuthCompare, Goto
  <2>13. CASE ReadAuthInject(ids) \/ (a.kind = "AUTH" /\ ReadAuthForward(a, ids))
    <3>1. /\ server = "plain" /\ session = "greeted" /\ server_next = 1 /\ server_ids = Numbered(0)
      BY <1>0, <2>13, Zenon DEF AtReadAuth, ServerOpen, ReadAuthInject, ReadAuthForward
    <3>2. server_ids.reset = FALSE /\ server_ids.last = 0 BY <3>1, SocketFields, Zenon
    <3>3. NewId(server_ids) = 1 /\ RawId(server_ids, a.id) = 1
      BY <3>2, SmallIds, Zenon DEF NewId, RawId
    <3>4. PICK q \in ToServer : /\ server_send' = Append(server_send, q) /\ q.id = 1 /\ q.kind = "AUTH"
                                /\ server_ids' = Numbered(1)
      <4>1. CASE ToServerNew("AUTH")
        <5>1. /\ [kind |-> "AUTH", id |-> 1] \in ToServer /\ [kind |-> "AUTH", id |-> 1].id = 1
              /\ [kind |-> "AUTH", id |-> 1].kind = "AUTH"
          BY Packed, SmallIds DEF ClientKinds
        <5> QED BY <3>3, <4>1, <5>1, Zenon DEF ToServerNew, queue_append
      <4>2. CASE a.kind = "AUTH" /\ ToServerRaw(a)
        <5>1. /\ [a EXCEPT !.id = 1] \in ToServer /\ [a EXCEPT !.id = 1].id = 1
              /\ [a EXCEPT !.id = 1].kind = "AUTH"
          BY <2>1, <4>2, Renumbered, SmallIds, Zenon
        <5> QED BY <3>3, <4>2, <5>1, Zenon DEF ToServerRaw, queue_append_raw
      <4> QED BY <2>13, <4>1, <4>2, Zenon DEF ReadAuthInject, ReadAuthForward
    <3>5. Asks(q)' BY <1>0, <3>1, <3>4 DEF Asks, Expected
    <3>6. change_user' = (server' = "pooled")
      BY <1>0, <2>13, <3>1 DEF AtReadAuth, ReadAuthInject, ReadAuthForward, TypeOK
    <3>7. client_ids' = ids /\ UNCHANGED client_send /\ state' = "SEND_AUTH"
      BY <2>13, Zenon DEF ReadAuthInject, ReadAuthForward, Goto
    <3> QED BY <1>0, <2>9, <3>1, <3>4, <3>5, <3>6, <3>7, Zenon
  <2>14. CASE ReadAuthChangeUser(ids)
    <3>1. /\ server = "pooled" /\ session = "authed" /\ server_next = 0 /\ server_ids = NewSocket
      BY <1>0, <2>14, Zenon DEF AtReadAuth, ServerOpen, ReadAuthChangeUser
    <3>2. NewId(server_ids) = 0 BY <3>1, SocketFields, Zenon DEF NewId
    <3> DEFINE q == [kind |-> "CHANGE_USER", id |-> 0]
    <3>3. q \in ToServer /\ q.id = 0 /\ q.kind = "CHANGE_USER" BY Packed, SmallIds
    <3>4. server_send' = Append(server_send, q) /\ server_ids' = Numbered(0)
      BY <2>14, <3>2, Zenon DEF ReadAuthChangeUser, ToServerNew, queue_append
    <3> HIDE DEF q
    <3>5. Asks(q)' BY <1>0, <3>1, <3>3 DEF Asks, Expected
    <3>6. /\ change_user' = (server' = "pooled") /\ client_ids' = ids /\ UNCHANGED client_send
          /\ state' = "SEND_AUTH"
      BY <1>0, <2>14, <3>1, Zenon DEF ReadAuthChangeUser, Goto
    <3> QED BY <1>0, <2>9, <3>1, <3>3, <3>4, <3>5, <3>6, Zenon
  <2> QED BY <2>2, <2>10, <2>11, <2>12, <2>13, <2>14, Zenon DEF proxy_read_auth
<1> QED BY <1>1, <1>2, <1>3, Zenon DEF ReadAuth

\* The server gets what it was asked, after either state that asks it.
LEMMA SendToServerStep == ASSUME AuthInv, SendAuth \/ SendAuthOldPassword PROVE Where'
<1>0. /\ TypeOK /\ ClientHeard /\ ServerAsk /\ InStep /\ ~next_from_server
      /\ session = "win" => method = "win"
      /\ state \notin {"INIT", "CONNECT_SERVER", "READ_QUERY"}
      /\ UNCHANGED <<clientSide, client, server, server_out, server_ids, server_next, session, trackVars,
                     proxyVars, got>>
  <2>1. AtSendAuth \/ AtSendOld
    BY Zenon DEF AuthInv, Where, SendAuth, SendAuthOldPassword, At
  <2>2. /\ ClientHeard /\ ServerAsk /\ InStep /\ ~next_from_server /\ (session = "win" => method = "win")
    BY <2>1, Zenon DEF AtSendAuth, AtSendOld, Untracked
  <2> QED BY <2>2, Zenon DEF AuthInv, SendAuth, SendAuthOldPassword, At, clientVars, authVars, idVars,
             peerVars, clientSide
<1>1. PICK q \in ToServer : /\ server_send = <<q>> /\ Asks(q) /\ q.id = server_ids.last
                            /\ server_in = <<>> /\ server_out = <<>> /\ ~server_ids.reset
  BY <1>0, Zenon DEF ServerAsk
<1>2. CASE ServerWritten /\ Goto("READ_AUTH_RESULT")
  <2>1. server_in' = <<q>> /\ server_send' = <<>> BY <1>1, <1>2, OfOne, Zenon DEF ServerWritten
  <2>2. Asks(q)' BY <1>0, <1>1, Zenon DEF Asks, Expected
  <2>3. next_from_server' = next_from_server /\ method' = method BY <1>0, Zenon DEF trackVars
  <2>4. ServerWork' BY <1>0, <1>1, <2>1, <2>2, <2>3, Zenon DEF ServerWork
  <2>5. InStep' BY <1>0, Zenon DEF InStep, clientSide, proxyVars
  <2>6. AtReadAuthResult' BY <1>0, <2>3, <2>4, <2>5, ClientSame, Zenon DEF AtReadAuthResult
  <2> QED BY <1>2, <2>6, Zenon DEF Where, Ending, Goto
<1>3. CASE ServerWriteWaits
  <2>1. UNCHANGED <<server_in, server_send, state>> BY <1>0, <1>1, <1>3, ServerWrites, Zenon
  <2>2. UNCHANGED serverSide BY <1>0, <2>1, Zenon DEF serverSide
  <2> QED BY <1>0, <2>1, <2>2, Unmoved, Zenon
<1>4. CASE ServerWriteFails
  BY <1>0, <1>4, GivenUp, Zenon DEF ServerWriteFails, Goto, serverSide, Ending
<1> QED BY <1>2, <1>3, <1>4, Zenon DEF SendAuth, SendAuthOldPassword

\* authentication_windows_client meets no script.
LEMMA WinAlone == ASSUME Separate, TypeOK, WinAuth PROVE ~Scripted
BY Zenon DEF Separate, TypeOK, WinAuth, Scripted

\* What the packets of the server are tracked as.
LEMMA Tracked ==
    ASSUME NEW k \in ServerKinds, track_auth_result_state(k)
    PROVE  /\ k = "OK" => result' = "OK"
           /\ k = "ERR" => result' = "ERR"
           /\ k \in {"SWITCH_WIN", "SWITCH_OTHER"} => result' = "EOF" /\ next_from_server' = FALSE
           /\ k = "SWITCH_WIN" => method' = "win"
           /\ k = "SWITCH_OTHER" => method' = "other"
           /\ k \notin {"SWITCH_WIN", "SWITCH_OTHER"} => method' = method
           /\ k \in {"MORE", "DONE"} => result' = "0x01"
           /\ k = "MORE" => next_from_server' = next_from_server
           /\ k = "DONE" /\ method = "win" => next_from_server' = TRUE
BY Zenon DEF track_auth_result_state

\* How a packet of the server is passed on, or replaced by the script.
LEMMA PassedOn ==
    ASSUME NEW r \in ToClient, proxy_read_auth_result(r), client_ids \in Sockets, server_ids \in Sockets
    PROVE  /\ \E p \in ToClient :
                 /\ client_send' = Append(client_send, p) /\ client_ids'.last = p.id /\ client_ids'.reset
                 /\ \/ p.kind = r.kind
                    \/ p.kind = "ERR" /\ r.kind \in {"OK", "ERR"} /\ Scripted
                 /\ ~client_ids.reset => p.id = Succ(client_ids.last)
                 /\ server # "pooled" /\ ~Scripted /\ client_ids.reset => p.id = r.id
           /\ server_ids'.last = r.id /\ server_ids'.reset
           /\ state' = "SEND_AUTH_RESULT"
           /\ \/ server' = server
              \/ server' = "none" /\ r.kind \in {"OK", "SWITCH_OTHER"} /\ Scripted
<1>0. r.id \in Ids /\ r.kind \in ServerKinds BY Packed, Zenon
<1>1. server_ids'.last = r.id /\ server_ids'.reset = TRUE
  <2>1. Numbered(r.id) \in Sockets /\ Numbered(r.id).last = r.id BY <1>0, SocketTypes, SocketFields, Zenon
  <2>2. server_ids' = queue_reset(Numbered(r.id)) BY Zenon DEF proxy_read_auth_result, get_packet
  <2> QED BY <2>1, <2>2, SocketFields, Zenon
<1>2. CASE /\ client_send' = Append(client_send, [r EXCEPT !.id = RawId(client_ids, CorrectedId(r).id)])
           /\ client_ids' = queue_reset(queue_append_raw(client_ids, CorrectedId(r).id))
  <2> DEFINE i == RawId(client_ids, CorrectedId(r).id)
             p == [r EXCEPT !.id = i]
  <2>1. CorrectedId(r).id \in Ids /\ (server # "pooled" => CorrectedId(r).id = r.id)
    BY <1>0, Renumbered, SmallIds, Zenon DEF CorrectedId
  <2>2. i \in Ids BY <2>1, SocketTypes, Zenon
  <2>3. p \in ToClient /\ p.kind = r.kind /\ p.id = i BY <2>2, Renumbered, Zenon
  <2>4. ~client_ids.reset => i = Succ(client_ids.last) BY Zenon DEF RawId
  <2>5. server # "pooled" /\ client_ids.reset => i = r.id BY <2>1, Zenon DEF RawId
  <2>6. Numbered(i) \in Sockets /\ Numbered(i).last = i BY <2>2, SocketTypes, SocketFields, Zenon
  <2>7. client_ids' = queue_reset(Numbered(i)) BY <1>2, Zenon DEF queue_append_raw
  <2>8. client_ids'.last = i /\ client_ids'.reset = TRUE BY <2>6, <2>7, SocketFields, Zenon
  <2>9. client_send' = Append(client_send, p) BY <1>2
  <2> HIDE DEF i, p
  <2>10. \E x \in ToClient :
            /\ client_send' = Append(client_send, x) /\ client_ids'.last = x.id /\ client_ids'.reset
            /\ x.kind = r.kind /\ (~client_ids.reset => x.id = Succ(client_ids.last))
            /\ (server # "pooled" /\ ~Scripted /\ client_ids.reset => x.id = r.id)
    BY <2>3, <2>4, <2>5, <2>8, <2>9, Zenon
  <2> QED BY <1>1, <2>10, Zenon DEF proxy_read_auth_result, Goto
<1>3. CASE Scripted /\ r.kind \in {"OK", "ERR"} /\ ToClientFinal("ERR", client_ids)
  <2>1. "ERR" \in ServerKinds BY DEF ServerKinds
  <2>2. PICK p \in ToClient :
           /\ p.kind = "ERR" /\ p.id = NewId(client_ids) /\ client_send' = Append(client_send, p)
           /\ client_ids'.last = p.id /\ client_ids'.reset
    BY <1>3, <2>1, NewPacket, Zenon
  <2>3. ~client_ids.reset => p.id = Succ(client_ids.last) BY <2>2, Zenon DEF NewId
  <2> QED BY <1>1, <1>3, <2>2, <2>3, Zenon DEF proxy_read_auth_result, Goto
<1> QED BY <1>2, <1>3, Zenon DEF proxy_read_auth_result

LEMMA ReadAuthResultStep ==
    ASSUME Separate, AuthInv, ReadAuthResult
    PROVE  /\ Where' /\ (method' = "win" => WinAuth)
           /\ server' = "pooled" => Scripted
<1>0. /\ AtReadAuthResult /\ state = "READ_AUTH_RESULT" /\ TypeOK
      /\ client_ids \in Sockets /\ server_ids \in Sockets
      /\ UNCHANGED <<server_send, client, client_in, client_out, server_in, proxyVars, session, got,
                     client_next, server_next>>
  BY Zenon DEF AuthInv, Where, ReadAuthResult, At, clientVars, TypeOK, peerVars
<1>1. /\ method = "win" \/ session = "win" => WinAuth
      /\ server = "pooled" => Scripted
  BY DEF AuthInv
<1>2. CASE ServerSilent /\ UNCHANGED <<server, client_send, server_out, idVars, trackVars>>
  <2>1. Where'
    BY <1>0, <1>2, Unmoved, Zenon DEF ServerSilent, WaitFor, idVars, clientSide, serverSide
  <2> QED BY <1>1, <1>2, <2>1, Zenon DEF trackVars
<1>3. CASE ServerReadFails /\ UNCHANGED <<server, client_send, server_out, idVars, trackVars>>
  <2>1. Where'
    BY <1>0, <1>3, GivenUp, Zenon DEF ServerReadFails, Goto, idVars, clientSide, serverSide, Ending
  <2> QED BY <1>1, <1>3, <2>1, Zenon DEF trackVars
<1>4. CASE /\ ServerPacket /\ server_out' = Tail(server_out)
           /\ track_auth_result_state(Head(server_out).kind)
           /\ IF Head(server_out).kind = "INVALID" /\ method = "win"
              THEN Goto("ERROR") /\ UNCHANGED <<server, client_send, idVars>>
              ELSE proxy_read_auth_result(Head(server_out))
  <2> DEFINE r == Head(server_out)
  <2>1. server_out # <<>> /\ r \in ToClient /\ r.kind \in ServerKinds /\ r.id \in Ids
    BY <1>0, <1>4, Taken, Packed, Zenon DEF ServerPacket, TypeOK
  <2>2. server_in = <<>> /\ server_send = <<>> /\ InStep /\ client_send = <<>> /\ client_out = <<>>
    BY <1>0, <2>1, Zenon DEF AtReadAuthResult, ServerWork, ServerHalf, ClientHeard, ClientAhead
  <2>3. ServerEnding' BY <1>0, <2>2, Zenon DEF ServerEnding
  <2>4. track_auth_result_state(r.kind) BY <1>4
  <2>5. CASE r.kind = "INVALID" /\ method = "win"
    <3>1. ClientEnding'
      BY <1>0, <1>4, <2>5, MayEnd, ClientSame, Zenon DEF clientSide, idVars
    <3>2. method' = method BY <2>1, <2>4, <2>5, Tracked, Zenon
    <3>3. state' = "ERROR" /\ server' = server BY <1>4, <2>5, Zenon DEF Goto
    <3> QED BY <1>1, <2>3, <3>1, <3>2, <3>3, Zenon DEF Where, AtEnding, Ending
  <2>6. CASE ~(r.kind = "INVALID" /\ method = "win")
    <3>1. proxy_read_auth_result(r) BY <1>4, <2>6
    <3> HIDE DEF r
    <3>2. /\ server_ids'.last = r.id /\ server_ids'.reset /\ state' = "SEND_AUTH_RESULT"
          /\ \/ server' = server
             \/ server' = "none" /\ r.kind \in {"OK", "SWITCH_OTHER"} /\ Scripted
      BY <1>0, <2>1, <3>1, PassedOn, Zenon
    <3>3. PICK p \in ToClient :
             /\ client_send' = Append(client_send, p) /\ client_ids'.last = p.id /\ client_ids'.reset
             /\ p.kind = r.kind \/ (p.kind = "ERR" /\ r.kind \in {"OK", "ERR"} /\ Scripted)
             /\ ~client_ids.reset => p.id = Succ(client_ids.last)
             /\ server # "pooled" /\ ~Scripted /\ client_ids.reset => p.id = r.id
      BY <1>0, <2>1, <3>1, PassedOn, Zenon
    <3>4. server' = "pooled" => Scripted BY <1>1, <3>2
    <3>5. client_send' = <<p>> /\ client_send'[1] = p
      BY <2>2, <3>3, OfOne, Zenon
    \* The verdict, whoever tells it.
    <3>6. ASSUME r.kind \in Verdict, Told(Verdict)', server_out' = <<>>, Means(r.kind)
          PROVE  Where' /\ (method' = "win" => WinAuth)
      <4>1. method' = method /\ result' = r.kind
        BY <2>1, <2>4, <3>6, Tracked, Zenon DEF Verdict
      <4>2. p.kind = "OK" => ServerReady'
        <5>1. p.kind = "OK" => session = "authed" BY <3>3, <3>6 DEF Means
        <5> QED BY <1>0, <2>2, <3>2, <3>6, <5>1, Zenon DEF ServerReady
      <4>3. AtSendAuthResult'
        BY <2>3, <3>3, <3>5, <3>6, <4>1, <4>2, Zenon DEF AtSendAuthResult, Verdict
      <4> QED BY <1>1, <3>2, <4>1, <4>3, Zenon DEF Where, Ending
    <3>7. CASE ClientHeard /\ ServerWork /\ ~next_from_server
      <4>1. ASSUME NEW K, p.kind \in K PROVE ToldAlone(K)'
        <5>1. /\ client_in' = <<>> /\ client_out' = <<>> /\ p.id = client_next'
          BY <1>0, <3>3, <3>7, Zenon DEF ClientHeard
        <5> QED BY <2>2, <3>3, <4>1, <5>1, Says, Zenon
      <4>2. server = "plain" => client_ids'.last = Succ(server_ids.last)
        BY <2>2, <3>3, <3>7, Zenon DEF InStep, ClientHeard
      <4>3. CASE \E x \in ToClient : /\ server_out = <<x>> /\ x.id = Succ(server_ids.last)
                                     /\ server_next = Succ(x.id) /\ Means(x.kind)
        <5>1. /\ r.id = Succ(server_ids.last) /\ server_next = Succ(r.id) /\ Means(r.kind)
              /\ server_out' = <<>>
          BY <1>4, <4>3, OfOne DEF r
        <5>2. CASE r.kind \in Verdict
          <6>1. p.kind \in Verdict BY <3>3, <5>2, Zenon DEF Verdict
          <6>2. Told(Verdict)' BY <4>1, <6>1, Zenon DEF Told
          <6> QED BY <3>4, <3>6, <5>1, <5>2, <6>2, Zenon
        <5>3. CASE r.kind \in Questions
          <6>1. p.kind \in Questions BY <3>3, <5>3 DEF Questions
          <6>2. /\ result' \in {"EOF", "0x01"} /\ ~next_from_server' /\ session \in {"win", "other"}
                /\ session = "win" => method' = "win"
            <7>1. CASE r.kind \in {"SWITCH_WIN", "SWITCH_OTHER"}
              <8>1. result' = "EOF" /\ next_from_server' = FALSE BY <2>1, <2>4, <7>1, Tracked, Zenon
              <8>2. r.kind = "SWITCH_WIN" => method' = "win" BY <2>1, <2>4, Tracked, Zenon
              <8>3. r.kind = "SWITCH_WIN" => session = "win" BY <5>1 DEF Means
              <8>4. r.kind = "SWITCH_OTHER" => session = "other" BY <5>1 DEF Means
              <8> QED BY <7>1, <8>1, <8>2, <8>3, <8>4
            <7>2. CASE r.kind = "MORE"
              <8>1. result' = "0x01" /\ method' = method /\ next_from_server' = next_from_server
                BY <2>1, <2>4, <7>2, Tracked, Zenon
              <8>2. session \in {"win", "other"} /\ (session = "win" => method = "win")
                BY <5>1, <7>2 DEF Means
              <8> QED BY <3>7, <8>1, <8>2
            <7> QED BY <5>3, <7>1, <7>2, Zenon DEF Questions
          <6>3. ServerPaused'
            BY <1>0, <2>2, <3>2, <5>1, <6>2, Zenon DEF ServerPaused, ServerQuiet
          <6>4. server' = "none" \/ InStep'
            <7>1. CASE server' = server
              <8>1. server' = "plain" => client_ids'.last = server_ids'.last
                BY <3>2, <4>2, <5>1, <7>1, Zenon
              <8> QED BY <1>0, <2>2, <7>1, <8>1, Zenon DEF InStep, proxyVars
            <7> QED BY <3>2, <7>1
          <6>5. AtSendAuthResult'
            BY <3>3, <4>1, <6>1, <6>2, <6>3, <6>4, Zenon DEF AtSendAuthResult
          <6>6. method' = "win" => WinAuth
            BY <1>1, <2>1, <2>4, <5>1, <5>3, Tracked, Zenon DEF Means, Questions
          <6> QED BY <3>2, <3>4, <6>5, <6>6, Zenon DEF Where, Ending
        <5>4. r.kind \in Verdict \cup Questions
          BY <2>6, <5>1 DEF Means, Verdict, Questions
        <5> QED BY <5>2, <5>3, <5>4, Zenon
      <4>4. CASE /\ method = "win"
                 /\ \E d, v \in ToClient : /\ server_out = <<d, v>> /\ d.kind = "DONE"
                                           /\ v.kind \in Verdict /\ Means(v.kind)
                                           /\ d.id = Succ(server_ids.last) /\ v.id = Succ(d.id)
                                           /\ server_next = Succ(v.id)
        <5>1. PICK v \in ToClient :
                 /\ server_out' = <<v>> /\ r.kind = "DONE" /\ r.id = Succ(server_ids.last)
                 /\ v.kind \in Verdict /\ Means(v.kind) /\ v.id = Succ(r.id) /\ server_next = Succ(v.id)
          BY <1>4, <4>4, OfTwo DEF r
        <5>2. ~Scripted BY <1>0, <1>1, <4>4, WinAlone, Zenon
        <5>3. server = "plain" /\ server' = "plain"
          BY <1>1, <2>2, <3>2, <5>2, Zenon DEF InStep
        <5>4. result' = "0x01" /\ method' = "win" /\ next_from_server' = TRUE
          BY <2>1, <2>4, <4>4, <5>1, Tracked, Zenon
        <5>5. Means(v.kind)' BY <1>0, <5>1 DEF Means, Verdict
        <5>6. ServerHalf'
          BY <1>0, <2>2, <3>2, <5>1, <5>3, <5>4, <5>5, Zenon DEF ServerHalf
        <5>7. InStep'
          <6>1. client_ids'.last = server_ids'.last BY <3>2, <4>2, <5>1, <5>3, Zenon
          <6> QED BY <1>0, <2>2, <5>3, <6>1, Zenon DEF InStep, proxyVars
        <5>8. ToldAlone({"DONE"})' BY <3>3, <4>1, <5>1, <5>2, Zenon
        <5>9. AtSendAuthResult' BY <3>3, <5>4, <5>6, <5>7, <5>8, Zenon DEF AtSendAuthResult
        <5> QED BY <1>1, <3>2, <3>4, <4>4, <5>9, Zenon DEF Where, Ending
      <4> QED BY <2>1, <3>7, <4>3, <4>4, Zenon DEF ServerWork
    <3>8. CASE ClientAhead /\ ServerHalf
      <4>1. PICK v \in ToClient :
               /\ server_out = <<v>> /\ v.kind \in Verdict /\ Means(v.kind)
               /\ v.id = Succ(server_ids.last) /\ server = "plain" /\ method = "win"
        BY <3>8, Zenon DEF ServerHalf
      <4>2. r = v /\ server_out' = <<>> BY <1>4, <4>1, OfOne DEF r
      <4>3. ~Scripted BY <1>0, <1>1, <4>1, WinAlone, Zenon
      <4>4. client_ids.last = server_ids.last BY <2>2, <4>1, Zenon DEF InStep
      <4>5. p.id = Succ(client_ids.last) /\ p.kind \in Verdict
        BY <3>3, <3>8, <4>1, <4>2, <4>3, <4>4, Zenon DEF ClientAhead
      <4>6. Told(Verdict)'
        <5>1. CASE client_in = <<>> /\ client_next = Succ(client_ids.last)
          BY <1>0, <2>2, <3>3, <3>5, <4>5, <5>1, Zenon DEF Told, ToldAlone
        <5>2. CASE \E d \in ToClient : /\ client_in = <<d>> /\ d.kind = "DONE"
                                       /\ d.id = client_next /\ d.id = client_ids.last
          BY <1>0, <2>2, <3>3, <3>5, <4>5, <5>2, Zenon DEF Told, ToldAfterDone
        <5> QED BY <3>8, <5>1, <5>2, Zenon DEF ClientAhead
      <4> QED BY <3>4, <3>6, <4>1, <4>2, <4>6, Zenon
    <3> QED BY <1>0, <3>7, <3>8, Zenon DEF AtReadAuthResult
  <2> QED BY <2>5, <2>6
<1> QED BY <1>2, <1>3, <1>4, Zenon DEF ReadAuthResult

LEMMA SendAuthResultStep == ASSUME AuthInv, SendAuthResult PROVE Where'
<1>0. /\ AtSendAuthResult /\ event = "run" /\ state = "SEND_AUTH_RESULT" /\ TypeOK /\ got # "OK"
      /\ UNCHANGED <<client, client_out, client_ids, client_next, got, serverSide, trackVars, proxyVars,
                     server>>
  BY Zenon DEF AuthInv, Where, Ending, SendAuthResult, At, serverVars, authVars, idVars, peerVars, serverSide
<1>1. PICK p \in ToClient : client_send = <<p>> /\ client_out = <<>>
  BY <1>0, Zenon DEF AtSendAuthResult, Told, ToldAlone, ToldAfterDone
<1>2. client_send[1] = p BY <1>1, OfOne, Zenon
<1>3. CASE ClientWritten /\ Goto(AfterAuthResult)
  <2>1. client_send' = <<>> /\ client_out' = <<>> /\ event' = "run" /\ client_ids'.reset
        /\ client_in' = client_in \o client_send /\ state' = AfterAuthResult
    BY <1>0, <1>1, <1>3, Zenon DEF ClientWritten, Goto, AtSendAuthResult
  <2>2. InStep => InStep' BY <1>0, Zenon DEF InStep, serverSide, proxyVars
  <2>3. ASSUME NEW K, ToldAlone(K)
        PROVE  \E x \in ToClient : /\ client_in' = <<x>> /\ x.kind \in K /\ x.id = client_next'
                                   /\ x.id = client_ids'.last /\ client_send = <<x>>
    <3>1. PICK x \in ToClient : /\ client_send = <<x>> /\ x.kind \in K /\ client_in = <<>>
                                /\ x.id = client_next /\ x.id = client_ids.last
      BY <2>3, Zenon DEF ToldAlone
    <3>2. client_in' = <<x>> BY <2>1, <3>1, OfOne, Zenon
    <3> QED BY <1>0, <3>1, <3>2, Zenon
  <2>4. ASSUME NEW K, ToldAfterDone(K)
        PROVE  \E d, x \in ToClient :
                  /\ client_in' = <<d, x>> /\ d.kind = "DONE" /\ d.id = client_next'
                  /\ x.kind \in K /\ x.id = Succ(d.id) /\ client_send = <<x>>
    <3>1. PICK d \in ToClient, x \in ToClient :
                  /\ client_in = <<d>> /\ d.kind = "DONE" /\ d.id = client_next
                  /\ client_send = <<x>> /\ x.kind \in K /\ x.id = Succ(d.id)
      BY <2>4, Zenon DEF ToldAfterDone
    <3>2. client_in' = <<d, x>> BY <2>1, <3>1, OfTwo, Zenon
    <3> QED BY <1>0, <3>1, <3>2, Zenon
  <2>5. ServerEnding' BY <1>0, MayEnd, ServerSame, Zenon
  <2>6. CASE /\ result = "OK" /\ Told(Verdict)
             /\ client_send[1].kind = "OK" => ServerReady
    <3>1. state' = "READ_QUERY" BY <2>1, <2>6 DEF AfterAuthResult
    <3>2. ASSUME NEW x \in ToClient, client_send = <<x>>, x.kind \in Verdict PROVE Served(x.kind)'
      <4>1. client_send[1] = x BY <3>2, OfOne, Zenon
      <4> QED BY <1>0, <2>6, <3>2, <4>1, ServerSame, Zenon DEF Served
    <3>3. AtReadQuery' BY <2>1, <2>3, <2>4, <2>5, <2>6, <3>2, Zenon DEF AtReadQuery, Told
    <3> QED BY <3>1, <3>3, Zenon DEF Where, Ending
  <2>7. CASE result = "ERR" /\ Told(Verdict)
    <3>1. state' = "ERROR" BY <2>1, <2>7 DEF AfterAuthResult
    <3>2. ClientEnding' BY <2>1, <2>3, <2>4, <2>7, Zenon DEF ClientEnding, Told
    <3> QED BY <2>5, <3>1, <3>2, Zenon DEF Where, Ending, AtEnding
  <2>8. CASE /\ result \in {"EOF", "0x01"} /\ ToldAlone(Questions)
             /\ ServerPaused /\ (server = "none" \/ InStep)
    <3>1. state' = "READ_AUTH_OLD_PASSWORD" BY <2>1, <2>8 DEF AfterAuthResult, ServerPaused
    <3>2. ClientTurn(Questions, {"DATA", "LONG"})' BY <2>1, <2>3, <2>8, Zenon DEF ClientTurn
    <3>3. AtReadOld' BY <1>0, <2>2, <2>8, <3>2, ServerSame, Zenon DEF AtReadOld
    <3> QED BY <3>1, <3>3, Zenon DEF Where, Ending
  <2>9. CASE result = "0x01" /\ ToldAlone({"DONE"}) /\ ServerHalf /\ InStep
    <3>1. state' = "READ_AUTH_RESULT" BY <2>1, <2>9 DEF AfterAuthResult, ServerHalf
    <3>2. ClientAhead'
      <4>1. PICK x \in ToClient : /\ client_in' = <<x>> /\ x.kind \in {"DONE"}
                                 /\ x.id = client_next' /\ x.id = client_ids'.last
        BY <2>3, <2>9, Zenon
      <4> QED BY <2>1, <4>1, Zenon DEF ClientAhead
    <3>3. ServerHalf' BY <1>0, <2>9, ServerSame, Zenon
    <3>4. AtReadAuthResult' BY <2>2, <2>9, <3>2, <3>3, Zenon DEF AtReadAuthResult
    <3> QED BY <3>1, <3>4, Zenon DEF Where, Ending
  <2> QED BY <1>0, <2>6, <2>7, <2>8, <2>9, Zenon DEF AtSendAuthResult
<1>4. CASE ClientWriteWaits
  <2>1. UNCHANGED <<client_in, client_send, state>> BY <1>0, <1>1, <1>4, ClientWrites, Zenon
  <2>2. UNCHANGED clientSide BY <1>0, <2>1, Zenon DEF clientSide
  <2> QED BY <1>0, <2>1, <2>2, Unmoved, Zenon
<1>5. CASE ClientWriteFails
  BY <1>0, <1>5, GivenUp, Zenon DEF ClientWriteFails, Goto, clientSide, Ending
<1> QED BY <1>3, <1>4, <1>5, Zenon DEF SendAuthResult

LEMMA ReadOldStep == ASSUME AuthInv, ReadAuthOldPassword PROVE Where'
<1>0. /\ AtReadOld /\ state = "READ_AUTH_OLD_PASSWORD" /\ TypeOK
      /\ client_ids \in Sockets /\ server_ids \in Sockets
      /\ UNCHANGED <<server, client, client_in, server_out, server_in, trackVars, proxyVars, session, got,
                     client_next, server_next>>
  BY Zenon DEF AuthInv, Where, ReadAuthOldPassword, At, serverVars, TypeOK, peerVars
<1>1. CASE ClientSilent /\ UNCHANGED <<queueVars, client_out, idVars>>
  BY <1>0, <1>1, Unmoved, Zenon DEF ClientSilent, WaitFor, idVars, queueVars, clientSide, serverSide
<1>2. CASE ReturnInError /\ UNCHANGED <<queueVars, client_out, idVars>>
  BY <1>0, <1>2, GivenUp, Zenon DEF ReturnInError, queueVars, idVars, clientSide, serverSide, Ending
<1>3. CASE /\ ClientPacket /\ client_out' = Tail(client_out)
           /\ proxy_read_auth_old_password(Head(client_out),
                                           get_packet(client_ids, Head(client_out).id))
  <2> DEFINE a == Head(client_out)
             ids == Numbered(a.id)
             q == IF change_user THEN [a EXCEPT !.id = Succ(server_ids.last)] ELSE a
  <2>1. /\ a \in ToServer /\ a.id \in Ids /\ a.kind \in {"DATA", "LONG"}
        /\ a.id = Succ(client_ids.last) /\ client_next' = Succ(a.id)
        /\ client_send = <<>> /\ client_in' = <<>> /\ client_out' = <<>>
        /\ get_packet(client_ids, a.id) = ids /\ ids \in Sockets /\ NewId(ids) = Succ(a.id)
    BY <1>0, <1>3, Heard, Zenon DEF AtReadOld
  <2>2. /\ server_in = <<>> /\ server_out = <<>> /\ server_send = <<>> /\ ServerEnding'
        /\ server_ids.reset /\ server_next = Succ(server_ids.last)
        /\ session \in {"win", "other"} /\ (session = "win" => method = "win") /\ ~next_from_server
    BY <1>0, Zenon DEF AtReadOld, ServerPaused, ServerQuiet, ServerEnding
  <2>3. \/ ToClientFinal("ERR", ids) /\ state' = "SEND_ERROR"
        \/ /\ HasServer /\ ToServerRaw(q) /\ client_ids' = ids /\ UNCHANGED client_send
           /\ state' = "SEND_AUTH_OLD_PASSWORD"
    BY <1>3, <2>1, Zenon DEF proxy_read_auth_old_password, Goto
  <2>4. CASE ToClientFinal("ERR", ids) /\ state' = "SEND_ERROR"
    <3>1. "ERR" \in ServerKinds BY DEF ServerKinds
    <3>2. ClientEnding' BY <2>1, <2>4, <3>1, Answered, Zenon
    <3> QED BY <2>2, <2>4, <3>2, Zenon DEF Where, Ending, AtEnding
  <2>5. CASE /\ HasServer /\ ToServerRaw(q) /\ client_ids' = ids /\ UNCHANGED client_send
             /\ state' = "SEND_AUTH_OLD_PASSWORD"
    <3>1. InStep BY <1>0, <2>5, Zenon DEF AtReadOld, HasServer
    <3>2. Succ(server_ids.last) \in Ids BY <1>0, SmallIds, SocketTypes, Successors
    <3>3. q \in ToServer /\ q.id = server_next /\ q.kind = a.kind
      <4>1. CASE change_user BY <2>1, <2>2, <3>2, <4>1, Renumbered, Zenon
      <4>2. CASE ~change_user
        <5>1. server = "plain" BY <3>1, <4>2, Zenon DEF InStep
        <5>2. a.id = server_next BY <2>1, <2>2, <3>1, <5>1, Zenon DEF InStep
        <5> QED BY <2>1, <4>2, <5>2, Zenon
      <4> QED BY <4>1, <4>2, Zenon
    <3>4. ids.last = a.id /\ ids.reset = FALSE BY SocketFields, Zenon
    <3> HIDE DEF a, ids, q
    <3>5. RawId(server_ids, q.id) = q.id BY <2>2, Zenon DEF RawId
    <3>6. q.id \in Ids BY <3>3, Packed, Zenon
    <3>7. PICK x \in ToServer : /\ x.id = server_next /\ x.kind \in {"DATA", "LONG"}
                               /\ server_send' = Append(server_send, x)
                               /\ server_ids' = Numbered(x.id)
      <4>1. /\ [q EXCEPT !.id = q.id] \in ToServer /\ [q EXCEPT !.id = q.id].id = q.id
            /\ [q EXCEPT !.id = q.id].kind = q.kind
        BY <3>3, <3>6, Renumbered, Zenon
      <4>2. /\ server_send' = Append(server_send, [q EXCEPT !.id = q.id])
            /\ server_ids' = Numbered(q.id)
        BY <2>5, <3>5, Zenon DEF ToServerRaw, queue_append_raw
      <4> QED BY <2>1, <3>3, <4>1, <4>2, Zenon
    <3>9. Asks(x)' BY <1>0, <2>2, <3>7 DEF Asks, Expected
    <3>10. ServerAsk' BY <1>0, <2>2, <3>7, <3>9, Asked, Zenon
    <3>11. ClientHeard' BY <2>1, <2>5, <3>4, Zenon DEF ClientHeard
    <3>12. server_ids'.last = server_next BY <3>7, SocketFields, Zenon
    <3>13. InStep'
      <4>1. server = "plain" => server_next = a.id
        BY <2>1, <2>2, <3>1, Zenon DEF InStep
      <4> QED BY <1>0, <2>5, <3>1, <3>4, <3>12, <4>1, Zenon DEF InStep, proxyVars
    <3>14. ~next_from_server' /\ session' \in {"win", "other"} /\ (session' = "win" => method' = "win")
      BY <1>0, <2>2, Zenon DEF trackVars
    <3>15. AtSendOld' BY <3>10, <3>11, <3>13, <3>14, Zenon DEF AtSendOld
    <3> QED BY <2>5, <3>15, Zenon DEF Where, Ending
  <2> QED BY <2>3, <2>4, <2>5, Zenon
<1> QED BY <1>1, <1>2, <1>3, Zenon DEF ReadAuthOldPassword

\* The client's queue is flushed, and the connection closed.
LEMMA FinishStep == ASSUME AuthInv, Finish PROVE Where' /\ state' \in Ending
<1>0. UNCHANGED <<authVars, server_in, server_out, server_send, client_out>>
  BY Zenon DEF Finish, CloseCon, SendError, queueVars, serverVars
<1>1. UNCHANGED <<serverSide, trackVars, client_next, client_ids>>
  BY <1>0, Zenon DEF serverSide, authVars, idVars, peerVars
<1>2. CASE CloseCon
  <2>1. UNCHANGED clientSide /\ client' = "closed" /\ state' \in Ending
    BY <1>0, <1>1, <1>2, Zenon DEF CloseCon, queueVars, clientSide, Ending
  <2> QED BY <1>1, <2>1, GivenUp, Zenon
<1>3. CASE SendError
  <2>0. state = "SEND_ERROR" /\ client' = client /\ TypeOK BY <1>3, Zenon DEF SendError, At, AuthInv
  <2>1. CASE UNCHANGED <<client_in, client_send>> /\ state' \in Ending
    <3>1. UNCHANGED clientSide BY <1>0, <1>1, <2>1, Zenon DEF clientSide
    <3> QED BY <1>1, <2>0, <2>1, <3>1, GivenUp, Zenon
  <2>2. CASE ClientWritten /\ Goto("CLOSE_CLIENT")
    <3>1. client_send' = <<>> /\ client_in' = client_in \o client_send /\ client_next' = client_next
          /\ client_out' = client_out /\ state' = "CLOSE_CLIENT"
      BY <1>0, <1>1, <2>2, Zenon DEF ClientWritten, Goto
    <3>2. client_in \in Seq(ToClient) /\ client_in \o <<>> = client_in
      BY <2>0, JoinedToNone DEF TypeOK
    <3>3. ClientEnding'
      <4>1. CASE client_send = <<>>
        BY <3>1, <3>2, <4>1, MayEnd, Zenon DEF ClientEnding
      <4>2. CASE \E p \in ToClient : /\ p.id = client_next /\ client_in = <<>> /\ client_send = <<p>>
                                     /\ client_out = <<>>
        BY <3>1, <4>2, OfOne, Zenon DEF ClientEnding
      <4>3. CASE \E d, p \in ToClient :
                    /\ d.id = client_next /\ p.id = Succ(d.id) /\ d.kind = "DONE"
                    /\ client_in = <<d>> /\ client_send = <<p>> /\ client_out = <<>>
        <5>1. PICK d \in ToClient, p \in ToClient :
                    /\ d.id = client_next /\ p.id = Succ(d.id) /\ d.kind = "DONE"
                    /\ client_in = <<d>> /\ client_send = <<p>> /\ client_out = <<>>
          BY <4>3, Zenon
        <5>2. client_in' = <<d, p>> BY <3>1, <5>1, OfTwo, Zenon
        <5> QED BY <3>1, <5>1, <5>2, Zenon DEF ClientEnding
      <4> QED BY <4>1, <4>2, <4>3, MayEnd, Zenon DEF ClientEnding
    <3>4. ServerEnding' BY <1>1, MayEnd, ServerSame, Zenon
    <3> QED BY <3>1, <3>3, <3>4, Zenon DEF Where, Ending, AtEnding
  <2>3. CASE ClientWriteWaits
    <3>1. client_send # <<>>
      <4>1. Len(<<>>) = 0 OBVIOUS
      <4>2. 0..(0 - 1) = {} OBVIOUS
      <4> QED BY <2>3, <4>1, <4>2, Zenon DEF ClientWriteWaits
    <3>2. PICK p \in ToClient : client_send = <<p>>
      BY <3>1, MayEnd, Zenon DEF ClientEnding
    <3>3. UNCHANGED <<client_in, client_send, state>> BY <2>0, <2>3, <3>2, ClientWrites, Zenon
    <3> QED BY <2>0, <2>1, <3>3, Zenon DEF Ending
  <2>4. CASE Goto("CLOSE_CLIENT") /\ UNCHANGED <<client_in, client_send>>
    BY <2>1, <2>4, Zenon DEF Goto, Ending
  <2> QED BY <1>3, <2>2, <2>3, <2>4, Zenon DEF SendError
<1> QED BY <1>2, <1>3, Zenon DEF Finish

-----------------------------------------------------------------------------
(***************************************************************************)
(* The rest of the invariant.                                              *)
(***************************************************************************)
\* con_handle() stays among the states of the login, and waits for packets
\* where it reads them.
LEMMA StatesStep ==
    ASSUME AuthInv, [Next]_vars
    PROVE  state' \in LoginStates \cup Ending /\ Waits'
<1>0. /\ state \in LoginStates \cup Ending
      /\ event = "client_read" => state \in {"READ_AUTH", "READ_AUTH_OLD_PASSWORD"}
      /\ event = "server_read" => state \in {"READ_HANDSHAKE", "READ_AUTH_RESULT"}
  BY DEF AuthInv, Waits
<1>1. ASSUME UNCHANGED <<state, event>> PROVE state' \in LoginStates \cup Ending /\ Waits'
  BY <1>0, <1>1, Zenon DEF Waits
<1>2. ASSUME event' \in {"run", "none", "freed"}, state' \in LoginStates \cup Ending
      PROVE  state' \in LoginStates \cup Ending /\ Waits'
  BY <1>2 DEF Waits
<1>3. ASSUME UNCHANGED state, event' \in {"client_write", "server_write"}
      PROVE  state' \in LoginStates \cup Ending /\ Waits'
  BY <1>0, <1>3 DEF Waits
<1>4. \A s \in {"CONNECT_SERVER", "READ_HANDSHAKE", "SEND_HANDSHAKE", "READ_AUTH", "SEND_AUTH",
                "READ_AUTH_RESULT", "SEND_AUTH_RESULT", "READ_AUTH_OLD_PASSWORD",
                "SEND_AUTH_OLD_PASSWORD", "READ_QUERY", "ERROR", "CLOSE_CLIENT",
                "CLOSE_SERVER", "SEND_ERROR"} : s \in LoginStates \cup Ending
  BY DEF LoginStates, Ending
<1>5. CASE ConInit
  BY <1>2, <1>4, <1>5, Zenon DEF ConInit, At, Goto
<1>6. CASE ConnectServer
  BY <1>1, <1>2, <1>3, <1>4, <1>6, Zenon DEF ConnectServer, At, Goto, Stay, WaitFor, Connected,
     ConnectFailed, ConnectPending, ConnectAnswered, ConnectPooled, AllBackendsDown
<1>7. CASE ReadHandshake
  <2>1. CASE ServerSilent
    BY <1>0, <1>7, <2>1, Zenon DEF ReadHandshake, At, ServerSilent, WaitFor, Waits
  <2>2. CASE ServerReadFails \/ \E p : proxy_read_handshake(p)
    <3>1. event' = "run" /\ state' \in {"ERROR", "SEND_ERROR", "SEND_HANDSHAKE"}
      BY <1>7, <2>2, Zenon DEF ReadHandshake, At, ServerReadFails, proxy_read_handshake, Goto
    <3> QED BY <1>2, <1>4, <3>1, Zenon
  <2> QED BY <1>7, <2>1, <2>2, Zenon DEF ReadHandshake
<1>8. CASE SendHandshake \/ SendAuth \/ SendAuthOldPassword
  BY <1>2, <1>3, <1>4, <1>8, Zenon DEF SendHandshake, SendAuth, SendAuthOldPassword, At, Goto, WaitFor,
     ClientWriteWaits, ClientWriteFails, ServerWriteWaits, ServerWriteFails
<1>9. CASE SendAuthResult
  <2>1. AfterAuthResult \in LoginStates \cup Ending BY <1>4 DEF AfterAuthResult
  <2> QED BY <1>2, <1>3, <1>4, <1>9, <2>1, Zenon DEF SendAuthResult, At, Goto, WaitFor, ClientWriteWaits,
        ClientWriteFails
<1>10. CASE ReadAuth
  <2>1. CASE ClientSilent
    BY <1>0, <1>10, <2>1, Zenon DEF ReadAuth, At, ClientSilent, WaitFor, Waits
  <2>2. CASE Goto("ERROR") \/ \E p, ids : proxy_read_auth(p, ids)
    <3>1. event' = "run" /\ state' \in {"ERROR", "SEND_ERROR", "SEND_AUTH_RESULT", "SEND_AUTH"}
      BY <1>10, <2>2, Zenon DEF ReadAuth, At, Goto, proxy_read_auth, ReadAuthRefused, ReadAuthAnswer,
         ReadAuthInject, ReadAuthNoServer, ReadAuthChangeUser, ReadAuthCompare, ReadAuthForward
    <3> QED BY <1>2, <1>4, <3>1, Zenon
  <2> QED BY <1>10, <2>1, <2>2, Zenon DEF ReadAuth
<1>11. CASE ReadAuthResult
  <2>1. CASE ServerSilent
    BY <1>0, <1>11, <2>1, Zenon DEF ReadAuthResult, At, ServerSilent, WaitFor, Waits
  <2>2. CASE Goto("ERROR") \/ \E p : proxy_read_auth_result(p)
    <3>1. event' = "run" /\ state' \in {"ERROR", "SEND_AUTH_RESULT"}
      BY <1>11, <2>2, Zenon DEF ReadAuthResult, At, Goto, proxy_read_auth_result
    <3> QED BY <1>2, <1>4, <3>1, Zenon
  <2> QED BY <1>11, <2>1, <2>2, Zenon DEF ReadAuthResult, ServerReadFails
<1>12. CASE ReadAuthOldPassword
  <2>1. CASE ClientSilent
    BY <1>0, <1>12, <2>1, Zenon DEF ReadAuthOldPassword, At, ClientSilent, WaitFor, Waits
  <2>2. CASE ReturnInError \/ \E p, ids : proxy_read_auth_old_password(p, ids)
    <3>1. event' \in {"run", "none"} /\ state' \in {"ERROR", "SEND_ERROR", "SEND_AUTH_OLD_PASSWORD"}
      BY <1>12, <2>2, Zenon DEF ReadAuthOldPassword, At, Goto, ReturnInError, proxy_read_auth_old_password
    <3> QED BY <1>2, <1>4, <3>1, Zenon
  <2> QED BY <1>12, <2>1, <2>2, Zenon DEF ReadAuthOldPassword
<1>13. CASE Finish
  <2>1. state' \in LoginStates \cup Ending BY <1>13, FinishStep, Zenon
  <2> QED BY <1>2, <1>3, <1>13, <2>1, Zenon DEF Finish, CloseCon, SendError, At, Goto, WaitFor, ClientWriteWaits
<1>14. CASE Callback
  BY <1>0, <1>2, <1>4, <1>14, Zenon DEF Callback, FireWritable, FireReadable, FireClosed
<1>15. CASE FireTimeout
  BY <1>0, <1>2, <1>4, <1>15, Zenon DEF FireTimeout
<1>16. CASE ClientReceive \/ ServerGreets \/ ServerAnswers \/ HangUp \/ UNCHANGED vars
  BY <1>1, <1>16, Zenon DEF ClientReceive, ServerGreets, ServerAnswers, HangUp, ClientCloses, ServerCloses,
     conVars, vars, mysqldVars
<1> QED
  BY <1>5, <1>6, <1>7, <1>8, <1>9, <1>10, <1>11, <1>12, <1>13, <1>14, <1>15, <1>16, Zenon
     DEF Next, Handle

\* A client is let in only where the login ends.
LEMMA PeersStep ==
    ASSUME AuthInv, [Next]_vars
    PROVE  /\ client' \in {"waiting", "idle", "closed"} /\ (client' = "idle" => got' = "OK")
           /\ got' = "OK" => state' \in {"READ_QUERY"} \cup Ending
<1>0. /\ client \in {"waiting", "idle", "closed"} /\ (client = "idle" => got = "OK")
      /\ got = "OK" => state \in {"READ_QUERY"} \cup Ending
  BY DEF AuthInv
<1>1. CASE ClientReceive BY <1>1, ClientReceiveStep
<1>2. CASE Finish
  <2>1. got' = got /\ (client' = client \/ client' = "closed")
    BY <1>2, Zenon DEF Finish, CloseCon, SendError, authVars, peerVars
  <2>2. state' \in Ending BY <1>2, FinishStep
  <2> QED BY <1>0, <2>1, <2>2, Zenon
<1>3. CASE \/ ConInit \/ ConnectServer \/ ReadHandshake \/ SendHandshake \/ ReadAuth \/ SendAuth
           \/ ReadAuthResult \/ SendAuthResult \/ ReadAuthOldPassword \/ SendAuthOldPassword
  <2>1. client' = client /\ got' = got
    BY <1>3, Zenon DEF ConInit, ConnectServer, ReadHandshake, SendHandshake, ReadAuth, SendAuth,
       ReadAuthResult, SendAuthResult, ReadAuthOldPassword, SendAuthOldPassword, clientVars, authVars,
       peerVars
  <2>2. state \notin {"READ_QUERY"} \cup Ending
    BY <1>3, Zenon DEF ConInit, ConnectServer, ReadHandshake, SendHandshake, ReadAuth, SendAuth,
       ReadAuthResult, SendAuthResult, ReadAuthOldPassword, SendAuthOldPassword, At, Ending
  <2> QED BY <1>0, <2>1, <2>2, Zenon
<1>4. CASE Callback \/ FireTimeout
  <2>1. client' = client /\ got' = got
    BY <1>4, Zenon DEF Callback, FireWritable, FireReadable, FireClosed, FireTimeout, clientVars,
       authVars, peerVars
  <2>2. state' = state \/ state' \in Ending \/ state = "SEND_AUTH"
    BY <1>4, Zenon DEF Callback, FireWritable, FireReadable, FireClosed, FireTimeout, Ending
  <2> QED BY <1>0, <2>1, <2>2, Zenon DEF Ending
<1>5. CASE ServerGreets \/ ServerAnswers \/ HangUp \/ UNCHANGED vars
  <2>1. (client' = client \/ client' = "closed") /\ got' = got /\ state' = state
    BY <1>5, Zenon DEF ServerGreets, ServerAnswers, HangUp, ClientCloses, ServerCloses, conVars,
       clientVars, vars, mysqldVars, authVars, peerVars
  <2> QED BY <1>0, <2>1, Zenon
<1> QED BY <1>1, <1>2, <1>3, <1>4, <1>5, Zenon DEF Next, Handle

\* The setup stays, and with it what it excludes.
LEMMA SetupStep ==
    ASSUME Separate, AuthInv, [Next]_vars
    PROVE  /\ session' = "win" \/ method' = "win" => WinAuth'
           /\ server' = "pooled" => Scripted'
<1>0. /\ session = "win" \/ method = "win" => WinAuth
      /\ server = "pooled" => Scripted
  BY DEF AuthInv
<1>1. setup' = setup
  BY Zenon DEF Next, Handle, Callback, FireTimeout, ClientReceive, ServerGreets, ServerAnswers, HangUp, vars
<1>2. (WinAuth => WinAuth') /\ (Scripted => Scripted') BY <1>1, Zenon DEF WinAuth, Scripted
<1>3. CASE ConnectServer
  <2>1. server' = "pooled" => Scripted BY <1>3, ConnectServerStep
  <2>2. (session' = session \/ session' = "authed") /\ method' = method
    BY <1>3, Zenon DEF ConnectServer, trackVars, Connected, ConnectFailed, ConnectPending,
       ConnectAnswered, ConnectPooled, AllBackendsDown
  <2> QED BY <1>0, <1>2, <2>1, <2>2, Zenon
<1>4. CASE ReadAuthResult
  <2>1. (method' = "win" => WinAuth) /\ (server' = "pooled" => Scripted) BY <1>4, ReadAuthResultStep
  <2>2. session' = session BY <1>4, Zenon DEF ReadAuthResult, peerVars
  <2> QED BY <1>0, <1>2, <2>1, <2>2, Zenon
<1>5. CASE ServerAnswers
  <2>1. session' = "win" => WinAuth BY <1>5, ServerAnswersStep
  <2>2. server' = server /\ method' = method BY <1>5, Zenon DEF ServerAnswers, conVars, trackVars
  <2> QED BY <1>0, <1>2, <2>1, <2>2, Zenon
<1>6. CASE ServerGreets
  <2>1. session' # "win" BY <1>6 DEF ServerGreets
  <2>2. server' = server /\ method' = method BY <1>6, Zenon DEF ServerGreets, conVars, trackVars
  <2> QED BY <1>0, <1>2, <2>1, <2>2, Zenon
<1>7. CASE \/ ConInit \/ ReadHandshake \/ SendHandshake \/ ReadAuth \/ SendAuth
           \/ SendAuthResult \/ ReadAuthOldPassword \/ SendAuthOldPassword
  <2>1. server' = server /\ session' = session /\ method' = method
    BY <1>7, Zenon DEF ConInit, ReadHandshake, SendHandshake, ReadAuth, SendAuth, SendAuthResult,
       ReadAuthOldPassword, SendAuthOldPassword, authVars, trackVars, peerVars
  <2> QED BY <1>0, <1>2, <2>1, Zenon
<1>8. CASE Finish \/ Callback \/ FireTimeout \/ ClientReceive \/ HangUp \/ UNCHANGED vars
  <2>1. (server' = server \/ server' = "none") /\ session' = session /\ method' = method
    BY <1>8, Zenon DEF Finish, CloseCon, SendError, Callback, FireWritable, FireReadable, FireClosed,
       FireTimeout, ClientReceive, HangUp, ClientCloses, ServerCloses, conVars, vars, mysqldVars,
       authVars, trackVars, peerVars
  <2> QED BY <1>0, <1>2, <2>1, Zenon
<1> QED BY <1>3, <1>4, <1>5, <1>6, <1>7, <1>8, Zenon DEF Next, Handle

LEMMA AuthInvInit == ASSUME Init PROVE AuthInv
<1>1. TypeOK
  <2>0. untried \in 0..Backends BY AuthAssumption DEF Init
  <2>1. ConOK
    BY <2>0, Zenon DEF Init, ConOK, States, Events, Servers, Clients, Results, Sessions
  <2>2. FlagsOK BY DEF Init, FlagsOK
  <2>3. IdsOK BY SocketFields, SmallIds DEF Init, IdsOK
  <2>4. QueuesOK BY DEF Init, QueuesOK
  <2> QED BY <2>1, <2>2, <2>3, <2>4, TypeParts
<1>2. AtConnect
  BY DEF Init, AtConnect, ClientNew, ServerNew, ServerQuiet, Untracked
<1>3. Where BY <1>2, Zenon DEF Init, Where, Ending
<1>4. state \in LoginStates /\ Waits BY DEF Init, LoginStates, Waits
<1> QED BY <1>1, <1>3, <1>4, Zenon DEF Init, AuthInv

LEMMA AuthInvStep == ASSUME Separate, AuthInv, [Next]_vars PROVE AuthInv'
<1>1. TypeOK' BY TypeStep, Zenon DEF AuthInv, Where
<1>2. Where'
  <2>1. CASE Handle
    BY <2>1, ConInitStep, ConnectServerStep, ReadHandshakeStep, SendHandshakeStep, ReadAuthStep,
       SendToServerStep, ReadAuthResultStep, SendAuthResultStep, ReadOldStep, FinishStep, Zenon
       DEF Handle
  <2>2. CASE UNCHANGED vars
    <3>1. /\ UNCHANGED <<clientSide, serverSide, trackVars, proxyVars, server, got, state>>
          /\ client' = client /\ event' = event
      BY <2>2, Zenon DEF vars, mysqldVars, conVars, queueVars, clientVars, serverVars, authVars, idVars,
            peerVars, clientSide, serverSide
    <3> QED BY <3>1, Unmoved
  <2> QED
    BY <2>1, <2>2, CallbackStep, FireTimeoutStep, ClientReceiveStep, ServerGreetsStep, ServerAnswersStep,
       HangUpStep, Zenon DEF Next
<1>3. ~surprised'
  <2>1. CASE ClientReceive BY <2>1, ClientReceiveStep
  <2>2. CASE ServerAnswers BY <2>2, ServerAnswersStep
  <2>3. CASE \/ ConInit \/ ConnectServer \/ ReadHandshake \/ SendHandshake \/ ReadAuth \/ SendAuth
             \/ ReadAuthResult \/ SendAuthResult \/ ReadAuthOldPassword \/ SendAuthOldPassword
    BY <2>3, Zenon DEF AuthInv, ConInit, ConnectServer, ReadHandshake, SendHandshake, ReadAuth, SendAuth,
       ReadAuthResult, SendAuthResult, ReadAuthOldPassword, SendAuthOldPassword, authVars, peerVars
  <2>4. CASE Finish \/ Callback \/ FireTimeout \/ ServerGreets \/ HangUp \/ UNCHANGED vars
    BY <2>4, Zenon DEF AuthInv, Finish, Callback, FireTimeout, ServerGreets, HangUp, vars, authVars,
       peerVars
  <2> QED BY <2>1, <2>2, <2>3, <2>4, Zenon DEF Next, Handle
<1>4. state' \in LoginStates \cup Ending /\ Waits' BY StatesStep
<1>5. /\ client' \in {"waiting", "idle", "closed"} /\ (client' = "idle" => got' = "OK")
      /\ got' = "OK" => state' \in {"READ_QUERY"} \cup Ending
  BY PeersStep
<1>6. /\ session' = "win" \/ method' = "win" => WinAuth'
      /\ server' = "pooled" => Scripted'
  BY SetupStep
<1> QED BY <1>1, <1>2, <1>3, <1>4, <1>5, <1>6, Zenon DEF AuthInv

LEMMA AuthInvHolds == ASSUME Separate PROVE Spec => []AuthInv
<1>1. Init => AuthInv BY AuthInvInit
<1>2. AuthInv /\ [Next]_vars => AuthInv' BY AuthInvStep
<1> QED BY <1>1, <1>2, PTL DEF Spec
-----------------------------------------------------------------------------
(***************************************************************************)
(* The theorems.                                                           *)
(***************************************************************************)
\* The ids the proxy keeps per socket agree with the counts of client and
\* server through the whole login, wherever it is cut off: neither ever gets
\* a packet it does not expect.
THEOREM PeersCountAlike == ASSUME Separate PROVE Spec => []InSequence
<1>1. AuthInv => InSequence BY DEF AuthInv, InSequence
<1> QED BY <1>1, AuthInvHolds, PTL

\* con_handle() reads from the peer that has the next packet to send, so that
\* it waits for nobody who waits for it.
THEOREM NobodyWaitsForTheProxy == ASSUME Separate PROVE Spec => []NoMutualWait
<1>1. ASSUME AuthInv PROVE NoMutualWait
  <2>1. ASSUME event = "client_read", client_out = <<>>, client_in = <<>> PROVE client # "waiting"
    <3>1. \E K, A : ClientTurn(K, A)
      BY <1>1, <2>1, Zenon DEF AuthInv, Waits, Where, AtReadAuth, AtReadOld
    <3>2. \A x : <<x>> # <<>> BY OfOne
    <3>3. client = "closed" BY <2>1, <3>1, <3>2, Zenon DEF ClientTurn
    <3> QED BY <3>3
  <2>2. ASSUME event = "server_read", server_out = <<>>
        PROVE  server_in # <<>> \/ session = "none"
    <3>1. (\A x : <<x>> # <<>>) /\ (\A x, y : <<x, y>> # <<>>) BY OfOne, OfTwo
    <3>2. ServerGreeting \/ ServerWork \/ ServerHalf
      BY <1>1, <2>2, Zenon DEF AuthInv, Waits, Where, AtReadHandshake, AtReadAuthResult
    <3> QED BY <2>2, <3>1, <3>2, Zenon DEF ServerGreeting, ServerWork, ServerHalf
  <2> QED BY <2>1, <2>2, Zenon DEF NoMutualWait
<1> QED BY <1>1, AuthInvHolds, PTL

\* A client that reaches the command phase with a server was let in by that
\* server.
THEOREM TheServerLetsIn == ASSUME Separate PROVE Spec => []LetInByServer
<1>1. ASSUME AuthInv PROVE LetInByServer
  <2>1. ASSUME state = "READ_QUERY", got = "OK" PROVE ServerReady
    BY <1>1, <2>1, Zenon DEF AuthInv, Where, AtReadQuery, Served
  <2> QED BY <2>1, Zenon DEF LetInByServer, ServerReady
<1> QED BY <1>1, AuthInvHolds, PTL

\* The login leaves nothing behind: the command phase starts with empty queues
\* and wires and with both sockets at the start of an exchange.
THEOREM TheCommandPhaseStartsClean == ASSUME Separate PROVE Spec => []HandsOver
<1>1. ASSUME AuthInv PROVE HandsOver
  <2>1. ASSUME state = "READ_QUERY", client = "idle"
        PROVE  /\ ServerReady /\ client_in = <<>> /\ client_send = <<>> /\ client_out = <<>>
               /\ client_ids.reset
    BY <1>1, <2>1, Zenon DEF AuthInv, Where, AtReadQuery, Served
  <2> QED BY <2>1, Zenon DEF HandsOver, ServerReady
<1> QED BY <1>1, AuthInvHolds, PTL

\* The states that use con->server without asking find one there.
THEOREM LoginsKeepServers == ASSUME Separate PROVE Spec => []ServerWhereUsed
<1>1. ASSUME AuthInv PROVE ServerWhereUsed
  <2>1. ASSUME state \in ServerStates PROVE ServerGreeting \/ InStep
    BY <1>1, <2>1, Zenon DEF AuthInv, Where, ServerStates, AtReadHandshake, AtSendAuth,
       AtReadAuthResult, AtSendOld
  <2> QED BY <2>1 DEF ServerWhereUsed, ServerGreeting, InStep, HasServer
<1> QED BY <1>1, AuthInvHolds, PTL
=============================================================================
