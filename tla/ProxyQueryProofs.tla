-------------------------- MODULE ProxyQueryProofs --------------------------
(***************************************************************************)
(* What holds of the command phase whatever the script, the peers and the  *)
(* bounds are; then, for scripts that keep to their contract, the          *)
(* invariant SyncInv by which client, proxy and server stay in step, and   *)
(* that the steps of the peers and of the event loop keep it. The states   *)
(* of con_handle() are in ProxySyncProofs.                                 *)
(***************************************************************************)
EXTENDS ProxyQuery, TLAPS

(***************************************************************************)
(* Sequences: the facts about the packet queues that the proofs cite.      *)
(***************************************************************************)
\* The empty sequence is a sequence over any set, and the only one of length zero.
LEMMA EmptyFits ==
  ASSUME NEW A
  PROVE  /\ <<>> \in Seq(A) /\ Len(<<>>) = 0
         /\ \A s \in Seq(A) : s # <<>> => Len(s) \in Nat \ {0}
OBVIOUS

\* A sequence is a function on its positions.
LEMMA Indexed ==
  ASSUME NEW A, NEW s \in Seq(A)
  PROVE  Len(s) \in Nat /\ s \in [1..Len(s) -> A] /\ DOMAIN s = 1..Len(s)
OBVIOUS

\* Equal lengths and equal entries make equal sequences.
LEMMA SameEntries ==
  ASSUME NEW A, NEW s \in Seq(A), NEW t \in Seq(A), Len(s) = Len(t), \A i \in 1..Len(s) : s[i] = t[i]
  PROVE  s = t
OBVIOUS

\* The entries of a concatenation.
LEMMA JoinedEntries ==
  ASSUME NEW A, NEW s \in Seq(A), NEW t \in Seq(A)
  PROVE  /\ s \o t \in Seq(A) /\ Len(s \o t) = Len(s) + Len(t)
         /\ \A i \in 1..Len(s) + Len(t) : (s \o t)[i] = IF i <= Len(s) THEN s[i] ELSE t[i - Len(s)]
OBVIOUS

\* Concatenating nothing changes nothing.
LEMMA JoinedToNone ==
  ASSUME NEW A, NEW s \in Seq(A)
  PROVE  s \o <<>> = s /\ <<>> \o s = s
OBVIOUS

\* The entries of a subsequence.
LEMMA CutEntries ==
  ASSUME NEW A, NEW s, NEW i \in Int, NEW j \in Int, \A k \in i..j : s[k] \in A
  PROVE  /\ SubSeq(s, i, j) \in Seq(A) /\ Len(SubSeq(s, i, j)) = IF i <= j THEN j - i + 1 ELSE 0
         /\ \A k \in 1..j - i + 1 : SubSeq(s, i, j)[k] = s[i + k - 1]
OBVIOUS

\* Tail as a subsequence.
LEMMA TailIsCut ==
  ASSUME NEW A, NEW s \in Seq(A), s # <<>>
  PROVE  Tail(s) = SubSeq(s, 2, Len(s))
OBVIOUS

\* Head and Tail of a subsequence.
LEMMA CutHeadTail ==
  ASSUME NEW A, NEW s \in Seq(A), NEW i \in 1..Len(s), NEW j \in i..Len(s)
  PROVE  Head(SubSeq(s, i, j)) = s[i] /\ Tail(SubSeq(s, i, j)) = SubSeq(s, i + 1, j)
OBVIOUS

\* The subsequence of all positions is the sequence.
LEMMA CutWhole ==
  ASSUME NEW A, NEW s \in Seq(A)
  PROVE  SubSeq(s, 1, Len(s)) = s
OBVIOUS

\* Two adjacent subsequences make one.
LEMMA CutsJoined ==
  ASSUME NEW A, NEW s \in Seq(A),
         NEW i \in 1..Len(s) + 1, NEW k \in i - 1..Len(s), NEW j \in k..Len(s)
  PROVE  SubSeq(s, i, k) \o SubSeq(s, k + 1, j) = SubSeq(s, i, j)
OBVIOUS

\* A subsequence of no position is empty.
LEMMA CutNone ==
  ASSUME NEW s, NEW i \in Int, NEW j \in Int, j < i
  PROVE  SubSeq(s, i, j) = <<>>
OBVIOUS

\* The entries of Tail.
LEMMA HeadAndTail ==
  ASSUME NEW A, NEW s \in Seq(A), s # <<>>
  PROVE  /\ Head(s) \in A /\ Tail(s) \in Seq(A) /\ Len(Tail(s)) = Len(s) - 1
         /\ \A i \in 1..Len(Tail(s)) : Tail(s)[i] = s[i + 1]
OBVIOUS

\* Append as a concatenation.
LEMMA AppendJoins ==
  ASSUME NEW A, NEW s \in Seq(A), NEW e \in A
  PROVE  Append(s, e) = s \o <<e>>
OBVIOUS

\* The actions that touch neither the script's count nor what is known of the
\* result-set, and that do not lead into a state that sends or reads one.
Elsewhere ==
    \/ ReadLocalInfileData \/ SendLocalInfileData
    \/ ReadLocalInfileResult \/ SendLocalInfileResult
    \/ Finish \/ Callback \/ FireTimeout
    \/ \E c \in Commands : ClientCommand(c)
    \/ \E c \in {"DATA", "END"} : ClientData(c)
    \/ ClientReceive \/ Server \/ HangUp

\* Next in two parts: the states of a query, and everything else.
LEMMA NextCases ==
    Next => ReadQuery \/ SendQuery \/ ReadQueryResult \/ SendQueryResult \/ Elsewhere
BY DEF Next, Handle, Elsewhere

-----------------------------------------------------------------------------
(***************************************************************************)
(* A streamed result-set is never preceded by a counted one.               *)
(***************************************************************************)
\* StreamOnce is not inductive: SEND_QUERY_RESULT goes back to reading, and
\* the command of SEND_QUERY is known only once it was looked at.
StreamInv ==
    /\ sent \in Nat
    /\ state = "SEND_QUERY" /\ ~needed => sent = 0
    /\ ~finished /\ ~needed => sent = 0
    /\ StreamOnce

\* Every way read_query_result() ends leaves a natural count.
LEMMA OutcomeCounts ==
    ASSUME sent \in Nat, NEW s, NEW r, NEW o \in proxy_lua_read_query_result(s, r)
    PROVE  o.sent \in Nat
BY DEF proxy_lua_read_query_result, CarefulResults, FreeResults, Outcome,
       ResultNoDecision, ResultReplaced, ResultUnusable, ResultIgnored,
       ResultOther, ResultLoadFailed

InfileStates == {"READ_LOCAL_INFILE_DATA", "SEND_LOCAL_INFILE_DATA",
                 "READ_LOCAL_INFILE_RESULT", "SEND_LOCAL_INFILE_RESULT"}

\* What every action but those of a query leaves alone.
LEMMA ElsewhereLeaves ==
    ASSUME Elsewhere
    PROVE  /\ UNCHANGED <<sent, needed, finished, command>>
           /\ \/ state' = state
              \/ state' \in {"ERROR", "CLOSE_CLIENT", "CLOSE_SERVER"}
              \/ state \in InfileStates /\ state' \in InfileStates \cup {"READ_QUERY"}
<1> USE DEF InfileStates
<1>1. CASE ReadLocalInfileData
  BY <1>1 DEF ReadLocalInfileData, At, WaitFor, Goto, Stay, scriptVars
<1>2. CASE SendLocalInfileData
  BY <1>2 DEF SendLocalInfileData, At, ServerWriteWaits, ServerWriteFails, WaitFor,
              Goto, parseVars, resultVars, scriptVars
<1>3. CASE ReadLocalInfileResult
  BY <1>3 DEF ReadLocalInfileResult, At, WaitFor, Goto, parseVars, resultVars, scriptVars
<1>4. CASE SendLocalInfileResult
  BY <1>4 DEF SendLocalInfileResult, At, ClientWriteWaits, ClientWriteFails, WaitFor,
              Goto, parseVars, resultVars, scriptVars
<1>5. CASE Finish \/ Callback \/ FireTimeout
  BY <1>5 DEF Finish, CloseCon, SendError, At, ClientWriteWaits, WaitFor, Goto, Callback,
              FireWritable, FireReadable, FireClosed, FireTimeout,
              queryVars, parseVars, resultVars, scriptVars
<1>6. CASE (\E c \in Commands : ClientCommand(c)) \/ ClientReceive
  BY <1>6 DEF ClientCommand, ClientReceive, conVars, parseVars, resultVars, scriptVars
<1>7. CASE (\E c \in {"DATA", "END"} : ClientData(c)) \/ HangUp
  BY <1>7, Zenon DEF ClientData, HangUp, ClientCloses, ServerCloses,
              conVars, queryVars, parseVars, resultVars, scriptVars
<1>8. CASE Server
  BY <1>8 DEF Server, ServerMore, ServerEvent, ServerLast, ServerInfile, ServerLoaded,
              ServerTakes, ServerSays, conVars, queryVars, parseVars, resultVars, scriptVars
<1> QED BY <1>1, <1>2, <1>3, <1>4, <1>5, <1>6, <1>7, <1>8 DEF Elsewhere

LEMMA StreamInvStep == StreamInv /\ [Next]_vars => StreamInv'
<1> SUFFICES ASSUME StreamInv, [Next]_vars PROVE StreamInv' OBVIOUS
<1> USE DEF StreamInv, StreamOnce
<1>1. CASE ReadQuery
  <2>1. CASE UNCHANGED scriptVars /\ UNCHANGED <<needed, finished>>
             /\ state' \notin {"SEND_QUERY", "READ_QUERY_RESULT"}
    BY <2>1 DEF scriptVars
  <2>2. ASSUME NEW r, proxy_read_query(r) PROVE StreamInv'
    BY <2>2 DEF proxy_read_query
  <2> QED
    BY <1>1, <2>1, <2>2 DEF ReadQuery, At, WaitFor, ReturnInError, Stay, Goto, ReadQueryRefused
<1>2. CASE SendQuery
  BY <1>2 DEF SendQuery, At, ServerWriteWaits, ServerWriteFails, WaitFor, Goto,
              resultVars, scriptVars
<1>3. CASE ReadQueryResult
  <2>1. CASE UNCHANGED <<sent, needed, finished, command>>
             /\ (state' = state \/ state' \notin {"SEND_QUERY", "READ_QUERY_RESULT"})
    BY <2>1
  <2>2. ASSUME NEW p, ReadResultMore(p), get_query_result(p) PROVE StreamInv'
    BY <1>3, <2>2 DEF ReadQueryResult, ReadResultMore, get_query_result, LastPacket,
                      At, Stay, Goto, scriptVars
  <2>3. ASSUME NEW p, ReadResultLast(p) PROVE StreamInv'
    BY <2>3, OutcomeCounts DEF ReadResultLast, Goto
  <2> QED
    BY <1>3, <2>1, <2>2, <2>3 DEF ReadQueryResult, WaitFor, Goto, parseVars, scriptVars
<1>4. CASE SendQueryResult
  <2> UNCHANGED <<sent, finished>> BY <1>4 DEF SendQueryResult
  <2>1. CASE (ClientWriteWaits \/ ClientWriteFails) /\ UNCHANGED <<parseVars, needed>>
    BY <1>4, <2>1 DEF SendQueryResult, At, ClientWriteWaits, ClientWriteFails, WaitFor, Goto, parseVars
  <2>2. CASE ~finished /\ Goto("READ_QUERY_RESULT") /\ UNCHANGED <<parseVars, needed>>
    BY <2>2 DEF Goto, parseVars
  <2>3. CASE proxy_send_query_result /\ (finished \/ ~HasServer)
    <3>1. CASE Goto("ERROR") /\ UNCHANGED <<parseVars, needed>>
      BY <3>1 DEF Goto, parseVars
    <3>2. CASE command = "DUMP" /\ Goto("READ_QUERY_RESULT") /\ UNCHANGED <<parseVars, needed>>
      BY <3>2 DEF Goto, parseVars
    <3>3. CASE NextInjection
      <4> finished BY <2>3, <3>3 DEF NextInjection
      <4>1. CASE ~injected[1].needed /\ sent > 0
        BY <3>3, <4>1 DEF NextInjection, Goto, parseVars
      <4>2. CASE ~(~injected[1].needed /\ sent > 0)
        <5> needed' \/ sent = 0 BY <3>3, <4>2 DEF NextInjection
        <5> QED BY <3>3, <4>2 DEF NextInjection, Goto, ResetParse
      <4> QED BY <4>1, <4>2
    <3>4. CASE NoInjection
      BY <3>4 DEF NoInjection, Goto, parseVars
    <3> QED BY <2>3, <3>1, <3>2, <3>3, <3>4 DEF proxy_send_query_result
  <2> QED BY <1>4, <2>1, <2>2, <2>3 DEF SendQueryResult
<1>5. CASE Elsewhere
  BY <1>5, ElsewhereLeaves DEF InfileStates
<1>6. CASE UNCHANGED vars
  BY <1>6 DEF vars, mysqldVars, conVars, parseVars, resultVars, scriptVars
<1> QED BY <1>1, <1>2, <1>3, <1>4, <1>5, <1>6, NextCases

\* For every script, every bound and every behaviour of the peers: a query is
\* sent for streaming only while no result-set of its command was counted.
THEOREM StreamsOnce == Spec => []StreamOnce
<1>1. Init => StreamInv BY DEF Init, StreamInv, StreamOnce
<1>2. StreamInv => StreamOnce BY DEF StreamInv
<1> QED BY <1>1, <1>2, StreamInvStep, PTL DEF Spec

-----------------------------------------------------------------------------
(***************************************************************************)
(* A dump is never left for another command.                               *)
(***************************************************************************)
\* The states of LOAD DATA LOCAL INFILE lead to READ_QUERY as well; they are
\* entered only by a COM_QUERY.
DumpInv ==
    /\ DumpIsForever
    /\ state \in InfileStates => command = "QUERY"

LEMMA DumpInvStep == DumpInv /\ [Next]_vars => DumpInv'
<1> SUFFICES ASSUME DumpInv, [Next]_vars PROVE DumpInv' OBVIOUS
<1> USE DEF DumpInv, DumpIsForever, InfileStates
<1>1. CASE ReadQuery
  <2>1. CASE UNCHANGED parseVars /\ (state' = state \/ state' \in {"ERROR", "SEND_QUERY_RESULT"})
    BY <1>1, <2>1 DEF ReadQuery, At, parseVars
  <2>2. ASSUME NEW r, proxy_read_query(r) PROVE DumpInv'
    BY <2>2, Zenon DEF proxy_read_query, ReadQueryForward, ReadQueryInject, ReadQueryAnswer,
                ReadQueryNoServer, Goto
  <2> QED
    BY <1>1, <2>1, <2>2 DEF ReadQuery, WaitFor, ReturnInError, Stay, Goto, ReadQueryRefused
<1>2. CASE SendQuery
  <2>1. CASE state' = "READ_QUERY" /\ command' = "CLOSE"
    BY <2>1
  <2>2. CASE state' \in {"SEND_QUERY", "READ_QUERY_RESULT", "ERROR"}
    BY <2>2
  <2> QED
    BY <1>2, <2>1, <2>2 DEF SendQuery, At, AfterSendQuery, ServerWriteWaits, ServerWriteFails,
                            WaitFor, Goto
<1>3. CASE ReadQueryResult
  BY <1>3 DEF ReadQueryResult, At, ReadResultMore, ReadResultLast, WaitFor, Goto, Stay
<1>4. CASE SendQueryResult
  <2>1. CASE state' \in {"SEND_QUERY_RESULT", "ERROR", "READ_QUERY_RESULT", "SEND_QUERY"}
    BY <2>1
  <2>2. CASE NoInjection /\ command # "DUMP"
    BY <2>2 DEF NoInjection, Goto, parseVars
  <2> QED
    BY <1>4, <2>1, <2>2, Zenon DEF SendQueryResult, At, ClientWriteWaits, ClientWriteFails, WaitFor,
                            Goto, proxy_send_query_result, NextInjection
<1>5. CASE Elsewhere
  BY <1>5, ElsewhereLeaves
<1>6. CASE UNCHANGED vars
  BY <1>6 DEF vars, mysqldVars, conVars, parseVars
<1> QED BY <1>1, <1>2, <1>3, <1>4, <1>5, <1>6, NextCases

\* For every script and every behaviour of the peers: once COM_BINLOG_DUMP
\* was sent, con_handle() never reads a command of the client again.
THEOREM DumpsAreForever == Spec => []DumpIsForever
<1>1. Init => DumpInv BY DEF Init, DumpInv, DumpIsForever, InfileStates
<1>2. DumpInv => DumpIsForever BY DEF DumpInv
<1> QED BY <1>1, <1>2, DumpInvStep, PTL DEF Spec

-----------------------------------------------------------------------------
(***************************************************************************)
(* Type correctness. The invariant is taken in parts: the fields of the    *)
(* connection, and the queues.                                             *)
(***************************************************************************)
\* What a queue is made of survives every way a queue is taken apart.
LEMMA Taken ==
    ASSUME NEW S, NEW s \in Seq(S), s # <<>>
    PROVE  Head(s) \in S /\ Tail(s) \in Seq(S)
OBVIOUS

LEMMA Joined ==
    ASSUME NEW S, NEW s \in Seq(S), NEW t \in Seq(S)
    PROVE  s \o t \in Seq(S)
OBVIOUS

LEMMA Put ==
    ASSUME NEW S, NEW s \in Seq(S), NEW e \in S
    PROVE  Append(s, e) \in Seq(S) /\ <<e>> \in Seq(S) /\ <<>> \in Seq(S)
OBVIOUS

LEMMA Pair == ASSUME NEW S, NEW a \in S, NEW b \in S PROVE <<a>> \in Seq(S) /\ <<a, b>> \in Seq(S)
OBVIOUS

LEMMA Cut ==
    ASSUME NEW S, NEW s \in Seq(S), NEW m \in 1..(Len(s) + 1), NEW n \in Nat, n <= Len(s)
    PROVE  SubSeq(s, m, n) \in Seq(S)
BY CutEntries

\* The writes of the two sockets move packets from a queue to a wire.
LEMMA ClientWrites ==
    ASSUME NEW S, client_send \in Seq(S), client_in \in Seq(S),
           ClientWritten \/ ClientWriteWaits \/ ClientWriteFails
    PROVE  client_send' \in Seq(S) /\ client_in' \in Seq(S)
<1>1. CASE ClientWritten
  BY <1>1, Joined DEF ClientWritten
<1>2. CASE ClientWriteWaits
  <2> PICK n \in 0..(Len(client_send) - 1) :
          /\ client_in' = client_in \o SubSeq(client_send, 1, n)
          /\ client_send' = SubSeq(client_send, n + 1, Len(client_send))
    BY <1>2, Zenon DEF ClientWriteWaits
  <2>1. Len(client_send) \in Nat BY Indexed
  <2>2. SubSeq(client_send, 1, n) \in Seq(S) BY <2>1, Cut
  <2>3. SubSeq(client_send, n + 1, Len(client_send)) \in Seq(S) BY <2>1, Cut
  <2> QED BY <2>2, <2>3, Joined
<1>3. CASE ClientWriteFails
  BY <1>3 DEF ClientWriteFails
<1> QED BY <1>1, <1>2, <1>3

LEMMA ServerWrites ==
    ASSUME NEW S, NEW T, S \subseteq T, server_send \in Seq(S), server_in \in Seq(T),
           ServerWritten \/ ServerWriteWaits \/ ServerWriteFails
    PROVE  server_send' \in Seq(S) /\ server_in' \in Seq(T)
<1> \A s \in Seq(S) : s \in Seq(T) OBVIOUS
<1>1. CASE ServerWritten
  <2>1. server_send \in Seq(T) OBVIOUS
  <2>2. server_in \o server_send \in Seq(T) BY <2>1, Joined
  <2> QED BY <1>1, <2>2 DEF ServerWritten
<1>2. CASE ServerWriteWaits
  <2> PICK n \in 0..(Len(server_send) - 1) :
          /\ server_in' = server_in \o SubSeq(server_send, 1, n)
          /\ server_send' = SubSeq(server_send, n + 1, Len(server_send))
    BY <1>2, Zenon DEF ServerWriteWaits
  <2>1. Len(server_send) \in Nat BY Indexed
  <2>2. SubSeq(server_send, 1, n) \in Seq(S) BY <2>1, Cut
  <2>3. SubSeq(server_send, n + 1, Len(server_send)) \in Seq(S) BY <2>1, Cut
  <2>4. SubSeq(server_send, 1, n) \in Seq(T) BY <2>2
  <2> QED BY <2>3, <2>4, Joined
<1>3. CASE ServerWriteFails
  BY <1>3 DEF ServerWriteFails
<1> QED BY <1>1, <1>2, <1>3

ConOK ==
    /\ state \in States /\ event \in Events /\ server \in Servers /\ client \in Clients
    /\ command \in Heads \cup {"none"} /\ infile \in {"none", "data", "result"}
    /\ sent \in Nat /\ asked \in 0..MaxQueries
FlagsOK ==
    /\ server_alive \in BOOLEAN /\ offset \in BOOLEAN /\ com_quit_seen \in BOOLEAN
    /\ needed \in BOOLEAN /\ finished \in BOOLEAN /\ ldli_done \in BOOLEAN
    /\ closing \in BOOLEAN /\ surprised \in BOOLEAN
QueuesOK ==
    /\ client_send \in Seq(Replies) /\ client_in \in Seq(Replies)
    /\ server_out \in Seq(Replies) /\ server_recv \in Seq(Replies)
    /\ server_send \in Seq(Requests) /\ server_in \in Seq(Jobs)
    /\ client_out \in Seq(Requests) /\ client_recv \in Seq(Requests)
    /\ injected \in Seq(Injections)

LEMMA TypeParts == TypeOK <=> ConOK /\ FlagsOK /\ QueuesOK
BY DEF TypeOK, ConOK, FlagsOK, QueuesOK

LEMMA QueuesAreSequences == ASSUME NEW qs \in Queues PROVE qs \in Seq(Injections) /\ qs # <<>>
<1> PICK n \in 1..MaxInjections : qs \in [1..n -> Injections] BY DEF Queues
<1> n \in Nat /\ n >= 1 BY BoundsAssumption
<1> QED OBVIOUS

\* The flags are assigned truth values by every action.
LEMMA FlagsStep == ASSUME FlagsOK, QueuesOK, [Next]_vars PROVE FlagsOK'
<1> USE DEF FlagsOK
<1>1. CASE ReadQuery
  <2>1. ASSUME NEW r, proxy_read_query(r) PROVE
          /\ closing' \in BOOLEAN /\ needed' \in BOOLEAN /\ finished' \in BOOLEAN
          /\ com_quit_seen' \in BOOLEAN /\ offset' \in BOOLEAN /\ server_alive' \in BOOLEAN
    <3>1. closing' \in BOOLEAN BY <2>1, Zenon DEF proxy_read_query, ScriptMayClose
    <3>2. CASE ReadQueryForward(r)
      BY <3>1, <3>2, Zenon DEF ReadQueryForward, ResetParse, serverVars
    <3>3. CASE ReadQueryInject(r)
      <4>1. injected' \in Queues BY <3>3 DEF ReadQueryInject
      <4>2. injected'[1] \in Injections BY <4>1, QueuesAreSequences, Taken
      <4>3. needed' \in BOOLEAN BY <3>3, <4>2 DEF ReadQueryInject, Injections
      <4> QED BY <3>1, <3>3, <4>3 DEF ReadQueryInject, ResetParse, serverVars
    <3>4. CASE ReadQueryAnswer(r)
      BY <3>1, <3>4, Zenon DEF ReadQueryAnswer, DropServer, serverVars
    <3>5. CASE ReadQueryNoServer(r)
      BY <3>1, <3>5, Zenon DEF ReadQueryNoServer, DropServer, serverVars, parseVars
    <3> QED BY <2>1, <3>2, <3>3, <3>4, <3>5 DEF proxy_read_query
  <2> QED
    BY <1>1, <2>1 DEF ReadQuery, ReadQueryRefused, serverVars, recvVars, parseVars, scriptVars, peerVars
<1>2. CASE SendQuery
  BY <1>2, Zenon DEF SendQuery, command_states_init, parseVars, resultVars, scriptVars, peerVars
<1>3. CASE ReadQueryResult
  <2>1. ASSUME NEW p, ReadResultMore(p) PROVE
          /\ finished' \in BOOLEAN /\ UNCHANGED <<offset, server_alive, closing>>
    BY <2>1, Zenon DEF ReadResultMore, scriptVars
  <2>2. ASSUME NEW p, ReadResultLast(p) PROVE
          /\ finished' \in BOOLEAN /\ offset' \in BOOLEAN
          /\ server_alive' \in BOOLEAN /\ closing' \in BOOLEAN
    BY <2>2, Zenon DEF ReadResultLast, DropServer, ScriptMayClose
  <2> QED
    BY <1>3, <2>1, <2>2 DEF ReadQueryResult, get_query_result, recvVars, serverVars, parseVars,
                            scriptVars, peerVars
<1>4. CASE SendQueryResult
  <2>1. needed' \in BOOLEAN
    <3>1. CASE NextInjection
      <4>1. injected[1] \in Injections BY <3>1, Taken DEF NextInjection, QueuesOK
      <4> QED BY <3>1, <4>1 DEF NextInjection, Injections
    <3> QED BY <1>4, <3>1 DEF SendQueryResult, proxy_send_query_result, NoInjection
  <2>2. com_quit_seen' = com_quit_seen
    BY <1>4, Zenon DEF SendQueryResult, proxy_send_query_result, NextInjection, NoInjection, ResetParse, parseVars
  <2> QED BY <1>4, <2>1, <2>2 DEF SendQueryResult, serverVars, recvVars, peerVars
<1>5. CASE ReadLocalInfileData
  BY <1>5, Zenon DEF ReadLocalInfileData, serverVars, recvVars, scriptVars, peerVars
<1>6. CASE SendLocalInfileData \/ ReadLocalInfileResult \/ SendLocalInfileResult
  BY <1>6 DEF SendLocalInfileData, ReadLocalInfileResult, SendLocalInfileResult,
              serverVars, recvVars, parseVars, resultVars, scriptVars, peerVars
<1>7. CASE Finish \/ Callback \/ FireTimeout \/ HangUp
  BY <1>7, ZenonT(60) DEF Finish, CloseCon, SendError, Callback, FireWritable, FireReadable, FireClosed,
              FireTimeout, HangUp, ClientCloses, ServerCloses, serverVars,
              queryVars, recvVars, parseVars, resultVars, scriptVars, peerVars
<1>8. CASE \/ \E c \in Commands : ClientCommand(c)
           \/ \E c \in {"DATA", "END"} : ClientData(c)
           \/ ClientReceive
  BY <1>8, ZenonT(60) DEF ClientCommand, ClientData, ClientReceive, serverVars,
              queryVars, recvVars, parseVars, resultVars, scriptVars, peerVars
<1>9. CASE Server
  BY <1>9 DEF Server, ServerMore, ServerEvent, ServerLast, ServerInfile, ServerLoaded,
              ServerTakes, ServerSays, queryVars, recvVars, parseVars, resultVars, scriptVars, peerVars
<1>10. CASE UNCHANGED vars
  BY <1>10 DEF vars, mysqldVars, serverVars, recvVars, parseVars, resultVars, scriptVars, peerVars
<1> QED
  BY <1>1, <1>2, <1>3, <1>4, <1>5, <1>6, <1>7, <1>8, <1>9, <1>10, ZenonT(60) DEF Next, Handle

LEMMA CommandBytes ==
    ASSUME NEW r \in Requests
    PROVE  CommandByte(r.cmd) \in Heads \cup {"none"}
<1> r.cmd \in Heads BY DEF Requests, Packet
<1> QED BY DEF CommandByte, Heads

\* SEND_QUERY looks at the head of the queue: there is one. This is what
\* makes the type of con->parse.command inductive.
SendingOK == state = "SEND_QUERY" => server_send # <<>>

LEMMA Extended == ASSUME NEW S, NEW s \in Seq(S), NEW e PROVE Append(s, e) # <<>>
<1> Append(s, e) = s \o <<e>> OBVIOUS
<1> Len(Append(s, e)) = Len(s) + 1 /\ Len(s) \in Nat OBVIOUS
<1> QED OBVIOUS

LEMMA SendingStep == ASSUME SendingOK, QueuesOK, [Next]_vars PROVE SendingOK'
<1> USE DEF SendingOK
<1>1. CASE ReadQuery
  <2>1. ASSUME NEW e, proxy_read_query(Append(client_recv, e)) PROVE SendingOK'
    <3> DEFINE recv == Append(client_recv, e)
    <3>1. CASE ReadQueryForward(recv)
      <4>1. Len(server_send \o recv) > 0 BY DEF QueuesOK
      <4> QED BY <3>1, <4>1 DEF ReadQueryForward
    <3>2. CASE ReadQueryInject(recv)
      BY <3>2, Extended, Zenon DEF ReadQueryInject, QueuesOK
    <3> QED BY <2>1, <3>1, <3>2, Zenon DEF proxy_read_query, ReadQueryAnswer, ReadQueryNoServer, Goto
  <2> QED
    BY <1>1, <2>1 DEF ReadQuery, At, ReadQueryRefused, WaitFor, ReturnInError, Stay, Goto
<1>2. CASE SendQuery
  <2>1. CASE ServerWriteWaits
    <3> PICK n \in 0..(Len(server_send) - 1) :
            server_send' = SubSeq(server_send, n + 1, Len(server_send))
      BY <2>1 DEF ServerWriteWaits
    <3>1. Len(server_send) \in Nat BY Indexed DEF QueuesOK
    <3>2. Len(server_send') = Len(server_send) - n BY <3>1, CutEntries DEF QueuesOK
    <3>3. Len(server_send') > 0 BY <3>1, <3>2, SMTT(30)
    <3> QED BY <3>3
  <2> QED BY <1>2, <2>1 DEF SendQuery, At, AfterSendQuery, ServerWriteFails, Goto
<1>3. CASE ReadQueryResult
  BY <1>3 DEF ReadQueryResult, At, ReadResultMore, ReadResultLast, WaitFor, Goto, Stay
<1>4. CASE SendQueryResult
  <2>1. CASE NextInjection
    BY <2>1, Extended, Zenon DEF NextInjection, Goto, QueuesOK
  <2>2. CASE state' # "SEND_QUERY"
    BY <2>2
  <2> QED
    BY <1>4, <2>1, <2>2 DEF SendQueryResult, At, ClientWriteWaits, ClientWriteFails, WaitFor,
                            Goto, proxy_send_query_result, NoInjection
<1>5. CASE Elsewhere
  <2>1. CASE state' # state
    BY <1>5, <2>1, ElsewhereLeaves DEF InfileStates
  <2>2. CASE state = "SEND_QUERY" /\ state' = state
    BY <1>5, <2>2, Zenon DEF Elsewhere, ReadLocalInfileData, SendLocalInfileData, ReadLocalInfileResult,
       SendLocalInfileResult, At, Finish, CloseCon, SendError, Callback, FireWritable, FireReadable,
       FireClosed, FireTimeout, ClientCommand, ClientData, ClientReceive, HangUp, ClientCloses,
       ServerCloses, Server, ServerMore, ServerEvent, ServerLast, ServerInfile, ServerLoaded,
       ServerTakes, ServerSays, queueVars
  <2> QED BY <2>1, <2>2
<1>6. CASE UNCHANGED vars
  BY <1>6, Zenon DEF vars, mysqldVars, conVars, queueVars
<1> QED BY <1>1, <1>2, <1>3, <1>4, <1>5, <1>6, NextCases

\* The fields of the connection keep their types.
LEMMA ConStep == ASSUME ConOK, QueuesOK, SendingOK, [Next]_vars PROVE ConOK'
<1> USE DEF ConOK, States, Events, Armed, Servers, Clients, At
<1>1. CASE ReadQuery
  <2>1. ASSUME client_out # <<>>,
               proxy_read_query(Append(client_recv, Head(client_out)))
        PROVE  ConOK'
    <3> DEFINE r == Append(client_recv, Head(client_out))
    <3>0. /\ r[1] \in Requests
          /\ UNCHANGED <<client, asked>>
      <4>1. Head(client_out) \in Requests BY <2>1, Taken DEF QueuesOK
      <4>2. r \in Seq(Requests) /\ Len(r) > 0 BY <4>1 DEF QueuesOK
      <4> QED BY <1>1, <4>2, Taken DEF ReadQuery, peerVars
    <3>1. CommandByte(r[1].cmd) \in Heads \cup {"none"} BY <3>0, CommandBytes
    <3> HIDE DEF r
    <3>2. sent' \in Nat BY <2>1 DEF proxy_read_query
    <3>3. CASE ReadQueryForward(r)
      BY <3>0, <3>2, <3>3, Zenon DEF ReadQueryForward, ResetParse, Goto
    <3>4. CASE ReadQueryInject(r)
      BY <3>0, <3>2, <3>4, ZenonT(60) DEF ReadQueryInject, ResetParse, Goto
    <3>5. CASE ReadQueryAnswer(r)
      BY <3>0, <3>1, <3>2, <3>5 DEF ReadQueryAnswer, DropServer, Goto
    <3>6. CASE ReadQueryNoServer(r)
      BY <3>0, <3>2, <3>6, ZenonT(60) DEF ReadQueryNoServer, DropServer, Goto, parseVars
    <3> QED BY <2>1, <3>3, <3>4, <3>5, <3>6 DEF proxy_read_query, r
  <2> QED
    BY <1>1, <2>1, ZenonT(60) DEF ReadQuery, ReadQueryRefused, WaitFor, ReturnInError, Stay, Goto,
                      parseVars, scriptVars, peerVars
<1>2. CASE SendQuery
  <2>0. UNCHANGED <<server, client, asked, sent>>
    BY <1>2 DEF SendQuery, clientVars, scriptVars, peerVars
  <2>1. state' \in States /\ event' \in Events
    BY <1>2 DEF SendQuery, AfterSendQuery, ServerWriteWaits, ServerWriteFails, WaitFor, Goto
  <2>2. CASE UNCHANGED parseVars
    BY <2>0, <2>1, <2>2 DEF parseVars
  <2>3. CASE ~offset /\ command_states_init /\ server_send # <<>>
    <3>1. CommandByte(Head(server_send).cmd) \in Heads \cup {"none"}
      BY <2>3, Taken, CommandBytes, ZenonT(60) DEF QueuesOK
    <3> QED BY <2>0, <2>1, <2>3, <3>1 DEF command_states_init
  <2> QED BY <1>2, <2>2, <2>3 DEF SendQuery, command_states_init, SendingOK
<1>3. CASE ReadQueryResult
  <2>1. ASSUME NEW p, ReadResultMore(p), get_query_result(p) PROVE ConOK'
    BY <1>3, <2>1 DEF ReadQueryResult, ReadResultMore, get_query_result, Stay, Goto, clientVars,
                      scriptVars, peerVars
  <2>2. ASSUME NEW p, ReadResultLast(p), get_query_result(p) PROVE ConOK'
    <3>1. sent' \in Nat BY <2>2, OutcomeCounts, SMTT(30) DEF ReadResultLast
    <3> QED BY <1>3, <2>2, <3>1 DEF ReadQueryResult, ReadResultLast, get_query_result, Goto,
                                    DropServer, clientVars, peerVars
  <2> QED
    BY <1>3, <2>1, <2>2 DEF ReadQueryResult, WaitFor, Goto, clientVars, parseVars, scriptVars, peerVars
<1>4. CASE SendQueryResult
  BY <1>4, ZenonT(60) DEF SendQueryResult, ClientWriteWaits, ClientWriteFails, WaitFor, Goto, ResetParse,
              proxy_send_query_result, NextInjection, NoInjection, parseVars, peerVars
<1>5. CASE ReadLocalInfileData
  BY <1>5 DEF ReadLocalInfileData, WaitFor, Goto, Stay, scriptVars, peerVars
<1>6. CASE SendLocalInfileData \/ ReadLocalInfileResult \/ SendLocalInfileResult
  BY <1>6 DEF SendLocalInfileData, ReadLocalInfileResult, SendLocalInfileResult,
              ServerWriteWaits, ServerWriteFails, ClientWriteWaits, ClientWriteFails, WaitFor, Goto,
              clientVars, parseVars, scriptVars, peerVars
<1>7. CASE Finish \/ Callback \/ FireTimeout \/ HangUp
  BY <1>7 DEF Finish, CloseCon, SendError, ClientWriteWaits, WaitFor, Goto, Callback,
              FireWritable, FireReadable, FireClosed, FireTimeout, HangUp, ClientCloses,
              ServerCloses, conVars, clientVars, queryVars, parseVars, scriptVars, peerVars
<1>8. CASE \/ \E c \in Commands : ClientCommand(c)
           \/ \E c \in {"DATA", "END"} : ClientData(c)
           \/ ClientReceive
  <2>1. ASSUME NEW c \in Commands, ClientCommand(c) PROVE ConOK'
    <3>1. asked' \in 0..MaxQueries BY <2>1, BoundsAssumption DEF ClientCommand
    <3> QED BY <2>1, <3>1 DEF ClientCommand, conVars, parseVars, scriptVars
  <2>2. CASE \E c \in {"DATA", "END"} : ClientData(c)
    BY <2>2 DEF ClientData, conVars, queryVars, parseVars, scriptVars, peerVars
  <2>3. CASE ClientReceive
    BY <2>3, SMTT(30) DEF ClientReceive, conVars, parseVars, scriptVars
  <2> QED BY <1>8, <2>1, <2>2, <2>3
<1>9. CASE Server
  BY <1>9, ZenonT(60) DEF Server, ServerMore, ServerEvent, ServerLast, ServerInfile, ServerLoaded,
              ServerTakes, ServerSays, conVars, clientVars, queryVars, parseVars, scriptVars, peerVars
<1>10. CASE UNCHANGED vars
  BY <1>10 DEF vars, mysqldVars, conVars, clientVars, parseVars, scriptVars, peerVars
<1> QED
  BY <1>1, <1>2, <1>3, <1>4, <1>5, <1>6, <1>7, <1>8, <1>9, <1>10, ZenonT(60) DEF Next, Handle

LEMMA PacketsAreTyped ==
    ASSUME ConOK
    PROVE  /\ \A k \in {"more", "last", "infile", "err", "event"} : Reply(k) \in Replies
           /\ \A inj \in Injections : Request(inj.cmd, FALSE) \in Requests
           /\ \A c \in {"DATA", "END"} : Request(c, FALSE) \in Requests
           /\ Requests \subseteq Jobs
BY DEF ConOK, Reply, Replies, Injections, Request, Requests, Jobs, Packet, Heads

\* Every way read_query_result() ends leaves queues of packets.
LEMMA OutcomeQueues ==
    ASSUME ConOK, NEW s \in Seq(Replies), NEW r \in Seq(Replies),
           NEW o \in proxy_lua_read_query_result(s, r)
    PROVE  o.send \in Seq(Replies) /\ o.recv \in Seq(Replies)
<1>1. /\ s \o r \in Seq(Replies) /\ <<>> \in Seq(Replies)
      /\ Append(s, Reply("last")) \in Seq(Replies)
  BY Joined, Put, PacketsAreTyped
<1>2. \A t, u \in Seq(Replies) : \A n :
         /\ Outcome(t, u, n).send \in Seq(Replies)
         /\ Outcome(t, u, n).recv \in Seq(Replies)
  BY DEF Outcome
<1>3. PICK t \in Seq(Replies), u \in Seq(Replies), n \in {sent, sent + 1} : o = Outcome(t, u, n)
  <2>1. o \in {Outcome(s, r, sent), ResultNoDecision(s, r), ResultReplaced(s, r),
               ResultUnusable(s, r), ResultIgnored(s, r), ResultOther(s, r), ResultLoadFailed(s, r)}
    BY DEF proxy_lua_read_query_result, CarefulResults, FreeResults
  <2>2. CASE o = ResultNoDecision(s, r)
    <3>1. /\ (IF sent = 0 THEN s \o r ELSE s) \in Seq(Replies)
          /\ (IF sent = 0 \/ needed THEN <<>> ELSE r) \in Seq(Replies)
      BY <1>1
    <3> QED BY <2>2, <3>1, Zenon DEF ResultNoDecision
  <2>3. CASE o = ResultUnusable(s, r)
    <3>1. (IF sent = 0 THEN Append(s, Reply("last")) ELSE s) \in Seq(Replies)
      BY <1>1
    <3> QED BY <1>1, <2>3, <3>1, Zenon DEF ResultUnusable
  <2>4. CASE o \in {Outcome(s, r, sent), ResultReplaced(s, r), ResultIgnored(s, r),
                    ResultOther(s, r), ResultLoadFailed(s, r)}
    BY <1>1, <2>4, Zenon DEF ResultReplaced, ResultIgnored, ResultOther, ResultLoadFailed
  <2> QED BY <2>1, <2>2, <2>3, <2>4, Zenon
<1> QED BY <1>2, <1>3

\* The queues and the wires hold packets of their kind.
LEMMA QueuesStep == ASSUME ConOK, QueuesOK, [Next]_vars PROVE QueuesOK'
<1> USE DEF QueuesOK
<1>0. <<>> \in Seq(Replies) /\ <<>> \in Seq(Requests) /\ <<>> \in Seq(Jobs) /\ <<>> \in Seq(Injections)
  BY SMTT(30)
<1>1. CASE ReadQuery
  <2>1. ASSUME client_out # <<>>, client_out' = Tail(client_out),
               proxy_read_query(Append(client_recv, Head(client_out)))
        PROVE  QueuesOK'
    <3> DEFINE r == Append(client_recv, Head(client_out))
    <3>1. r \in Seq(Requests) /\ client_out' \in Seq(Requests) BY <2>1, Taken, Put
    <3>2. UNCHANGED client_in BY <1>1 DEF ReadQuery
    <3>3. \A qs \in Queues : qs \in Seq(Injections) /\ qs # <<>> BY QueuesAreSequences
    <3> HIDE DEF r
    <3>4. CASE ReadQueryForward(r)
      <4>1. server_send' \in Seq(Requests) BY <3>1, <3>4, Joined DEF ReadQueryForward
      <4> QED BY <1>0, <3>1, <3>2, <3>3, <3>4, <4>1, Zenon DEF ReadQueryForward, serverVars
    <3>5. CASE ReadQueryInject(r)
      <4>1. injected' \in Seq(Injections) /\ injected' # <<>> BY <3>3, <3>5 DEF ReadQueryInject
      <4>2. injected'[1] \in Injections BY <4>1, Taken
      <4>3. server_send' \in Seq(Requests)
        BY <3>5, <4>2, PacketsAreTyped, Put, Zenon DEF ReadQueryInject
      <4> QED BY <1>0, <3>1, <3>2, <3>5, <4>1, <4>3, Zenon DEF ReadQueryInject, serverVars
    <3>6. CASE ReadQueryAnswer(r)
      <4>1. client_send' \in Seq(Replies) BY <3>6, PacketsAreTyped, Put, Zenon DEF ReadQueryAnswer
      <4> QED BY <1>0, <3>1, <3>2, <3>3, <3>6, <4>1, Zenon DEF ReadQueryAnswer, DropServer, serverVars
    <3>7. CASE ReadQueryNoServer(r)
      BY <1>0, <3>1, <3>2, <3>7, ZenonT(60) DEF ReadQueryNoServer, DropServer, serverVars
    <3> QED BY <2>1, <3>4, <3>5, <3>6, <3>7 DEF proxy_read_query, r
  <2>2. ASSUME client_out # <<>>, client_out' = Tail(client_out),
               ReadQueryRefused(Append(client_recv, Head(client_out)))
        PROVE  QueuesOK'
    <3>1. Append(client_recv, Head(client_out)) \in Seq(Requests) /\ client_out' \in Seq(Requests)
      BY <2>2, Taken, Put
    <3>2. client_send' \in Seq(Replies) BY <2>2, PacketsAreTyped, Put DEF ReadQueryRefused
    <3> QED BY <1>1, <2>2, <3>1, <3>2 DEF ReadQuery, ReadQueryRefused, serverVars, scriptVars
  <2>3. ASSUME client_out # <<>>, client_out' = Tail(client_out),
               client_recv' = Append(client_recv, Head(client_out)),
               UNCHANGED <<client_send, server_send, server_recv, serverVars, scriptVars, client_in>>
        PROVE  QueuesOK'
    <3>1. client_recv' \in Seq(Requests) /\ client_out' \in Seq(Requests) BY <2>3, Taken, Put
    <3> QED BY <2>3, <3>1 DEF serverVars, scriptVars
  <2>4. CASE UNCHANGED <<client_send, server_send, serverVars, recvVars, scriptVars,
                         client_out, client_in>>
    BY <2>4 DEF serverVars, recvVars, scriptVars
  <2> QED BY <1>1, <2>1, <2>2, <2>3, <2>4, ZenonT(60) DEF ReadQuery
<1>2. CASE SendQuery
  <2>1. server_send' \in Seq(Requests) /\ server_in' \in Seq(Jobs)
    BY <1>2, ServerWrites, PacketsAreTyped, ZenonT(60) DEF SendQuery
  <2> QED BY <1>2, <2>1 DEF SendQuery, clientVars, scriptVars
<1>3. CASE ReadQueryResult
  <2>0. UNCHANGED <<client_out, client_in>> BY <1>3 DEF ReadQueryResult, clientVars
  <2>1. CASE UNCHANGED <<queueVars, recvVars, serverVars, scriptVars>>
    BY <2>0, <2>1 DEF queueVars, recvVars, serverVars, scriptVars
  <2>2. ASSUME server_out # <<>>, UNCHANGED client_recv, ReadResultMore(Head(server_out))
        PROVE  QueuesOK'
    <3>1. Head(server_out) \in Replies /\ Tail(server_out) \in Seq(Replies) BY <2>2, Taken
    <3>2. /\ Append(server_recv, Head(server_out)) \in Seq(Replies)
          /\ Append(client_send, Head(server_out)) \in Seq(Replies)
      BY <3>1, Put
    <3> QED BY <2>0, <2>2, <3>1, <3>2 DEF ReadResultMore, scriptVars
  <2>3. ASSUME server_out # <<>>, UNCHANGED client_recv, ReadResultLast(Head(server_out))
        PROVE  QueuesOK'
    <3>1. Head(server_out) \in Replies /\ Tail(server_out) \in Seq(Replies) BY <2>3, Taken
    <3>2. /\ Append(server_recv, Head(server_out)) \in Seq(Replies)
          /\ Append(client_send, Head(server_out)) \in Seq(Replies)
      BY <3>1, Put
    <3>3. injected' \in Seq(Injections) BY <1>0, <2>3, Taken DEF ReadResultLast
    <3>4. PICK o : /\ o.send \in Seq(Replies) /\ o.recv \in Seq(Replies)
                   /\ client_send' = o.send
                   /\ \/ /\ server_recv' = o.recv
                         /\ server_out' = Tail(server_out)
                         /\ UNCHANGED <<server_send, server_in>>
                      \/ DropServer
      BY <2>3, <3>2, OutcomeQueues, Zenon DEF ReadResultLast
    <3> QED BY <1>0, <2>0, <2>3, <3>1, <3>3, <3>4, Zenon DEF DropServer
  <2> QED BY <1>3, <2>1, <2>2, <2>3 DEF ReadQueryResult
<1>4. CASE SendQueryResult
  <2>1. client_send' \in Seq(Replies) /\ client_in' \in Seq(Replies)
    BY <1>4, ClientWrites DEF SendQueryResult
  <2>2. server_send' \in Seq(Requests) /\ injected' \in Seq(Injections)
    <3>1. CASE NextInjection
      <4>1. injected[1] \in Injections BY <3>1, Taken, SMTT(30) DEF NextInjection
      <4>2. Append(server_send, Request(injected[1].cmd, FALSE)) \in Seq(Requests)
        BY <4>1, PacketsAreTyped, Put, ZenonT(60)
      <4> QED BY <3>1, <4>2, Zenon DEF NextInjection
    <3> QED BY <1>0, <1>4, <3>1, Zenon DEF SendQueryResult, proxy_send_query_result, NoInjection
  <2> QED BY <1>4, <2>1, <2>2 DEF SendQueryResult, serverVars, recvVars
<1>5. CASE ReadLocalInfileData
  <2>1. CASE UNCHANGED <<queueVars, client_out>>
    BY <1>5, <2>1, Zenon DEF ReadLocalInfileData, queueVars, serverVars, recvVars, scriptVars
  <2>2. CASE client_out # <<>> /\ client_out' = Tail(client_out)
    <3>1. Head(client_out) \in Requests /\ Tail(client_out) \in Seq(Requests) BY <2>2, Taken
    <3>2. /\ Append(server_send, Head(client_out)) \in Seq(Requests)
          /\ Append(client_send, Reply("last")) \in Seq(Replies)
      BY <3>1, Put, PacketsAreTyped, Zenon
    <3>3. server_send' \in Seq(Requests) /\ client_send' \in Seq(Replies)
      BY <1>5, <3>2, Zenon DEF ReadLocalInfileData, queueVars
    <3> QED BY <1>5, <2>2, <3>1, <3>3 DEF ReadLocalInfileData, serverVars, recvVars, scriptVars
  <2> QED BY <1>5, <2>1, <2>2 DEF ReadLocalInfileData
<1>6. CASE SendLocalInfileData
  <2>1. server_send' \in Seq(Requests) /\ server_in' \in Seq(Jobs)
    BY <1>6, ServerWrites, PacketsAreTyped DEF SendLocalInfileData
  <2> QED BY <1>6, <2>1 DEF SendLocalInfileData, clientVars, recvVars, scriptVars
<1>7. CASE ReadLocalInfileResult
  <2>1. client_send' \in Seq(Replies) /\ server_out' \in Seq(Replies)
    BY <1>7, Taken, Put, Zenon DEF ReadLocalInfileResult
  <2> QED BY <1>7, <2>1 DEF ReadLocalInfileResult, clientVars, recvVars, scriptVars
<1>8. CASE SendLocalInfileResult
  <2>1. client_send' \in Seq(Replies) /\ client_in' \in Seq(Replies)
    BY <1>8, ClientWrites, ZenonT(60) DEF SendLocalInfileResult
  <2> QED BY <1>8, <2>1 DEF SendLocalInfileResult, serverVars, recvVars, scriptVars
<1>9. CASE Finish \/ Callback \/ FireTimeout \/ HangUp
  <2>1. CASE SendError /\ UNCHANGED queryVars
    <3>1. client_send' \in Seq(Replies) /\ client_in' \in Seq(Replies)
      BY <2>1, ClientWrites DEF SendError
    <3> QED BY <2>1, <3>1 DEF SendError, serverVars, queryVars, recvVars, scriptVars
  <2> QED
    BY <1>9, <2>1 DEF Finish, CloseCon, Callback, FireWritable, FireReadable, FireClosed,
       FireTimeout, HangUp, ClientCloses, ServerCloses, queueVars, clientVars, serverVars,
       queryVars, recvVars, scriptVars
<1>10. ASSUME NEW c \in Commands, ClientCommand(c) PROVE QueuesOK'
  <2>1. PICK ps \in Packets(c) : client_out' = client_out \o ps BY <1>10, Zenon DEF ClientCommand
  <2>2. asked + 1 \in 0..MaxQueries BY <1>10, BoundsAssumption DEF ClientCommand, ConOK
  <2>3. ps \in Seq(Requests)
    <3> DEFINE P(b, m) == [cmd |-> b, q |-> asked + 1, more |-> m]
    <3>1. \A b \in Commands \cup {"QUERY", "CLOSE", "END"}, m \in BOOLEAN : P(b, m) \in Requests
      BY <2>2 DEF Requests, Packet, Heads
    <3>2. CASE ps = <<P(c, FALSE)>>
      <4>1. P(c, FALSE) \in Requests BY <3>1, Zenon
      <4> HIDE DEF P
      <4> QED BY <3>2, <4>1, Pair, Zenon
    <3>3. ASSUME NEW b \in {"QUERY", "CLOSE", "END"}, ps = <<P(c, TRUE), P(b, FALSE)>>
          PROVE  ps \in Seq(Requests)
      <4>1. P(c, TRUE) \in Requests /\ P(b, FALSE) \in Requests BY <3>1, Zenon
      <4> HIDE DEF P
      <4> QED BY <3>3, <4>1, Pair, Zenon
    <3> QED BY <2>1, <3>2, <3>3, Zenon DEF Packets
  <2>4. client_out' \in Seq(Requests) BY <2>1, <2>3, Joined
  <2> QED BY <1>10, <2>4 DEF ClientCommand, queueVars, serverVars, recvVars, scriptVars
<1>11. ASSUME NEW c \in {"DATA", "END"}, ClientData(c) PROVE QueuesOK'
  <2>1. client_out' \in Seq(Requests) BY <1>11, PacketsAreTyped, Put, Zenon DEF ClientData
  <2> QED BY <1>11, <2>1, Zenon DEF ClientData, queueVars, serverVars, queryVars, recvVars, scriptVars
<1>12. CASE ClientReceive
  <2>1. client_in' \in Seq(Replies) BY <1>12, Taken DEF ClientReceive
  <2> QED BY <1>12, <2>1 DEF ClientReceive, queueVars, serverVars, recvVars, scriptVars
<1>13. CASE Server
  <2>0. server_in # <<>> /\ Job \in Jobs BY <1>13, Taken DEF Server, Job
  <2>1. Len(server_in) \in Nat /\ Len(server_in) >= 1 BY <2>0
  <2>2. JobComplete => AfterJob \in Seq(Jobs) BY <2>0, <2>1, Cut DEF JobComplete, AfterJob
  <2>3. Len(server_in) > 1 => SubSeq(server_in, 3, Len(server_in)) \in Seq(Jobs) BY <2>1, Cut, SMTT(30)
  <2>4. ASSUME NEW k \in {"more", "last", "infile", "err", "event"}, NEW in \in Seq(Jobs),
               ServerSays(k, in)
        PROVE  QueuesOK'
    <3>1. [q |-> Job.q, kind |-> k] \in Replies BY <2>0, Zenon DEF Jobs, Packet, Replies
    <3>2. server_out' \in Seq(Replies) BY <2>4, <3>1, Put, ZenonT(60) DEF ServerSays
    <3> QED BY <2>4, <3>2 DEF ServerSays, queueVars, clientVars, queryVars, recvVars, scriptVars
  <2>5. CASE ServerMore \/ ServerEvent \/ ServerLast
    BY <2>2, <2>4, <2>5 DEF ServerMore, ServerEvent, ServerLast, ServerSays
  <2>6. CASE ServerInfile
    <3>1. AfterJob \in Seq(Jobs) BY <2>2, <2>6 DEF ServerInfile, ServerSays
    <3>2. [Job EXCEPT !.cmd = "INFILE"] \in Jobs BY <2>0, ZenonT(60) DEF Jobs, Packet
    <3>3. <<[Job EXCEPT !.cmd = "INFILE"]>> \o AfterJob \in Seq(Jobs) BY <3>1, <3>2, Put, Joined
    <3> QED BY <2>4, <2>6, <3>3, ZenonT(60) DEF ServerInfile
  <2>7. CASE ServerLoaded
    BY <2>3, <2>4, <2>7, Zenon DEF ServerLoaded
  <2>8. CASE ServerTakes
    <3>1. Len(server_in) > 1 => <<Job>> \o SubSeq(server_in, 3, Len(server_in)) \in Seq(Jobs)
      BY <2>0, <2>3, Put, Joined, Zenon
    <3>2. server_in' \in Seq(Jobs) BY <2>2, <2>8, <3>1, Zenon DEF ServerTakes
    <3> QED BY <2>8, <3>2 DEF ServerTakes, queueVars, clientVars, recvVars, scriptVars
  <2> QED BY <1>13, <2>5, <2>6, <2>7, <2>8 DEF Server
<1>14. CASE UNCHANGED vars
  BY <1>14 DEF vars, mysqldVars, queueVars, clientVars, serverVars, recvVars, scriptVars
<1> QED
  BY <1>1, <1>2, <1>3, <1>4, <1>5, <1>6, <1>7, <1>8, <1>9, <1>10, <1>11, <1>12, <1>13, <1>14
  DEF Next, Handle

TypeInv == TypeOK /\ SendingOK

LEMMA InitTyped == Init => TypeInv
<1> SUFFICES ASSUME Init PROVE TypeInv OBVIOUS
<1>1. ConOK
  BY BoundsAssumption DEF Init, ConOK, States, Events, Servers, Clients
<1>2. FlagsOK BY Zenon DEF Init, FlagsOK
<1>3. QueuesOK BY DEF Init, QueuesOK
<1>4. SendingOK BY DEF Init, SendingOK
<1> QED BY <1>1, <1>2, <1>3, <1>4, TypeParts DEF TypeInv

LEMMA TypeInvStep == TypeInv /\ [Next]_vars => TypeInv'
<1> SUFFICES ASSUME TypeInv, [Next]_vars PROVE TypeInv' OBVIOUS
<1>1. ConOK /\ FlagsOK /\ QueuesOK /\ SendingOK BY TypeParts DEF TypeInv
<1>2. ConOK' BY <1>1, ConStep
<1>3. FlagsOK' BY <1>1, FlagsStep
<1>4. QueuesOK' BY <1>1, QueuesStep
<1>5. SendingOK' BY <1>1, SendingStep, ZenonT(60)
<1>6. TypeOK' BY <1>2, <1>3, <1>4 DEF TypeOK, ConOK, FlagsOK, QueuesOK
<1> QED BY <1>5, <1>6 DEF TypeInv

\* The connection, its queues and both wires keep their types, for every
\* script and every bound.
THEOREM TypeCorrect == Spec => []TypeOK
<1>1. TypeInv => TypeOK BY DEF TypeInv
<1> QED BY <1>1, InitTyped, TypeInvStep, PTL DEF Spec

-----------------------------------------------------------------------------
(***************************************************************************)
(* The states that use con->server have one - unless a script answers      *)
(* COM_BINLOG_DUMP.                                                        *)
(***************************************************************************)
\* Without a COM_BINLOG_DUMP among the client's commands no packet of any
\* queue begins with one, and con->parse.command is never one: see Heads.
LEMMA ServerStep ==
    ASSUME "DUMP" \notin Commands, TypeOK, ServerWhereUsed, [Next]_vars
    PROVE  ServerWhereUsed'
<1> USE DEF ServerWhereUsed, ServerStates, HasServer
<1>0. command # "DUMP" BY Zenon DEF TypeOK, Heads
<1>1. CASE ReadQuery
  <2>1. ASSUME NEW r, proxy_read_query(r) PROVE ServerWhereUsed'
    BY <2>1, ZenonT(60) DEF proxy_read_query, ReadQueryForward, ReadQueryInject, ReadQueryAnswer,
                ReadQueryNoServer, Goto
  <2> QED
    BY <1>1, <2>1, Zenon DEF ReadQuery, At, ReadQueryRefused, WaitFor, ReturnInError, Stay, Goto
<1>2. CASE SendQuery
  BY <1>2, ZenonT(60) DEF SendQuery, At, AfterSendQuery, ServerWriteWaits, ServerWriteFails, WaitFor, Goto
<1>3. CASE ReadQueryResult
  BY <1>3 DEF ReadQueryResult, At, ReadResultMore, ReadResultLast, WaitFor, Goto, Stay
<1>4. CASE SendQueryResult
  BY <1>0, <1>4, ZenonT(60) DEF SendQueryResult, At, ClientWriteWaits, ClientWriteFails, WaitFor, Goto,
                    proxy_send_query_result, NextInjection, NoInjection
<1>5. CASE ReadLocalInfileData
  BY <1>5, ZenonT(60) DEF ReadLocalInfileData, At, WaitFor, Goto, Stay
<1>6. CASE SendLocalInfileData \/ ReadLocalInfileResult \/ SendLocalInfileResult
  BY <1>6 DEF SendLocalInfileData, ReadLocalInfileResult, SendLocalInfileResult, At,
              ServerWriteWaits, ServerWriteFails, ClientWriteWaits, ClientWriteFails, WaitFor, Goto
<1>7. CASE Finish \/ Callback \/ FireTimeout \/ HangUp
  BY <1>7 DEF Finish, CloseCon, SendError, At, ClientWriteWaits, WaitFor, Goto, Callback,
              FireWritable, FireReadable, FireClosed, FireTimeout, HangUp, ClientCloses,
              ServerCloses, conVars, Armed
<1>8. CASE \/ \E c \in Commands : ClientCommand(c)
           \/ \E c \in {"DATA", "END"} : ClientData(c)
           \/ ClientReceive
  BY <1>8, Zenon DEF ClientCommand, ClientData, ClientReceive, conVars
<1>9. CASE Server
  BY <1>9 DEF Server, ServerMore, ServerEvent, ServerLast, ServerInfile, ServerLoaded,
              ServerTakes, ServerSays, conVars
<1>10. CASE UNCHANGED vars
  BY <1>10 DEF vars, mysqldVars, conVars
<1> QED
  BY <1>1, <1>2, <1>3, <1>4, <1>5, <1>6, <1>7, <1>8, <1>9, <1>10, ZenonT(60) DEF Next, Handle

\* con_handle() uses con->server only while there is one, whatever the script
\* does with the server connection, provided no COM_BINLOG_DUMP is served.
THEOREM ServersAreThere ==
    ASSUME "DUMP" \notin Commands
    PROVE  Spec => []ServerWhereUsed
<1>1. Init => ServerWhereUsed BY DEF Init, ServerWhereUsed, ServerStates
<1>2. TypeInv /\ ServerWhereUsed /\ [Next]_vars => ServerWhereUsed' BY ServerStep DEF TypeInv
<1> QED BY <1>1, <1>2, InitTyped, TypeInvStep, PTL DEF Spec
-----------------------------------------------------------------------------
(***************************************************************************)
(* Client, proxy and server stay in step. The scripts are those that keep  *)
(* to the contract, the commands those of one packet (the exceptions are   *)
(* findings of their own), and the server is none of Bug #25371.           *)
(***************************************************************************)
Orderly ==
    /\ Script = "none" \/ (Script = "careful" /\ ResultHook)
    /\ ~LongCommands /\ ~BrokenChangeUser

\* s is a run of elements of S and one of T.
EndsIn(s, S, T) ==
    /\ s # <<>>
    /\ s[Len(s)] \in T
    /\ \A i \in 1..(Len(s) - 1) : s[i] \in S

Answerable == {"QUERY", "LOAD", "DUMP", "CHANGE_USER", "QUIT"}
Whole(cmds) == {r \in Jobs : r.cmd \in cmds /\ ~r.more}
OfAsked(cmds) == {r \in Whole(cmds) : r.q = asked}
Closes == Whole({"CLOSE"})
Ending(kinds) == {p \in Replies : p.q = asked /\ p.kind \in kinds}
Part == Ending({"more", "event"})

\* What the client will have seen when all that is queued for it is written.
ToClient == client_in \o client_send

\* Whose turn it is, as the client sees it: it is owed (more of) an answer;
\* it has, or is about to have, its answer and may have sent commands; it is
\* sending a file, or about to be asked for it. One that has hung up is
\* somewhere in the same exchange for ever.
Owed ==
    /\ client \in {"waiting", "closed"}
    /\ client_out = <<>>
    /\ ToClient \in Seq(Part)
Free ==
    \/ /\ client \in {"waiting", "closed"}
       /\ client_out = <<>>
       /\ EndsIn(ToClient, Part, Ending({"last", "err"}))
    \/ /\ client \in {"idle", "closed"}
       /\ client_out \in Seq(Closes)
       /\ ToClient = <<>>
    \/ /\ client \in {"waiting", "closed"}
       /\ EndsIn(client_out, Closes, OfAsked(Answerable))
       /\ ToClient = <<>>
File ==
    \/ /\ client \in {"waiting", "closed"}
       /\ client_out = <<>>
       /\ EndsIn(ToClient, Part, Ending({"infile"}))
    \/ /\ client \in {"infile", "closed"}
       /\ client_out = <<>> \/ \E r \in OfAsked({"DATA"}) : client_out = <<r>>
       /\ ToClient = <<>>
    \/ /\ client \in {"waiting", "closed"}
       /\ \E r \in OfAsked({"END"}) : client_out = <<r>>
       /\ ToClient = <<>>

\* What the server has been given: a file without or with its end, or
\* commands of which only the last is answered.
Loading ==
    /\ server_in # <<>>
    /\ Head(server_in) \in Whole({"INFILE"})
    /\ Tail(server_in) \in Seq(Whole({"DATA"}))
Loaded ==
    /\ server_in # <<>>
    /\ Head(server_in) \in Whole({"INFILE"})
    /\ EndsIn(Tail(server_in), Whole({"DATA"}), Whole({"END"}))
ServerSafe ==
    \/ server_in \in Seq(Closes)
    \/ EndsIn(server_in, Closes, Whole(Answerable))
    \/ Loading
    \/ Loaded

\* What the server does: nothing; it works on the query that command and
\* injected speak of; it waits for a file; it has one to answer.
Due ==
    {r \in Whole(Answerable) :
        /\ command = CommandByte(r.cmd)
        /\ sent = 0 => r.q = asked
        /\ r.cmd = "LOAD" => sent = 0
        /\ injected # <<>> => r.cmd = injected[1].cmd}
Idle == server_out = <<>> /\ server_in \in Seq(Closes)
Saying(p) ==
    /\ server_out = <<p>>
    /\ sent = 0 => p.q = asked
    /\ \/ /\ p.kind \in {"more", "event"}
          /\ command = IF p.kind = "event" THEN "DUMP" ELSE "QUERY"
          /\ EndsIn(server_in, Closes, Due)
       \/ p.kind = "last" /\ command # "DUMP" /\ server_in = <<>>
       \/ /\ p.kind = "infile" /\ command = "QUERY" /\ sent = 0
          /\ Loading /\ Head(server_in).q = asked
          /\ injected # <<>> => injected[1].cmd = "LOAD"
Working ==
    \/ server_out = <<>> /\ EndsIn(server_in, Closes, Due)
    \/ server_out = <<>> /\ server_in = <<>> /\ ~server_alive
    \/ \E p \in Replies : Saying(p)
Filing == server_out = <<>> /\ Loading /\ Head(server_in).q = asked
Filed ==
    \/ server_out = <<>> /\ Loaded /\ Head(server_in).q = asked
    \/ /\ \E p \in Ending({"last", "err"}) : server_out = <<p>>
       /\ server_in = <<>>

\* What is left of the injected queries: once a result-set was sent, no
\* query is left that must be sent as well. Turn is what holds while one is
\* under way.
Plan ==
    /\ injected # <<>> => Script = "careful" /\ HasServer
    /\ CarefulQueue(injected)
    /\ sent > 0 => \A i \in 1..Len(injected) : injected[i].needed /\ injected[i].cmd # "LOAD"
Turn ==
    /\ Plan
    /\ injected = <<>> => ~needed /\ sent = 0
    /\ injected # <<>> => needed = injected[1].needed
    /\ needed \/ sent = 0
    /\ IF sent = 0 THEN Owed ELSE Free

\* What is true in each state.
Clean == server_send = <<>> /\ client_recv = <<>> /\ ~offset
AtReadQuery ==
    Clean /\ Free /\ Idle /\ client_send = <<>> /\ server_recv = <<>> /\ injected = <<>>
Sending(r) ==
    /\ server_send = <<r>>
    /\ offset => command = CommandByte(r.cmd)
    /\ IF r.cmd = "CLOSE" THEN Free /\ injected = <<>>
       ELSE /\ Turn
            /\ sent = 0 => r.q = asked
            /\ injected # <<>> => r.cmd \in {"QUERY", "LOAD"} /\ r.cmd = injected[1].cmd
AtSendQuery ==
    /\ HasServer /\ Idle /\ client_recv = <<>> /\ client_send = <<>> /\ server_recv = <<>>
    /\ infile = "none"
    /\ \E r \in Whole(Answerable \cup {"CLOSE"}) : Sending(r)
Buffered == {p \in Replies : (sent = 0 => p.q = asked) /\ p.kind \in {"more", "event"}}
Reading ==
    /\ Clean /\ HasServer
    /\ Turn
    /\ injected # <<>> => command = "QUERY"
    /\ Working
    /\ infile # "data"
    /\ IF needed THEN server_recv \in Seq(Buffered) ELSE server_recv = <<>>
FileServer == IF HasServer THEN Filing ELSE Idle
AtSendResult ==
    IF ~finished \/ command = "DUMP" THEN Reading
    ELSE /\ Clean /\ server_recv = <<>>
         /\ IF command = "QUERY" /\ infile = "data"
            THEN injected = <<>> /\ File /\ FileServer
            ELSE Idle /\ Plan /\ IF injected # <<>> /\ sent = 0 THEN Owed ELSE Free
NoQuery == server_recv = <<>> /\ injected = <<>> /\ client_recv = <<>> /\ ~offset
AtReadFile == NoQuery /\ client_send = <<>> /\ server_send = <<>> /\ File /\ FileServer
AtSendFile ==
    /\ NoQuery /\ client_send = <<>> /\ HasServer /\ Filing
    /\ \/ ~ldli_done /\ File /\ \E r \in Whole({"DATA"}) : server_send = <<r>>
       \/ ldli_done /\ Owed /\ \E r \in Whole({"END"}) : server_send = <<r>>
AtReadVerdict ==
    NoQuery /\ client_send = <<>> /\ server_send = <<>> /\ HasServer /\ Owed /\ Filed
AtSendVerdict == NoQuery /\ server_send = <<>> /\ Idle /\ Free

OverStates == {"ERROR", "CLOSE_CLIENT", "CLOSE_SERVER"}
Stage ==
    /\ state = "READ_QUERY" => AtReadQuery
    /\ state = "SEND_QUERY" => AtSendQuery
    /\ state = "READ_QUERY_RESULT" => Reading
    /\ state = "SEND_QUERY_RESULT" => AtSendResult
    /\ state = "READ_LOCAL_INFILE_DATA" => AtReadFile
    /\ state = "SEND_LOCAL_INFILE_DATA" => AtSendFile
    /\ state = "READ_LOCAL_INFILE_RESULT" => AtReadVerdict
    /\ state = "SEND_LOCAL_INFILE_RESULT" => AtSendVerdict
Waiting ==
    /\ state \in QueryStates => event \notin {"none", "freed"}
    /\ event = "client_read" => state \in {"READ_QUERY", "READ_LOCAL_INFILE_DATA"}
    /\ event = "server_read" => state \in {"READ_QUERY_RESULT", "READ_LOCAL_INFILE_RESULT"}
SomeTurn == Owed \/ Free \/ File
SyncInv ==
    /\ ~surprised
    /\ state \in QueryStates \cup OverStates
    /\ SomeTurn /\ ServerSafe
    /\ Stage
    /\ Waiting

\* What is known of a run when its ends are added to or taken away.
LEMMA RunGrows ==
    ASSUME NEW S, NEW T, NEW U, NEW s \in Seq(S), NEW t \in Seq(U), EndsIn(t, S, T)
    PROVE  EndsIn(s \o t, S, T)
<1>1. Len(s) \in Nat /\ Len(t) \in Nat /\ Len(t) >= 1 BY EmptyFits, Indexed DEF EndsIn
<1>2. Len(s \o t) = Len(s) + Len(t) /\ s \o t # <<>> BY <1>1
<1>3. (s \o t)[Len(s) + Len(t)] = t[Len(t)] BY <1>1
<1>4. ASSUME NEW i \in 1..(Len(s) + Len(t) - 1) PROVE (s \o t)[i] \in S
  <2>1. CASE i <= Len(s) BY <1>1, <2>1
  <2>2. CASE i > Len(s)
    <3>1. (s \o t)[i] = t[i - Len(s)] BY <1>1, <2>2
    <3>2. i - Len(s) \in 1..(Len(t) - 1) BY <1>1, <2>2, SMTT(30)
    <3> QED BY <3>1, <3>2 DEF EndsIn
  <2> QED BY <1>1, <2>1, <2>2
<1> QED BY <1>2, <1>3, <1>4 DEF EndsIn

LEMMA RunEnds ==
    ASSUME NEW S, NEW T, NEW s \in Seq(S), NEW e \in T
    PROVE  EndsIn(Append(s, e), S, T) /\ EndsIn(<<e>>, S, T)
<1>1. Len(s) \in Nat BY Indexed
<1>2. EndsIn(<<e>>, S, T) BY DEF EndsIn
<1>3. Append(s, e) # <<>> /\ Len(Append(s, e)) = Len(s) + 1 BY <1>1
<1>4. Append(s, e)[Len(s) + 1] = e BY <1>1
<1>5. \A i \in 1..Len(s) : Append(s, e)[i] \in S BY <1>1
<1> QED BY <1>1, <1>2, <1>3, <1>4, <1>5 DEF EndsIn

LEMMA OneOrMore == \A n \in Nat : n >= 1 => (n = 1 \/ n > 1) /\ (n > 1 <=> n - 1 # 0)
OBVIOUS

LEMMA RunTaken ==
    ASSUME NEW S, NEW T, NEW U, NEW s \in Seq(U), EndsIn(s, S, T)
    PROVE  \/ Head(s) \in T /\ Tail(s) = <<>> /\ s = <<Head(s)>>
           \/ Head(s) \in S /\ EndsIn(Tail(s), S, T)
<1>0. Len(s) \in Nat /\ Len(s) >= 1 BY EmptyFits, Indexed DEF EndsIn
<1>1. s # <<>> /\ Len(s) \in Nat /\ Len(s) >= 1 /\ Head(s) = s[1] BY <1>0 DEF EndsIn
<1>2. Tail(s) \in Seq(U) /\ Len(Tail(s)) = Len(s) - 1 /\ \A i \in 1..(Len(s) - 1) : Tail(s)[i] = s[i + 1]
  BY <1>1
<1>3. CASE Len(s) = 1
  <2>1. Tail(s) = <<>>
    <3>1. Len(Tail(s)) = 0 BY <1>2, <1>3
    <3> QED BY <1>2, <3>1, EmptyFits, Zenon
  <2>2. s = <<s[1]>> BY <1>1, <1>3
  <2> QED BY <1>1, <1>3, <2>1, <2>2 DEF EndsIn
<1>4. CASE Len(s) > 1
  <2>1. Head(s) \in S BY <1>1, <1>4 DEF EndsIn
  <2>2. Tail(s) # <<>>
    <3>1. Len(Tail(s)) # 0 BY <1>1, <1>2, <1>4
    <3> QED BY <3>1, EmptyFits, Zenon
  <2>3. Tail(s)[Len(s) - 1] \in T
    <3>1. Tail(s)[Len(s) - 1] = s[(Len(s) - 1) + 1]
      <4>1. Len(s) - 1 \in 1..(Len(s) - 1) BY <1>1, <1>4
      <4> QED BY <1>2, <4>1, Zenon
    <3>2. (Len(s) - 1) + 1 = Len(s) BY <1>1
    <3>3. s[Len(s)] \in T BY DEF EndsIn
    <3> QED BY <3>1, <3>2, <3>3, Zenon
  <2>4. \A i \in 1..(Len(s) - 2) : Tail(s)[i] \in S
    <3> TAKE i \in 1..(Len(s) - 2)
    <3>1. i \in 1..(Len(s) - 1) /\ i + 1 \in 1..(Len(s) - 1) BY <1>1
    <3> QED BY <1>2, <3>1 DEF EndsIn
  <2> QED BY <1>2, <2>1, <2>2, <2>3, <2>4 DEF EndsIn
<1>5. Len(s) = 1 \/ Len(s) > 1 BY <1>0, OneOrMore, Zenon
<1> QED BY <1>3, <1>4, <1>5, Zenon

\* A run is not a run of elements of S alone, and its elements are typed.
LEMMA RunWidens ==
    ASSUME NEW S, NEW T, NEW S1, NEW T1, NEW s, EndsIn(s, S, T), S \subseteq S1, T \subseteq T1
    PROVE  EndsIn(s, S1, T1)
BY DEF EndsIn

\* A partial write leaves what the two ends hold together as it is.
Regroups(s, a, b) == (s \o a) \o b = s \o (a \o b)

LEMMA Associative == \A S : \A s, a, b \in Seq(S) : Regroups(s, a, b)
<1> SUFFICES ASSUME NEW S, NEW s \in Seq(S), NEW a \in Seq(S), NEW b \in Seq(S)
             PROVE  Regroups(s, a, b)
  BY Zenon
<1> QED BY DEF Regroups

LEMMA Split ==
    ASSUME NEW S, NEW s \in Seq(S), NEW t \in Seq(S), NEW n \in 0..(Len(t) - 1)
    PROVE  (s \o SubSeq(t, 1, n)) \o SubSeq(t, n + 1, Len(t)) = s \o t
<1>1. Len(t) \in Nat /\ n \in Nat /\ n <= Len(t) BY Indexed
<1>2. SubSeq(t, 1, n) \in Seq(S) /\ SubSeq(t, n + 1, Len(t)) \in Seq(S) BY <1>1, Cut
<1>3. SubSeq(t, 1, n) \o SubSeq(t, n + 1, Len(t)) = SubSeq(t, 1, Len(t))
  <2>1. 1 \in 1..Len(t) + 1 /\ n \in (1 - 1)..Len(t) /\ Len(t) \in n..Len(t) BY <1>1
  <2> QED BY <2>1, CutsJoined, Zenon
<1>4. SubSeq(t, 1, Len(t)) = t BY CutWhole
<1>5. Regroups(s, SubSeq(t, 1, n), SubSeq(t, n + 1, Len(t))) BY <1>2, Associative, Zenon
<1> QED BY <1>3, <1>4, <1>5, Zenon DEF Regroups

LEMMA Rest ==
    ASSUME NEW S, NEW s \in Seq(S), s # <<>>
    PROVE  /\ SubSeq(s, 2, Len(s)) = Tail(s)
           /\ Len(s) > 1 <=> Tail(s) # <<>>
           /\ Len(s) > 1 => Head(Tail(s)) = s[2] /\ SubSeq(s, 3, Len(s)) = Tail(Tail(s))
<1>1. Len(s) \in Nat /\ Len(s) >= 1 BY EmptyFits, Indexed
<1>2. Tail(s) \in Seq(S) /\ Len(Tail(s)) = Len(s) - 1 BY <1>1
<1>3. SubSeq(s, 2, Len(s)) = Tail(s) BY TailIsCut
<1>4. Len(s) > 1 => Head(Tail(s)) = s[2] /\ SubSeq(s, 3, Len(s)) = Tail(Tail(s))
  <2> HAVE Len(s) > 1
  <2>1. 2 \in 1..Len(s) /\ Len(s) \in 2..Len(s) /\ 2 + 1 = 3 BY <1>1
  <2>2. /\ Head(SubSeq(s, 2, Len(s))) = s[2]
        /\ Tail(SubSeq(s, 2, Len(s))) = SubSeq(s, 2 + 1, Len(s))
    BY <2>1, CutHeadTail
  <2> QED BY <1>3, <2>1, <2>2
<1>5. Tail(s) = <<>> <=> Len(Tail(s)) = 0 BY <1>2, EmptyFits, Zenon
<1>6. Len(s) > 1 <=> Len(s) - 1 # 0 BY <1>1, OneOrMore, Zenon
<1> QED BY <1>2, <1>3, <1>4, <1>5, <1>6, Zenon

\* The first packet of what is queued and written is the first one written.
LEMMA HeadOfBoth ==
    ASSUME NEW S, NEW s \in Seq(S), NEW t \in Seq(S), s # <<>>
    PROVE  s \o t # <<>> /\ Head(s \o t) = Head(s) /\ Tail(s \o t) = Tail(s) \o t
<1>1. Len(s) \in Nat /\ Len(s) >= 1 /\ Len(t) \in Nat BY EmptyFits, Indexed
<1>2. s \o t \in Seq(S) /\ Len(s \o t) = Len(s) + Len(t) BY JoinedEntries
<1>3. s \o t # <<>> BY <1>1, <1>2
<1>4. Head(s \o t) = Head(s) BY <1>1, <1>3
<1> DEFINE x == Tail(s \o t)
           y == Tail(s) \o t
<1>5. x \in Seq(S) /\ y \in Seq(S) BY <1>2, <1>3, Taken, Joined
<1>6. Len(x) = Len(y) BY <1>1, <1>2, <1>3
<1>7. \A i \in 1..Len(x) : x[i] = y[i] BY <1>1, <1>2, <1>3
<1> HIDE DEF x, y
<1>8. x = y BY <1>5, <1>6, <1>7, SameEntries, Zenon
<1> QED BY <1>3, <1>4, <1>8, Zenon DEF x, y

LEMMA JobSets == Requests \subseteq Jobs
BY DEF Requests, Jobs, Packet

LEMMA ToClientTyped == ASSUME QueuesOK PROVE ToClient \in Seq(Replies)
BY Joined DEF QueuesOK, ToClient

\* network_mysqld_write() changes nothing of what the client will have seen.
LEMMA WritesKeep ==
    ASSUME QueuesOK, ClientWritten \/ ClientWriteWaits \/ ClientWriteFails
    PROVE  ToClient' = ToClient
<1> client_in \in Seq(Replies) /\ client_send \in Seq(Replies) BY DEF QueuesOK
<1>1. CASE ClientWritten
  <2>1. client_in' = ToClient /\ client_send' = <<>> BY <1>1 DEF ClientWritten, ToClient
  <2>2. ToClient \o <<>> = ToClient BY ToClientTyped, JoinedToNone
  <2> QED BY <2>1, <2>2, Zenon DEF ToClient
<1>2. CASE ClientWriteWaits
  <2>1. PICK n \in 0..(Len(client_send) - 1) :
          /\ client_in' = client_in \o SubSeq(client_send, 1, n)
          /\ client_send' = SubSeq(client_send, n + 1, Len(client_send))
    BY <1>2, Zenon DEF ClientWriteWaits
  <2>2. (client_in \o SubSeq(client_send, 1, n)) \o SubSeq(client_send, n + 1, Len(client_send))
        = client_in \o client_send
    BY Split, ZenonT(60)
  <2> QED BY <2>1, <2>2, Zenon DEF ToClient
<1>3. CASE ClientWriteFails
  BY <1>3 DEF ClientWriteFails, ToClient
<1> QED BY <1>1, <1>2, <1>3

LEMMA TurnKept ==
    ASSUME ToClient' = ToClient, UNCHANGED <<client, client_out, asked>>
    PROVE  (Owed => Owed') /\ (Free => Free') /\ (File => File')
<1>1. Part' = Part /\ \A ks : Ending(ks)' = Ending(ks) BY DEF Part, Ending
<1>2. \A cs : OfAsked(cs)' = OfAsked(cs) BY DEF OfAsked
<1>3. Owed => Owed' BY <1>1 DEF Owed
<1>4. Free => Free' BY <1>1, <1>2 DEF Free
<1>5. File => File' BY <1>1, <1>2 DEF File
<1> QED BY <1>3, <1>4, <1>5

\* What is queued for the client comes after what it has.
LEMMA QueuedComesLast ==
    ASSUME QueuesOK, NEW t \in Seq(Replies), client_send' = client_send \o t,
           UNCHANGED client_in
    PROVE  ToClient' = ToClient \o t
<1>1. client_in \in Seq(Replies) /\ client_send \in Seq(Replies) BY DEF QueuesOK
<1>2. Regroups(client_in, client_send, t) BY <1>1, Associative, Zenon
<1> QED BY <1>2, Zenon DEF Regroups, ToClient

\* The client has its answer with the last packet of it, and not before.
LEMMA Answers ==
    ASSUME client \in {"waiting", "closed"}, ToClient \in Seq(Part), client_out' = <<>>,
           NEW t \in Seq(Replies), ToClient' = ToClient \o t, UNCHANGED <<client, asked>>
    PROVE  /\ t \in Seq(Part) => Owed'
           /\ EndsIn(t, Part, Ending({"last", "err"})) => Free'
           /\ EndsIn(t, Part, Ending({"infile"})) => File'
<1>1. Part' = Part /\ \A ks : Ending(ks)' = Ending(ks) BY DEF Part, Ending
<1>2. t \in Seq(Part) => ToClient' \in Seq(Part) BY Joined
<1>3. \A T : EndsIn(t, Part, T) => EndsIn(ToClient', Part, T) BY RunGrows
<1>4. t \in Seq(Part) => Owed' BY <1>1, <1>2 DEF Owed
<1>5. EndsIn(t, Part, Ending({"last", "err"})) => Free' BY <1>1, <1>3 DEF Free
<1>6. EndsIn(t, Part, Ending({"infile"})) => File' BY <1>1, <1>3 DEF File
<1> QED BY <1>4, <1>5, <1>6

\* What the client has sent when it is its turn: commands of which the last
\* one is answered, or a piece of its file.
LEMMA CommandTaken ==
    ASSUME QueuesOK, Free, client_out # <<>>
    PROVE  /\ ToClient = <<>>
           /\ \/ /\ Head(client_out) \in Closes
                 /\ ToClient' = ToClient /\ client_out' = Tail(client_out)
                    /\ UNCHANGED <<client, asked>> => Free'
              \/ /\ Head(client_out) \in OfAsked(Answerable)
                 /\ client \in {"waiting", "closed"} /\ Tail(client_out) = <<>>
<1>1. client_out \in Seq(Requests) BY DEF QueuesOK
<1>2. CASE client \in {"idle", "closed"} /\ client_out \in Seq(Closes) /\ ToClient = <<>>
  <2>1. Head(client_out) \in Closes /\ Tail(client_out) \in Seq(Closes) BY <1>2, Taken
  <2> QED BY <1>2, <2>1 DEF Free
<1>3. CASE client \in {"waiting", "closed"} /\ EndsIn(client_out, Closes, OfAsked(Answerable))
           /\ ToClient = <<>>
  <2>1. CASE Head(client_out) \in OfAsked(Answerable) /\ Tail(client_out) = <<>>
    BY <1>3, <2>1
  <2>2. CASE Head(client_out) \in Closes /\ EndsIn(Tail(client_out), Closes, OfAsked(Answerable))
    <3>1. UNCHANGED asked => OfAsked(Answerable)' = OfAsked(Answerable) BY DEF OfAsked
    <3> QED BY <1>3, <2>2, <3>1, ZenonT(60) DEF Free
  <2> QED BY <1>1, <1>3, <2>1, <2>2, RunTaken, ZenonT(60)
<1> QED BY <1>2, <1>3 DEF Free

LEMMA FileTaken ==
    ASSUME File, client_out # <<>>
    PROVE  /\ ToClient = <<>> /\ Tail(client_out) = <<>>
           /\ \/ Head(client_out) \in OfAsked({"DATA"}) /\ client \in {"infile", "closed"}
              \/ Head(client_out) \in OfAsked({"END"}) /\ client \in {"waiting", "closed"}
<1>1. \A r : Head(<<r>>) = r /\ Tail(<<r>>) = <<>> OBVIOUS
<1> QED BY <1>1, Zenon DEF File

\* The client's own steps keep whose turn it is, and find every packet they
\* take expected.
TurnsKept ==
    /\ (Owed => Owed') /\ (Free => Free') /\ (File => File')
    /\ Owed \/ File => asked' = asked
    /\ ~surprised'

LEMMA ClientSpeaks ==
    ASSUME Orderly, TypeOK, ~surprised, SomeTurn, NEW c \in Commands, ClientCommand(c)
    PROVE  TurnsKept
<1>1. client = "idle" /\ ~surprised' /\ asked' = asked + 1 BY Zenon DEF ClientCommand
<1>2. ~Owed /\ ~File BY <1>1 DEF Owed, File
<1>3. client_out \in Seq(Closes) /\ ToClient = <<>> BY <1>1, <1>2, Zenon DEF SomeTurn, Free
<1>4. ToClient' = <<>> BY <1>3, Zenon DEF ClientCommand, ToClient, queueVars
<1> DEFINE r == [cmd |-> c, q |-> asked + 1, more |-> FALSE]
<1>5. client_out' = client_out \o <<r>> BY Zenon DEF ClientCommand, Packets, Orderly
<1>6. r \in Jobs /\ r.cmd = c /\ r.more = FALSE /\ r.q = asked'
  BY <1>1, BoundsAssumption DEF ClientCommand, TypeOK, Jobs, Packet, Heads
<1>7. client' = IF c = "CLOSE" THEN "idle" ELSE "waiting" BY DEF ClientCommand
<1>8. Free'
  <2>1. CASE c = "CLOSE"
    <3>1. r \in Closes BY <1>6, <2>1 DEF Closes, Whole
    <3> HIDE DEF r
    <3>2. client_out' \in Seq(Closes) BY <1>3, <1>5, <3>1, Put, Joined
    <3> QED BY <1>4, <1>7, <2>1, <3>2 DEF Free
  <2>2. CASE c # "CLOSE"
    <3>1. r \in OfAsked(Answerable)'
      BY <1>6, <2>2, CommandsAssumption DEF OfAsked, Whole, Answerable, AllCommands
    <3> HIDE DEF r
    <3>2. EndsIn(<<r>>, Closes, OfAsked(Answerable)') BY <1>3, <3>1, RunEnds, ZenonT(60)
    <3>3. <<r>> \in Seq({r}) OBVIOUS
    <3>4. EndsIn(client_out', Closes, OfAsked(Answerable)') BY <1>3, <1>5, <3>2, <3>3, RunGrows, ZenonT(60)
    <3> QED BY <1>4, <1>7, <2>2, <3>4 DEF Free
  <2> QED BY <2>1, <2>2
<1> QED BY <1>1, <1>2, <1>8 DEF TurnsKept

LEMMA ClientSendsFile ==
    ASSUME TypeOK, ~surprised, SomeTurn, NEW c \in {"DATA", "END"}, ClientData(c)
    PROVE  TurnsKept
<1>1. client = "infile" /\ client_out = <<>> /\ surprised' = surprised /\ asked' = asked
  BY Zenon DEF ClientData, queryVars, peerVars
<1>2. ~Owed /\ ~Free BY <1>1 DEF Owed, Free
<1>3. ToClient = <<>> BY <1>1, <1>2, Zenon DEF SomeTurn, File
<1>4. ToClient' = <<>> BY <1>3, Zenon DEF ClientData, ToClient, queueVars
<1>5. Request(c, FALSE) \in OfAsked({c})'
  BY <1>1 DEF Request, OfAsked, Whole, TypeOK, Jobs, Packet, Heads
<1>6. client_out' = <<Request(c, FALSE)>> /\ client' = IF c = "END" THEN "waiting" ELSE "infile"
  BY DEF ClientData
<1>7. File' BY <1>4, <1>5, <1>6, Zenon DEF File
<1> QED BY <1>1, <1>2, <1>7 DEF TurnsKept

LEMMA ClientReads ==
    ASSUME TypeOK, ~surprised, SomeTurn, ClientReceive
    PROVE  TurnsKept
<1>1. client # "closed" /\ client_in # <<>> /\ client_out' = client_out /\ asked' = asked
  BY Zenon DEF ClientReceive
<1>2. client_in \in Seq(Replies) /\ client_send \in Seq(Replies) BY DEF TypeOK
<1>3. ToClient \in Seq(Replies) /\ ToClient # <<>> /\ Head(ToClient) = Head(client_in)
  BY <1>1, <1>2, HeadOfBoth, Joined DEF ToClient
<1>4. ToClient' = Tail(ToClient)
  <2>1. client_in' = Tail(client_in) /\ client_send' = client_send
    BY Zenon DEF ClientReceive, queueVars
  <2>2. Tail(client_in \o client_send) = Tail(client_in) \o client_send BY <1>1, <1>2, HeadOfBoth
  <2> QED BY <2>1, <2>2, Zenon DEF ToClient
<1>5. client = "waiting" /\ client_out = <<>> BY <1>1, <1>3, Zenon DEF SomeTurn, Owed, Free, File
<1>6. Part' = Part /\ \A ks : Ending(ks)' = Ending(ks) BY <1>1 DEF Part, Ending
<1>7. Head(ToClient).q = asked =>
        /\ surprised' = surprised
        /\ client' = CASE Head(ToClient).kind \in {"last", "err"} -> "idle"
                       [] Head(ToClient).kind = "infile" -> "infile"
                       [] OTHER -> "waiting"
  BY <1>3, <1>5, Zenon DEF ClientReceive
<1>8. ASSUME Head(ToClient) \in Part PROVE client' = "waiting" /\ ~surprised'
  BY <1>7, <1>8 DEF Part, Ending
<1>9. ASSUME Owed PROVE Owed' /\ ~surprised'
  <2>1. Head(ToClient) \in Part /\ Tail(ToClient) \in Seq(Part) BY <1>3, <1>9, Taken DEF Owed
  <2> QED BY <1>1, <1>4, <1>5, <1>6, <1>8, <2>1 DEF Owed
<1>10. ASSUME Free PROVE Free' /\ ~surprised'
  <2>1. EndsIn(ToClient, Part, Ending({"last", "err"})) BY <1>3, <1>10, Zenon DEF Free
  <2>2. CASE Head(ToClient) \in Ending({"last", "err"}) /\ Tail(ToClient) = <<>>
    <3>1. client' = "idle" /\ ~surprised' BY <1>7, <2>2 DEF Ending
    <3>2. client_out' \in Seq(Closes) BY <1>1, <1>5
    <3> QED BY <1>4, <2>2, <3>1, <3>2, Zenon DEF Free
  <2>3. CASE Head(ToClient) \in Part /\ EndsIn(Tail(ToClient), Part, Ending({"last", "err"}))
    BY <1>1, <1>4, <1>5, <1>6, <1>8, <2>3 DEF Free
  <2> QED BY <1>3, <2>1, <2>2, <2>3, RunTaken, Zenon
<1>11. ASSUME File PROVE File' /\ ~surprised'
  <2>1. EndsIn(ToClient, Part, Ending({"infile"})) BY <1>3, <1>11, Zenon DEF File
  <2>2. CASE Head(ToClient) \in Ending({"infile"}) /\ Tail(ToClient) = <<>>
    <3>1. client' = "infile" /\ ~surprised' BY <1>7, <2>2 DEF Ending
    <3> QED BY <1>1, <1>4, <1>5, <2>2, <3>1, Zenon DEF File
  <2>3. CASE Head(ToClient) \in Part /\ EndsIn(Tail(ToClient), Part, Ending({"infile"}))
    BY <1>1, <1>4, <1>5, <1>6, <1>8, <2>3 DEF File
  <2> QED BY <1>3, <2>1, <2>2, <2>3, RunTaken, Zenon
<1> QED BY <1>1, <1>9, <1>10, <1>11, Zenon DEF TurnsKept, SomeTurn

LEMMA GoneKeepsTurn ==
    ASSUME client' = "closed", ToClient' = ToClient, UNCHANGED <<client_out, asked>>
    PROVE  (Owed => Owed') /\ (Free => Free') /\ (File => File')
<1>1. Part' = Part /\ \A ks : Ending(ks)' = Ending(ks) BY DEF Part, Ending
<1>2. \A cs : OfAsked(cs)' = OfAsked(cs) BY DEF OfAsked
<1>3. Owed => Owed' BY <1>1 DEF Owed
<1>4. Free => Free' BY <1>1, <1>2 DEF Free
<1>5. File => File' BY <1>1, <1>2, Zenon DEF File
<1> QED BY <1>3, <1>4, <1>5

LEMMA ClientHangsUp ==
    ASSUME ~surprised, ClientCloses, UNCHANGED queryVars
    PROVE  TurnsKept
<1>1. client' = "closed" /\ ToClient' = ToClient /\ UNCHANGED <<client_out, asked, surprised>>
  BY DEF ClientCloses, ToClient, queueVars, queryVars, peerVars
<1> QED BY <1>1, GoneKeepsTurn DEF TurnsKept

-----------------------------------------------------------------------------
\* The server's own steps keep what it is doing, and find every packet they
\* take expected.
ServerKept ==
    /\ (Idle => Idle') /\ (Working => Working') /\ (Filing => Filing') /\ (Filed => Filed')
    /\ ServerSafe'
    /\ ~surprised'

LEMMA WholeJobs == \A cs : Whole(cs) \subseteq Jobs /\ \A r \in Whole(cs) : r.cmd \in cs /\ ~r.more
BY DEF Whole

\* What the server may find at the head of what it was given.
LEMMA Given ==
    ASSUME QueuesOK, ServerSafe, server_in # <<>>
    PROVE  /\ Job \in Jobs /\ ~Job.more /\ AfterJob = Tail(server_in)
           /\ \/ Job \in Closes /\ server_in \in Seq(Closes) /\ Tail(server_in) \in Seq(Closes)
              \/ Job \in Closes /\ EndsIn(Tail(server_in), Closes, Whole(Answerable))
              \/ Job \in Whole(Answerable) /\ Tail(server_in) = <<>>
              \/ Loading \/ Loaded
<1>1. server_in \in Seq(Jobs) BY DEF QueuesOK
<1>2. \/ Job \in Closes /\ server_in \in Seq(Closes) /\ Tail(server_in) \in Seq(Closes)
      \/ Job \in Closes /\ EndsIn(Tail(server_in), Closes, Whole(Answerable))
      \/ Job \in Whole(Answerable) /\ Tail(server_in) = <<>>
      \/ Loading \/ Loaded
  <2>1. CASE server_in \in Seq(Closes) BY <2>1, Taken DEF Job
  <2>2. CASE EndsIn(server_in, Closes, Whole(Answerable)) BY <1>1, <2>2, RunTaken DEF Job
  <2> QED BY <2>1, <2>2 DEF ServerSafe
<1>3. Job \in Jobs /\ ~Job.more
  BY <1>2, WholeJobs, Zenon DEF Closes, Loading, Loaded, Job
<1>4. AfterJob = Tail(server_in)
  <2>1. AfterJob = SubSeq(server_in, 2, Len(server_in)) BY <1>3 DEF AfterJob
  <2> QED BY <1>1, <2>1, Rest
<1> QED BY <1>2, <1>3, <1>4

\* What the packet at the head tells of what the server is doing.
LEMMA GivenTells ==
    ASSUME QueuesOK, server_in # <<>>
    PROVE  /\ Idle => Job.cmd = "CLOSE"
           /\ EndsIn(server_in, Closes, Due) =>
                 \/ Job.cmd = "CLOSE" /\ EndsIn(Tail(server_in), Closes, Due)
                 \/ Job \in Due /\ Tail(server_in) = <<>>
           /\ Loading \/ Loaded => Job.cmd = "INFILE"
<1>1. server_in \in Seq(Jobs) BY DEF QueuesOK
<1>2. \A r \in Closes : r.cmd = "CLOSE" BY WholeJobs DEF Closes
<1>3. Idle => Job \in Closes BY Taken DEF Idle, Job
<1>4. EndsIn(server_in, Closes, Due) =>
        \/ Job \in Closes /\ EndsIn(Tail(server_in), Closes, Due)
        \/ Job \in Due /\ Tail(server_in) = <<>>
  BY <1>1, RunTaken DEF Job
<1>5. Loading \/ Loaded => Job \in Whole({"INFILE"}) BY DEF Loading, Loaded, Job
<1>6. \A r \in Whole({"INFILE"}) : r.cmd = "INFILE" BY WholeJobs
<1> QED BY <1>2, <1>3, <1>4, <1>5, <1>6, Zenon

LEMMA DueTells ==
    ASSUME NEW r \in Due
    PROVE  /\ r \in Jobs /\ r.cmd \in Answerable /\ command = CommandByte(r.cmd)
           /\ sent = 0 => r.q = asked
           /\ r.cmd = "LOAD" => sent = 0
           /\ injected # <<>> => r.cmd = injected[1].cmd
BY DEF Due, Whole

Kinds == {"more", "last", "infile", "err", "event"}

LEMMA RepliesMade ==
    \A j \in Jobs, k \in Kinds :
        \E p \in Replies : p = [q |-> j.q, kind |-> k] /\ p.kind = k /\ p.q = j.q
<1> TAKE j \in Jobs, k \in Kinds
<1>1. [q |-> j.q, kind |-> k] \in Replies BY Zenon DEF Jobs, Packet, Replies, Kinds
<1> WITNESS [q |-> j.q, kind |-> k] \in Replies
<1> QED OBVIOUS

LEMMA ServerAnswers ==
    ASSUME QueuesOK, ServerSafe, ~surprised, server_in # <<>>,
           ServerMore \/ ServerEvent \/ ServerLast \/ ServerInfile
    PROVE  ServerKept
<1>1. Job \in Jobs /\ AfterJob = Tail(server_in) BY Given, ZenonT(60)
<1>2. Job.cmd \in {"QUERY", "DUMP", "LOAD", "CHANGE_USER"} /\ server_out = <<>>
  BY DEF ServerMore, ServerEvent, ServerLast, ServerInfile, ServerSays, Expecting
<1>3. ~Idle /\ ~Filing /\ ~Filed /\ ~Loading /\ ~Loaded
  BY <1>2, GivenTells DEF Filing, Filed
<1>4. Job \in Whole(Answerable) /\ Tail(server_in) = <<>>
  <2>1. \A r \in Closes : r.cmd = "CLOSE" BY WholeJobs DEF Closes
  <2>2. Job \notin Closes BY <1>2, <2>1, ZenonT(60)
  <2> QED BY <1>3, <2>2, Given, Zenon
<1>5. ~surprised' /\ UNCHANGED <<command, sent, injected, asked>>
  <2>1. UNCHANGED queryVars
    BY Zenon DEF ServerMore, ServerEvent, ServerLast, ServerInfile, ServerSays
  <2> QED BY <2>1 DEF queryVars, parseVars, scriptVars, peerVars
<1>6. Due' = Due BY <1>5 DEF Due
<1>7. Working => Job \in Due /\ EndsIn(server_in, Closes, Due)
  BY <1>2, GivenTells, Zenon DEF Working, Saying
<1>8. \A k \in Kinds :
        \E p \in Replies : p = [q |-> Job.q, kind |-> k] /\ p.kind = k /\ p.q = Job.q
  BY <1>1, RepliesMade, Zenon
<1>9. CASE ServerMore \/ ServerEvent
  <2>1. PICK k \in {"more", "event"} :
          /\ server_out' = <<[q |-> Job.q, kind |-> k]>> /\ server_in' = server_in
          /\ Job.cmd = IF k = "event" THEN "DUMP" ELSE "QUERY"
    BY <1>9, Zenon DEF ServerMore, ServerEvent, ServerSays
  <2>2. ServerSafe' BY <2>1 DEF ServerSafe, Loading, Loaded
  <2>3. ASSUME Working PROVE Working'
    <3>1. Job \in Due /\ EndsIn(server_in, Closes, Due) BY <1>7, <2>3
    <3>2. command = IF k = "event" THEN "DUMP" ELSE "QUERY"
      BY <2>1, <3>1, DueTells DEF CommandByte
    <3>3. PICK p \in Replies : p = [q |-> Job.q, kind |-> k] /\ p.kind = k /\ p.q = Job.q
      BY <1>8, Zenon DEF Kinds
    <3>4. server_out' = <<p>> /\ (sent = 0 => p.q = asked) BY <2>1, <3>1, <3>3, DueTells, Zenon
    <3>5. p.kind = k BY <3>3, Zenon
    <3>6. Saying(p)' BY <1>5, <1>6, <2>1, <3>1, <3>2, <3>4, <3>5, ZenonT(60) DEF Saying
    <3> QED BY <3>6, Zenon DEF Working
  <2> QED BY <1>3, <1>5, <2>2, <2>3 DEF ServerKept
<1>10. CASE ServerLast
  <2>1. server_out' = <<[q |-> Job.q, kind |-> "last"]>> /\ server_in' = <<>> /\ Job.cmd \in Expecting
    BY <1>1, <1>4, <1>10, Zenon DEF ServerLast, ServerSays
  <2>2. ServerSafe' BY <2>1 DEF ServerSafe
  <2>3. ASSUME Working PROVE Working'
    <3>1. Job \in Due BY <1>7, <2>3
    <3>2. command # "DUMP" BY <2>1, <3>1, DueTells DEF CommandByte, Expecting
    <3>3. PICK p \in Replies : p = [q |-> Job.q, kind |-> "last"] /\ p.kind = "last" /\ p.q = Job.q
      BY <1>8, Zenon DEF Kinds
    <3>4. server_out' = <<p>> /\ (sent = 0 => p.q = asked) BY <2>1, <3>1, <3>3, DueTells, Zenon
    <3>5. p.kind = "last" BY <3>3, Zenon
    <3>6. Saying(p)' BY <1>5, <2>1, <3>2, <3>4, <3>5, ZenonT(60) DEF Saying
    <3> QED BY <3>6, Zenon DEF Working
  <2> QED BY <1>3, <1>5, <2>2, <2>3 DEF ServerKept
<1>11. CASE ServerInfile
  <2> DEFINE j == [Job EXCEPT !.cmd = "INFILE"]
  <2>1. /\ server_out' = <<[q |-> Job.q, kind |-> "infile"]>>
        /\ server_in' = <<j>> \o <<>> /\ Job.cmd = "LOAD"
    BY <1>1, <1>4, <1>11, Zenon DEF ServerInfile, ServerSays
  <2>2. j \in Jobs /\ j.cmd = "INFILE" /\ j.q = Job.q /\ j.more = Job.more
    BY <1>1 DEF Jobs, Packet
  <2>3. j \in Whole({"INFILE"}) BY <1>4, <2>2, WholeJobs, ZenonT(60) DEF Whole
  <2> HIDE DEF j
  <2>4. server_in' = <<j>> /\ Head(server_in') = j /\ Tail(server_in') = <<>> BY <2>1
  <2>5. Loading' BY <2>3, <2>4 DEF Loading
  <2>6. ASSUME Working PROVE Working'
    <3>1. Job \in Due BY <1>7, <2>6
    <3>2. command = "QUERY" /\ sent = 0 /\ Job.q = asked /\ (injected # <<>> => injected[1].cmd = "LOAD")
      BY <2>1, <3>1, DueTells DEF CommandByte
    <3>3. PICK p \in Replies : p = [q |-> Job.q, kind |-> "infile"] /\ p.kind = "infile" /\ p.q = Job.q
      BY <1>8, Zenon DEF Kinds
    <3>4. server_out' = <<p>> /\ p.q = asked /\ p.kind = "infile" BY <2>1, <3>2, <3>3, Zenon
    <3>5. Head(server_in').q = asked BY <2>2, <2>4, <3>2, ZenonT(60)
    <3>6. Saying(p)' BY <1>5, <2>5, <3>2, <3>4, <3>5, ZenonT(60) DEF Saying
    <3> QED BY <3>6, Zenon DEF Working
  <2> QED BY <1>3, <1>5, <2>5, <2>6 DEF ServerKept, ServerSafe
<1> QED BY <1>9, <1>10, <1>11

LEMMA Pushed ==
    ASSUME NEW S, NEW e \in S, NEW t \in Seq(S)
    PROVE  <<e>> \o t # <<>> /\ Head(<<e>> \o t) = e /\ Tail(<<e>> \o t) = t
<1>1. <<e>> \in Seq(S) /\ <<e>> # <<>> /\ Head(<<e>>) = e /\ Tail(<<e>>) = <<>> OBVIOUS
<1>2. <<>> \o t = t BY JoinedToNone
<1> QED BY <1>1, <1>2, HeadOfBoth

LEMMA ServerTakesFile ==
    ASSUME QueuesOK, ServerSafe, ~surprised, server_in # <<>>, Job.cmd = "INFILE",
           ServerLoaded \/ ServerTakes
    PROVE  ServerKept
<1>1. server_in \in Seq(Jobs) /\ Job \in Jobs BY Given DEF QueuesOK
<1>2. Loading \/ Loaded
  <2>1. \A r \in Closes \cup Whole(Answerable) : r.cmd # "INFILE"
    BY WholeJobs DEF Closes, Answerable
  <2> QED BY <2>1, Given, Zenon
<1>3. ~Idle /\ ~EndsIn(server_in, Closes, Due)
  BY GivenTells, DueTells DEF Answerable
<1>4. Len(server_in) > 1 BY DEF ServerLoaded, ServerTakes
<1>5. /\ Tail(server_in) \in Seq(Jobs) /\ Tail(server_in) # <<>>
      /\ Head(Tail(server_in)) = server_in[2]
      /\ SubSeq(server_in, 3, Len(server_in)) = Tail(Tail(server_in))
  BY <1>1, <1>4, Rest, Taken, ZenonT(60)
<1>6. UNCHANGED <<command, sent, injected, asked>>
  BY ZenonT(60) DEF ServerLoaded, ServerTakes, ServerSays, queryVars, parseVars, scriptVars, peerVars
<1>7. Loading => Head(Tail(server_in)).cmd = "DATA" /\ Tail(Tail(server_in)) \in Seq(Whole({"DATA"}))
  BY <1>5, Taken, WholeJobs DEF Loading
<1>8. Loaded =>
        \/ Head(Tail(server_in)).cmd = "END" /\ Tail(Tail(server_in)) = <<>>
        \/ /\ Head(Tail(server_in)).cmd = "DATA"
           /\ EndsIn(Tail(Tail(server_in)), Whole({"DATA"}), Whole({"END"}))
  <2>1. Loaded =>
          \/ Head(Tail(server_in)) \in Whole({"END"}) /\ Tail(Tail(server_in)) = <<>>
          \/ /\ Head(Tail(server_in)) \in Whole({"DATA"})
             /\ EndsIn(Tail(Tail(server_in)), Whole({"DATA"}), Whole({"END"}))
    BY <1>5, RunTaken, ZenonT(60) DEF Loaded
  <2>2. \A r \in Whole({"END"}) : r.cmd = "END" BY WholeJobs
  <2>3. \A r \in Whole({"DATA"}) : r.cmd = "DATA" BY WholeJobs
  <2> QED BY <2>1, <2>2, <2>3, Zenon
<1>9. CASE ServerLoaded
  <2>1. PICK k \in {"last", "err"} :
          ServerSays(k, SubSeq(server_in, 3, Len(server_in))) /\ server_in[2].cmd = "END"
    BY <1>9, Zenon DEF ServerLoaded
  <2>2. ~Loading /\ Loaded /\ server_in' = <<>> /\ server_out = <<>>
    BY <1>2, <1>5, <1>7, <1>8, <2>1 DEF ServerSays
  <2>3. PICK p \in Replies : p = [q |-> Job.q, kind |-> k] /\ p.kind = k /\ p.q = Job.q
    <3>1. k \in Kinds BY Zenon DEF Kinds
    <3> QED BY <1>1, <3>1, RepliesMade, Zenon
  <2>4. server_out' = <<p>> BY <2>1, <2>3, Zenon DEF ServerSays
  <2>5. Filed => Job.q = asked BY <2>2 DEF Filed, Job
  <2>6. Filed => p \in Ending({"last", "err"})' BY <1>6, <2>3, <2>5 DEF Ending
  <2>7. Filed => Filed' BY <2>2, <2>4, <2>6, ZenonT(60) DEF Filed
  <2>8. ~Working /\ ~Filing BY <1>3, <2>2 DEF Working, Saying, Filing
  <2>9. ~surprised' BY <2>1 DEF ServerSays, queryVars, peerVars
  <2>10. ServerSafe' BY <2>2 DEF ServerSafe
  <2> QED BY <1>3, <2>7, <2>8, <2>9, <2>10 DEF ServerKept
<1>10. CASE ServerTakes
  <2>1. /\ server_in' = <<Job>> \o Tail(Tail(server_in)) /\ server_in[2].cmd # "END"
        /\ surprised' = (surprised \/ server_in[2].cmd # "DATA")
        /\ UNCHANGED <<server_out, server_alive>>
    BY <1>5, <1>10, Zenon DEF ServerTakes
  <2>2. ~surprised' BY <1>2, <1>5, <1>7, <1>8, <2>1, ZenonT(60)
  <2>3. server_in' # <<>> /\ Head(server_in') = Job /\ Tail(server_in') = Tail(Tail(server_in))
    <3>1. Tail(Tail(server_in)) \in Seq(Jobs) BY <1>5, Taken
    <3> QED BY <1>1, <2>1, <3>1, Pushed, Zenon
  <2>4. Loading => Loading' BY <1>7, <2>3, Zenon DEF Loading, Job
  <2>5. Loaded => Loaded' BY <1>5, <1>8, <2>1, <2>3, ZenonT(60) DEF Loaded, Job
  <2>6. Filing => Filing' BY <1>6, <2>1, <2>3, <2>4 DEF Filing, Job
  <2>7. Filed => Filed' BY <1>6, <2>1, <2>3, <2>5 DEF Filed, Job
  <2>8. ASSUME Working PROVE Working'
    <3>1. PICK p \in Replies : Saying(p) BY <1>3, <2>8, ZenonT(60) DEF Working
    <3>2. Saying(p)' BY <1>3, <1>6, <2>1, <2>3, <2>4, <3>1, ZenonT(60) DEF Saying, Job
    <3> QED BY <3>2, Zenon DEF Working
  <2>9. ServerSafe' BY <1>2, <2>4, <2>5 DEF ServerSafe
  <2> QED BY <1>3, <2>2, <2>6, <2>7, <2>8, <2>9 DEF ServerKept
<1> QED BY <1>9, <1>10

LEMMA ServerTakesCommand ==
    ASSUME QueuesOK, ServerSafe, ~surprised, server_in # <<>>, Job.cmd # "INFILE", ServerTakes
    PROVE  ServerKept
<1>1. ~Loading /\ ~Loaded /\ ~Filing BY GivenTells DEF Filing
<1>2. Job.cmd \in {"CLOSE", "QUIT", "DATA", "END"} /\ server_in' = Tail(server_in)
      /\ surprised' = (surprised \/ Job.cmd \in {"DATA", "END"})
      /\ server_alive' = (Job.cmd # "QUIT") /\ server_out' = server_out
  BY Given, Zenon DEF ServerTakes
<1>3. UNCHANGED <<command, sent, injected, asked>>
  BY DEF ServerTakes, parseVars, scriptVars
<1>4. Due' = Due BY <1>3 DEF Due
<1>5. ~Filed BY <1>1 DEF Filed
<1>6. Idle => Idle'
  <2>1. Idle => Tail(server_in) \in Seq(Closes) BY Taken DEF Idle
  <2> QED BY <1>2, <2>1 DEF Idle
<1>7. ServerSafe' /\ ~surprised'
  <2>1. \A r \in Closes \cup Whole(Answerable) : r.cmd \notin {"DATA", "END"}
    BY WholeJobs DEF Closes, Answerable
  <2>2. ~surprised' BY <1>1, <1>2, <2>1, Given, ZenonT(60)
  <2>3. Tail(server_in) = <<>> => Tail(server_in) \in Seq(Closes) BY EmptyFits, Zenon
  <2>4. ServerSafe' BY <1>1, <1>2, <2>3, Given, Zenon DEF ServerSafe
  <2> QED BY <2>2, <2>4
<1>8. EndsIn(server_in, Closes, Due) =>
        \/ EndsIn(server_in', Closes, Due')
        \/ ~server_alive' /\ server_in' = <<>> /\ command = "QUIT"
  <2>1. ASSUME Job \in Due PROVE Job.cmd = "QUIT" /\ command = "QUIT"
    BY <1>2, <2>1, DueTells DEF Answerable, CommandByte
  <2> QED BY <1>2, <1>4, <2>1, GivenTells, ZenonT(60)
<1>9. ASSUME Working PROVE Working'
  <2>1. CASE server_out = <<>> BY <1>2, <1>8, <1>9, <2>1, ZenonT(60) DEF Working, Saying
  <2>2. CASE server_out # <<>>
    <3>1. PICK p \in Replies : Saying(p) BY <1>9, <2>2, Zenon DEF Working
    <3>2. EndsIn(server_in, Closes, Due) /\ command # "QUIT" BY <1>1, <3>1, Zenon DEF Saying
    <3>3. EndsIn(server_in', Closes, Due') BY <1>8, <3>2, ZenonT(60)
    <3>4. Saying(p)' BY <1>1, <1>2, <1>3, <3>1, <3>3, ZenonT(60) DEF Saying
    <3> QED BY <3>4, Zenon DEF Working
  <2> QED BY <2>1, <2>2
<1> QED BY <1>1, <1>5, <1>6, <1>7, <1>9 DEF ServerKept

LEMMA ServerWorks ==
    ASSUME QueuesOK, ServerSafe, ~surprised, Server
    PROVE  ServerKept
<1>1. server_in # <<>> BY DEF Server
<1>2. CASE ServerMore \/ ServerEvent \/ ServerLast \/ ServerInfile BY <1>1, <1>2, ServerAnswers
<1>3. CASE ServerLoaded BY <1>1, <1>3, ServerTakesFile DEF ServerLoaded
<1>4. CASE ServerTakes BY <1>1, <1>4, ServerTakesFile, ServerTakesCommand
<1> QED BY <1>2, <1>3, <1>4 DEF Server

LEMMA ServerHangsUp ==
    ASSUME ServerSafe, ~surprised, ServerCloses, UNCHANGED queryVars
    PROVE  ServerKept
<1>1. /\ UNCHANGED <<server_in, server_out, command, sent, injected, asked, surprised>>
      /\ server_alive' = FALSE
  BY DEF ServerCloses, queryVars, parseVars, scriptVars, peerVars
<1>2. Due' = Due BY <1>1 DEF Due
<1>3. (Loading => Loading') /\ (Loaded => Loaded') BY <1>1, ZenonT(60) DEF Loading, Loaded
<1>4. \A p \in Replies : Saying(p) => Saying(p)' BY <1>1, <1>2, <1>3 DEF Saying
<1>5. Working => Working' BY <1>1, <1>2, <1>4 DEF Working
<1>6. Ending({"last", "err"})' = Ending({"last", "err"}) BY <1>1 DEF Ending
<1>7. Filing => Filing' BY <1>1, <1>3, ZenonT(60) DEF Filing
<1>8. Filed => Filed' BY <1>1, <1>3, <1>6, ZenonT(60) DEF Filed
<1>9. ServerSafe' BY <1>1, <1>3 DEF ServerSafe
<1> QED BY <1>1, <1>5, <1>7, <1>8, <1>9 DEF ServerKept, Idle

-----------------------------------------------------------------------------
\* What a state demands holds on as long as con_handle() does nothing and the
\* peers keep to their turns.
Untouched ==
    UNCHANGED <<state, server, client_send, server_send, client_recv, server_recv, offset,
                command, infile, needed, finished, ldli_done, injected, sent>>

LEMMA StageKept ==
    ASSUME Stage, Untouched,
           Owed => Owed', Free => Free', File => File', Owed \/ File => asked' = asked,
           Idle => Idle', (sent = 0 => asked' = asked) /\ Working => Working',
           asked' = asked /\ Filing => Filing', asked' = asked /\ Filed => Filed'
    PROVE  Stage'
<1> USE DEF Untouched
<1>1. (HasServer <=> HasServer') /\ (Clean => Clean') /\ (NoQuery => NoQuery')
  BY ZenonT(60) DEF HasServer, Clean, NoQuery
<1>2. Plan => Plan' BY <1>1 DEF Plan
<1>3. Turn => Turn' /\ (sent = 0 => asked' = asked) BY <1>2 DEF Turn
<1>4. AtReadQuery => AtReadQuery' BY <1>1 DEF AtReadQuery
<1>5. \A r : Sending(r) => Sending(r)' BY <1>3 DEF Sending
<1>6. AtSendQuery => AtSendQuery' BY <1>1, <1>5 DEF AtSendQuery
<1>7. Reading => Reading'
  <2>1. (sent = 0 => asked' = asked) => Buffered' = Buffered BY DEF Buffered
  <2> QED BY <1>1, <1>3, <2>1 DEF Reading
<1>8. File /\ FileServer => FileServer' BY <1>1 DEF FileServer
<1>9. AtSendResult => AtSendResult' BY <1>1, <1>2, <1>7, <1>8 DEF AtSendResult
<1>10. AtReadFile => AtReadFile' BY <1>1, <1>8 DEF AtReadFile
<1>11. AtSendFile => AtSendFile' BY <1>1 DEF AtSendFile
<1>12. AtReadVerdict => AtReadVerdict' BY <1>1 DEF AtReadVerdict
<1>13. AtSendVerdict => AtSendVerdict' BY <1>1 DEF AtSendVerdict
<1> QED BY <1>4, <1>6, <1>7, <1>9, <1>10, <1>11, <1>12, <1>13 DEF Stage

LEMMA ServerLeftAlone ==
    ASSUME UNCHANGED <<server_in, server_out, server_alive, command, sent, injected>>
    PROVE  /\ Idle => Idle'
           /\ (sent = 0 => asked' = asked) /\ Working => Working'
           /\ asked' = asked /\ Filing => Filing'
           /\ asked' = asked /\ Filed => Filed'
           /\ ServerSafe => ServerSafe'
<1>1. (Loading => Loading') /\ (Loaded => Loaded') BY DEF Loading, Loaded
<1>2. ASSUME sent = 0 => asked' = asked, Working PROVE Working'
  <2>1. Due' = Due BY <1>2, ZenonT(60) DEF Due
  <2>2. \A p \in Replies : Saying(p) => Saying(p)' BY <1>1, <1>2, <2>1 DEF Saying
  <2> QED BY <1>2, <2>1, <2>2 DEF Working
<1>3. asked' = asked => Ending({"last", "err"})' = Ending({"last", "err"}) BY DEF Ending
<1>4. asked' = asked /\ Filing => Filing' BY <1>1, Zenon DEF Filing
<1>5. asked' = asked /\ Filed => Filed' BY <1>1, <1>3, ZenonT(60) DEF Filed
<1>6. ServerSafe => ServerSafe' BY <1>1 DEF ServerSafe
<1> QED BY <1>2, <1>4, <1>5, <1>6 DEF Idle

\* What each state demands says whose turn it is and what the server may do.
LEMMA WorkingIsSafe == Working \/ Idle \/ Filing \/ Filed => ServerSafe
<1>1. EndsIn(server_in, Closes, Due) => EndsIn(server_in, Closes, Whole(Answerable))
  <2>1. Due \subseteq Whole(Answerable) BY DEF Due
  <2> QED BY <2>1, RunWidens
<1>2. server_in = <<>> => server_in \in Seq(Closes) BY EmptyFits, Zenon
<1>3. Working => ServerSafe BY <1>1, <1>2, ZenonT(60) DEF Working, Saying, ServerSafe
<1> QED BY <1>2, <1>3 DEF Idle, Filing, Filed, ServerSafe

LEMMA StageIsSafe ==
    AtReadQuery \/ AtSendQuery \/ Reading \/ AtSendResult \/ AtReadFile \/ AtSendFile
        \/ AtReadVerdict \/ AtSendVerdict
    => SomeTurn /\ ServerSafe
<1>1. Turn => Owed \/ Free BY DEF Turn
<1>2. \A r : Sending(r) => Owed \/ Free BY <1>1 DEF Sending
<1>3. AtSendQuery => SomeTurn /\ ServerSafe BY <1>2, WorkingIsSafe DEF AtSendQuery, SomeTurn
<1>4. Reading => SomeTurn /\ ServerSafe BY <1>1, WorkingIsSafe DEF Reading, SomeTurn
<1>5. FileServer => ServerSafe BY WorkingIsSafe DEF FileServer
<1>6. AtSendResult => SomeTurn /\ ServerSafe BY <1>4, <1>5, WorkingIsSafe DEF AtSendResult, SomeTurn
<1>7. AtReadQuery \/ AtReadFile \/ AtSendFile \/ AtReadVerdict \/ AtSendVerdict => SomeTurn /\ ServerSafe
  BY <1>5, WorkingIsSafe
  DEF AtReadQuery, AtReadFile, AtSendFile, AtReadVerdict, AtSendVerdict, SomeTurn
<1> QED BY <1>3, <1>4, <1>6, <1>7

Entered ==
    \/ state = "READ_QUERY" /\ AtReadQuery
    \/ state = "SEND_QUERY" /\ AtSendQuery
    \/ state = "READ_QUERY_RESULT" /\ Reading
    \/ state = "SEND_QUERY_RESULT" /\ AtSendResult
    \/ state = "READ_LOCAL_INFILE_DATA" /\ AtReadFile
    \/ state = "SEND_LOCAL_INFILE_DATA" /\ AtSendFile
    \/ state = "READ_LOCAL_INFILE_RESULT" /\ AtReadVerdict
    \/ state = "SEND_LOCAL_INFILE_RESULT" /\ AtSendVerdict
    \/ state \in OverStates /\ SomeTurn /\ ServerSafe

Entering == ~surprised /\ event = "run" /\ Entered

LEMMA Enters == Entering => SyncInv
<1> SUFFICES ASSUME Entering PROVE SyncInv OBVIOUS
<1> USE DEF Entering
<1>1. SomeTurn /\ ServerSafe BY StageIsSafe, Zenon DEF Entered
<1>2. state \in QueryStates \cup OverStates BY DEF Entered, QueryStates, ServerStates, OverStates
<1>3. Stage BY DEF Entered, Stage, OverStates
<1>4. Waiting BY DEF Waiting
<1> QED BY <1>1, <1>2, <1>3, <1>4 DEF SyncInv

LEMMA EntersNext == Entering' => SyncInv'
BY Enters, PTL

-----------------------------------------------------------------------------
(***************************************************************************)
(* Each action keeps SyncInv: first those of the peers and of the event    *)
(* loop, then the states of con_handle().                                  *)
(***************************************************************************)
\* con_handle() is called back, or waits: nothing but the event changes.
LEMMA OnlyEvent ==
    ASSUME SyncInv, UNCHANGED <<state, server, queueVars, clientVars, serverVars, queryVars>>,
           Waiting'
    PROVE  SyncInv'
<1> USE DEF queueVars, clientVars, serverVars, queryVars, recvVars, parseVars, resultVars,
            scriptVars, peerVars
<1>1. ToClient' = ToClient BY DEF ToClient
<1>2. (Owed => Owed') /\ (Free => Free') /\ (File => File') BY <1>1, TurnKept
<1>3. UNCHANGED <<server_in, server_out, server_alive, command, sent, injected, asked, surprised>> BY Zenon
<1>4. (Idle => Idle') /\ (Working => Working') /\ (Filing => Filing') /\ (Filed => Filed')
      /\ (ServerSafe => ServerSafe')
  BY <1>3, ServerLeftAlone, ZenonT(60)
<1>5. Untouched BY DEF Untouched
<1>6. Stage BY ZenonT(60) DEF SyncInv
<1>7. Stage' BY <1>2, <1>3, <1>4, <1>5, <1>6, StageKept
<1> QED BY <1>2, <1>3, <1>4, <1>7 DEF SyncInv, SomeTurn

\* The connection is given up: nothing but the state changes.
LEMMA GivenUp ==
    ASSUME SyncInv, state' \in OverStates, event' \notin {"client_read", "server_read"},
           ToClient' = ToClient, UNCHANGED <<client_out, server_in, asked, surprised>>,
           client' = client \/ client' = "closed"
    PROVE  SyncInv'
<1>1. SomeTurn'
  <2>1. CASE client' = client BY <2>1, TurnKept DEF SyncInv, SomeTurn
  <2>2. CASE client' = "closed" BY <2>2, GoneKeepsTurn DEF SyncInv, SomeTurn
  <2> QED BY <2>1, <2>2
<1>2. ServerSafe' BY DEF SyncInv, ServerSafe, Loading, Loaded
<1>3. Stage' /\ Waiting' /\ state' \in QueryStates \cup OverStates
  BY DEF Stage, Waiting, OverStates, QueryStates, ServerStates
<1> QED BY <1>1, <1>2, <1>3 DEF SyncInv

\* The client does something.
LEMMA SyncClient ==
    ASSUME Orderly, TypeOK, SyncInv,
           \/ \E c \in Commands : ClientCommand(c)
           \/ \E c \in {"DATA", "END"} : ClientData(c)
           \/ ClientReceive
           \/ ClientCloses /\ UNCHANGED queryVars
    PROVE  SyncInv'
<1>1. TurnsKept
  BY ClientSpeaks, ClientSendsFile, ClientReads, ClientHangsUp DEF SyncInv
<1>2. /\ UNCHANGED <<conVars, queueVars, serverVars, recvVars, parseVars, resultVars, scriptVars>>
  BY Zenon DEF ClientCommand, ClientData, ClientReceive, ClientCloses, queryVars
<1>3. UNCHANGED <<server_in, server_out, server_alive, command, sent, injected>>
  BY <1>2 DEF serverVars, parseVars, scriptVars
<1>4. Untouched /\ event' = event
  BY <1>2 DEF Untouched, conVars, queueVars, recvVars, parseVars, resultVars, scriptVars
<1>5. Stage' BY <1>1, <1>3, <1>4, ServerLeftAlone, StageKept DEF TurnsKept, SyncInv
<1>6. ServerSafe' BY <1>3, ServerLeftAlone DEF SyncInv
<1>7. Waiting' /\ state' = state BY <1>4 DEF SyncInv, Waiting, Untouched
<1> QED BY <1>1, <1>5, <1>6, <1>7 DEF SyncInv, TurnsKept, SomeTurn

\* The server does something.
LEMMA SyncServer ==
    ASSUME TypeOK, SyncInv, Server \/ (ServerCloses /\ UNCHANGED queryVars)
    PROVE  SyncInv'
<1>1. ServerKept
  BY ServerWorks, ServerHangsUp, TypeParts, ZenonT(60) DEF SyncInv
<1>2. /\ UNCHANGED <<conVars, queueVars, clientVars, recvVars, parseVars, resultVars, scriptVars, asked>>
  BY ZenonT(60) DEF Server, ServerMore, ServerEvent, ServerLast, ServerInfile, ServerLoaded, ServerTakes,
         ServerSays, ServerCloses, queryVars, peerVars
<1>3. ToClient' = ToClient /\ UNCHANGED <<client, client_out, asked>>
  BY <1>2 DEF ToClient, queueVars, clientVars
<1>4. (Owed => Owed') /\ (Free => Free') /\ (File => File') BY <1>3, TurnKept
<1>5. Untouched /\ event' = event
  BY <1>2 DEF Untouched, conVars, queueVars, recvVars, parseVars, resultVars, scriptVars
<1>6. Stage' BY <1>1, <1>3, <1>4, <1>5, StageKept DEF ServerKept, SyncInv
<1>7. Waiting' /\ state' = state BY <1>5 DEF SyncInv, Waiting, Untouched
<1> QED BY <1>1, <1>4, <1>6, <1>7 DEF SyncInv, ServerKept, SomeTurn

\* The event loop calls the connection back; it is closed and freed.
LEMMA SyncLoop ==
    ASSUME SyncInv, Callback \/ FireTimeout \/ Finish
    PROVE  SyncInv'
<1>1. CASE (FireWritable \/ FireReadable) /\ UNCHANGED queryVars
  <2>1. UNCHANGED <<state, server, queueVars, clientVars, serverVars, queryVars>> /\ event' = "run"
    BY <1>1 DEF FireWritable, FireReadable
  <2>2. Waiting' BY <2>1 DEF Waiting
  <2> QED BY <2>1, <2>2, OnlyEvent
<1>2. CASE (FireClosed(com_quit_seen) /\ UNCHANGED queryVars) \/ FireTimeout
  <2>1. /\ state' \in OverStates /\ event' = "run"
        /\ UNCHANGED <<queueVars, clientVars, serverVars, queryVars>>
    BY <1>2 DEF FireClosed, FireTimeout, OverStates
  <2>2. ToClient' = ToClient /\ UNCHANGED <<client, client_out, server_in, asked, surprised>>
    BY <2>1 DEF ToClient, queueVars, clientVars, serverVars, queryVars, peerVars
  <2> QED BY <2>1, <2>2, GivenUp
<1>3. CASE CloseCon /\ UNCHANGED queryVars
  <2>1. /\ state' \in OverStates /\ event' = "freed" /\ client' = "closed"
        /\ UNCHANGED <<queueVars, client_in, client_out, server_in, queryVars>>
    BY <1>3 DEF CloseCon, OverStates
  <2>2. ToClient' = ToClient /\ UNCHANGED <<client_out, server_in, asked, surprised>>
    BY <2>1 DEF ToClient, queueVars, queryVars, peerVars
  <2> QED BY <2>1, <2>2, GivenUp
<1>4. ~SendError
  BY DEF SendError, At, SyncInv, QueryStates, ServerStates, OverStates
<1> QED BY <1>1, <1>2, <1>3, <1>4, Zenon DEF Callback, Finish
=============================================================================
