------------------------- MODULE ProxySyncProofs -------------------------
(***************************************************************************)
(* Client, proxy and server stay in step: the states of con_handle() keep  *)
(* SyncInv, which ProxyQueryProofs defines and shows of the peers and of   *)
(* the event loop, and SyncInv gives the properties of ProxyQuery.         *)
(***************************************************************************)
EXTENDS ProxyQueryProofs

LEMMA ReplyEnds ==
    ASSUME TypeOK
    PROVE  /\ Reply("last") \in Replies /\ Reply("infile") \in Replies
           /\ EndsIn(<<Reply("last")>>, Part, Ending({"last", "err"}))
           /\ EndsIn(<<Reply("infile")>>, Part, Ending({"infile"}))
<1>1. Reply("last") \in Ending({"last", "err"}) /\ Reply("infile") \in Ending({"infile"})
  BY Zenon DEF Reply, Ending, Replies, TypeOK
<1>2. <<>> \in Seq(Part) BY EmptyFits
<1>3. Reply("last") \in Replies /\ Reply("infile") \in Replies BY <1>1 DEF Ending
<1>4. EndsIn(<<Reply("last")>>, Part, Ending({"last", "err"})) BY <1>1, <1>2, RunEnds, Zenon
<1>5. EndsIn(<<Reply("infile")>>, Part, Ending({"infile"})) BY <1>1, <1>2, RunEnds, Zenon
<1> QED BY <1>3, <1>4, <1>5

\* A script that keeps to the contract, or none.
LEMMA NotFree == ASSUME Orderly PROVE Script # "free" /\ (Script # "none" => Script = "careful" /\ ResultHook)
BY DEF Orderly

LEMMA NoPlan == injected = <<>> => Plan
BY DEF Plan, CarefulQueue

LEMMA NoPlanNext == injected' = <<>> => Plan'
<1>1. (injected = <<>>)' => Plan' BY NoPlan, PTL
<1> QED BY <1>1

\* One command was taken from the client, of one packet: recv is <<p>>.
LEMMA SyncForward ==
    ASSUME Orderly, TypeOK, TypeOK', AtReadQuery, NEW p \in Jobs, client_out # <<>>, p = Head(client_out),
           client_out' = Tail(client_out), sent' = 0, ReadQueryForward(<<p>>),
           UNCHANGED <<client, client_in, asked>>
    PROVE  AtSendQuery' /\ state' = "SEND_QUERY" /\ event' = event
<1>1. injected' = <<>> /\ client_recv' = <<>> /\ ~needed' /\ HasServer' /\ offset' = offset
      /\ state' = "SEND_QUERY" /\ event' = event /\ ~offset /\ infile' = "none"
      /\ UNCHANGED <<client_send, server_recv, server_out, server_in>>
  BY NotFree, Zenon DEF ReadQueryForward, HasServer, Goto, ResetParse, serverVars, AtReadQuery, Clean
<1>2. server_send' = <<p>>
  <2>1. server_send = <<>> /\ server_send' = server_send \o <<p>>
    BY DEF AtReadQuery, Clean, ReadQueryForward
  <2> QED BY <2>1
<1>3. ToClient' = ToClient BY <1>1 DEF ToClient
<1>4. Idle' /\ client_send' = <<>> /\ server_recv' = <<>> BY <1>1 DEF AtReadQuery, Idle
<1>5. CASE p \in Closes
  <2>1. p.cmd = "CLOSE" BY <1>5, WholeJobs DEF Closes
  <2>2. Free'
    <3>1. Head(client_out) \notin OfAsked(Answerable) BY <2>1 DEF OfAsked, Whole, Answerable
    <3> QED BY <1>3, <3>1, CommandTaken, TypeParts, Zenon DEF AtReadQuery
  <2>3. Sending(p)' BY <1>1, <1>2, <2>1, <2>2 DEF Sending
  <2>4. p \in Whole(Answerable \cup {"CLOSE"}) BY <1>5 DEF Closes, Whole
  <2> QED BY <1>1, <1>4, <2>3, <2>4 DEF AtSendQuery
<1>6. CASE p \in OfAsked(Answerable) /\ p \notin Closes
  <2>1. p.cmd # "CLOSE" /\ p.q = asked /\ p \in Whole(Answerable \cup {"CLOSE"})
    BY <1>6 DEF OfAsked, Whole, Answerable
  <2>2. client \in {"waiting", "closed"} /\ client_out' = <<>> /\ ToClient = <<>>
    BY <1>6, CommandTaken, TypeParts, Zenon DEF AtReadQuery
  <2>3. Owed' BY <1>3, <2>2, EmptyFits DEF Owed
  <2>4. Turn' BY <1>1, <2>3, NoPlanNext DEF Turn
  <2>5. Sending(p)' BY <1>1, <1>2, <2>1, <2>4 DEF Sending
  <2> QED BY <1>1, <1>4, <2>1, <2>5 DEF AtSendQuery
<1> QED BY <1>1, <1>5, <1>6, CommandTaken, TypeParts, Zenon DEF AtReadQuery

LEMMA RequestsMade ==
    ASSUME TypeOK, NEW c \in {"QUERY", "LOAD"}
    PROVE  \E r \in Jobs : r = Request(c, FALSE) /\ r.cmd = c /\ r.q = asked /\ ~r.more
<1>1. Request(c, FALSE) \in Jobs BY DEF Request, Jobs, Packet, Heads, TypeOK
<1> WITNESS Request(c, FALSE) \in Jobs
<1> QED BY DEF Request

LEMMA SyncInject ==
    ASSUME Orderly, TypeOK, TypeOK', AtReadQuery, NEW p \in Jobs, client_out # <<>>, p = Head(client_out),
           client_out' = Tail(client_out), sent' = 0, ReadQueryInject(<<p>>),
           UNCHANGED <<client, client_in, asked>>
    PROVE  AtSendQuery' /\ state' = "SEND_QUERY" /\ event' = event
<1>1. /\ client_recv' = <<>> /\ HasServer' /\ offset' = offset
      /\ state' = "SEND_QUERY" /\ event' = event /\ ~offset /\ infile' = "none"
      /\ UNCHANGED <<client_send, server_recv, server_out, server_in>>
  BY Zenon DEF ReadQueryInject, HasServer, Goto, ResetParse, serverVars, AtReadQuery, Clean
<1>2. /\ Script = "careful" /\ injected' \in Queues /\ CarefulQueue(injected')
      /\ <<p>>[1].cmd \in {"QUERY", "LOAD"} /\ needed' = injected'[1].needed
  BY NotFree DEF ReadQueryInject
<1>3. injected' \in Seq(Injections) /\ injected' # <<>> /\ injected'[1] \in Injections
  BY <1>2, QueuesAreSequences, Taken
<1>14. injected'[1].cmd \in {"QUERY", "LOAD"} BY <1>3 DEF Injections
<1>4. PICK r \in Jobs : r = Request(injected'[1].cmd, FALSE) /\ r.cmd = injected'[1].cmd
                        /\ r.q = asked /\ ~r.more
  BY <1>14, RequestsMade, Zenon
<1>5. server_send' = <<r>>
  <2>1. server_send = <<>> /\ server_send' = Append(server_send, r)
    BY <1>4 DEF AtReadQuery, Clean, ReadQueryInject
  <2> QED BY <2>1
<1>6. ToClient' = ToClient BY <1>1 DEF ToClient
<1>7. Idle' /\ client_send' = <<>> /\ server_recv' = <<>> BY <1>1 DEF AtReadQuery, Idle
<1>8. client \in {"waiting", "closed"} /\ client_out' = <<>> /\ ToClient = <<>>
  <2>1. p \notin Closes BY <1>2 DEF Closes, Whole
  <2> QED BY <2>1, CommandTaken, TypeParts, Zenon DEF AtReadQuery
<1>9. Owed' BY <1>6, <1>8, EmptyFits DEF Owed
<1>10. Plan' BY <1>1, <1>2 DEF Plan
<1>11. Turn' BY <1>2, <1>3, <1>9, <1>10 DEF Turn
<1>12. Sending(r)' BY <1>1, <1>4, <1>14, <1>5, <1>11, ZenonT(60) DEF Sending
<1>13. r \in Whole(Answerable \cup {"CLOSE"}) BY <1>4, <1>14, ZenonT(60) DEF Whole, Answerable
<1> QED BY <1>1, <1>7, <1>12, <1>13 DEF AtSendQuery

\* The script answers, with or without giving the server connection away.
LEMMA SyncAnswer ==
    ASSUME Orderly, TypeOK, TypeOK', AtReadQuery, NEW p \in Jobs, client_out # <<>>, p = Head(client_out),
           client_out' = Tail(client_out), sent' = 0, ReadQueryAnswer(<<p>>),
           UNCHANGED <<client, client_in, asked>>
    PROVE  AtSendResult' /\ state' = "SEND_QUERY_RESULT" /\ event' = event
<1>1. /\ injected' = <<>> /\ client_recv' = <<>> /\ finished'
      /\ state' = "SEND_QUERY_RESULT" /\ event' = event
      /\ <<p>>[1].cmd \in Expecting /\ command' = CommandByte(<<p>>[1].cmd)
  BY NotFree, Zenon DEF ReadQueryAnswer, Goto
<1>2. p.cmd \in Expecting /\ command' = CommandByte(p.cmd) BY <1>1
<1>3. client \in {"waiting", "closed"} /\ client_out' = <<>> /\ ToClient = <<>>
  <2>1. p \notin Closes BY <1>2 DEF Closes, Whole, Expecting
  <2> QED BY <2>1, CommandTaken, TypeParts, Zenon DEF AtReadQuery
<1>4. Clean' /\ server_recv' = <<>> /\ Idle'
  <2>1. CASE UNCHANGED <<server, server_recv, server_send, offset, serverVars>>
    BY <1>1, <2>1 DEF AtReadQuery, Clean, Idle, serverVars
  <2>2. CASE DropServer
    BY <1>1, <2>2, EmptyFits DEF Clean, Idle, DropServer
  <2> QED BY <2>1, <2>2, Zenon DEF ReadQueryAnswer
<1>5. command' # "DUMP" BY <1>2 DEF CommandByte, Expecting
<1>6. PICK k \in {"last", "infile"} :
        /\ k = "infile" => <<p>>[1].cmd = "LOAD" /\ server' = "none"
        /\ client_send' = Append(client_send, Reply(k))
        /\ infile' = IF k = "infile" THEN "data" ELSE "none"
  BY <1>1, NotFree, Zenon DEF ReadQueryAnswer
<1>7. Reply(k) \in Replies BY ReplyEnds
<1>8. ToClient' = ToClient \o <<Reply(k)>> /\ <<Reply(k)>> \in Seq(Replies)
  <2>1. client_send \in Seq(Replies) BY DEF TypeOK
  <2>2. Append(client_send, Reply(k)) = client_send \o <<Reply(k)>> BY <1>7, <2>1, AppendJoins
  <2>3. <<Reply(k)>> \in Seq(Replies) BY <1>7, Put
  <2> QED BY <1>6, <2>2, <2>3, QueuedComesLast, TypeParts, Zenon
<1>9. ToClient \in Seq(Part) BY <1>3, EmptyFits
<1>10. CASE k = "last"
  <2>1. Free' BY <1>3, <1>8, <1>9, <1>10, Answers, ReplyEnds, ZenonT(60)
  <2>2. infile' # "data" BY <1>6, <1>10
  <2> QED BY <1>1, <1>4, <1>5, <2>1, <2>2, NoPlanNext DEF AtSendResult
<1>11. CASE k = "infile"
  <2>1. File' BY <1>3, <1>8, <1>9, <1>11, Answers, ReplyEnds, ZenonT(60)
  <2>2. infile' = "data" /\ command' = "QUERY" /\ ~HasServer'
    BY <1>2, <1>6, <1>11 DEF CommandByte, HasServer
  <2>3. FileServer' BY <1>4, <2>2 DEF FileServer
  <2> QED BY <1>1, <1>4, <1>5, <2>1, <2>2, <2>3 DEF AtSendResult
<1> QED BY <1>10, <1>11

LEMMA SyncReadQuery ==
    ASSUME Orderly, TypeOK, TypeOK', SyncInv, ReadQuery
    PROVE  SyncInv'
<1>1. state = "READ_QUERY" /\ event = "run" /\ ~surprised BY DEF ReadQuery, At, SyncInv
<1>2. AtReadQuery BY <1>1 DEF SyncInv, Stage
<1>3. UNCHANGED <<client, client_in, asked, surprised, ldli_done>> BY DEF ReadQuery, peerVars
<1>4. CASE WaitFor("client_read") /\ UNCHANGED <<server, client_send, server_send, serverVars, recvVars,
                         parseVars, needed, finished, scriptVars, client_out>>
  <2>1. UNCHANGED <<state, server, queueVars, clientVars, serverVars, queryVars>>
    BY <1>3, <1>4 DEF ReadQuery, WaitFor, queueVars, clientVars, queryVars, resultVars, peerVars
  <2>2. Waiting' BY <1>1, <1>4 DEF WaitFor, Waiting
  <2> QED BY <2>1, <2>2, OnlyEvent
<1>5. CASE ReturnInError /\ UNCHANGED <<server, client_send, server_send, serverVars, recvVars,
                         parseVars, needed, finished, scriptVars, client_out>>
  <2>1. state' \in OverStates /\ event' = "none" BY <1>5 DEF ReturnInError, OverStates
  <2>2. ToClient' = ToClient /\ UNCHANGED <<client_out, server_in>>
    BY <1>3, <1>5 DEF ToClient, serverVars
  <2> QED BY <1>3, <2>1, <2>2, GivenUp
<1>6. ASSUME client_out # <<>>, client_out' = Tail(client_out), NEW p \in Jobs, p = Head(client_out),
             proxy_read_query(<<p>>)
      PROVE  SyncInv'
  <2>0. sent' = 0 BY <1>6 DEF proxy_read_query
  <2>1. CASE ReadQueryForward(<<p>>) \/ ReadQueryInject(<<p>>)
    <3>1. AtSendQuery' /\ state' = "SEND_QUERY" /\ event' = event
      BY <1>2, <1>3, <1>6, <2>0, <2>1, SyncForward, SyncInject
    <3> QED BY <1>1, <1>3, <3>1, EntersNext DEF Entering, Entered
  <2>2. CASE ReadQueryAnswer(<<p>>)
    <3>1. AtSendResult' /\ state' = "SEND_QUERY_RESULT" /\ event' = event
      BY <1>2, <1>3, <1>6, <2>0, <2>2, SyncAnswer
    <3> QED BY <1>1, <1>3, <3>1, EntersNext DEF Entering, Entered
  <2>3. CASE ReadQueryNoServer(<<p>>)
    <3>1. /\ state' = "ERROR" /\ event' = event /\ client_send' = client_send
          /\ server_in' = server_in \/ server_in' = <<>>
      BY <2>3, Zenon DEF ReadQueryNoServer, Goto, DropServer, serverVars
    <3>2. ServerSafe'
      <4>1. server_in \in Seq(Closes) BY <1>2 DEF AtReadQuery, Idle
      <4>2. server_in' \in Seq(Closes) BY <3>1, <4>1, EmptyFits, ZenonT(60)
      <4> QED BY <4>2 DEF ServerSafe
    <3>3. ToClient' = ToClient BY <1>3, <3>1 DEF ToClient
    <3>4. SomeTurn'
      <4>1. CASE Free' BY <4>1 DEF SomeTurn
      <4>2. CASE client \in {"waiting", "closed"} /\ client_out' = <<>> /\ ToClient = <<>>
        BY <1>3, <3>3, <4>2, EmptyFits DEF SomeTurn, Owed
      <4> QED BY <1>2, <1>3, <1>6, <3>3, <4>1, <4>2, CommandTaken, TypeParts, Zenon DEF AtReadQuery
    <3> QED BY <1>1, <1>3, <3>1, <3>2, <3>4, EntersNext DEF Entering, Entered, OverStates
  <2> QED BY <1>6, <2>1, <2>2, <2>3 DEF proxy_read_query
<1>7. ASSUME client_out # <<>> PROVE Head(client_out) \in Jobs /\ ~Head(client_out).more
  BY <1>2, <1>7, CommandTaken, TypeParts, WholeJobs, Zenon DEF AtReadQuery, Closes, OfAsked
<1>8. \A p : Append(client_recv, p) = <<p>> BY <1>2 DEF AtReadQuery, Clean
<1>9. \A r : ~Refused(r) BY DEF Refused, Orderly
<1> QED BY <1>4, <1>5, <1>6, <1>7, <1>8, <1>9, Zenon DEF ReadQuery

\* A packet queued for the server is written whole, or not at all.
LEMMA OneLeft ==
    ASSUME QueuesOK, NEW r, server_send = <<r>>, ServerWriteWaits
    PROVE  server_in' = server_in /\ server_send' = server_send
<1>1. PICK n \in 0..(Len(server_send) - 1) :
          /\ server_in' = server_in \o SubSeq(server_send, 1, n)
          /\ server_send' = SubSeq(server_send, n + 1, Len(server_send))
  BY Zenon DEF ServerWriteWaits
<1>2. Len(server_send) = 1 /\ n = 0 OBVIOUS
<1>3. SubSeq(server_send, 1, Len(server_send)) = server_send BY CutWhole, Zenon DEF QueuesOK
<1>6. SubSeq(server_send, 1, 0) = <<>> BY CutNone
<1>4. server_in \o <<>> = server_in BY JoinedToNone DEF QueuesOK
<1>5. SubSeq(server_send, 1, n) = <<>> /\ SubSeq(server_send, n + 1, Len(server_send)) = server_send
  BY <1>2, <1>3, <1>6
<1> QED BY <1>1, <1>4, <1>5, Zenon

\* The server is given what is queued for it.
LEMMA GivesServer ==
    ASSUME QueuesOK, NEW S, NEW T, NEW r \in Jobs, server_send = <<r>>, ServerWritten
    PROVE  /\ server_in \in Seq(S) /\ r \in S => server_in' \in Seq(S)
           /\ server_in \in Seq(S) /\ r \in T => EndsIn(server_in', S, T)
           /\ server_in # <<>> => /\ server_in' # <<>> /\ Head(server_in') = Head(server_in)
                                  /\ Tail(server_in') = Tail(server_in) \o <<r>>
<1>1. server_in' = server_in \o <<r>> BY DEF ServerWritten
<1>2. server_in \in Seq(Jobs) /\ <<r>> \in Seq(Jobs) BY Put DEF QueuesOK
<1>3. server_in # <<>> => /\ server_in' # <<>> /\ Head(server_in') = Head(server_in)
                          /\ Tail(server_in') = Tail(server_in) \o <<r>>
  BY <1>1, <1>2, HeadOfBoth, Zenon
<1>4. ASSUME server_in \in Seq(S), r \in T PROVE EndsIn(server_in', S, T)
  <2>1. Append(server_in, r) = server_in \o <<r>> BY <1>2, AppendJoins
  <2> QED BY <1>1, <1>4, <2>1, RunEnds, ZenonT(60)
<1>5. server_in \in Seq(S) /\ r \in S => server_in' \in Seq(S) BY <1>1, Pair, Joined
<1> QED BY <1>3, <1>4, <1>5

LEMMA SyncSendQuery ==
    ASSUME Orderly, TypeOK, TypeOK', SyncInv, SendQuery
    PROVE  SyncInv'
<1>0. QueuesOK BY TypeParts
<1>1. state = "SEND_QUERY" /\ event = "run" /\ ~surprised BY DEF SendQuery, At, SyncInv
<1>2. AtSendQuery BY <1>1 DEF SyncInv, Stage
<1>3. /\ UNCHANGED <<client, client_out, client_in, client_send, asked, surprised, server, server_alive,
                     server_out, client_recv, server_recv, needed, sent, injected>>
      /\ ToClient' = ToClient
  BY DEF SendQuery, clientVars, peerVars, resultVars, scriptVars, ToClient
<1>4. PICK r \in Whole(Answerable \cup {"CLOSE"}) : Sending(r) BY <1>2 DEF AtSendQuery
<1>5. server_send = <<r>> /\ r \in Jobs /\ ~r.more /\ Head(server_send) = r /\ server_send # <<>>
  BY <1>4, WholeJobs DEF Sending
<1>6. r.cmd \in Answerable \cup {"CLOSE"} BY <1>4, WholeJobs
<1>7. ~NoCommandByte BY <1>5, <1>6 DEF NoCommandByte, Answerable
<1>8. command_states_init BY <1>7 DEF SendQuery
<1>9. command' = CommandByte(r.cmd) /\ infile' = "none"
  <2>1. CASE offset BY <1>2, <1>4, <1>8, <2>1 DEF command_states_init, parseVars, Sending, AtSendQuery
  <2>2. CASE ~offset BY <1>5, <1>8, <2>2 DEF command_states_init
  <2> QED BY <2>1, <2>2
<1>10. (Owed => Owed') /\ (Free => Free') BY <1>3, TurnKept
<1>11. (HasServer <=> HasServer') /\ (Plan => Plan') BY <1>3 DEF HasServer, Plan
<1>12. Turn => Turn' BY <1>3, <1>10, <1>11 DEF Turn
<1>13. CASE ServerWritten /\ offset' = FALSE /\ Goto(AfterSendQuery(command'))
  <2>1. server_send' = <<>> /\ ~offset' /\ event' = "run" /\ state' = AfterSendQuery(command')
    BY <1>1, <1>13 DEF ServerWritten, Goto
  <2>2. CASE r.cmd = "CLOSE"
    <3>1. state' = "READ_QUERY" BY <1>9, <2>1, <2>2 DEF AfterSendQuery, CommandByte
    <3>2. r \in Closes BY <1>5, <2>2 DEF Closes, Whole
    <3>3. Idle' BY <1>0, <1>2, <1>3, <1>5, <1>13, <3>2, GivesServer, ZenonT(60) DEF AtSendQuery, Idle
    <3>4. Free' /\ injected' = <<>> BY <1>3, <1>4, <1>10, <2>2 DEF Sending
    <3>5. AtReadQuery' BY <1>2, <1>3, <2>1, <3>3, <3>4 DEF AtReadQuery, Clean, AtSendQuery
    <3> QED BY <1>1, <1>3, <2>1, <3>1, <3>5, EntersNext DEF Entering, Entered
  <2>3. CASE r.cmd # "CLOSE"
    <3>1. command' # "CLOSE" BY <1>6, <1>9, <2>3 DEF CommandByte, Answerable
    <3>2. state' = "READ_QUERY_RESULT" BY <2>1, <3>1 DEF AfterSendQuery
    <3>3. /\ Turn /\ (sent = 0 => r.q = asked)
          /\ injected # <<>> => r.cmd \in {"QUERY", "LOAD"} /\ r.cmd = injected[1].cmd
      BY <1>4, <2>3 DEF Sending
    <3>4. r.cmd = "LOAD" => sent = 0
      <4>1. CASE injected = <<>> BY <3>3, <4>1 DEF Turn
      <4>2. CASE injected # <<>>
        <5>1. 1 \in 1..Len(injected) BY <1>0, <4>2, EmptyFits, Indexed DEF QueuesOK
        <5>2. sent \in Nat BY DEF TypeOK
        <5> QED BY <3>3, <4>2, <5>1, <5>2 DEF Turn, Plan
      <4> QED BY <4>1, <4>2
    <3>5. r \in Whole(Answerable) BY <1>5, <1>6, <2>3 DEF Whole
    <3>6. r \in Due' BY <1>3, <1>9, <3>3, <3>4, <3>5 DEF Due
    <3>7. EndsIn(server_in', Closes, Due')
      <4>1. server_in \in Seq(Closes) BY <1>2 DEF AtSendQuery, Idle
      <4> HIDE DEF Due
      <4> QED BY <1>0, <1>5, <1>13, <3>6, <4>1, GivesServer
    <3>8. Working' BY <1>2, <1>3, <3>7 DEF Working, AtSendQuery, Idle
    <3>9. injected' # <<>> => command' = "QUERY" BY <1>3, <1>9, <3>3 DEF CommandByte
    <3>10. Clean' /\ HasServer' /\ server_recv' = <<>>
      BY <1>2, <1>3, <1>11, <2>1 DEF Clean, AtSendQuery
    <3>11. server_recv' \in Seq(Buffered)' BY <3>10, EmptyFits, Zenon
    <3>12. Reading' BY <1>9, <1>12, <3>3, <3>8, <3>9, <3>10, <3>11 DEF Reading
    <3> QED BY <1>1, <1>3, <2>1, <3>2, <3>12, EntersNext DEF Entering, Entered
  <2> QED BY <2>2, <2>3
<1>14. CASE ServerWriteWaits /\ offset' \in BOOLEAN
  <2>1. server_in' = server_in /\ server_send' = <<r>> BY <1>0, <1>5, <1>14, OneLeft
  <2>2. state' = state /\ event' = "server_write" BY <1>14 DEF ServerWriteWaits, WaitFor
  <2>3. Sending(r)' BY <1>3, <1>4, <1>9, <1>10, <1>12, <2>1 DEF Sending
  <2>4. AtSendQuery' BY <1>2, <1>3, <1>4, <1>9, <1>11, <2>1, <2>3 DEF AtSendQuery, Idle
  <2>5. Stage' /\ Waiting' BY <1>1, <2>2, <2>4 DEF Stage, Waiting
  <2>6. SomeTurn' BY <1>3, TurnKept DEF SyncInv, SomeTurn
  <2>7. ServerSafe' BY <2>1 DEF SyncInv, ServerSafe, Loading, Loaded
  <2> QED BY <1>3, <2>2, <2>5, <2>6, <2>7 DEF SyncInv
<1>15. CASE ServerWriteFails
  <2>1. state' \in OverStates /\ event' = "run" /\ server_in' = server_in
    BY <1>1, <1>15 DEF ServerWriteFails, Goto, OverStates
  <2> QED BY <1>3, <2>1, GivenUp
<1> QED BY <1>7, <1>13, <1>14, <1>15, ZenonT(60) DEF SendQuery

\* A packet of a result-set that is not the last one.
LEMMA Queued ==
    ASSUME QueuesOK, NEW p \in Replies, client_send' = Append(client_send, p), UNCHANGED client_in
    PROVE  ToClient' = ToClient \o <<p>> /\ <<p>> \in Seq(Replies)
<1>1. client_send \in Seq(Replies) BY DEF QueuesOK
<1>2. Append(client_send, p) = client_send \o <<p>> BY <1>1, AppendJoins
<1>3. <<p>> \in Seq(Replies) BY Pair
<1> QED BY <1>2, <1>3, QueuedComesLast, Zenon

\* More of it is to come: it is streamed, or kept for the script.
LEMMA SyncMore ==
    ASSUME TypeOK, Reading, NEW p \in Replies, Saying(p), p.kind \in {"more", "event"},
           UNCHANGED <<client, client_out, client_in, asked, needed, client_recv, server, server_send,
                       offset, server_in, server_alive, injected, sent, command, infile>>,
           server_out' = <<>>,
           server_recv' = IF needed THEN Append(server_recv, p) ELSE server_recv,
           client_send' = IF needed THEN client_send ELSE Append(client_send, p)
    PROVE  Reading'
<1>0. QueuesOK BY TypeParts
<1>1. Due' = Due BY DEF Due
<1>2. EndsIn(server_in, Closes, Due) BY DEF Saying
<1>3. Working' BY <1>1, <1>2 DEF Working
<1>4. Buffered' = Buffered BY DEF Buffered
<1>5. Turn /\ Plan /\ needed \in BOOLEAN BY DEF Reading, Turn, TypeOK
<1>6. Plan' BY <1>5 DEF Plan, HasServer
<1>7. Clean' /\ HasServer' /\ infile' # "data" /\ (injected' # <<>> => command' = "QUERY")
  BY DEF Reading, Clean, HasServer
<1>8. CASE needed
  <2>1. p \in Buffered BY DEF Saying, Buffered
  <2>2. server_recv' \in Seq(Buffered) BY <1>8, <2>1, Put DEF Reading
  <2>3. ToClient' = ToClient BY <1>8 DEF ToClient
  <2>4. (Owed => Owed') /\ (Free => Free') BY <2>3, TurnKept
  <2>5. Turn' BY <1>5, <1>6, <2>4 DEF Turn
  <2> QED BY <1>3, <1>4, <1>7, <1>8, <2>2, <2>5 DEF Reading
<1>9. CASE ~needed
  <2>1. sent = 0 /\ Owed BY <1>5, <1>9 DEF Turn
  <2>2. p \in Part BY <2>1 DEF Saying, Part, Ending
  <2>3. ToClient' = ToClient \o <<p>> /\ <<p>> \in Seq(Replies) BY <1>0, <1>9, Queued
  <2>4. <<p>> \in Seq(Part) BY <2>2, Pair
  <2>5. Owed' BY <2>1, <2>3, <2>4, Answers, ZenonT(60) DEF Owed
  <2>6. Turn' BY <1>5, <1>6, <1>9, <2>1, <2>5 DEF Turn
  <2>7. server_recv' = <<>> BY <1>9 DEF Reading
  <2> QED BY <1>3, <1>7, <1>9, <2>6, <2>7, ZenonT(60) DEF Reading
<1> QED BY <1>5, <1>8, <1>9

\* A careful queue without its first query is careful.
LaterQuiet == \A i \in 2..Len(injected) : injected[i].needed /\ injected[i].cmd # "LOAD"

CarefulUpTo(s, n) ==
    /\ \A i, j \in 1..n : ~s[i].needed /\ ~s[j].needed => i = j
    /\ \A i \in 1..n : s[i].cmd = "LOAD" => i = n
    /\ (\E i \in 1..n : ~s[i].needed) => s[n].cmd # "LOAD" \/ ~s[n].needed
Quiet(s, m, n) == \A i \in m..n : s[i].needed /\ s[i].cmd # "LOAD"

LEMMA Shifted ==
    ASSUME NEW s, NEW t, NEW n \in Nat, \A i \in 1..n : t[i] = s[i + 1], CarefulUpTo(s, n + 1)
    PROVE  /\ CarefulUpTo(t, n)
           /\ s[1].cmd = "LOAD" => n = 0
           /\ ~s[1].needed => Quiet(s, 2, n + 1)
           /\ Quiet(s, 2, n + 1) => Quiet(t, 1, n)
<1> USE DEF CarefulUpTo, Quiet
<1>1. \A i \in 1..n : i + 1 \in 1..(n + 1) /\ i + 1 \in 2..(n + 1) OBVIOUS
<1>2. ASSUME NEW i \in 1..n, NEW j \in 1..n, ~t[i].needed, ~t[j].needed PROVE i = j
  <2>1. i + 1 = j + 1 BY <1>1, <1>2
  <2> QED BY <2>1
<1>3. ASSUME NEW i \in 1..n, t[i].cmd = "LOAD" PROVE i = n
  <2>1. i + 1 = n + 1 BY <1>1, <1>3
  <2> QED BY <2>1
<1>4. ASSUME NEW i \in 1..n, ~t[i].needed PROVE t[n].cmd # "LOAD" \/ ~t[n].needed
  <2>1. n \in 1..n BY <1>4
  <2>2. ~s[i + 1].needed /\ i + 1 \in 1..(n + 1) /\ t[n] = s[n + 1] BY <1>1, <1>4, <2>1
  <2> QED BY <2>2
<1>5. s[1].cmd = "LOAD" => n = 0
  <2>1. 1 \in 1..(n + 1) OBVIOUS
  <2>2. s[1].cmd = "LOAD" => 1 = n + 1 BY <2>1
  <2> QED BY <2>2
<1>6. ASSUME ~s[1].needed, NEW i \in 2..(n + 1) PROVE s[i].needed /\ s[i].cmd # "LOAD"
  <2>1. 1 \in 1..(n + 1) /\ i \in 1..(n + 1) /\ i # 1 /\ n + 1 \in 1..(n + 1) /\ n + 1 # 1 BY <1>6
  <2>2. s[i].needed /\ s[n + 1].needed BY <1>6, <2>1
  <2>3. s[n + 1].cmd # "LOAD" BY <1>6, <2>1, <2>2, ZenonT(60)
  <2> QED BY <2>1, <2>2, <2>3
<1>7. Quiet(s, 2, n + 1) => Quiet(t, 1, n) BY <1>1
<1>8. ~s[1].needed => Quiet(s, 2, n + 1) BY <1>6
<1>9. CarefulUpTo(t, n) BY <1>2, <1>3, <1>4
<1> QED BY <1>5, <1>7, <1>8, <1>9

LEMMA RestIsCareful ==
    ASSUME QueuesOK, injected # <<>>, CarefulQueue(injected)
    PROVE  /\ CarefulQueue(Tail(injected))
           /\ injected[1].cmd = "LOAD" => Len(injected) = 1
           /\ Tail(injected) = <<>> <=> Len(injected) = 1
           /\ ~injected[1].needed => LaterQuiet
           /\ LaterQuiet => Quiet(Tail(injected), 1, Len(Tail(injected)))
           /\ injected[1] \in Injections
<1>1. injected \in Seq(Injections) /\ injected[1] \in Injections BY Taken DEF QueuesOK
<1>2. PICK t \in Seq(Injections) : t = Tail(injected) BY <1>1, Taken, ZenonT(60)
<1>3. PICK n \in Nat : n = Len(t) BY Indexed
<1>4. Len(injected) = n + 1 /\ \A i \in 1..n : t[i] = injected[i + 1]
  BY <1>1, <1>2, <1>3, HeadAndTail
<1>5. DOMAIN injected = 1..(n + 1) /\ DOMAIN t = 1..n BY <1>1, <1>3, <1>4, Indexed, Zenon
<1>6. CarefulUpTo(injected, n + 1) BY <1>4, <1>5, Zenon DEF CarefulQueue, CarefulUpTo
<1>7. /\ CarefulUpTo(t, n)
      /\ injected[1].cmd = "LOAD" => n = 0
      /\ ~injected[1].needed => Quiet(injected, 2, n + 1)
      /\ Quiet(injected, 2, n + 1) => Quiet(t, 1, n)
  BY <1>4, <1>6, Shifted, Zenon
<1>8. CarefulQueue(t) BY <1>3, <1>5, <1>7, Zenon DEF CarefulQueue, CarefulUpTo
<1>9. t = <<>> <=> n = 0 BY <1>3, EmptyFits
<1>10. n = 0 <=> n + 1 = 1 OBVIOUS
<1>11. LaterQuiet <=> Quiet(injected, 2, n + 1) BY <1>4, Zenon DEF LaterQuiet, Quiet
<1> QED BY <1>1, <1>2, <1>3, <1>4, <1>7, <1>8, <1>9, <1>10, <1>11, Zenon

\* What read_query_result() of a careful script makes of the last packet p of
\* a result-set: the result-set, or one in its place, goes to the client, or
\* nothing does.
Sent(p, t) ==
    /\ sent = 0 /\ LaterQuiet
    /\ IF p.kind = "infile" THEN EndsIn(t, Part, Ending({"infile"}))
       ELSE EndsIn(t, Part, Ending({"last", "err"}))
NotSent(p, t) ==
    /\ t = <<>> /\ p.kind = "last"
    /\ sent = 0 => Len(injected) # 1

Results(o, send, n) == o.send = send /\ o.recv = <<>> /\ o.sent = n

LEMMA LastOfAll ==
    ASSUME QueuesOK, Reading, NEW p \in Replies, Saying(p), p.kind \in {"last", "infile"}, sent = 0
    PROVE  LET ends(t) == IF p.kind = "infile" THEN EndsIn(t, Part, Ending({"infile"}))
                          ELSE EndsIn(t, Part, Ending({"last", "err"}))
           IN  ends(<<p>>) /\ (needed => ends(Append(server_recv, p)))
<1>1. Buffered = Part BY DEF Buffered, Part, Ending
<1>2. p.q = asked BY DEF Saying
<1>3. <<>> \in Seq(Part) BY EmptyFits
<1>4. needed => server_recv \in Seq(Part) BY <1>1 DEF Reading
<1>5. CASE p.kind = "infile"
  <2>1. p \in Ending({"infile"}) BY <1>2, <1>5 DEF Ending
  <2> QED BY <1>3, <1>4, <1>5, <2>1, RunEnds, ZenonT(60)
<1>6. CASE p.kind = "last"
  <2>1. p \in Ending({"last", "err"}) BY <1>2, <1>6 DEF Ending
  <2> QED BY <1>3, <1>4, <1>6, <2>1, RunEnds, ZenonT(60)
<1> QED BY <1>5, <1>6

LEMMA Decided ==
    ASSUME Orderly, TypeOK, Reading, injected # <<>>, NEW p \in Replies, Saying(p),
           p.kind \in {"last", "infile"},
           NEW o \in IF needed
                     THEN proxy_lua_read_query_result(client_send, Append(server_recv, p))
                     ELSE proxy_lua_read_query_result(Append(client_send, p), server_recv)
    PROVE  \E t \in Seq(Replies) :
              \/ Results(o, client_send \o t, 1) /\ Sent(p, t)
              \/ Results(o, client_send \o t, sent) /\ NotSent(p, t)
<1>0. QueuesOK BY TypeParts, ZenonT(60)
<1>1. Script = "careful" /\ ResultHook /\ CarefulQueue(injected) /\ needed = injected[1].needed
      /\ (needed \/ sent = 0) /\ needed \in BOOLEAN
  BY NotFree DEF Reading, Turn, Plan, TypeOK
<1>2. /\ injected[1].cmd = "LOAD" => Len(injected) = 1 /\ LaterQuiet
      /\ ~needed => LaterQuiet
  <2>1. Len(injected) = 1 => LaterQuiet BY DEF LaterQuiet
  <2> QED BY <1>0, <1>1, <2>1, RestIsCareful, ZenonT(60)
<1>3. p.kind = "infile" => injected[1].cmd = "LOAD" BY DEF Saying
<1>4. /\ client_send \in Seq(Replies) /\ server_recv \in Seq(Replies)
      /\ Append(server_recv, p) \in Seq(Replies) /\ <<p>> \in Seq(Replies)
      /\ <<>> \in Seq(Replies) /\ client_send \o <<>> = client_send
  BY <1>0, Put, JoinedToNone DEF QueuesOK
<1>5. \A e \in Replies : Append(client_send, e) = client_send \o <<e>> BY <1>4, AppendJoins
<1>6. Reply("last") \in Replies /\ EndsIn(<<Reply("last")>>, Part, Ending({"last", "err"}))
      /\ <<Reply("last")>> \in Seq(Replies)
  BY ReplyEnds, Pair
<1>7. \A a, n : Results(Outcome(a, <<>>, n), a, n) BY DEF Outcome, Results
<1>8. CASE ~needed
  <2>1. sent = 0 /\ server_recv = <<>> BY <1>1, <1>8 DEF Reading
  <2>2. o \in CarefulResults(Append(client_send, p), server_recv)
    BY <1>1, <1>8, ZenonT(60) DEF proxy_lua_read_query_result
  <2>3. o = ResultNoDecision(Append(client_send, p), server_recv)
    BY <1>8, <2>2 DEF CarefulResults
  <2>4. (client_send \o <<p>>) \o <<>> = client_send \o <<p>> BY <1>4, Joined, JoinedToNone
  <2>5. o = Outcome(client_send \o <<p>>, <<>>, 1)
    <3>1. ResultNoDecision(Append(client_send, p), server_recv)
            = Outcome(Append(client_send, p) \o server_recv, <<>>, sent + 1)
      BY <2>1 DEF ResultNoDecision
    <3>2. sent + 1 = 1 BY <2>1
    <3> QED BY <1>5, <2>1, <2>3, <2>4, <3>1, <3>2, Zenon
  <2>6. Sent(p, <<p>>) BY <1>0, <1>2, <1>8, <2>1, LastOfAll DEF Sent
  <2>7. Results(o, client_send \o <<p>>, 1) BY <1>7, <2>5, Zenon
  <2> QED BY <1>4, <2>6, <2>7, Zenon
<1>9. CASE needed
  <2> DEFINE all == Append(server_recv, p)
  <2>1. o \in CarefulResults(client_send, all)
    BY <1>1, <1>9, ZenonT(60) DEF proxy_lua_read_query_result
  <2>2. MaySend(injected[1].cmd = "LOAD") => sent = 0 /\ LaterQuiet
    BY <1>2, ZenonT(60) DEF MaySend, LaterQuiet
  <2>3. \/ o = ResultNoDecision(client_send, all) /\ MaySend(injected[1].cmd = "LOAD")
        \/ o = ResultReplaced(client_send, all) /\ MaySend(injected[1].cmd = "LOAD")
           /\ injected[1].cmd # "LOAD"
        \/ o = ResultIgnored(client_send, all) /\ ~MustSend /\ injected[1].cmd # "LOAD"
    BY <1>9, <2>1 DEF CarefulResults
  <2>4. CASE o = ResultNoDecision(client_send, all) /\ sent = 0 /\ LaterQuiet
    <3>1. ResultNoDecision(client_send, all) = Outcome(client_send \o all, <<>>, sent + 1)
      BY <2>4 DEF ResultNoDecision
    <3>2. sent + 1 = 1 BY <2>4
    <3>3. Results(o, client_send \o all, 1)
      BY <1>7, <2>4, <3>1, <3>2, Zenon
    <3>4. Sent(p, all) BY <1>0, <1>9, <2>4, LastOfAll, ZenonT(60) DEF Sent
    <3> QED BY <1>4, <3>3, <3>4, Zenon
  <2>5. CASE o = ResultReplaced(client_send, all) /\ sent = 0 /\ LaterQuiet /\ injected[1].cmd # "LOAD"
    <3>1. ResultReplaced(client_send, all) = Outcome(client_send \o <<Reply("last")>>, <<>>, sent + 1)
      BY <1>5, <1>6, Zenon DEF ResultReplaced
    <3>2. sent + 1 = 1 BY <2>5
    <3>3. Results(o, client_send \o <<Reply("last")>>, 1)
      BY <1>7, <2>5, <3>1, <3>2, Zenon
    <3>4. Sent(p, <<Reply("last")>>) BY <1>3, <1>6, <2>5 DEF Sent
    <3> QED BY <1>6, <3>3, <3>4, Zenon
  <2>6. CASE o = ResultIgnored(client_send, all) /\ ~MustSend /\ injected[1].cmd # "LOAD"
    <3>1. Results(o, client_send \o <<>>, sent)
      BY <1>4, <1>7, <2>6, Zenon DEF ResultIgnored
    <3>2. NotSent(p, <<>>) BY <1>3, <2>6 DEF NotSent, MustSend
    <3> QED BY <1>4, <3>1, <3>2, Zenon
  <2> QED BY <2>2, <2>3, <2>4, <2>5, <2>6, Zenon
<1> QED BY <1>1, <1>8, <1>9

\* What the server says last: a result-set's end, the request for a file, or
\* (each of them "last") an event of a dump.
LEMMA LastKinds ==
    ASSUME Reading, NEW p \in Replies, Saying(p), LastPacket(p)
    PROVE  /\ command = "DUMP" => p.kind = "event" /\ injected = <<>>
           /\ command # "DUMP" => p.kind \in {"last", "infile"}
           /\ p.kind = "last" => server_in = <<>>
           /\ p.kind = "infile" => /\ command = "QUERY" /\ Loading /\ Head(server_in).q = asked
                                   /\ sent = 0 /\ (injected # <<>> => injected[1].cmd = "LOAD")
BY DEF Reading, Saying, LastPacket

\* The server is done with the query, or waits for the file.
LEMMA ServerDone ==
    ASSUME Reading, NEW p \in Replies, Saying(p), p.kind \in {"last", "infile"},
           UNCHANGED <<server_in, asked>>, server_out' = <<>>
    PROVE  (p.kind = "last" => Idle') /\ (p.kind = "infile" => Filing')
<1>1. <<>> \in Seq(Closes) BY EmptyFits
<1> QED BY <1>1, ZenonT(60) DEF Saying, Idle, Filing, Loading

LEMMA SyncLastAsIs ==
    ASSUME Orderly, TypeOK, Reading, injected = <<>>, NEW p \in Replies, Saying(p), ReadResultLast(p),
           get_query_result(p), UNCHANGED <<client, client_out, client_in, asked, needed, client_recv>>
    PROVE  AtSendResult'
<1>0. QueuesOK BY TypeParts
<1>1. ~needed /\ sent = 0 /\ Owed /\ server_recv = <<>> BY DEF Reading, Turn
<1>2. finished' /\ injected' = <<>> /\ command' = command
      /\ infile' = IF p.kind = "infile" /\ command = "QUERY" THEN "data" ELSE infile
  BY DEF ReadResultLast, get_query_result
<1>3. /\ client_send' = Append(client_send, p) /\ sent' = sent /\ server_recv' = server_recv
      /\ server_out' = Tail(server_out)
      /\ UNCHANGED <<server, server_send, offset, server_in, server_alive>>
  <2>1. PICK o \in proxy_lua_read_query_result(Append(client_send, p), server_recv) :
          /\ client_send' = o.send /\ sent' = o.sent /\ server_recv' = o.recv
          /\ server_out' = Tail(server_out)
          /\ UNCHANGED <<server, server_send, offset, server_in, server_alive>>
    BY <1>1 DEF ReadResultLast
  <2>2. o = Outcome(Append(client_send, p), server_recv, sent)
    BY <2>1 DEF proxy_lua_read_query_result
  <2> QED BY <2>1, <2>2 DEF Outcome
<1>4. server_out' = <<>>
  <2>1. server_out = <<p>> BY ZenonT(60) DEF Saying
  <2> QED BY <1>3, <2>1, SMTT(30)
<1>5. Clean' BY <1>3 DEF Reading, Clean
<1>6. LastPacket(p) BY DEF ReadResultLast
<1>7. CASE command = "DUMP"
  <2>1. p.kind = "event" BY <1>6, <1>7, LastKinds
  <2>2. infile' = infile /\ injected' = injected BY <1>2, <2>1
  <2>3. /\ server_recv' = IF needed THEN Append(server_recv, p) ELSE server_recv
        /\ client_send' = IF needed THEN client_send ELSE Append(client_send, p)
    BY <1>1, <1>3
  <2>4. Reading' BY <1>2, <1>3, <1>4, <2>1, <2>2, <2>3, SyncMore
  <2> QED BY <1>2, <1>7, <2>4 DEF AtSendResult
<1>8. CASE command # "DUMP"
  <2>1. p.kind \in {"last", "infile"} BY <1>6, <1>8, LastKinds
  <2>2. ToClient' = ToClient \o <<p>> /\ <<p>> \in Seq(Replies) BY <1>0, <1>3, Queued
  <2>3. (p.kind = "last" => Idle') /\ (p.kind = "infile" => Filing')
    BY <1>3, <1>4, <2>1, ServerDone
  <2>4. Plan' BY <1>2, NoPlanNext
  <2>5. client \in {"waiting", "closed"} /\ client_out' = <<>> /\ ToClient \in Seq(Part)
    BY <1>1 DEF Owed
  <2>6. CASE p.kind = "last"
    <3>1. Free' BY <1>0, <1>1, <2>1, <2>2, <2>5, <2>6, LastOfAll, Answers, ZenonT(60)
    <3>2. infile' # "data" BY <1>2, <2>6 DEF Reading
    <3> QED BY <1>1, <1>2, <1>3, <1>5, <1>8, <2>3, <2>4, <2>6, <3>1, <3>2 DEF AtSendResult
  <2>7. CASE p.kind = "infile"
    <3>1. File' BY <1>0, <1>1, <2>1, <2>2, <2>5, <2>7, LastOfAll, Answers, ZenonT(60)
    <3>2. infile' = "data" /\ command = "QUERY" BY <1>2, <1>6, <2>7, LastKinds
    <3>3. HasServer' BY <1>3 DEF Reading, HasServer
    <3>4. FileServer' BY <2>3, <2>7, <3>3 DEF FileServer
    <3> QED BY <1>1, <1>2, <1>3, <1>5, <1>8, <3>1, <3>2, <3>4 DEF AtSendResult
  <2> QED BY <2>1, <2>6, <2>7
<1> QED BY <1>7, <1>8

LEMMA SyncLastDecided ==
    ASSUME Orderly, TypeOK, TypeOK', Reading, injected # <<>>, NEW p \in Replies, Saying(p),
           ReadResultLast(p), get_query_result(p),
           UNCHANGED <<client, client_out, client_in, asked, needed, client_recv>>
    PROVE  AtSendResult'
<1>0. QueuesOK BY TypeParts
<1>1. command = "QUERY" /\ Turn /\ Plan /\ CarefulQueue(injected) /\ Script = "careful" /\ HasServer
  BY DEF Reading, Turn, Plan
<1>2. finished' /\ injected' = Tail(injected) /\ command' = command
      /\ infile' = IF p.kind = "infile" /\ command = "QUERY" THEN "data" ELSE infile
  BY Zenon DEF ReadResultLast, get_query_result
<1>3. p.kind \in {"last", "infile"}
      /\ (p.kind = "infile" => injected[1].cmd = "LOAD" /\ sent = 0)
  BY <1>1, LastKinds, ZenonT(60) DEF ReadResultLast
<1>4. PICK o \in IF needed
                 THEN proxy_lua_read_query_result(client_send, Append(server_recv, p))
                 ELSE proxy_lua_read_query_result(Append(client_send, p), server_recv) :
          /\ client_send' = o.send
          /\ sent' = o.sent
          /\ \/ /\ server_recv' = o.recv
                /\ server_out' = Tail(server_out)
                /\ UNCHANGED <<server, server_send, offset, server_in, server_alive>>
             \/ /\ injected # <<>> /\ ResultHook
                /\ Script = "careful" => injected' = <<>> /\ p.kind # "infile"
                /\ DropServer
  BY Zenon DEF ReadResultLast
<1>5. PICK t \in Seq(Replies) :
              \/ Results(o, client_send \o t, 1) /\ Sent(p, t)
              \/ Results(o, client_send \o t, sent) /\ NotSent(p, t)
  BY <1>3, Decided, Zenon
<1>6. o.recv = <<>> /\ o.send = client_send \o t BY <1>5, ZenonT(60) DEF Results
<1>7. /\ Clean' /\ server_recv' = <<>>
      /\ p.kind = "last" => Idle' /\ (injected' # <<>> => HasServer')
      /\ p.kind = "infile" => Filing' /\ HasServer'
  <2>1. CASE /\ server_recv' = o.recv
             /\ server_out' = Tail(server_out)
             /\ UNCHANGED <<server, server_send, offset, server_in, server_alive>>
    <3>1. server_out = <<p>> BY DEF Saying
    <3>2. server_out' = <<>> BY <2>1, <3>1, SMTT(30)
    <3> QED BY <1>1, <1>3, <1>6, <2>1, <3>2, ServerDone, ZenonT(60) DEF Clean, Reading, HasServer
  <2>2. CASE injected' = <<>> /\ p.kind # "infile" /\ DropServer
    <3>1. <<>> \in Seq(Closes) BY EmptyFits, ZenonT(60)
    <3> QED BY <1>3, <2>2, <3>1 DEF DropServer, Clean, Reading, Idle
  <2> QED BY <1>1, <1>4, <2>1, <2>2, ZenonT(60)
<1>8. ToClient' = ToClient \o t BY <1>0, <1>4, <1>6, QueuedComesLast, ZenonT(60)
<1>9. /\ CarefulQueue(injected')
      /\ injected[1].cmd = "LOAD" => injected' = <<>>
      /\ injected' = <<>> => Len(injected) = 1
      /\ LaterQuiet => \A i \in 1..Len(injected') : injected'[i].needed /\ injected'[i].cmd # "LOAD"
  BY <1>0, <1>1, <1>2, RestIsCareful, Zenon DEF Quiet
<1>10. p.kind = "last" => infile' # "data" BY <1>2 DEF Reading
<1>11. CASE Results(o, client_send \o t, 1) /\ Sent(p, t)
  <2>1. sent = 0 /\ sent' = 1 /\ LaterQuiet BY <1>4, <1>11, ZenonT(60) DEF Results, Sent
  <2>2. client \in {"waiting", "closed"} /\ client_out' = <<>> /\ ToClient \in Seq(Part)
    BY <1>1, <2>1, ZenonT(60) DEF Turn, Owed
  <2>3. CASE p.kind = "last"
    <3>1. EndsIn(t, Part, Ending({"last", "err"})) BY <1>11, <2>3 DEF Sent
    <3>2. Free' BY <1>8, <2>2, <3>1, Answers, ZenonT(60)
    <3>3. Plan' BY <1>1, <1>7, <1>9, <2>1, <2>3, ZenonT(60) DEF Plan
    <3> QED BY <1>1, <1>2, <1>7, <1>10, <2>1, <2>3, <3>2, <3>3, SMTT(30) DEF AtSendResult
  <2>4. CASE p.kind = "infile"
    <3>1. EndsIn(t, Part, Ending({"infile"})) BY <1>11, <2>4 DEF Sent
    <3>2. File' BY <1>8, <2>2, <3>1, Answers, ZenonT(60)
    <3>3. FileServer' /\ injected' = <<>> /\ infile' = "data"
      BY <1>1, <1>2, <1>3, <1>7, <1>9, <2>4, ZenonT(60) DEF FileServer
    <3> QED BY <1>1, <1>2, <1>7, <3>2, <3>3 DEF AtSendResult
  <2> QED BY <1>3, <2>3, <2>4, ZenonT(60)
<1>12. CASE Results(o, client_send \o t, sent) /\ NotSent(p, t)
  <2>1. sent' = sent /\ t = <<>> /\ p.kind = "last" /\ (sent = 0 => Len(injected) # 1)
    BY <1>4, <1>12, ZenonT(60) DEF Results, NotSent
  <2>2. ToClient' = ToClient
    <3>1. ToClient \o <<>> = ToClient BY <1>0, ToClientTyped, JoinedToNone
    <3> QED BY <1>8, <2>1, <3>1
  <2>3. (Owed => Owed') /\ (Free => Free') BY <2>2, TurnKept
  <2>4. sent > 0 => LaterQuiet
    <3>1. \A i \in 2..Len(injected) : i \in 1..Len(injected) BY SMTT(30)
    <3> QED BY <1>1, <3>1, Zenon DEF Plan, LaterQuiet
  <2>5. Plan' BY <1>1, <1>7, <1>9, <2>1, <2>4, ZenonT(60) DEF Plan
  <2>6. IF injected' # <<>> /\ sent' = 0 THEN Owed' ELSE Free'
    BY <1>1, <1>9, <2>1, <2>3, ZenonT(60) DEF Turn
  <2> QED BY <1>1, <1>2, <1>7, <1>10, <2>1, <2>5, <2>6 DEF AtSendResult
<1> QED BY <1>5, <1>11, <1>12

LEMMA SyncReadQueryResult ==
    ASSUME Orderly, TypeOK, TypeOK', SyncInv, ReadQueryResult
    PROVE  SyncInv'
<1>1. state = "READ_QUERY_RESULT" /\ event = "run" /\ ~surprised BY DEF ReadQueryResult, At, SyncInv
<1>2. Reading BY <1>1 DEF SyncInv, Stage
<1>3. UNCHANGED <<client, client_out, client_in, needed, ldli_done, asked, surprised>>
  BY DEF ReadQueryResult, clientVars, peerVars
<1>4. CASE WaitFor("server_read") /\ UNCHANGED <<server, queueVars, recvVars, serverVars, parseVars,
                                                  finished, scriptVars>>
  <2>1. UNCHANGED <<state, server, queueVars, clientVars, serverVars, queryVars>>
    BY <1>3, <1>4 DEF WaitFor, clientVars, queryVars, resultVars, peerVars
  <2>2. Waiting' BY <1>1, <1>4 DEF WaitFor, Waiting
  <2> QED BY <2>1, <2>2, OnlyEvent
<1>5. CASE Goto("ERROR") /\ UNCHANGED <<server, queueVars, recvVars, serverVars, parseVars,
                                         finished, scriptVars>>
  <2>1. state' \in OverStates /\ event' = "run" BY <1>1, <1>5 DEF Goto, OverStates
  <2>2. ToClient' = ToClient /\ UNCHANGED server_in BY <1>3, <1>5 DEF ToClient, queueVars, serverVars
  <2> QED BY <1>3, <2>1, <2>2, GivenUp
<1>6. CASE /\ server_out # <<>>
           /\ get_query_result(Head(server_out))
           /\ ReadResultMore(Head(server_out)) \/ ReadResultLast(Head(server_out))
           /\ UNCHANGED client_recv
  <2>1. PICK p \in Replies : Saying(p) BY <1>2, <1>6 DEF Reading, Working
  <2>2. server_out = <<p>> /\ Head(server_out) = p /\ Tail(server_out) = <<>> BY <2>1, SMTT(30) DEF Saying
  <2>3. get_query_result(p) BY <1>6, <2>2
  <2>4. CASE ReadResultMore(p)
    <3>1. p.kind = "more" BY <2>4 DEF ReadResultMore, LastPacket
    <3>2. UNCHANGED <<command, infile>> BY <2>3, <3>1 DEF get_query_result
    <3>3. /\ UNCHANGED <<server, server_send, offset, server_in, server_alive, injected, sent>>
          /\ server_out' = <<>> /\ ~finished'
          /\ server_recv' = IF needed THEN Append(server_recv, p) ELSE server_recv
          /\ client_send' = IF needed THEN client_send ELSE Append(client_send, p)
      BY <2>2, <2>4 DEF ReadResultMore, scriptVars
    <3>4. Reading' BY <1>2, <1>3, <1>6, <2>1, <3>1, <3>2, <3>3, SyncMore
    <3>5. AtSendResult' BY <3>3, <3>4 DEF AtSendResult
    <3>6. state' \in {"READ_QUERY_RESULT", "SEND_QUERY_RESULT"} /\ event' = "run"
      BY <1>1, <2>4 DEF ReadResultMore, Stay, Goto
    <3> QED BY <1>1, <1>3, <3>4, <3>5, <3>6, EntersNext DEF Entering, Entered
  <2>5. CASE ReadResultLast(p)
    <3>1. AtSendResult' BY <1>2, <1>3, <1>6, <2>1, <2>3, <2>5, SyncLastAsIs, SyncLastDecided, ZenonT(60)
    <3>2. state' = "SEND_QUERY_RESULT" /\ event' = "run" BY <1>1, <2>5 DEF ReadResultLast, Goto
    <3> QED BY <1>1, <1>3, <3>1, <3>2, EntersNext DEF Entering, Entered
  <2> QED BY <1>6, <2>2, <2>4, <2>5
<1> QED BY <1>4, <1>5, <1>6 DEF ReadQueryResult

\* Writing to the client changes nothing that the state demands.
LEMMA SendResultKept ==
    ASSUME ToClient' = ToClient,
           UNCHANGED <<client, client_out, asked, server, server_alive, server_out, server_in,
                       server_send, client_recv, server_recv, offset, command, infile, needed,
                       finished, injected, sent>>
    PROVE  (Reading => Reading') /\ (AtSendResult => AtSendResult')
<1>1. (HasServer <=> HasServer') /\ (Clean => Clean') BY DEF HasServer, Clean
<1>2. (Owed => Owed') /\ (Free => Free') /\ (File => File') BY TurnKept
<1>3. (Idle => Idle') /\ (Working => Working') /\ (Filing => Filing') BY ServerLeftAlone
<1>4. Plan => Plan' BY <1>1 DEF Plan
<1>5. Turn => Turn' BY <1>2, <1>4 DEF Turn
<1>6. Buffered' = Buffered BY DEF Buffered
<1>7. Reading => Reading' BY <1>1, <1>3, <1>5, <1>6 DEF Reading
<1>8. FileServer => FileServer' BY <1>1, <1>3 DEF FileServer
<1> QED BY <1>1, <1>2, <1>3, <1>4, <1>7, <1>8 DEF AtSendResult

LEMMA AppendToNone == \A e : Append(<<>>, e) = <<e>>
OBVIOUS

\* The next injected query is sent.
LEMMA SyncNextInjection ==
    ASSUME TypeOK, Clean, server_recv = <<>>, Idle, Plan, injected # <<>>, HasServer,
           IF sent = 0 THEN Owed ELSE Free,
           injected[1].needed \/ sent = 0,
           ToClient' = ToClient, client_send' = <<>>,
           server_send' = Append(server_send, Request(injected[1].cmd, FALSE)),
           needed' = injected[1].needed, infile' = "none",
           UNCHANGED <<client, client_out, asked, server, server_out, server_in, client_recv,
                       server_recv, offset, injected, sent>>
    PROVE  AtSendQuery'
<1>1. injected[1] \in Injections BY Taken, SMTT(30) DEF TypeOK
<1>2. injected[1].cmd \in {"QUERY", "LOAD"} BY <1>1 DEF Injections
<1>3. PICK r \in Jobs : r = Request(injected[1].cmd, FALSE) /\ r.cmd = injected[1].cmd
                        /\ r.q = asked /\ ~r.more
  BY <1>2, RequestsMade, Zenon
<1>4. server_send' = <<r>>
  <2>1. server_send = <<>> /\ server_send' = Append(server_send, r) BY <1>3 DEF Clean
  <2> QED BY <2>1, AppendToNone, Zenon
<1>5. (Owed => Owed') /\ (Free => Free') BY TurnKept
<1>6. Plan' /\ HasServer' BY DEF Plan, HasServer
<1>7. Turn' BY <1>5, <1>6 DEF Turn
<1>8. Sending(r)' BY <1>2, <1>3, <1>4, <1>7, ZenonT(60) DEF Sending, Clean
<1>9. r \in Whole(Answerable \cup {"CLOSE"}) BY <1>2, <1>3, ZenonT(60) DEF Whole, Answerable
<1> QED BY <1>6, <1>8, <1>9, ZenonT(60) DEF AtSendQuery, Clean, Idle

LEMMA SyncSendQueryResult ==
    ASSUME Orderly, TypeOK, TypeOK', SyncInv, SendQueryResult
    PROVE  SyncInv'
<1>0. QueuesOK BY TypeParts
<1>1. state = "SEND_QUERY_RESULT" /\ event = "run" /\ ~surprised BY DEF SendQueryResult, At, SyncInv
<1>2. AtSendResult BY <1>1 DEF SyncInv, Stage
<1>3. UNCHANGED <<server, client, client_out, server_alive, server_out, server_in, client_recv,
                  server_recv, offset, finished, ldli_done, sent, closing, asked, surprised>>
  BY DEF SendQueryResult, serverVars, recvVars, peerVars
<1>4. ToClient' = ToClient
  <2>1. ClientWritten \/ ClientWriteWaits \/ ClientWriteFails BY DEF SendQueryResult
  <2> QED BY <1>0, <2>1, WritesKeep
<1>5. ASSUME state' = "ERROR", event' = "run" PROVE SyncInv'
  BY <1>3, <1>4, <1>5, GivenUp DEF OverStates
<1>6. CASE ClientWriteWaits /\ UNCHANGED <<server_send, parseVars, needed, injected>>
  <2>1. state' = state /\ event' = "client_write" BY <1>6 DEF ClientWriteWaits, WaitFor
  <2>2. AtSendResult' BY <1>2, <1>3, <1>4, <1>6, SendResultKept DEF parseVars
  <2>3. Stage' /\ Waiting' BY <1>1, <2>1, <2>2 DEF Stage, Waiting
  <2>4. SomeTurn' BY <1>3, <1>4, TurnKept DEF SyncInv, SomeTurn
  <2>5. ServerSafe' BY <1>3 DEF SyncInv, ServerSafe, Loading, Loaded
  <2> QED BY <1>3, <2>1, <2>3, <2>4, <2>5 DEF SyncInv
<1>7. CASE ClientWriteFails BY <1>1, <1>5, <1>7 DEF ClientWriteFails, Goto
<1>8. ASSUME ClientWritten, Reading, Goto("READ_QUERY_RESULT"),
             UNCHANGED <<server_send, parseVars, needed, injected>>
      PROVE  SyncInv'
  <2>1. Reading' BY <1>3, <1>4, <1>8, SendResultKept DEF parseVars
  <2> QED BY <1>1, <1>3, <1>8, <2>1, EntersNext DEF Entering, Entered, Goto
<1>9. ASSUME ClientWritten, ~closing, command # "DUMP", finished, NextInjection \/ NoInjection
      PROVE  SyncInv'
  <2>1. client_send' = <<>> BY <1>9 DEF ClientWritten
  <2>2. Clean /\ server_recv = <<>> BY <1>2, <1>9 DEF AtSendResult
  <2>3. CASE NextInjection
    <3>1. injected # <<>> /\ HasServer /\ needed' = injected[1].needed /\ injected' = injected
      BY <2>3 DEF NextInjection
    <3>2. Idle /\ Plan /\ IF sent = 0 THEN Owed ELSE Free BY <1>2, <1>9, <3>1 DEF AtSendResult
    <3>3. CASE ~injected[1].needed /\ sent > 0
      BY <1>1, <1>5, <2>3, <3>3 DEF NextInjection, Goto
    <3>4. CASE ~(~injected[1].needed /\ sent > 0)
      <4>1. /\ server_send' = Append(server_send, Request(injected[1].cmd, FALSE)) /\ infile' = "none"
            /\ state' = "SEND_QUERY" /\ event' = "run"
        BY <1>1, <2>3, <3>4, ZenonT(60) DEF NextInjection, ResetParse, Goto
      <4>2. injected[1].needed \/ sent = 0
        <5>1. sent \in Nat BY DEF TypeOK
        <5>2. sent = 0 \/ sent > 0 BY <5>1
        <5> QED BY <3>4, <5>2
      <4>3. AtSendQuery' BY <1>3, <1>4, <2>1, <2>2, <3>1, <3>2, <4>1, <4>2, SyncNextInjection
      <4> QED BY <1>1, <1>3, <4>1, <4>3, EntersNext, ZenonT(60) DEF Entering, Entered
    <3> QED BY <3>3, <3>4
  <2>4. CASE NoInjection
    <3>1. /\ injected' = <<>> /\ event' = "run" /\ UNCHANGED <<server_send, parseVars, needed>>
          /\ state' = IF command = "QUERY" /\ infile = "data"
                      THEN "READ_LOCAL_INFILE_DATA" ELSE "READ_QUERY"
          /\ injected = <<>> \/ ~HasServer
      BY <1>1, <2>4 DEF NoInjection, Goto
    <3>2. (Owed => Owed') /\ (Free => Free') /\ (File => File') BY <1>3, <1>4, TurnKept
    <3>3. Clean' /\ server_recv' = <<>> BY <1>3, <2>2, <3>1 DEF Clean
    <3>4. CASE command = "QUERY" /\ infile = "data"
      <4>1. File /\ FileServer BY <1>2, <1>9, <3>4, ZenonT(60) DEF AtSendResult
      <4>2. FileServer' BY <1>3, <4>1 DEF FileServer, HasServer, Idle, Filing, Loading
      <4>3. AtReadFile' BY <2>1, <3>1, <3>2, <3>3, <4>1, <4>2, ZenonT(60) DEF AtReadFile, NoQuery, Clean
      <4> QED BY <1>1, <1>3, <3>1, <3>4, <4>3, EntersNext DEF Entering, Entered
    <3>5. CASE ~(command = "QUERY" /\ infile = "data")
      <4>1. Idle /\ Plan /\ IF injected # <<>> /\ sent = 0 THEN Owed ELSE Free
        BY <1>2, <1>9, <3>5 DEF AtSendResult
      <4>2. injected = <<>> BY <3>1, <4>1 DEF Plan
      <4>3. Idle' /\ Free' BY <1>3, <3>2, <4>1, <4>2 DEF Idle
      <4>4. AtReadQuery' BY <2>1, <3>1, <3>3, <4>3 DEF AtReadQuery
      <4> QED BY <1>1, <1>3, <3>1, <3>5, <4>4, EntersNext DEF Entering, Entered
    <3> QED BY <3>4, <3>5
  <2> QED BY <1>9, <2>3, <2>4
<1>10. CASE /\ ClientWritten
            /\ IF ~finished /\ HasServer
               THEN Goto("READ_QUERY_RESULT") /\ UNCHANGED <<server_send, parseVars, needed, injected>>
               ELSE proxy_send_query_result
  <2>1. CASE ~finished
    <3>1. Reading /\ HasServer BY <1>2, <2>1 DEF AtSendResult, Reading
    <3> QED BY <1>8, <1>10, <2>1, <3>1
  <2>2. CASE finished /\ closing
    BY <1>1, <1>5, <1>10, <2>2 DEF proxy_send_query_result, Goto
  <2>3. CASE finished /\ ~closing /\ command = "DUMP"
    <3>1. Reading BY <1>2, <2>3 DEF AtSendResult
    <3> QED BY <1>8, <1>10, <2>3, <3>1 DEF proxy_send_query_result
  <2>4. CASE finished /\ ~closing /\ command # "DUMP"
    BY <1>9, <1>10, <2>4, Zenon DEF proxy_send_query_result
  <2>5. finished \in BOOLEAN /\ closing \in BOOLEAN BY DEF TypeOK
  <2> QED BY <2>1, <2>2, <2>3, <2>4, <2>5
<1> QED BY <1>6, <1>7, <1>10, Zenon DEF SendQueryResult

LEMMA SyncReadFile ==
    ASSUME TypeOK, TypeOK', SyncInv, ReadLocalInfileData
    PROVE  SyncInv'
<1>0. QueuesOK BY TypeParts
<1>1. state = "READ_LOCAL_INFILE_DATA" /\ event = "run" /\ ~surprised
  BY DEF ReadLocalInfileData, At, SyncInv
<1>2. AtReadFile BY <1>1 DEF SyncInv, Stage
<1>3. UNCHANGED <<server, client, client_in, serverVars, recvVars, command, com_quit_seen,
                  needed, finished, scriptVars, peerVars>>
  BY DEF ReadLocalInfileData
<1>4. CASE WaitFor("client_read") /\ UNCHANGED <<queueVars, client_out, infile, ldli_done>>
  <2>1. UNCHANGED <<state, server, queueVars, clientVars, serverVars, queryVars>>
    BY <1>3, <1>4 DEF WaitFor, clientVars, queryVars, resultVars, parseVars
  <2>2. Waiting' BY <1>1, <1>4 DEF WaitFor, Waiting
  <2> QED BY <2>1, <2>2, OnlyEvent
<1>5. CASE Goto("ERROR") /\ UNCHANGED <<queueVars, client_out, infile, ldli_done>>
  <2>1. state' \in OverStates /\ event' = "run" BY <1>1, <1>5 DEF Goto, OverStates
  <2>2. ToClient' = ToClient /\ UNCHANGED <<client, client_out, server_in, asked, surprised>>
    BY <1>3, <1>5 DEF ToClient, queueVars, serverVars, peerVars
  <2> QED BY <2>1, <2>2, GivenUp
<1>6. ASSUME client_out # <<>>, client_out' = Tail(client_out), NEW r, r = Head(client_out),
             NEW end \in BOOLEAN, end = (r.cmd = "END"), ldli_done' = end,
             IF HasServer
                THEN /\ server_send' = Append(server_send, r)
                     /\ Goto("SEND_LOCAL_INFILE_DATA")
                     /\ UNCHANGED client_send
                ELSE /\ client_send' = IF end THEN Append(client_send, Reply("last")) ELSE client_send
                     /\ IF end THEN Goto("SEND_LOCAL_INFILE_RESULT") ELSE Stay
                     /\ UNCHANGED server_send
      PROVE  SyncInv'
  <2>1. /\ ToClient = <<>> /\ client_out' = <<>>
        /\ \/ ~end /\ r \in Whole({"DATA"}) /\ client \in {"infile", "closed"}
           \/ end /\ r \in Whole({"END"}) /\ client \in {"waiting", "closed"}
    <3>1. ToClient = <<>> /\ client_out' = <<>>
      BY <1>2, <1>6, FileTaken DEF AtReadFile
    <3>2. \/ r \in OfAsked({"DATA"}) /\ client \in {"infile", "closed"}
          \/ r \in OfAsked({"END"}) /\ client \in {"waiting", "closed"}
      BY <1>2, <1>6, FileTaken DEF AtReadFile
    <3>3. \A cs : OfAsked(cs) \subseteq Whole(cs) BY DEF OfAsked
    <3>4. (\A x \in Whole({"DATA"}) : x.cmd # "END") /\ (\A x \in Whole({"END"}) : x.cmd = "END")
      BY WholeJobs
    <3>5. r.cmd = "END" <=> end BY <1>6, ZenonT(60)
    <3> QED BY <3>1, <3>2, <3>3, <3>4, <3>5, Zenon
  <2>2. /\ NoQuery' /\ FileServer' /\ (HasServer <=> HasServer')
        /\ UNCHANGED <<client, client_in, asked, surprised>>
    BY <1>2, <1>3 DEF AtReadFile, NoQuery, FileServer, HasServer, Idle, Filing, Loading,
                      serverVars, recvVars, scriptVars, peerVars
  <2>3. <<>> \in Seq(Part) /\ server_send = <<>> /\ client_send = <<>>
    BY <1>2, EmptyFits DEF AtReadFile
  <2>4. ASSUME client_send' = <<>> PROVE (~end => File') /\ (end => Owed')
    <3>1. ToClient' = <<>> BY <2>1, <2>2, <2>3, <2>4 DEF ToClient
    <3>2. ~end => File' BY <2>1, <2>2, <3>1 DEF File
    <3>3. <<>> \in Seq(Part)' BY EmptyFits
    <3>4. end => Owed' BY <2>1, <2>2, <3>1, <3>3 DEF Owed
    <3> QED BY <3>2, <3>4
  <2>5. CASE HasServer
    <3>1. server_send' = <<r>> /\ client_send' = <<>> /\ event' = "run"
          /\ state' = "SEND_LOCAL_INFILE_DATA"
      BY <1>1, <1>6, <2>3, <2>5, AppendToNone DEF Goto
    <3>2. Filing' /\ HasServer' BY <2>2, <2>5 DEF FileServer
    <3>3. AtSendFile' BY <1>6, <2>1, <2>2, <2>4, <3>1, <3>2 DEF AtSendFile
    <3> QED BY <1>1, <2>2, <3>1, <3>3, EntersNext DEF Entering, Entered
  <2>6. CASE ~HasServer /\ ~end
    <3>1. server_send' = <<>> /\ client_send' = <<>> /\ event' = "run" /\ state' = state
      BY <1>1, <1>6, <2>3, <2>6 DEF Stay
    <3>2. AtReadFile' BY <2>2, <2>4, <2>6, <3>1 DEF AtReadFile
    <3> QED BY <1>1, <2>2, <3>1, <3>2, EntersNext DEF Entering, Entered
  <2>7. CASE ~HasServer /\ end
    <3>1. server_send' = <<>> /\ client_send' = Append(client_send, Reply("last")) /\ event' = "run"
          /\ state' = "SEND_LOCAL_INFILE_RESULT"
      BY <1>1, <1>6, <2>3, <2>7 DEF Goto
    <3>2. Reply("last") \in Replies /\ EndsIn(<<Reply("last")>>, Part, Ending({"last", "err"}))
      BY ReplyEnds
    <3>3. ToClient' = ToClient \o <<Reply("last")>> /\ <<Reply("last")>> \in Seq(Replies)
      BY <1>0, <2>2, <3>1, <3>2, Queued, Zenon
    <3>4. Free' BY <2>1, <2>2, <2>3, <2>7, <3>2, <3>3, Answers
    <3>5. Idle' BY <2>2, <2>7 DEF FileServer
    <3>6. AtSendVerdict' BY <2>2, <3>1, <3>4, <3>5 DEF AtSendVerdict
    <3> QED BY <1>1, <2>2, <3>1, <3>6, EntersNext DEF Entering, Entered
  <2> QED BY <1>6, <2>5, <2>6, <2>7
<1>7. CASE /\ client_out # <<>>
           /\ client_out' = Tail(client_out)
           /\ LET end == Head(client_out).cmd = "END" IN
              /\ ldli_done' = end
              /\ infile' = IF end THEN "result" ELSE infile
              /\ IF HasServer
                 THEN /\ server_send' = Append(server_send, Head(client_out))
                      /\ Goto("SEND_LOCAL_INFILE_DATA")
                      /\ UNCHANGED client_send
                 ELSE /\ client_send' = IF end THEN Append(client_send, Reply("last")) ELSE client_send
                      /\ IF end THEN Goto("SEND_LOCAL_INFILE_RESULT") ELSE Stay
                      /\ UNCHANGED server_send
  <2>1. PICK r : r = Head(client_out) OBVIOUS
  <2>2. PICK end \in BOOLEAN : end = (r.cmd = "END") BY ZenonT(60)
  <2> QED BY <1>6, <1>7, <2>1, <2>2, Zenon
<1> QED BY <1>4, <1>5, <1>7 DEF ReadLocalInfileData

LEMMA SyncSendFile ==
    ASSUME TypeOK, TypeOK', SyncInv, SendLocalInfileData
    PROVE  SyncInv'
<1>0. QueuesOK BY TypeParts
<1>1. state = "SEND_LOCAL_INFILE_DATA" /\ event = "run" /\ ~surprised
  BY DEF SendLocalInfileData, At, SyncInv
<1>2. AtSendFile BY <1>1 DEF SyncInv, Stage
<1>3. UNCHANGED <<server, client_send, clientVars, server_alive, server_out, recvVars,
                  parseVars, resultVars, scriptVars, peerVars>>
  BY DEF SendLocalInfileData
<1>4. ToClient' = ToClient /\ UNCHANGED <<client, client_out, asked, surprised>>
  BY <1>3 DEF ToClient, clientVars, peerVars
<1>5. PICK r \in Jobs : /\ server_send = <<r>>
                        /\ IF ldli_done THEN Owed /\ r \in Whole({"END"}) ELSE File /\ r \in Whole({"DATA"})
  BY <1>2, WholeJobs, ZenonT(60) DEF AtSendFile
<1>6. Filing /\ HasServer' /\ NoQuery' /\ client_send' = <<>> /\ server_out' = <<>>
  BY <1>2, <1>3, ZenonT(60) DEF AtSendFile, NoQuery, HasServer, recvVars, scriptVars, Filing
<1>7. (Owed => Owed') /\ (File => File') BY <1>4, TurnKept
<1>8. CASE ServerWritten /\ Goto(IF ldli_done THEN "READ_LOCAL_INFILE_RESULT" ELSE "READ_LOCAL_INFILE_DATA")
  <2>1. server_send' = <<>> /\ event' = "run" BY <1>1, <1>8, ZenonT(60) DEF ServerWritten, Goto
  <2>2. /\ server_in' # <<>> /\ Head(server_in') = Head(server_in)
        /\ Tail(server_in') = Tail(server_in) \o <<r>>
    BY <1>0, <1>5, <1>6, <1>8, GivesServer, ZenonT(60) DEF Filing, Loading
  <2>3. Head(server_in') \in Whole({"INFILE"}) /\ Tail(server_in) \in Seq(Whole({"DATA"}))
        /\ Head(server_in').q = asked'
    BY <1>4, <1>6, <2>2 DEF Filing, Loading
  <2>4. CASE ldli_done
    <3>1. Owed /\ r \in Whole({"END"}) BY <1>5, <2>4
    <3>2. EndsIn(<<r>>, Whole({"DATA"}), Whole({"END"}))
      <4>1. <<>> \in Seq(Whole({"DATA"})) BY EmptyFits, Zenon
      <4> QED BY <3>1, <4>1, RunEnds, ZenonT(60)
    <3>3. <<r>> \in Seq(Jobs) BY Pair
    <3>4. EndsIn(Tail(server_in'), Whole({"DATA"}), Whole({"END"}))
      BY <2>2, <2>3, <3>2, <3>3, RunGrows, Zenon
    <3>5. Filed' BY <1>6, <2>2, <2>3, <3>4, ZenonT(60) DEF Filed, Loaded
    <3>6. AtReadVerdict' BY <1>6, <1>7, <2>1, <3>1, <3>5 DEF AtReadVerdict
    <3>7. state' = "READ_LOCAL_INFILE_RESULT" BY <1>8, <2>4 DEF Goto
    <3> QED BY <1>1, <1>4, <2>1, <3>6, <3>7, EntersNext DEF Entering, Entered
  <2>5. CASE ~ldli_done
    <3>1. File /\ r \in Whole({"DATA"}) BY <1>5, <2>5
    <3>2. Tail(server_in') \in Seq(Whole({"DATA"}))
      <4>1. <<r>> \in Seq(Whole({"DATA"})) BY <3>1, Pair
      <4> QED BY <2>2, <2>3, <4>1, Joined, ZenonT(60)
    <3>3. Filing' BY <1>6, <2>2, <2>3, <3>2 DEF Filing, Loading
    <3>4. AtReadFile' BY <1>6, <1>7, <2>1, <3>1, <3>3 DEF AtReadFile, FileServer
    <3>5. state' = "READ_LOCAL_INFILE_DATA" BY <1>8, <2>5 DEF Goto
    <3> QED BY <1>1, <1>4, <2>1, <3>4, <3>5, EntersNext DEF Entering, Entered
  <2> QED BY <2>4, <2>5
<1>9. CASE ServerWriteWaits
  <2>1. server_in' = server_in /\ server_send' = server_send BY <1>0, <1>5, <1>9, OneLeft
  <2>2. state' = state /\ event' = "server_write" BY <1>9 DEF ServerWriteWaits, WaitFor
  <2>3. UNCHANGED <<state, server, queueVars, clientVars, serverVars, queryVars>>
    BY <1>3, <2>1, <2>2 DEF queueVars, serverVars, queryVars
  <2>4. Waiting' BY <2>2 DEF Waiting
  <2> QED BY <2>3, <2>4, OnlyEvent
<1>10. CASE ServerWriteFails
  <2>1. state' \in OverStates /\ event' = "run" /\ server_in' = server_in
    BY <1>1, <1>10 DEF ServerWriteFails, Goto, OverStates
  <2> QED BY <1>4, <2>1, GivenUp
<1> QED BY <1>8, <1>9, <1>10 DEF SendLocalInfileData

LEMMA SyncReadVerdict ==
    ASSUME TypeOK, TypeOK', SyncInv, ReadLocalInfileResult
    PROVE  SyncInv'
<1>0. QueuesOK BY TypeParts
<1>1. state = "READ_LOCAL_INFILE_RESULT" /\ event = "run" /\ ~surprised
  BY DEF ReadLocalInfileResult, At, SyncInv
<1>2. AtReadVerdict BY <1>1 DEF SyncInv, Stage
<1>3. UNCHANGED <<server, server_send, clientVars, server_alive, server_in, recvVars,
                  parseVars, resultVars, scriptVars, peerVars>>
  BY DEF ReadLocalInfileResult
<1>4. UNCHANGED <<client, client_out, client_in, asked, surprised>> BY <1>3 DEF clientVars, peerVars
<1>5. CASE WaitFor("server_read") /\ UNCHANGED <<client_send, server_out>>
  <2>1. UNCHANGED <<state, server, queueVars, clientVars, serverVars, queryVars>>
    BY <1>3, <1>5 DEF WaitFor, queueVars, serverVars, queryVars
  <2>2. Waiting' BY <1>1, <1>5 DEF WaitFor, Waiting
  <2> QED BY <2>1, <2>2, OnlyEvent
<1>6. CASE Goto("ERROR") /\ UNCHANGED <<client_send, server_out>>
  <2>1. state' \in OverStates /\ event' = "run" BY <1>1, <1>6 DEF Goto, OverStates
  <2>2. ToClient' = ToClient /\ server_in' = server_in BY <1>3, <1>4, <1>6 DEF ToClient
  <2> QED BY <1>4, <2>1, <2>2, GivenUp
<1>7. CASE /\ server_out # <<>>
           /\ Head(server_out).kind = "last"
           /\ client_send' = Append(client_send, Head(server_out))
           /\ server_out' = Tail(server_out)
           /\ Goto("SEND_LOCAL_INFILE_RESULT")
  <2>1. PICK p \in Ending({"last", "err"}) : server_out = <<p>> /\ server_in = <<>>
    BY <1>2, <1>7 DEF AtReadVerdict, Filed
  <2>2. Head(server_out) = p /\ Tail(server_out) = <<>> /\ p \in Replies BY <2>1 DEF Ending
  <2>3. ToClient' = ToClient \o <<p>> /\ <<p>> \in Seq(Replies)
    BY <1>0, <1>4, <1>7, <2>2, Queued
  <2>4. <<>> \in Seq(Part) BY EmptyFits
  <2>5. EndsIn(<<p>>, Part, Ending({"last", "err"})) BY <2>1, <2>4, RunEnds, ZenonT(60)
  <2>6. client \in {"waiting", "closed"} /\ client_out' = <<>> /\ ToClient \in Seq(Part)
    BY <1>2, <1>4 DEF AtReadVerdict, Owed
  <2>7. Free' BY <1>4, <2>3, <2>5, <2>6, Answers, ZenonT(60)
  <2>8. Idle'
    <3>1. <<>> \in Seq(Closes) BY EmptyFits
    <3> QED BY <1>3, <1>7, <2>1, <2>2, <3>1 DEF Idle
  <2>9. AtSendVerdict'
    BY <1>2, <1>3, <2>7, <2>8 DEF AtSendVerdict, AtReadVerdict, NoQuery, recvVars, scriptVars
  <2> QED BY <1>1, <1>4, <1>7, <2>9, EntersNext DEF Entering, Entered, Goto
<1> QED BY <1>5, <1>6, <1>7 DEF ReadLocalInfileResult

LEMMA SyncSendVerdict ==
    ASSUME TypeOK, TypeOK', SyncInv, SendLocalInfileResult
    PROVE  SyncInv'
<1>0. QueuesOK BY TypeParts
<1>1. state = "SEND_LOCAL_INFILE_RESULT" /\ event = "run" /\ ~surprised
  BY DEF SendLocalInfileResult, At, SyncInv
<1>2. AtSendVerdict BY <1>1 DEF SyncInv, Stage
<1>3. UNCHANGED <<server, server_send, client, client_out, server_alive, server_out, server_in,
                  client_recv, server_recv, offset, injected, asked, surprised>>
  BY DEF SendLocalInfileResult, serverVars, recvVars, scriptVars, peerVars
<1>4. ToClient' = ToClient
  <2>1. ClientWritten \/ ClientWriteWaits \/ ClientWriteFails BY DEF SendLocalInfileResult
  <2> QED BY <1>0, <2>1, WritesKeep
<1>5. Free' /\ Idle' /\ NoQuery' /\ server_send' = <<>>
  BY <1>2, <1>3, <1>4, TurnKept DEF AtSendVerdict, Idle, NoQuery
<1>6. CASE ClientWritten /\ Goto("READ_QUERY")
  <2>1. client_send' = <<>> /\ event' = "run" /\ state' = "READ_QUERY"
    BY <1>1, <1>6 DEF ClientWritten, Goto
  <2>2. AtReadQuery' BY <1>5, <2>1 DEF AtReadQuery, Clean, NoQuery
  <2> QED BY <1>1, <1>3, <2>1, <2>2, EntersNext DEF Entering, Entered
<1>7. CASE ClientWriteWaits
  <2>1. state' = state /\ event' = "client_write" BY <1>7 DEF ClientWriteWaits, WaitFor
  <2>2. AtSendVerdict' BY <1>5 DEF AtSendVerdict
  <2>3. Stage' /\ Waiting' BY <1>1, <2>1, <2>2 DEF Stage, Waiting
  <2>4. SomeTurn' BY <1>5 DEF SomeTurn
  <2>5. ServerSafe' BY <1>5 DEF Idle, ServerSafe
  <2> QED BY <1>3, <2>1, <2>3, <2>4, <2>5 DEF SyncInv
<1>8. CASE ClientWriteFails
  <2>1. state' \in OverStates /\ event' = "run" BY <1>1, <1>8 DEF ClientWriteFails, Goto, OverStates
  <2> QED BY <1>3, <1>4, <2>1, GivenUp
<1> QED BY <1>6, <1>7, <1>8 DEF SendLocalInfileResult

LEMMA InitInSync == ASSUME Init PROVE SyncInv
<1>1. ToClient = <<>> /\ <<>> \in Seq(Closes)
  <2>1. client_in = <<>> /\ client_send = <<>> BY DEF Init
  <2> QED BY <2>1, EmptyFits DEF ToClient
<1>2. Free /\ Idle BY <1>1 DEF Init, Free, Idle
<1>3. AtReadQuery BY <1>2 DEF AtReadQuery, Clean, Init
<1>4. Entering BY <1>3 DEF Entering, Entered, Init
<1> QED BY <1>4, Enters

\* Nothing happens.
LEMMA SyncStutter == ASSUME SyncInv, UNCHANGED vars PROVE SyncInv'
<1>1. UNCHANGED <<state, server, queueVars, clientVars, serverVars, queryVars>> /\ event' = event
  BY DEF vars, mysqldVars, conVars, queryVars
<1>2. Waiting' BY <1>1 DEF SyncInv, Waiting
<1> QED BY <1>1, <1>2, OnlyEvent

LEMMA SyncStep == ASSUME Orderly, TypeOK, TypeOK', SyncInv, [Next]_vars PROVE SyncInv'
<1>1. CASE Handle
  <2>1. CASE ReadQuery BY <2>1, SyncReadQuery
  <2>2. CASE SendQuery BY <2>2, SyncSendQuery
  <2>3. CASE ReadQueryResult BY <2>3, SyncReadQueryResult
  <2>4. CASE SendQueryResult BY <2>4, SyncSendQueryResult
  <2>5. CASE ReadLocalInfileData BY <2>5, SyncReadFile
  <2>6. CASE SendLocalInfileData BY <2>6, SyncSendFile
  <2>7. CASE ReadLocalInfileResult BY <2>7, SyncReadVerdict
  <2>8. CASE SendLocalInfileResult BY <2>8, SyncSendVerdict
  <2>9. CASE Finish BY <2>9, SyncLoop
  <2> QED BY <1>1, <2>1, <2>2, <2>3, <2>4, <2>5, <2>6, <2>7, <2>8, <2>9 DEF Handle
<1>2. CASE Callback \/ FireTimeout BY <1>2, SyncLoop
<1>3. CASE (\E c \in Commands : ClientCommand(c)) \/ (\E c \in {"DATA", "END"} : ClientData(c))
             \/ ClientReceive
  BY <1>3, SyncClient
<1>4. CASE Server BY <1>4, SyncServer
<1>5. CASE HangUp BY <1>5, SyncClient, SyncServer DEF HangUp
<1>6. CASE UNCHANGED vars BY <1>6, SyncStutter
<1> QED BY <1>1, <1>2, <1>3, <1>4, <1>5, <1>6 DEF Next

\* What SyncInv says of the three properties.
LEMMA SyncTells ==
    ASSUME TypeOK, SyncInv
    PROVE  InSync /\ NoMutualWait /\ CleanBetweenCommands
<1>0. QueuesOK BY TypeParts
<1>1. InSync BY DEF SyncInv, InSync
<1>2. ASSUME event = "client_read", client_out = <<>>, client_in = <<>> PROVE client # "waiting"
  <2>1. state \in {"READ_QUERY", "READ_LOCAL_INFILE_DATA"} BY <1>2 DEF SyncInv, Waiting
  <2>2. client_send = <<>> /\ (Free \/ File)
    BY <2>1 DEF SyncInv, Stage, AtReadQuery, AtReadFile
  <2>3. ToClient = <<>> BY <1>2, <2>2 DEF ToClient
  <2>4. \A S, T : ~EndsIn(<<>>, S, T) BY DEF EndsIn
  <2>5. \A r : <<r>> # <<>> OBVIOUS
  <2> QED BY <1>2, <2>2, <2>3, <2>4, <2>5, Zenon DEF Free, File
<1>3. ASSUME event = "server_read", server_out = <<>>, server_alive PROVE server_in # <<>>
  <2>1. Working \/ Filed
    BY <1>3 DEF SyncInv, Waiting, Stage, Reading, AtReadVerdict
  <2>2. \A p : <<p>> # <<>> OBVIOUS
  <2> QED BY <1>3, <2>1, <2>2, Zenon DEF Working, Filed, Saying, EndsIn, Loaded
<1>4. CleanBetweenCommands BY DEF SyncInv, Stage, AtReadQuery, Clean, CleanBetweenCommands
<1> QED BY <1>1, <1>2, <1>3, <1>4 DEF NoMutualWait

\* Throughout, for scripts that keep to the contract.
LEMMA Synced == ASSUME Orderly PROVE Spec => [](TypeInv /\ SyncInv)
<1>1. Init => TypeInv /\ SyncInv BY InitTyped, InitInSync
<1>2. TypeInv /\ SyncInv /\ [Next]_vars => (TypeInv /\ SyncInv)'
  <2>1. TypeInv /\ [Next]_vars => TypeInv' BY TypeInvStep
  <2>2. TypeInv => TypeOK BY DEF TypeInv
  <2>3. TypeInv' => TypeOK' BY DEF TypeInv
  <2> QED BY <2>1, <2>2, <2>3, SyncStep
<1> QED BY <1>1, <1>2, PTL DEF Spec

\* A client never gets a packet of an answer it does not wait for, and the
\* server never a piece of a file it has not asked for, however many queries
\* the script injects, whatever of them is streamed, buffered, replaced or
\* dropped, and whenever a peer hangs up or a write stops half way.
THEOREM PeersStayInStep == ASSUME Orderly PROVE Spec => []InSync
<1>1. TypeInv /\ SyncInv => InSync BY SyncTells DEF TypeInv
<1> QED BY <1>1, Synced, PTL

\* con_handle() never waits for a client that waits for its answer, nor for a
\* server that was asked nothing.
THEOREM NobodyWaitsInCircles == ASSUME Orderly PROVE Spec => []NoMutualWait
<1>1. TypeInv /\ SyncInv => NoMutualWait BY SyncTells DEF TypeInv
<1> QED BY <1>1, Synced, PTL

\* When con_handle() waits for a command, the one before has left nothing in
\* a queue of the proxy.
THEOREM CommandsLeaveNothing == ASSUME Orderly PROVE Spec => []CleanBetweenCommands
<1>1. TypeInv /\ SyncInv => CleanBetweenCommands BY SyncTells DEF TypeInv
<1> QED BY <1>1, Synced, PTL

\* Such a script leaves con->server where it is used even while it serves
\* COM_BINLOG_DUMP, which ServersAreThere has to leave out.
THEOREM CarefulScriptsKeepServers == ASSUME Orderly PROVE Spec => []ServerWhereUsed
<1>1. SyncInv => ServerWhereUsed
  BY DEF SyncInv, Stage, ServerWhereUsed, ServerStates, AtSendQuery, Reading, AtSendFile, AtReadVerdict
<1> QED BY <1>1, Synced, PTL
=============================================================================
