---------------------------- MODULE PacketStream ----------------------------
(***************************************************************************)
(* Packets over a byte stream: what network_mysqld_queue_append() puts in  *)
(* a send_queue, network_socket_write() writes in pieces that have nothing *)
(* to do with packets, network_socket_read() reads in other pieces, and    *)
(* network_mysqld_con_get_packet() puts together again                     *)
(* (src/src/network-mysqld.c, network-socket.c, network-queue.c).          *)
(*                                                                         *)
(* A header is two units, the length and the id, where the code has four   *)
(* bytes. The wire is the kernel's: bytes written and not read.            *)
(***************************************************************************)
EXTENDS PacketIds, FiniteSets, Sequences

CONSTANTS
    PACKET_LEN_MAX,  \* the longest payload of one packet
    IOV_MAX,         \* chunks one writev() takes
    HAVE_WRITEV,     \* the build has writev(), else it loops over send()
    MaxPayloads,     \* bound: payloads sent
    MaxWire,         \* bound: what the socket buffers hold
    MaxRetries       \* bound: recv() calls that would block

NET_HEADER_SIZE == 2

ASSUME StreamBounds ==
    /\ PACKET_LEN_MAX \in Nat \ {0} /\ IOV_MAX \in Nat \ {0}
    /\ MaxPayloads \in Nat /\ MaxWire \in Nat \ {0} /\ MaxRetries \in Nat
ASSUME BuildAssumption == HAVE_WRITEV \in BOOLEAN

VARIABLES
    sender,      \* last_packet_id and packet_id_is_reset of the sending socket
    send_queue,
    wire,
    broken,      \* the connection is reset: what was on the wire is lost
    receiver,    \* the ids of the receiving socket
    to_read,     \* sock->to_read: what FIONREAD said
    recv_queue_raw,
    recv_queue,  \* complete packets
    reader,      \* "run", "wait" for EV_READ, "error", or "closed"
    retries,     \* recv() calls that would have blocked
    payloads,    \* lengths of the payloads sent so far
    sent         \* the packets they were sent as

sendVars == <<sender, send_queue, payloads, sent>>
recvVars == <<receiver, to_read, recv_queue_raw, recv_queue, reader, retries>>
streamVars == <<sendVars, wire, broken, recvVars>>
-----------------------------------------------------------------------------
(***************************************************************************)
(* network-queue.c: chunks, an offset into the first of them, and the      *)
(* number of bytes behind it.                                              *)
(***************************************************************************)
\* Sequences one after the other.
Flatten(ss) ==
    LET upto[i \in 0..Len(ss)] == IF i = 0 THEN <<>> ELSE upto[i - 1] \o ss[i] IN upto[Len(ss)]

Queues ==
    {q \in [chunks : Seq(Seq(Nat)), offset : Nat, len : Nat] :
        q.offset # 0 => q.chunks # <<>> /\ q.offset < Len(q.chunks[1])}
queue_new == [chunks |-> <<>>, offset |-> 0, len |-> 0]
queue_append_chunks(q, ss) ==
    [chunks |-> q.chunks \o ss, offset |-> q.offset, len |-> q.len + Len(Flatten(ss))]
queue_append_chunk(q, s) == queue_append_chunks(q, <<s>>)

\* What is left of the i-th chunk, and of all chunks.
Rest(q, i) ==
    IF i = 1 THEN SubSeq(q.chunks[1], q.offset + 1, Len(q.chunks[1])) ELSE q.chunks[i]
Bytes(q) == Flatten([i \in DOMAIN q.chunks |-> Rest(q, i)])

\* The bytes stay where they are. "Too few" is <<>>: nobody asks for nothing.
peek_string(q, n) == IF q.len < n THEN <<>> ELSE SubSeq(Bytes(q), 1, n)

\* The bytes up to the end of chunk i. Taking n bytes removes the chunks that
\* end within them, the first Gone(q, n), and moves the offset into the next.
EndOf(q, i) == Len(Flatten([j \in 1..i |-> Rest(q, j)]))
Gone(q, n) ==
    CHOOSE g \in 0..Len(q.chunks) : {i \in DOMAIN q.chunks : EndOf(q, i) <= n} = 1..g
Without(q, n) ==
    LET gone == Gone(q, n)
    IN  [chunks |-> SubSeq(q.chunks, gone + 1, Len(q.chunks)),
         offset |-> IF gone = 0 THEN q.offset + n ELSE n - EndOf(q, gone),
         len |-> q.len - n]

\* A first chunk that is just what is wanted is handed out as it is, and the
\* loop does not get to look at the next one.
pop_string(q, n) ==
    IF q.len < n THEN [queue |-> q, dest |-> <<>>]
    ELSE [queue |-> IF q.offset = 0 /\ Len(q.chunks[1]) = n
                    THEN [chunks |-> Tail(q.chunks), offset |-> 0, len |-> q.len - n]
                    ELSE Without(q, n),
          dest |-> SubSeq(Bytes(q), 1, n)]

StreamTypeOK ==
    /\ sender \in Sockets /\ receiver \in Sockets
    /\ send_queue \in Queues /\ recv_queue_raw \in Queues
    /\ wire \in Seq(Nat) /\ Len(wire) <= MaxWire /\ broken \in BOOLEAN
    /\ to_read \in 0..MaxWire /\ retries \in 0..MaxRetries
    /\ recv_queue \in Seq(Seq(Nat)) /\ sent \in Seq(Seq(Nat))
    /\ reader \in {"run", "wait", "error", "closed"}
    /\ payloads \in Seq(0..(2 * PACKET_LEN_MAX))

\* Both ends have just reset their ids, or have seen the same last packet.
StreamInit ==
    /\ sender \in [last : {254}, reset : BOOLEAN] /\ receiver = sender
    /\ send_queue = queue_new /\ recv_queue_raw = queue_new
    /\ wire = <<>> /\ broken = FALSE /\ to_read = 0 /\ retries = 0
    /\ recv_queue = <<>> /\ reader = "wait" /\ payloads = <<>> /\ sent = <<>>
-----------------------------------------------------------------------------
\* Payload i..j as a packet with that id; its bytes are told apart by value.
PacketOf(i, j, id) == <<j + 1 - i, id>> \o [k \in 1..(j + 1 - i) |-> 100 + i + k]
IdAfter(s, n) == IF n = 1 THEN NewId(s) ELSE (NewId(s) + n - 1) % 256

\* Mutant: a payload as long as the longest packet goes out alone.
PacketsUnterminated(s, n) ==
    LET pieces == IF n = 0 THEN 1 ELSE (n + PACKET_LEN_MAX - 1) \div PACKET_LEN_MAX
    IN  [p \in 1..pieces |->
           PacketOf((p - 1) * PACKET_LEN_MAX,
                    (IF p * PACKET_LEN_MAX < n THEN p * PACKET_LEN_MAX ELSE n) - 1,
                    IdAfter(s, p))]

\* The loop of network_mysqld_queue_append(): pieces of PACKET_LEN_MAX, then
\* the rest; an empty packet when the last piece is as long as that.
PacketsFor(s, n) ==
    LET full == n \div PACKET_LEN_MAX
    IN  [p \in 1..(full + 1) |->
           PacketOf((p - 1) * PACKET_LEN_MAX,
                    (IF p * PACKET_LEN_MAX < n THEN p * PACKET_LEN_MAX ELSE n) - 1,
                    IdAfter(s, p))]

mysqld_queue_append(n) ==
    /\ Len(payloads) < MaxPayloads
    /\ LET ps == PacketsFor(sender, n)
       IN  /\ send_queue' = queue_append_chunks(send_queue, ps)
           /\ sender' = Numbered(IdAfter(sender, Len(ps)))
           /\ sent' = sent \o ps
    /\ payloads' = Append(payloads, n)
    /\ UNCHANGED <<wire, broken, recvVars>>

\* Mutant: the offset starts again in a chunk that was not sent in full.
WrittenFromZero(q, n) == [Without(q, n) EXCEPT !.offset = 0]

\* The loop over send() leaves queue->len alone.
Written(q, n) ==
    [Without(q, n) EXCEPT !.len = IF HAVE_WRITEV THEN @ ELSE q.len]

\* network_socket_write(): the kernel takes as many bytes as it likes, of as
\* many chunks as one call may have.
Offered ==
    LET chunks == IF HAVE_WRITEV /\ Len(send_queue.chunks) > IOV_MAX
                  THEN IOV_MAX ELSE Len(send_queue.chunks)
    IN  Flatten([i \in 1..chunks |-> Rest(send_queue, i)])
socket_write ==
    /\ ~broken
    /\ \E n \in 1..Len(Offered) :
          /\ Len(wire) + n <= MaxWire
          /\ wire' = wire \o SubSeq(Offered, 1, n)
          /\ send_queue' = Written(send_queue, n)
    /\ UNCHANGED <<sender, payloads, sent, broken, recvVars>>

Break ==
    /\ ~broken
    /\ broken' = TRUE
    /\ wire' = <<>>
    /\ UNCHANGED <<sendVars, recvVars>>
-----------------------------------------------------------------------------
\* EV_READ: network_socket_to_read() asks how much there is; nothing at all
\* means that the peer has gone.
Readable ==
    /\ reader = "wait"
    /\ wire # <<>> \/ broken
    /\ to_read' = Len(wire)
    /\ reader' = IF wire = <<>> THEN "closed" ELSE "run"
    /\ UNCHANGED <<sendVars, wire, broken, receiver, recv_queue_raw, recv_queue, retries>>

\* Mutant: the packet waits until something else has been read.
get_packet_tail_waits(raw) ==
    LET header == peek_string(raw, NET_HEADER_SIZE)
        popped == IF header = <<>> THEN [queue |-> raw, dest |-> <<>>]
                                   ELSE pop_string(raw, header[1] + NET_HEADER_SIZE)
    IN  /\ recv_queue_raw' = popped.queue
        /\ IF popped.dest = <<>> THEN /\ reader' = "wait"
                                      /\ UNCHANGED <<receiver, recv_queue>>
           ELSE /\ receiver' = get_packet(receiver, header[2])
                /\ recv_queue' = Append(recv_queue, popped.dest)
                /\ reader' = "wait"

\* Mutant: the header is not counted.
get_packet_headless(raw) ==
    LET header == peek_string(raw, NET_HEADER_SIZE)
        popped == IF header = <<>> THEN [queue |-> raw, dest |-> <<>>]
                                   ELSE pop_string(raw, header[1])
    IN  /\ recv_queue_raw' = popped.queue
        /\ reader' = IF popped.dest = <<>> THEN "wait" ELSE "run"
        /\ recv_queue' = IF popped.dest = <<>> THEN recv_queue ELSE Append(recv_queue, popped.dest)
        /\ UNCHANGED receiver

\* network_mysqld_con_get_packet() on the raw queue raw
con_get_packet(raw) ==
    LET header == peek_string(raw, NET_HEADER_SIZE)
        popped == IF header = <<>> THEN [queue |-> raw, dest |-> <<>>]
                                   ELSE pop_string(raw, header[1] + NET_HEADER_SIZE)
    IN  /\ recv_queue_raw' = popped.queue
        /\ IF popped.dest = <<>> THEN /\ reader' = "wait"
                                      /\ UNCHANGED <<receiver, recv_queue>>
           ELSE IF Accepts(receiver, header[2])
           THEN /\ receiver' = get_packet(receiver, header[2])
                /\ recv_queue' = Append(recv_queue, popped.dest)
                /\ reader' = "run"
           ELSE /\ reader' = "error"
                /\ UNCHANGED <<receiver, recv_queue>>

\* network_mysqld_read(): recv() what FIONREAD promised, or a part of it, and
\* look for a packet. A recv() that fails leaves an empty chunk in the queue.
mysqld_read ==
    /\ reader = "run"
    /\ \/ /\ to_read = 0
          /\ con_get_packet(recv_queue_raw)
          /\ UNCHANGED <<to_read, wire, retries>>
       \/ /\ to_read > 0
          /\ \E n \in 1..(IF to_read < Len(wire) THEN to_read ELSE Len(wire)) :
                /\ con_get_packet(queue_append_chunk(recv_queue_raw, SubSeq(wire, 1, n)))
                /\ wire' = SubSeq(wire, n + 1, Len(wire))
                /\ to_read' = to_read - n
          /\ UNCHANGED retries
       \/ /\ to_read > 0
          /\ wire = <<>> \/ retries < MaxRetries
          /\ retries' = IF wire = <<>> THEN retries ELSE retries + 1
          /\ recv_queue_raw' = queue_append_chunk(recv_queue_raw, <<>>)
          /\ reader' = "wait"
          /\ UNCHANGED <<to_read, wire, receiver, recv_queue>>
    /\ UNCHANGED <<sendVars, broken>>

StreamNext ==
    \/ \E n \in 0..(2 * PACKET_LEN_MAX) : mysqld_queue_append(n)
    \/ socket_write
    \/ Break
    \/ Readable
    \/ mysqld_read

StreamSpec == StreamInit /\ [][StreamNext]_streamVars
-----------------------------------------------------------------------------
\* Whatever the pieces, the receiver takes the packets off the stream as they
\* were put on it, and their ids are the ones it expects (255 is followed by
\* 0): network_mysqld_con_get_packet() never finds the stream out of sync.
PacketsInOrder ==
    /\ recv_queue = SubSeq(sent, 1, Len(recv_queue))
    /\ reader # "error"

\* queue->len, on which peek and pop decide and which flow control compares
\* with 64 Kbyte (network-mysqld.c:1739), is the number of bytes left.
LenIsExact == \A q \in {send_queue, recv_queue_raw} : q.len = Len(Bytes(q))

\* Every byte is in one place (sent = received, raw, on the wire, to be sent),
\* and the len of each queue counts those it still holds.
NothingLost ==
    /\ LenIsExact
    /\ ~broken => Flatten(sent) = Flatten(recv_queue) \o Bytes(recv_queue_raw)
                                        \o wire \o Bytes(send_queue)

\* The handler waits for more to read only when what it has read holds no
\* complete packet: no event would tell it of one.
NoPacketStranded ==
    reader = "wait" /\ wire = <<>> /\ ~broken =>
       LET bytes == Bytes(recv_queue_raw)
       IN  Len(bytes) >= NET_HEADER_SIZE => Len(bytes) < NET_HEADER_SIZE + bytes[1]

\* "if neccesary the payload is spread over multiple mysql packets": a packet
\* of PACKET_LEN_MAX is continued, any other ends a payload.
PayloadsEnd ==
    LET ends == {i \in DOMAIN sent : sent[i][1] < PACKET_LEN_MAX}
        nth(i) == Cardinality({j \in ends : j <= i})
    IN  /\ Cardinality(ends) = Len(payloads)
        /\ \A i \in ends : sent[i][1] = payloads[nth(i)] % PACKET_LEN_MAX
        /\ sent # <<>> => Len(sent) \in ends
=============================================================================
