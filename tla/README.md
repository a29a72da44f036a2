# MySQL Proxy: specifications, model checks and proofs

This directory holds TLA+ specifications of MySQL Proxy (`src/`), the TLC
configurations that model-check them on small instances, and TLAPS proofs of
the facts that matter most for every instance. `PROJECT.json` lists the
components, the runs, the theorems, the hazards of the code, and for every
definition the source lines it models.

    tlc -config MCProxyQuery.cfg MCProxyQuery    # model-check one run
    tlapm ProxyQueryProofs.tla                   # check the proofs of a module

## The system

MySQL Proxy is a stack of three layers.

* **Chassis** (`src/src/chassis-*.c`): options, logging, daemon and plugin
  loading, the main loop, and the *event threads*: `--event-threads` threads,
  each with its own libevent base, fed by one global queue of wait-for-event
  requests and one notification socketpair.
* **Network core** (`src/src/network-*.c`): sockets, byte queues and packet ids,
  the protocol state machine `network_mysqld_con_handle()`, the backends, the
  connection pool, the injection queue and the tracking of result sets.
* **Plugins** (`src/plugins/`): callbacks of the state machine. `proxy`
  implements both sides of a connection and calls a Lua script in each hook;
  `admin` implements the server side only; `debug`, `replicant` and `cli` are
  proofs of concept.

What runs concurrently: several event threads, each inside the handler of at
most one connection; the peers of every connection; the clock; the angel process
of `--keepalive`; whoever sends signals, edits the script or moves the log file.
One mutex (`LOCK_LUA`) makes every hook of a script atomic. Nothing is persisted
but the log.

A connection goes through two phases. In the **login** the plugin picks a
backend, connects to it (or takes an idle connection from the pool), passes the
handshake, the auth packet and further auth data through, and forwards the
verdict. In the **command phase** it reads a command, lets the script forward,
answer or replace it by a queue of *injected* queries, forwards what comes back
packet by packet or buffers it for the script, and starts over.

## The modules

    WaitRequests        what the event layer promises a connection (abstract)
      ^ refines
    EventThreads        event threads, wake-up pipe, shutdown order
    MysqldCon           what all states of con_handle() share: one connection,
      ^       ^         its event, its two sockets and the peers
    ProxyAuth ProxyQuery
      |       |         the login; the command phase
    PacketIds |         numbering of packets
      ^       |
    PacketStream        packets over a byte stream: queues, partial writes, reads
    QueryResult         where the response to a command ends
    Backends            choice, state and load of the backends
    ConnPool            idle server connections and the watch over them

    Proto <- Packets <- BinaryRows     numbers and strings, packets, typed values
               LuaProto, LuaResults    mysql.proto, proxy.response, inj.resultset
               Binlog, BinlogFiles     events, the dump of a file; files of a master
               Spnego                  ASN.1 and the tokens of Windows logins
    Codecs              writes, cuts and reads all of these

    LuaScope  | <- AdminCon the Lua state connections share; the admin plugin
    Passwords |             the password handshake
    ChassisLog <- Chassis   the log; the angel, the proxy and their signals

`MCx.tla` instantiates `x` for TLC (`MCAdmin` instantiates `AdminCon`);
`xProofs.tla` holds the proofs about `x`. `ProxySyncProofs` continues
`ProxyQueryProofs`; `ConnectionProofs` is about `QueryResult` and `ConnPool`,
`ChassisProofs` about `Chassis`, `ChassisLog` and `EventThreads`.

How they fit together:

* `EventThreads` shows that at most one thread is inside the handler of a
  connection (`Exclusive`). `MysqldCon` relies on it: one turn of the
  `do { switch (con->state) }` loop is one action. `AdminCon` does too: each
  connection takes one step at a time, and the steps of several interleave.
* `PacketStream` shows that packets arrive complete and in order however the
  stream is cut. `MysqldCon` relies on it: its wires hold complete packets.
* `QueryResult` shows that the last packet of a response is recognised as such.
  `ProxyQuery` relies on it: "more" and "last" are packet kinds.
* `Codecs` shows that what is written is read back. The other modules rely on
  it: a packet is a record of what it says.
* `ProxyAuth` ends where `ProxyQuery` begins: the invariant `HandsOver` is the
  initial condition of `ProxyQuery`.
* `Backends` is the part of the login that connections share, `ConnPool` the
  pool behind each backend, `LuaScope` the Lua state behind every hook.

### EventThreads, WaitRequests (`chassis-event-thread.c`, `chassis-mainloop.c`)

`event_queue` is the `GAsyncQueue`, `notify` the unread bytes of the
socketpair, `event_base` what each thread has armed, `pc` and `cur` what each
thread does. `chassis_event_add` pushes and writes one byte (lost if the pipe is
full, as the code ignores the result); `Notify`, `TakeOp` and `QueueEmpty` are
the steps of `chassis_event_handle()`; `Fire` calls a connection back;
`LeaveLoop`, `PrivShutdown` and `ThreadsFree` are the shutdown in the order of
`chassis_free()`. `Failing` threads may leave their loop because
`event_base_dispatch()` fails.

`WaitRequests` says what a connection may rely on: it is handled, requested or
armed, never two of these, and moves between them in this order. The
refinement maps `cur`, `event_queue` and `event_base` to the three sets.

### MysqldCon, ProxyQuery (`network-mysqld.c`, `proxy-plugin.c`)

`state` is `con->state`; `event` is `"run"` inside the handler, the event that
`WAIT_FOR_EVENT` left armed, `"none"` if the handler returned without one, or
`"freed"`. Each `CON_STATE_*` of the command phase is an action that includes
the plugin's callback and, for `SEND_QUERY_RESULT`, the queue of injections.
Writes may be partial or fail, reads may fail, timeouts fire, peers hang up.

The script is a choice. `Script = "none"`: there is none. `"careful"`: it keeps
to its contract (`src/doc/chapter/scripting.txt`): it answers what expects an
answer and lets exactly one of its injected queries reach the client.
`"free"`: anything the hooks accept, including unknown return codes and a script
that cannot be reloaded.

The client conforms to the protocol and reads an answer before it sends the
next command. The ghost `surprised` becomes TRUE when a peer gets a packet it
does not wait for; the client then only hangs up.

### PacketIds, ProxyAuth (`network-mysqld.c`, `proxy-plugin.c`)

The same skeleton for `INIT` to `SEND_AUTH_OLD_PASSWORD`, with packet ids on
both sockets (`queue_append_raw`, `packet_id_is_reset`) checked against peers
that count for themselves. `setup` chooses what surrounds the login: no script,
a script that may deny, answer, rewrite or use the pool (with COM_CHANGE_USER or
the comparison of passwords), or `authentication_windows_client`, whose tokens
are counted and not looked into.

### Backends (`network-backend.c`, `network-backend-lua.c`, `proxy-plugin.c`)

The backends and their `state`, `state_since` (as ages in whole seconds),
`connected_clients` (a `guint` of width `G_MAXUINT`) and idle sockets, shared by
all connections. `proxy_connect_server` is the whole hook: the check that wakes
backends up, the script's choice, the shortest queue first, the `connect()`;
further actions are the answer of the server, `proxy_timeout`, a script that
swaps, drops or pools the connection, and the end of the connection. A careful
script chooses a backend that is not DOWN.

### ConnPool (`network-conn-pool.c`, `network-conn-pool-lua.c`)

The pool of one backend: queues of sockets per user, the fall-back to another
user's queue, `min_idle_connections`, and the idle handler. `Spec` with
`Threaded = FALSE` is the pool of one event thread. `ThreadedSpec` with
`Threaded = TRUE` is that of several: the handler does not take the Lua mutex, so
the pool is used between its start and its effect and between the two halves of
`network_connection_pool_remove()`, and a handler whose entry was freed meanwhile
acts on whatever the memory holds by then. Accesses that overlap within one call of
GLib are not told apart.

### QueryResult (`network-mysqld-packet.c`)

`network_mysqld_proto_get_query_result()` with the parsers of COM_QUERY,
COM_STMT_PREPARE, COM_INIT_DB and the others, next to a server that produces
every response the protocol allows. A packet is its first byte, whether it has
the nine bytes of an EOF, its status flags and its counts. `Beyond` adds what the
tracker was not written for.

### PacketStream (`network-queue.c`, `network-socket.c`, `network-mysqld.c`)

Queues are chunks with an offset, as in the code; `network_mysqld_queue_append`
splits payloads, `network_socket_write_writev` (or `_send`) takes any number of
bytes, `network_socket_read` reads what FIONREAD has announced, and
`network_mysqld_con_get_packet` puts packets together and compares ids.

### Proto, Packets, BinaryRows (`network-mysqld-proto.c`, `network-mysqld-packet.c`, `network_mysqld_type.c`, `network_mysqld_proto_binary.c`)

The encoders and decoders, byte by byte. A number is the sequence of its base-256
digits, so 64-bit values stay exact. A cursor holds `data` and `offset` of a
`network_packet` together with the `err` of a chain `err = err || get(...)`: a
decoder is a sequence of items, one per call of the chain, and nothing moves
after the first that fails. The password scramble of the same file is in `Passwords`,
which `AdminCon` uses; its hash is abstract: it is injective and XOR cancels, nothing
else is assumed of SHA1.

### LuaProto, LuaResults (`mysql-proto.c`, `network-mysqld-lua.c`, `network-injection-lua.c`)

Scripts see tables. `LuaProto` has the `from_` and `to_` functions of
`mysql.proto` with the fields a table may lack, `LuaResults` the conversion of
`proxy.response` into packets and the iteration over the fields and rows of a
buffered result-set.

### Binlog, BinlogFiles (`network-mysqld-binlog.c`, `mysql-binlog-dump.c`, `replicant-plugin.c`)

`Binlog` has the event header, the bodies the code decodes, rows by the table
maps met before, checksums, and the two loops over a file: that of the dump tool,
with its start and stop position, and that of the replicant plugin.
`BinlogFiles` is external: files as a master writes them, and what their dump has
to tell.

### Spnego (`network-asn1.c`, `network-spnego.c`)

Tags, definite lengths, object identifiers, and the tokens of client and server
of `authentication_windows_client`.

### Codecs

The state machine around the pure operators: one of the above is written (by the
proxy, or by a peer whose encoding is external and follows what the readers
expect), may be cut short at any byte, and is read.

### LuaScope, AdminCon (`lua-scope.c`, `network-mysqld-lua.c`, `admin-plugin.c`)

`LuaScope` is the Lua state: its mutex, the cache of the compiled script with the
time and size it compares, the registry with the free list of `luaL_ref()`, and
the metatable through which `proxy.*` of one connection is seen. Stat, load, copy
and setup of a script are steps of their own, because the file may be edited or
removed between them although the mutex is held.

`AdminCon` has the states of the admin plugin's connections, the login by
scramble and `read_query` with everything a script may do: answer (with a result,
or with a raw response of no packets), return something else, fail, fail to load. Clients come, ask, leave and come again.

### ChassisLog, Chassis (`chassis-log.c`, `chassis-unix-daemon.c`, `chassis-mainloop.c`, `mysql-proxy-cli.c`)

`ChassisLog` is `chassis_log_func()` with its mutex, levels, held-back repeats and
rotation. `Chassis` has two processes: the angel of `--keepalive` (fork,
install the forwarders, wait, sleep, fork again) and the proxy (default actions
until its handlers are in place, the loop, the handlers, the order of its end).
Signals reach either at any step, the angel's forwarder passes them on, the proxy crashes,
the log file is moved away and may fail to open.

## The runs

| run | instance | states | what it shows |
|---|---|---|---|
| `event_threads` | 3 threads (one may fail), 3 connections, pipe of 1 byte | 18 388 | No queued request loses its wake-up although bytes are dropped; a connection is in one place; requests are taken and shutdown completes; refinement of `WaitRequests`. |
| `query_careful` | careful script, 3 commands, 2 injections, 2 packets in transfer | 62 301 | Client, proxy and server stay in step through injected queries, streamed results and LOAD DATA LOCAL INFILE; nobody waits for who waits; nothing is left over between commands; a client is answered. |
| `query_free` | free script, every command, one of two packets, 1 command, 2 injections | 3 038 821 | What no script can break: one streamed result-set per command, no command after a dump. |
| `auth` | careful script with pool, or windows authentication; 2 backends | 9 513 | Both peers get the packets and ids they expect; whoever is let in was let in by the server; the command phase starts clean; a login ends. |
| `backends` | 2 connections, 2 backends, one read-only | 102 672 | The count is the number of open connections; a DOWN backend is woken up only after its time; every connect ends. |
| `pool` | 2 users, 2 sockets, `min_idle` set to 1, one thread | 71 020 | A socket is in one hand; another user's minimum is kept; a connection its server closes leaves the pool. |
| `query_result` | every command, 2 result-sets, 2 rows | 5 259 | The end of every response is found with its last packet; rows are counted. |
| `packet_stream` | 2 payloads of up to two full packets, packets of 2, 2 chunks per `writev()`, 3 bytes in flight | 235 316 | No byte is lost or doubled; `len` is exact; ids wrap from 255 to 0; no complete packet waits without an event. |
| `codecs` | every kind of packet, row, event and token; values on both sides of every bound of its encoding; every cut | 368 081 | What is written is read back as it was given, but for numbers the lenenc reader widens; nothing is made of what was cut short; a dump tells every event of a file once, rows by the last map of their own table, from any start position of a file without checksums and from the beginning of one with. |
| `admin` | 2 connections, a script that is edited and removed, one failing run | 2.3 M | Only the right answer to the connection's own challenge is let in; hooks see their own `proxy.*`; the cache never answers for a replaced script; no query goes unanswered, unless the script answers with no packets. |
| `chassis` | 2 signals, 1 crash, 1 move of the log, 3 messages | 523 367 | Nothing that was logged goes untold; no rotation is lost; a killed proxy is restarted; SIGTERM ends both processes. |
| `admin_threads` | as `admin`, the script stays | | A violation: see below. |

### Why the bounds are enough

* Three connections and three threads over a one-byte pipe: a byte is lost to a
  full pipe while two requests are queued and another thread is draining.
* Three commands: a first one with all flags at their initial values, a second
  that finds what the first left, and one more after a COM_CHANGE_USER. Two
  injections: one buffered and one streamed, in either order. Two packets in
  transfer: a write can stop between them.
* `MaxId = 7`: a server asks for more auth data until the packet ids reach 7,
  which is at least two rounds behind a switch of the method.
* Two backends: one fails or is DOWN while the other is tried. `WakeAfter` is 2
  instead of 4 with a connect timeout of 1 instead of 2, the ratio of the code.
* `ConnPool`: two users so that one falls back to the other's queue; two sockets
  so that one remains and one is taken.
* `PacketStream`: payloads of 0 to twice the longest packet reach the empty
  closing packet; the first id is 254, so ids wrap.

* `Codecs`: numbers at 0, 250, 251, 2^16 - 1, 2^16, 2^24 - 1, 2^31 and beyond 2^32; texts
  of 0, 1, 8 and 520 bytes, on both sides of every length form that a packet of the
  proxy has; every subset of the capabilities that change a layout; one value per
  type, its NULL, and dates with every number of parts; binlog files with one table
  map and with three, of two tables whose ids share their lower bytes and of a third
  that takes over the first one's id, dumped from before, between and behind the
  maps; CHAR columns of 255, 256 and 765 bytes. Bits of 64-bit numbers
  above the reach of a text are covered by digits, not by size.
* `AdminCon`: two connections, so that a hook of the other one runs between any
  two hooks of the first; one edit, in the second of the load or after it; one
  failing run, after which its registry key is given to the other connection.
* `Chassis`: two signals, so that one arrives while the other is handled; one
  crash; one move of the log, before or after the rotation it asks for.
  `MaxRepeats = 0` instead of 100: the second equal message is held back and
  the third flushes the count.

Further properties hold when they are added to the same configurations:
`TypeOK` (`MCProxyQuery`, `MCProxyAuth`, `MCBackends`, `MCConnPool`), `ThreadsTypeOK`
(`MCEventThreads`), `ResultTypeOK` (`MCQueryResult`), `StreamTypeOK`
(`MCPacketStream`), `ServerWhereUsed`
(`MCProxyAuth`), `SocketsAreHome` and `DownIsLeftAlone` (`MCBackends`),
`HandledIsIdle` and `KeptUp` (`MCConnPool`), `DbFollows` (`MCQueryResult`);
with `MaxFailures = 0` and `FileStays = TRUE` also `NeverAborts` and
`ThreadsAnchored` (`MCAdmin`), with `MaxFailures = 0` and `MaxMtime = 0` the
liveness property `QueryIsAnswered` (`MCAdmin`).

The guards that cap counters are named `Max...` and only limit how much the
peers ask for; none of them cuts a reaction of the proxy short.

### Fairness

* An event thread that can take a step takes it (WF), and libevent serves every
  ready event, hence strong fairness where another thread can take the wake-up
  first (`Notify`) and for the one-second loop exit of a thread after shutdown.
* A connection: the handler and its callbacks (WF, which is what `EventThreads`
  establishes), peers that read what is written to them (WF). A result-set and a
  file end, and a write completes: strong fairness on the last packet, on the
  end of the file and on a write that empties the queue.
* Backends: time passes, timeouts fire and retries happen. No fairness on the
  servers: a server need not answer.
* Pool: ready idle events are dispatched (SF) and their handlers end (WF).
* Admin: a connection that can go on again and again does go on (SF), since
  threads that wait for the Lua mutex are served in turn.
* Chassis: the kernel schedules the angel and the worker's unlock (WF); the main
  thread gets the log's mutex although the worker may be quicker (SF).

Deadlock is not checked where the system may stop: connections end, clients
leave, the bounds are used up. `query_result`, `codecs` and `chassis` check it (in
`Chassis` the step `Rest` is what is left to do when all is over).

## What is proved

`tlapm` checks these for every number of connections, threads, commands, packets
and bytes and every size of a pipe or buffer, from the named assumptions on the
constants and the hypotheses stated in the theorems, and nothing else. Every
safety property of the listed runs is proved, but for those of `Codecs` and for what
the violating configurations refute. The proof that a step preserves an invariant
has one case per action. `SyncInv`, `AuthInv`, `StreamInv` and `AgeInv` also pass TLC
on the instances of `query_careful`, `auth`, `packet_stream` and `backends`, when they
are checked in a module that extends the proofs.

| module | about | theorems |
|---|---|---|
| `ProxyQueryProofs` | `ProxyQuery` | `TypeCorrect`, `StreamsOnce`, `DumpsAreForever`, `ServersAreThere` |
| `ProxySyncProofs` | `ProxyQuery`, careful scripts | `PeersStayInStep`, `NobodyWaitsInCircles`, `CommandsLeaveNothing`, `CarefulScriptsKeepServers` |
| `ProxyAuthProofs` | `ProxyAuth` | `PeersCountAlike`, `NobodyWaitsForTheProxy`, `TheServerLetsIn`, `TheCommandPhaseStartsClean`, `LoginsKeepServers` |
| `PacketStreamProofs` | `PacketStream` | `PacketsArriveInOrder`, `NoPacketIsLeftBehind`, `EveryByteIsSomewhere`, `PayloadsCanBePutTogether` |
| `ConnectionProofs` | `QueryResult` | `TheEndIsFound`, `TheRowsAreCounted`, `TheDatabaseIsKnown` |
| | `ConnPool` | `SocketsAreInOneHand`, `MinimumIsKept`, `HandlersFindTheirEntry` |
| `BackendsProofs` | `Backends` | `ClientsAreCounted`, `SocketsStayHome`, `WakingTakesTime` |
| `AdminConProofs` | `AdminCon` | `HooksSeeTheirOwnProxy`, `CacheIsNeverStale`, `LoginNeedsThePassword`, `NoQueryIsDropped` |
| `ChassisProofs` | `EventThreads` | `ThreadsTypeCorrect`, `WakeupsAreNotLost`, `ConnectionsAreExclusive`, `WaitRequestsImplemented` |
| | `Chassis` | `RotationsAreNotLost`, `EveryMessageIsTold` |

`QueryResult`, `PacketStream` and `EventThreads` call their specifications
`ResultSpec`, `StreamSpec` and `ThreadsSpec`, and their parts likewise, so that a
module of proofs can extend two of them.

### The event threads (`ChassisProofs`)

* `ThreadsTypeCorrect`. `ThreadsTypeOK` is not inductive because
  `chassis_event_add()` pushes `cur[t]`; `TypeInv` adds that a thread inside a
  callback has a connection.
* `WakeupsAreNotLost`: a queued request implies an unread byte or a thread
  that is draining the queue. `NoLostWakeup` is inductive relative to
  `TypeInv`: only a thread that finds the queue empty stops draining, a byte is
  dropped only if the pipe holds another, and it is read only by a thread that
  goes on to drain.
* `ConnectionsAreExclusive`: `Exclusive` is restated as `Apart`, in which every
  pair of places is compared pointwise. `Apart` is inductive relative to
  `TypeInv`; that it implies `Exclusive` is a lemma of its own.
* `WaitRequestsImplemented`: the refinement of `WaitRequests`. The initial states
  map to initial states, and each action maps to a step of the abstract module or
  a stutter. It needs `Apart`: taking a request off the queue removes the
  connection from the abstract set of requests only because it is queued once.

### The command phase (`ProxyQueryProofs`, `ProxySyncProofs`)

Whatever the script does:

* `TypeCorrect`: the type invariant is split in the state of the connection,
  its flags and its queues. It needs `SendingOK` (SEND_QUERY has something to
  send: the code takes the head of the queue without asking), and lemmas about
  the sequences that partial writes leave.
* `StreamsOnce`: `StreamInv` adds to `StreamOnce` that an unfinished result-set
  which is not buffered was preceded by none that was counted, because
  SEND_QUERY_RESULT goes back to reading.
* `DumpsAreForever`: `DumpInv` adds that the states of LOAD DATA LOCAL INFILE
  are reached only in a COM_QUERY, since these lead back to READ_QUERY.
* `ServersAreThere`: `ServerWhereUsed` is inductive given the type invariant,
  under the assumption that no client sends COM_BINLOG_DUMP. The assumption is
  needed: see COM_BINLOG_DUMP below.

With the hypothesis `Orderly` (no script, or one that keeps to its contract and
has a `read_query_result()`; commands of one packet; no COM_CHANGE_USER that is
refused as the first command; each exclusion is a deviation listed below):

* `PeersStayInStep` (`InSync`), `NobodyWaitsInCircles` (`NoMutualWait`),
  `CommandsLeaveNothing` (`CleanBetweenCommands`) and `CarefulScriptsKeepServers`
  (`ServerWhereUsed`, dumps included) follow from one invariant, `SyncInv`. It says
  who has the floor: the client's last command is still to be answered (`Owed`), or
  is answered in what is on its way to the client (`Free`), or the client is to send
  a file (`File`). `Stage` says for each `CON_STATE_*` what the two queues, the
  wires, the injections and the server's side hold there. `Turn` and `Plan` relate
  the injected queries that are left to what was sent: the answer is owed until
  the one query of the script's queue that may reach the client has done so, and
  then no other may. A sequence on a wire is "a run of packets that say more and one that
  ends it" (`EndsIn`), which partial writes and deliveries preserve.

### The login (`ProxyAuthProofs`)

With the hypothesis `Separate` (a script that keeps a pool and
`authentication_windows_client` are not in one setup: there the ids go astray, see
below), for any number of backends, retries and rounds:

* `PeersCountAlike` (`InSequence`), `NobodyWaitsForTheProxy` (`NoMutualWait`),
  `TheServerLetsIn` (`LetInByServer`), `TheCommandPhaseStartsClean` (`HandsOver`)
  and `LoginsKeepServers` (`ServerWhereUsed`) follow from one invariant, `AuthInv`.
  `Where` says for each state which packets are in the queues and on the wires, that
  the id of each is the one its receiver counts to, and whose turn it is; `InStep`
  says that the ids of the two sockets differ as the code assumes when it
  passes a packet through raw, and `ServerReady` that the server is in its command
  phase, which an OK on its way to the client implies. `HandsOver` is the initial
  condition of `ProxyQuery`, so this proof and the ones above cover a connection
  from its start to its end.

### The byte stream (`PacketStreamProofs`)

For every PACKET_LEN_MAX, IOV_MAX and size of the buffers:

* `PacketsArriveInOrder`, `NoPacketIsLeftBehind` and `EveryByteIsSomewhere` follow
  from `StreamInv`: the bytes of the packets not yet received are those in
  `recv_queue_raw`, on the wire and in the `send_queue`, in this order (`OnTheWay`;
  after a reset, some sequence stands for what was in the `send_queue`); the ids
  of what was sent are consecutive modulo 256 (`Signed`); the receiver has the
  first packets and expects the id of the next (`Received`); `queue->len` counts
  what a queue holds (`LensHold`); FIONREAD has promised no more than is there
  (`Promised`). `EveryByteIsSomewhere` is about builds with `writev()`: the loop over
  `send()` leaves `queue->len` too large (see below), which `LensHold` says too.
* `PayloadsCanBePutTogether`: every payload ends with one packet that is not full.
* The operations of `network-queue.c` are recursive over chunks. What they do to
  the bytes of a queue is proved by induction: `FromZero` derives induction over Nat
  from the existence of a minimum (`WFMin`) for a property given as a set, `FromEmpty`
  the same over sequences; that the recursive function `Flatten` has a value at
  all is shown first (`FlattensExists`).

### The tracker and the pool (`ConnectionProofs`)

* `TheEndIsFound` (`EndsTogether`), `TheRowsAreCounted` (`RowsCounted`) and
  `TheDatabaseIsKnown` (`DbFollows`), for any number of result-sets, rows and
  databases, if the server does nothing of `Beyond`, which is what the tracker was not
  written for. `TrackInv` relates the place in its response where the server is to
  the state of the parser and to what it said last.
* `SocketsAreInOneHand`: `InOneHand` with `TypeOK`, for any sockets, users and
  minimum, with one event thread (with several it fails, see below). The lemmas `PushTail`, `PopHead` and
  `RemoveElement` say what a queue holds, each element once, after
  `g_queue_push_tail()`, `g_queue_pop_head()` and `g_queue_remove()`. `Leaves` is
  what all branches of `network_connection_pool_get()` have in common: a socket is
  taken and some are freed, none of them stays in a queue.
* `MinimumIsKept`: an action property, from the guard in `find_idle_conns()`, with
  one event thread as well.
* `HandlersFindTheirEntry`: `HandledIsIdle` under the assumption of one event
  thread. `Watched` adds that armed sockets are idle and that a handler that has
  started is not armed. The assumption is needed: see `MCPoolThreads.cfg` below.

### The backends (`BackendsProofs`)

* `ClientsAreCounted`: `ClientsCounted` for any number of connections and
  backends, with no script or one that chooses no backend that is DOWN. The
  assumption is needed: see `Script = "free"` below. The invariant `IInv` keeps
  the counters and the sockets together. `Settled` says of each connection that
  it has no socket before a connect and after the end, and that from the connect
  on `con->st->backend` is the backend of its socket; `Home` says that a pool
  holds sockets of its own backend only. A swap takes one client from the old
  backend and adds one to that of the pooled socket, which is right only by these
  two. A step of one connection is compared with what the other connections add
  to the counters (`Balanced`), so the sum over all of them is split once, in
  `CountedSplits`. That no counter wraps follows from `Cardinality(Cons) <
  G_MAXUINT`.
* `SocketsStayHome`: `SocketsAreHome`, from the same invariant.
* `WakingTakesTime`: `WokenLate` for every script that sets no backend DOWN; with one
  that does it is false (`MCBackendsSetState.cfg`). The code compares `state_since`,
  the property is about the time a backend has been DOWN. `AgeInv` relates them: the
  state of a backend that is DOWN is no older than that time. A failed connect to a
  backend that is DOWN already makes `state_since` new, so they need not be equal.

### The admin plugin and its scripts (`AdminConProofs`)

* `HooksSeeTheirOwnProxy`: `OwnProxy`, for any number of connections and any
  script. `ProxyInv` adds that the thread of a connection is its own and that the
  mutex record keeps its form; every way through `register_callback()` re-points
  `_G.proxy` while the mutex is held.
* `CacheIsNeverStale`: `ScriptIsCurrent`, where every edit shows in the size or the
  time of the file (`EditsShow`; without it see the smaller deviations below).
  `CacheInv` says that the stamp of the cache and of the `stat()` that the holder of
  the mutex made are the present one or an earlier one, and that under the present
  stamp there is only the present text.
* `LoginNeedsThePassword` (`AdmittedByPassword`) and `NoQueryIsDropped`
  (`QueryNotDropped`, which excepts a raw response of no packets), from `LoginInv`:
  until it is let in a client has sent its one
  answer to its own challenge and nothing else, and the hook looks at a connection
  that is past the login. That a scramble tells passwords and challenges apart is
  the assumption on SHA1 in `Passwords`.

### The log (`ChassisProofs`)

* `RotationsAreNotLost` (`RotationDone`): `RotationInv` says that the log is in an old
  file only while the flag is set and the main thread has still to log
  "re-opened", and that a thread which has re-opened the file is through before the flag
  can be set again.
* `EveryMessageIsTold` (`AllTold`): `LogInv` says that the lines, with their repeat
  counts expanded, and what is held back are the messages that were given. The
  expansion is a recursive function; that one more line appends to it is a lemma.

### What stays with TLC

* Liveness (`RequestsAreTaken`, `ShutdownCompletes`, `ClientIsAnswered`, `LoginEnds`,
  `ConnectEnds`, `QuietCloseIsNoticed`, `KeptAlive`, `TermEnds`): the prover does not
  reason about `ENABLED`, so nothing follows from fairness.
* `RoundTrip` and the other properties of `Codecs`: its operators are declared
  RECURSIVE or are folds over them, and the prover loses its arithmetic backend in
  a module that reaches such a declaration. Induction itself is possible for
  recursive functions, as `PacketStreamProofs` shows.

## Where the code and its own words differ

One listed run checks a property that TLC finds violated:

* **`admin_threads`** (`MCAdminThreads.cfg`, `ThreadsAnchored`, `src/src/network-mysqld-lua.c:446`). register_callback() hands the registry key of a new thread back when the script fails to run, and leaves it in `st->L_ref`; the end of the connection hands it back a second time. If another connection was given the key in between, the registry no longer refers to a thread that is in use, and the collector may take it. The comment at src/src/network-mysqld-lua.c:257 says "on connection close we call luaL_unref() to hand the thread to the GC".

Further configurations in this directory reproduce more of them
(`tlc -config <file> <module>` reports a violation of the property):

* **`MCEventShutdown.cfg`, module `MCEventThreads`, `HandlersOwnLiveCons`**. chassis_free() calls priv_shutdown, which frees every connection (src/src/network-mysqld.c:184-201), before chassis_event_threads_free() joins the worker threads (src/src/chassis-mainloop.c:175), which leave their loops only at their next one-second loopexit: a worker can be inside network_mysqld_con_handle() for a freed connection. The comment at src/src/chassis-mainloop.c:142 says "init the shutdown, without freeing share structures".
* **`MCQueryReadError.cfg`, module `MCProxyQuery`, `ArmedOrFreed`** (`src/src/network-mysqld.c:1584`). A failed read in READ_QUERY sets CON_STATE_ERROR and returns: no event is armed and the ERROR branch that frees the connection is never run, so both sockets stay open for ever. The comment at src/src/network-mysqld.c:2033 says "there are two ways to leave the state-engine: - wait for event and return (WAIT_FOR_EVENT(); return;) - close the socket and return".
* **`MCPoolThreads.cfg`, module `MCConnPool`, `HandledIsIdle`** (`src/src/network-conn-pool-lua.c:196`). network_mysqld_con_idle_handle() is called by an event thread without the mutex that every other user of the pool holds: between the event and network_connection_pool_remove() another thread may take the socket out of the pool and free the entry. src/doc/chassis.txt:62 says "the execution of the scripting code is single-threaded: a global mutex protects the plugin interface". With `InOneHand` instead of `HandledIsIdle` the run shows what follows: a freed entry in a queue, from which the next script may take it.
* **`MCPoolSameUser.cfg`, module `MCConnPool`, `SameUser`** (`src/src/network-conn-pool.c:157`). network_connection_pool_get() returns a connection of another user when the client's own has no queue, also for a client that is logged in, which is not authenticated again. src/src/network-conn-pool.c:35 says "if the client is authed, we have to pick connection with the same user".

For the others, change the constants of a listed configuration as given and check
the property named:

* **`MCProxyQuery.cfg` with `LongCommands = TRUE`: `NoMutualWait`** (`src/src/network-mysqld.c:1653`). The test send_queue->offset == 0 is also true when a write stopped exactly between two packets of one command, so the command is initialised again from the second packet, whose first byte is payload; taken for COM_STMT_CLOSE it makes the proxy read the next command while the client waits for its answer. The comment at src/src/network-mysqld.c:1654 says "only parse the packets once".
* **`MCProxyQuery.cfg` with `BrokenChangeUser = TRUE`: `NoMutualWait`** (`src/src/network-mysqld.c:1786`). COM_CHANGE_USER refused as the first command of a connection leaves resultset_is_finished at its initial 0, so SEND_QUERY_RESULT goes to READ_QUERY_RESULT and waits for a server that was asked nothing. The comment at src/src/network-mysqld.c:1784 says "in case we havn't read the full resultset from the server yet, go back and read more": no resultset was asked for.
* **`MCProxyQuery.cfg` with `ResultHook = FALSE`: `NoMutualWait`** (`src/plugins/proxy/proxy-plugin.c:407`). With resultset_is_needed set and no read_query_result() in the script the buffered packets stay in the server's recv_queue, nothing is sent and the client waits. The comment at src/plugins/proxy/proxy-plugin.c:407 says "no function defined, let's send the result-set".
* **`MCProxyQuery.cfg` with `Script = "free"`, `MaxQueries = 1`: `InSync`** (`src/plugins/proxy/proxy-plugin.c:279`). When the script cannot be reloaded while the result-set of an injected query has been streamed, an ERR is appended behind it (and the CON_STATE_SEND_ERROR set here is overwritten at line 1601): the client gets two answers. The comment at src/plugins/proxy/proxy-plugin.c:361 says "make sure we send only one result-set per client-query".
* **the same: `CleanBetweenCommands`** (`src/plugins/proxy/proxy-plugin.c:402`). For a return code it does not know the code empties the client's send_queue instead of the server's recv_queue: the buffered result-set stays and is in front of the next buffered one. The message at src/plugins/proxy/proxy-plugin.c:399 says "will ignore the result".
* **the same with `Commands = {"DUMP"}`: `ServerWhereUsed`** (`src/plugins/proxy/proxy-plugin.c:1455`). A COM_BINLOG_DUMP answered by the script goes on to READ_QUERY_RESULT, which dereferences con->server, without asking whether there is one. The comment at src/plugins/proxy/proxy-plugin.c:1341 says "for PROXY_SEND_RESULT we don't need a server".
* **`MCProxyAuth.cfg` with `Setups = {"script_win"}`: `InSequence`** (`src/plugins/proxy/proxy-plugin.c:1091`). proxy_read_auth_result() resets the packet ids after every packet of the server, also after the last token of authentication_windows_client, which the server follows with its verdict. On a connection of the pool the verdict's id is set to 2 (line 1032) and the reset client socket takes it as it is: the client, which has seen id 4, gets an OK with id 2. The comment at src/plugins/proxy/proxy-plugin.c:1087 says "the auth phase is over reset the packet-id sequence": it is not over.
* **`MCProxyAuth.cfg` with `Setups = {"plain"}`: `ArmedOrFreed`** (`src/src/network-mysqld.c:1515`). A failed read in READ_AUTH_OLD_PASSWORD sets CON_STATE_ERROR and returns: no event is armed and the branch that frees the connection is never run. The comment at src/src/network-mysqld.c:2033 says "there are two ways to leave the state-engine: - wait for event and return (WAIT_FOR_EVENT(); return;) - close the socket and return".
* **the same: `RefusedIsClosed`** (`src/src/network-mysqld.c:725`). When the server does not take the auth data in time the client gets an ERR through SEND_AUTH_RESULT, but auth_result_state still has its initial 0, which is MYSQLD_PACKET_OK: the connection goes on to READ_QUERY. The comment at src/src/network-mysqld.c:731 says "ERR delivered to client, close the connection now".
* **`MCBackends.cfg` with `ScriptStates = {"DOWN"}`: `WokenLate`** (`src/src/network-backend-lua.c:88`). proxy_backend_set() writes backend->state and leaves state_since alone: a backend that a script takes DOWN is UNKNOWN again at the next connect, as soon as its last change of state is more than 4 seconds old. The comment at src/src/network-backend.c:142 says "updated the _DOWN state to _UNKNOWN if the backends were down for at least 4 seconds".
* **`MCBackends.cfg` with `Script = "free"`: `ClientsCounted`** (`src/plugins/proxy/proxy-plugin.c:1816`). A script takes a pooled connection to a backend that is DOWN and returns PROXY_IGNORE_RESULT. The index is dropped because the backend is DOWN, the socket is kept, and st->backend becomes the backend with the shortest queue: when the connection ends, the wrong backend's connected_clients is decremented, below 0 if it is 0. src/src/network-backend.h:56 says connected_clients is the "number of open connections to this backend for SQF".
* **`MCBackends.cfg` with `ReadOnly = {}`, `Script = "none"`: `LoadedEqually`** (`src/plugins/proxy/proxy-plugin.c:1883`). connected_clients is incremented only when a connect() has succeeded, so clients that arrive while one is under way are sent to the same backend. The comment at src/plugins/proxy/proxy-plugin.c:1836 says "prefer SQF (shorted queue first) to load all backends equally".
* **`MCConnPool.cfg` as it is: `SurplusIsReused`** (`src/src/network-conn-pool.c:261`). network_connection_pool_remove() leaves an empty queue in the hash; get_conns() returns it and get() returns NULL although others have idle connections to spare. src/src/network-conn-pool.c:169 says "if we have more, reuse a connect to reauth it to another user".
* **`MCConnPool.cfg` as it is: `CloseIsNoticed`** (`src/src/network-conn-pool-lua.c:189`). The idle event is not persistent and the handler does not add it again when there was something to read: a later close by the server is not seen. src/src/network-conn-pool-lua.c:173 says "make sure we know about connection close from the server side".
* **`MCConnPool.cfg` with `Names = {u1, anon}`: `KeptUp`** (`src/src/network-conn-pool.c:194`). network_connection_pool_get() removes the emptied queue under the name that was asked for, which at login is the empty one, and not under the name the queue belongs to. If the empty name has a queue of its own, its connections are closed. The comment at src/src/network-conn-pool.c:192 says "all connections are gone, remove it from the hash".
* **`MCQueryResult.cfg` with `Beyond = {"infile_err"}`: `EndsTogether`** (`src/src/network-mysqld-packet.c:289`). In LOCAL_INFILE_RESULT only an OK is understood: an ERR of the server is an invalid packet, and the connection is closed without the client seeing it. src/doc/chapter/protocol.txt lists the ERR packet among the responses to a COM_QUERY.
* **`MCQueryResult.cfg` with `Beyond = {"long_row"}`: `EndsTogether`** (`src/src/network-mysqld-packet.c:205`). The tracker does not join packets: one that continues a row and begins with 0xff ends the response, and the rows behind it become the answer to the next command. src/src/network-mysqld-packet.c:547 says "1 for the last packet".
* **`MCQueryResult.cfg` as it is: `StatusIsTrue`** (`src/src/network-mysqld-packet.c:248`). An ERR behind the column definitions ends the response and leaves query_status at the OK that the column count set, so resultset.query_status tells a script that the query succeeded. src/src/network-mysqld-packet.c:46 says "can have 3 values: NULL for unknown, OK for a OK packet, ERR for a error-packet".
* **`MCPacketStream.cfg` with `HAVE_WRITEV = FALSE`: `NothingLost`** (`src/src/network-socket.c:769`). network_socket_write_send() moves the offset and frees chunks but leaves send_queue->len alone, which network_socket_write_writev() decrements at line 696: in builds without writev() the 64 Kbyte limit of src/src/network-mysqld.c:1739 is passed for good after the first 64 Kbyte, and every packet is sent alone. The comment there says "no need to try to send 5 bytes".
* **`MCAdmin.cfg` with `MaxFailures = 0`: `NeverAborts`** (`src/src/lua-load-factory.c:138`). When fopen() fails because the script was removed behind the stat(), luaL_loadfile_factory() pops an "old error-msg" that is not there, and the assertion on the height of the stack in lua_scope_load_script() (src/src/lua-scope.c:215) ends the process. With `FileStays = TRUE` as well it holds.
* **`MCAdmin.cfg` with `MaxFailures = 0`, `FileStays = TRUE`, `EditsShow = FALSE`: `NeverAborts`** (`src/src/lua-scope.c:205`). A reload that fails to compile has already dropped the cached function and keeps the old time and size. If the next edit brings both back, the cache counts as fresh and the assertion at line 290 finds no function.
* **`MCAdmin.cfg` as it is: `EveryQueryKept`** (`src/src/network-mysqld-lua.c:839`). PROXY_SEND_RESULT with a response of type MYSQLD_PACKET_RAW whose `packets` table is empty queues nothing and is no error: the query is taken off the queue, the plugin waits for the next one and the client for its answer. The message at src/plugins/admin/admin-plugin.c:462 says "need a resultset + proxy.PROXY_SEND_RESULT".
* **`MCCodecs.cfg` as it is: `EveryNumberReadBack`** (`src/src/network-mysqld-proto.c:141`). network_mysqld_proto_get_lenenc_int() shifts bytes as ints: the lower half of an 8-byte number is negative if its top bit is set, and or-ing it into the 64-bit result sets all upper bits. 2^31 affected rows are read as 2^64 - 2^31. network_mysqld_proto_append_lenenc_int() writes such numbers right.
* **`MCCodecs.cfg` as it is: `DumpTellsEverything`** (`src/src/network-mysqld-binlog.c:584`, `src/src/network-mysqld-binlog.c:426`). The length of a CHAR of more than 255 bytes is told without its lower byte, CHAR(765) as CHAR(512): the comment at src/src/network-mysqld-binlog.c:575 says "byte 1: field-length". The description of a server from 5.6.2 on that writes no checksums is not told at all: its last four bytes are never skipped, and the test that all bytes were handled refuses it.
* **`MCChassis.cfg` with `MaxMoves = 2`: `NoWayBack`**. A restarted proxy inherits the file the angel opened when it started, although its predecessor had rotated the log since.
* **`MCChassis.cfg` as it is: `NoOrphan`** (`src/src/chassis-unix-daemon.c:137`). A SIGTERM between the fork and the signal() calls ends the angel only. The comment at line 94 says "if we or the child gets a SIGTERM, we quit too".
* **`MCChassis.cfg` with `MaxMoves = 2`, `MaxMessages = 0`, `MaxCrashes = 0`: `HupRotates`** (`src/src/chassis-unix-daemon.c:85`). The forwarder sets the signal to SIG_IGN before it sends it on, and never back: the second SIGHUP to the angel is ignored until the proxy is restarted, and the log stays in the file that was moved. The comment at src/src/chassis-unix-daemon.c:138 says "forward a few signals that are sent to us to the child instead".
* **`MCCodecs.cfg` with `States = {0, 1, 2, 3}`: `RoundTrip`** (`src/src/network-spnego.c:317`). The states "reject" and "request-mic" of a server's token are read as "accept-incomplete".

Smaller ones met on the way, which no property of a run is about:

* `proxy_disconnect_client()` never hands a connection to the pool
  (`use_pooled_connection` is always FALSE), its comment says "move the server
  connection into the connection pool in case it is a good client-side close".
* A failed write in SEND_ERROR sets CON_STATE_ERROR, which is overwritten at once.
* The `@return` of `network_mysqld_proto_get_com_query_result()`
  (`src/src/network-mysqld-packet.c:68`) names the values 0 and 1 the other way round.
* Signed parameters of COM_STMT_EXECUTE are zero-extended.
* The database of an auth response is written if the server can take one and it
  is not empty, but read only if both sides can. The auth data of a challenge with
  CLIENT_PLUGIN_AUTH is not padded to its 20 bytes, and `to_challenge_packet()`
  does not take `auth_plugin_name` from its table. An ERR in the form from before
  4.1 is written and cannot be read.
* VARCHAR values can be created and not read, BIT values read and not created;
  parameters of the types INT24, TINY_BLOB, NEWDECIMAL and NULL raise an error.
  `network_mysqld_proto_append_stmt_execute_packet()` drops the NULL bits; it has
  no caller.
* Strings of a script's response end at their first NUL. A response with
  `resultset` and no fields fails an assertion.
* `inj.resultset` of a script refers to the packets of the injection and not to a
  copy of them (`src/src/network-injection-lua.c:517`).
* Dumps: a second format description in a stream with checksums fails an
  assertion, and so does a last event that was written in part; from a start position
  behind the description checksums are taken for data.
* SPNEGO: `negState` is not initialised if a token lacks it; a `mechToken` is
  skipped; a length of eight bytes passes the check and fails the assertion behind it.
* A script that is edited within a second and keeps its size is not reloaded.
* A failed re-open turns logging to the file off for good; repeats that are held
  back when the process ends are not told; a SIGHUP while the angel sleeps before a
  restart ends the angel; a SIGTERM that kills the proxy before its handlers are
  set, or after they are gone, makes the angel restart it.

## What is left out

**Of the modelled components**

* Clients conform to the protocol, read before they speak, and stop once they
  were surprised. Pipelining clients are not modelled.
* Return codes and responses of a script that end in `g_error()` or an
  assertion, and, but in `AdminCon`, PROXY_SEND_RESULT with an empty list of raw packets.
* Packets that are left in a connection which is given to the pool.
* `ProxyAuth`: backends that failed stay DOWN during one login (`Backends` has
  the wake-ups); scripts are careful; auth data that was not preceded by a switch
  of the method.
* `Backends`: the users of pooled sockets (they are in `ConnPool`); scripts that
  take a pooled connection in `connect_server` and then answer themselves.
  `ConnectEnds` is about two backends: with a timeout of 2 seconds and a wake-up
  after 4, three unreachable backends can be tried before the first is woken up,
  four cannot.
* `ConnPool`: servers are dropped into the pool only behind the login; the order
  in which `g_hash_table_find()` meets the queues is left open.
* `QueryResult`: what `Beyond` names is left out of the passing run (an ERR or
  further results after LOAD DATA LOCAL INFILE, packets that continue a row and
  begin like an ERR or EOF, a switch of the method in COM_CHANGE_USER, which the
  code documents as unsupported). A row of several packets is counted per packet.
  Database changes by `USE` and COM_CHANGE_USER are not followed by the code.
* `PacketStream`: a header of two units instead of four bytes; payload bytes are
  told apart by their position; one exchange. It has no liveness property:
  `NoPacketStranded` is the safety core of one.
* `Codecs`: values, not sizes of megabytes; the wording and layout of the dump
  tool; SHA1 is an injective constructor.
* `AdminCon`: packets are records (their bytes are in `Codecs`) and writes are not
  partial (`PacketStream` has both); no timeouts. A connection whose script failed
  to load gets its ERR and stays.
* `Chassis`: one worker stands for the event threads; no syslog, pid file or
  Windows event log.

**Components** (the full list, with reasons, is in `PROJECT.json`)

| part | status |
|---|---|
| event threads, shutdown order | modelled; `priv->cons` only as far as the shutdown needs it: the unlocked changes of the array by several threads (`src/src/network-mysqld.c:269`, `:294`) are a data race whose outcomes in GLib's array are not enumerated |
| state machine, proxy plugin | modelled: login, command phase, backends, pool |
| packet ids, queues, socket I/O | modelled |
| tracking of responses | modelled |
| protocol, packet and binary codecs, binlog events, ASN.1/SPNEGO | modelled byte by byte |
| dump tool | modelled without its layout |
| Lua scopes, admin plugin | modelled |
| daemon and keepalive, log | modelled |
| main loop | partly: signals and the order of the end; not the set-up |
| injected queries, Lua interface | partly: queue, flags, responses, iteration over rows; not the read-only views of sockets and addresses nor the life time of Lua objects |
| replicant plugin | partly: its reader of binlog files; its connection to a master is a proof of concept |
| plugin loading, shutdown hooks, frontend, options, keyfile, helpers, addresses, Windows service | not modelled: sequential set-up or wrappers of the system |
| tokenizer, other Lua modules, vendored libraries, MyISAM dump and latency tools | not modelled: generated or third-party code and tools outside the path of a connection |
| shipped Lua scripts | not modelled: the models let a script choose freely instead |
| debug and cli plugins | not modelled: proofs of concept |

## What would come next

* A composition `ProxySession`, one connection from `INIT` through `ProxyAuth` and
  `ProxyQuery` over shared `Backends` and `ConnPool`, to replace the hand-over by
  invariant. Its state space is the product of modules that have up to three
  million states each, so it needs coarser versions of them first.
* Codecs with recursive functions in place of RECURSIVE operators, so that `RoundTrip`
  can be proved by the induction of `PacketStreamProofs`: first for the
  length-encoded integers and strings of `Proto`, on which the other codecs rest.
