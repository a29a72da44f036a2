------------------------------ MODULE Backends ------------------------------
(***************************************************************************)
(* The backends that all connections share (src/src/network-backend.c) and *)
(* how the proxy plugin picks, counts, loses and pools connections to them *)
(* (proxy_connect_server(), proxy_timeout() and proxy_disconnect_client()  *)
(* in src/plugins/proxy/proxy-plugin.c, src/src/network-conn-pool-lua.c).  *)
(*                                                                         *)
(* A hook runs with the Lua mutex held, so each of them is one action; the *)
(* connections interleave between the hooks. A server socket is named by   *)
(* the backend it is connected to, the pool of a backend is the queue of   *)
(* its idle sockets (ConnPool has the users), and 0 is NULL or index -1.   *)
(* Time passes in whole seconds and is kept as ages.                       *)
(***************************************************************************)
EXTENDS Naturals, Sequences, FiniteSets

CONSTANTS
    Cons,            \* client connections
    NBackends,       \* backends are 1 .. NBackends
    ReadOnly,        \* the ones of BACKEND_TYPE_RO
    Script,          \* "none", "careful" or "free"
    ScriptStates,    \* what the script sets the state of backends to
    MaxSets,         \* bound: how often it does so
    ConnectTimeout,  \* con->connect_timeout in seconds
    WakeAfter,       \* seconds a backend stays DOWN: 4 in the code
    G_MAXUINT        \* the largest guint

Bs == 1..NBackends
None == 0

ASSUME BackendsAssumption ==
    /\ NBackends \in Nat /\ ReadOnly \subseteq Bs
    /\ Script \in {"none", "careful", "free"} /\ ScriptStates \subseteq {"UP", "DOWN"} /\ MaxSets \in Nat
    /\ ConnectTimeout \in Nat /\ WakeAfter \in Nat /\ G_MAXUINT \in Nat
    /\ IsFiniteSet(Cons) /\ Cardinality(Cons) < G_MAXUINT

VARIABLES
    bstate,     \* backend->state
    age,        \* seconds since backend->state_since, up to WakeAfter + 1
    down_for,   \* seconds the backend has been DOWN, up to WakeAfter + 1
    checked,    \* backend_last_check was less than a second ago
    clients,    \* backend->connected_clients, a guint
    pool,       \* backend->pool: the idle sockets
    con,        \* the connections, see Connections
    sets        \* how often the script has set a state

vars == <<bstate, age, down_for, checked, clients, pool, con, sets>>

\* at: where the connection is in its life; backend, ndx: st->backend and
\* st->backend_ndx; sock: con->server; wait: the seconds a connect() took.
Connections ==
    [at : {"new", "pending", "up", "refused", "closed"}, backend : Bs \cup {None},
     ndx : Bs \cup {None}, sock : Bs \cup {None}, wait : 0..ConnectTimeout]
NewCon == [at |-> "new", backend |-> None, ndx |-> None, sock |-> None, wait |-> 0]

TypeOK ==
    /\ bstate \in [Bs -> {"UNKNOWN", "UP", "DOWN"}]
    /\ age \in [Bs -> 0..(WakeAfter + 1)] /\ down_for \in [Bs -> 0..(WakeAfter + 1)]
    /\ checked \in BOOLEAN
    /\ clients \in [Bs -> 0..G_MAXUINT]
    /\ pool \in [Bs -> Seq(Bs)]
    /\ con \in [Cons -> Connections]
    /\ sets \in 0..MaxSets

\* state_since and backend_last_check are 0 in new backends.
Init ==
    /\ bstate = [b \in Bs |-> "UNKNOWN"]
    /\ age = [b \in Bs |-> WakeAfter + 1] /\ down_for = [b \in Bs |-> 0]
    /\ checked = FALSE
    /\ clients = [b \in Bs |-> 0]
    /\ pool = [b \in Bs |-> <<>>]
    /\ con = [c \in Cons |-> NewCon]
    /\ sets = 0
-----------------------------------------------------------------------------
(***************************************************************************)
(* The steps of the hooks are functions of what they change: the counters, *)
(* the pools and one connection.                                           *)
(***************************************************************************)
Here(c) == [clients |-> clients, pool |-> pool, con |-> con[c]]
Store(c, g) ==
    /\ clients' = g.clients /\ pool' = g.pool /\ UNCHANGED sets
    /\ con' = [con EXCEPT ![c] = g.con]
Plus(g, b) == [g EXCEPT !.clients[b] = (@ + 1) % (G_MAXUINT + 1)]
Minus(g, b) == [g EXCEPT !.clients[b] = (@ + G_MAXUINT) % (G_MAXUINT + 1)]

\* network_connection_pool_lua_add_connection()
add_connection(g) ==
    IF g.con.sock = None THEN g
    ELSE LET counted == Minus(g, g.con.backend) IN
         [counted EXCEPT !.pool[g.con.backend] = Append(@, g.con.sock),
                         !.con.sock = None, !.con.backend = None, !.con.ndx = None]

\* network_connection_pool_lua_swap() with the i-th idle socket of backend b:
\* it is taken out first, then the present one goes to its pool.
RemoveNth(q, i) == SubSeq(q, 1, i - 1) \o SubSeq(q, i + 1, Len(q))

swap(g, b, i) ==
    LET taken == [g EXCEPT !.pool[b] = RemoveNth(@, i)]
        added == Plus(add_connection(taken), b) IN
    [added EXCEPT !.con.backend = b, !.con.ndx = b, !.con.sock = g.pool[b][i]]

\* proxy.connection.backend_ndx = b: swap, or only note the index when the
\* pool has nothing for this user. The owners of the sockets are abstracted.
connection_set(g, b) ==
    {swap(g, b, i) : i \in DOMAIN g.pool[b]} \cup {[g EXCEPT !.con.ndx = b]}

\* What a script does to proxy.connection.backend_ndx in one hook. A careful
\* one does not choose a backend that is DOWN.
Scripted(g, states) ==
    {g} \cup UNION {connection_set(g, b) : b \in
        CASE Script = "none" -> {}
          [] Script = "careful" -> {b \in Bs : states[b] # "DOWN"}
          [] OTHER -> Bs}

\* Behind the login it may also drop the backend: backend_ndx = 0.
ScriptedOrDropped(g, states) ==
    Scripted(g, states) \cup IF Script = "none" THEN {} ELSE {add_connection(g)}
-----------------------------------------------------------------------------
(***************************************************************************)
(* proxy_connect_server()                                                  *)
(***************************************************************************)
Older(a) == IF a > WakeAfter THEN a ELSE a + 1

\* Mutant: at least 4, where seconds are truncated.
WokenEarly == {b \in Bs : ~checked /\ bstate[b] = "DOWN" /\ age[b] >= WakeAfter}

\* network_backends_check(): at most once a second.
Woken == {b \in Bs : ~checked /\ bstate[b] = "DOWN" /\ age[b] > WakeAfter}
Checked == [b \in Bs |-> IF b \in Woken THEN "UNKNOWN" ELSE bstate[b]]
CheckedAge == [b \in Bs |-> IF b \in Woken THEN 0 ELSE age[b]]

\* The shortest queue first: the first of the backends with the fewest
\* clients, among those that are writable and not DOWN.
Eligible(g, states) ==
    {b \in Bs \ ReadOnly : states[b] # "DOWN" /\ g.clients[b] < G_MAXUINT}
ShortestQueue(g, states) ==
    LET fewest == {b \in Eligible(g, states) :
                     \A o \in Eligible(g, states) : g.clients[b] <= g.clients[o]}
    IN IF fewest = {} THEN None ELSE CHOOSE b \in fewest : \A o \in fewest : b <= o

\* The backend after the script had its say: its choice is ignored when it is
\* DOWN, and a pooled connection it does not want to use is given back.
Picked(g, states, use_pooled) ==
    LET ndx == IF g.con.ndx # None /\ states[g.con.ndx] = "DOWN" THEN None ELSE g.con.ndx
        kept == IF use_pooled THEN g ELSE add_connection(g)
        best == IF ndx # None THEN ndx ELSE ShortestQueue(kept, states)
        backend == IF ndx # None
                   THEN IF kept.con.backend = None THEN ndx ELSE kept.con.backend
                   ELSE IF best # None THEN best ELSE kept.con.backend
    IN [kept EXCEPT !.con.ndx = best, !.con.backend = backend]

\* Mark backend b of states and ages.
MarkUp(b, states, ages) ==
    /\ bstate' = [states EXCEPT ![b] = "UP"]
    /\ age' = IF states[b] = "UP" THEN ages ELSE [ages EXCEPT ![b] = 0]
    /\ down_for' = [down_for EXCEPT ![b] = 0]
MarkDown(b, states, ages) ==
    /\ bstate' = [states EXCEPT ![b] = "DOWN"]
    /\ age' = [ages EXCEPT ![b] = 0]
    /\ down_for' = [down_for EXCEPT ![b] = IF states[b] = "DOWN" THEN @ ELSE 0]
Unmarked(states, ages) == bstate' = states /\ age' = ages /\ UNCHANGED down_for
-----------------------------------------------------------------------------
Connecting(c, g, at) == Store(c, [g EXCEPT !.con.at = at, !.con.sock = g.con.backend, !.con.wait = 0])

\* The script answers the client itself, and there is no server.
ConnectAnswered(c, g) ==
    /\ Script # "none"
    /\ Store(c, [g EXCEPT !.con.at = "up"])
    /\ Unmarked(Checked, CheckedAge)

\* "(proxy) all backends are down"
ConnectRefused(c, p) ==
    /\ p.con.backend = None
    /\ Store(c, [p EXCEPT !.con.at = "refused"])
    /\ Unmarked(Checked, CheckedAge)

ConnectPooled(c, p) ==
    /\ p.con.backend # None /\ p.con.sock # None
    /\ Store(c, [p EXCEPT !.con.at = "up"])
    /\ Unmarked(Checked, CheckedAge)

\* network_socket_connect() succeeds, is under way, or fails.
ConnectNew(c, p) ==
    /\ p.con.backend # None /\ p.con.sock = None
    /\ \/ /\ Connecting(c, Plus(p, p.con.backend), "up")
          /\ MarkUp(p.con.backend, Checked, CheckedAge)
       \/ /\ Connecting(c, p, "pending")
          /\ Unmarked(Checked, CheckedAge)
       \/ /\ Store(c, p)
          /\ MarkDown(p.con.backend, Checked, CheckedAge)

proxy_connect_server(c) ==
    /\ con[c].at = "new"
    /\ checked' = TRUE
    /\ LET g == [Here(c) EXCEPT !.con.backend = None, !.con.ndx = None] IN
       \/ ConnectAnswered(c, g)
       \/ \E h \in Scripted(g, Checked), use_pooled \in {FALSE} \cup {Script # "none"} :
             LET p == Picked(h, Checked, use_pooled) IN
             ConnectRefused(c, p) \/ ConnectPooled(c, p) \/ ConnectNew(c, p)

\* The connect() that was under way is finished: with success, or not.
connect_finish(c) ==
    /\ con[c].at = "pending"
    /\ LET g == Here(c)  b == con[c].backend IN
       \/ Connecting(c, Plus(g, b), "up") /\ MarkUp(b, bstate, age)
       \/ /\ Store(c, [g EXCEPT !.con.at = "new", !.con.sock = None])
          /\ MarkDown(b, bstate, age)
    /\ UNCHANGED checked

\* Mutant: the backend is not marked as DOWN.
proxy_timeout_unmarked(c) ==
    /\ con[c].at = "pending" /\ con[c].wait = ConnectTimeout
    /\ Store(c, [Here(c) EXCEPT !.con.at = "new", !.con.sock = None])
    /\ UNCHANGED <<bstate, age, down_for, checked>>

\* It takes too long: the backend is DOWN and another one is tried.
proxy_timeout(c) ==
    /\ con[c].at = "pending" /\ con[c].wait = ConnectTimeout
    /\ Store(c, [Here(c) EXCEPT !.con.at = "new", !.con.sock = None])
    /\ MarkDown(con[c].backend, bstate, age)
    /\ UNCHANGED checked

\* Any later hook of the script: it may change the backend, or drop it.
Hook(c) ==
    /\ con[c].at = "up"
    /\ \E g \in ScriptedOrDropped(Here(c), bstate) : Store(c, g)
    /\ UNCHANGED <<bstate, age, down_for, checked>>

\* Mutant: the backend the connection had before the script's hook is counted.
proxy_disconnect_client_stale(c) ==
    /\ con[c].at \in {"up", "refused"}
    /\ \E g \in ScriptedOrDropped(Here(c), bstate) :
          LET left == IF con[c].backend = None THEN g ELSE Minus(g, con[c].backend) IN
          Store(c, [left EXCEPT !.con = [NewCon EXCEPT !.at = "closed"]])
    /\ UNCHANGED <<bstate, age, down_for, checked>>

\* The connection is closed; its server socket is freed with it, unless
\* disconnect_client() gave it to the pool.
proxy_disconnect_client(c) ==
    /\ con[c].at \in {"up", "refused"}
    /\ \E g \in ScriptedOrDropped(Here(c), bstate) :
          LET left == IF g.con.backend = None THEN g ELSE Minus(g, g.con.backend) IN
          Store(c, [left EXCEPT !.con = [NewCon EXCEPT !.at = "closed"]])
    /\ UNCHANGED <<bstate, age, down_for, checked>>
-----------------------------------------------------------------------------
\* network_mysqld_con_idle_handle(): the server closes an idle connection.
IdleClosed(b) ==
    /\ \E i \in DOMAIN pool[b] : pool' = [pool EXCEPT ![b] = RemoveNth(@, i)]
    /\ UNCHANGED <<bstate, age, down_for, checked, clients, con, sets>>

\* A script writes proxy.global.backends[b].state, and nothing else.
backend_set(b, s) ==
    /\ sets < MaxSets
    /\ sets' = sets + 1
    /\ bstate' = [bstate EXCEPT ![b] = s]
    /\ down_for' = [down_for EXCEPT ![b] = IF bstate[b] = "DOWN" THEN @ ELSE 0]
    /\ UNCHANGED <<age, checked, clients, pool, con>>

\* A second passes. The timeouts that are due are handled first, and so is a
\* retry, which the handler goes to at once.
Retrying(c) == con[c].at = "new" /\ con[c].backend # None
Tick ==
    /\ \A c \in Cons : ~Retrying(c) /\ (con[c].at = "pending" => con[c].wait < ConnectTimeout)
    /\ age' = [b \in Bs |-> Older(age[b])]
    /\ down_for' = [b \in Bs |-> IF bstate[b] = "DOWN" THEN Older(down_for[b]) ELSE 0]
    /\ checked' = FALSE
    /\ con' = [c \in Cons |-> IF con[c].at = "pending" THEN [con[c] EXCEPT !.wait = @ + 1] ELSE con[c]]
    /\ UNCHANGED <<bstate, clients, pool, sets>>

Next ==
    \/ \E c \in Cons : \/ proxy_connect_server(c) \/ connect_finish(c) \/ proxy_timeout(c)
                       \/ Hook(c) \/ proxy_disconnect_client(c)
    \/ \E b \in Bs : IdleClosed(b) \/ \E s \in ScriptStates : backend_set(b, s)
    \/ Tick

Spec == Init /\ [][Next]_vars

\* Time passes, timeouts fire and retries are made; nothing forces a server to
\* answer a connect().
FairSpec ==
    /\ Spec /\ WF_vars(Tick)
    /\ \A c \in Cons : /\ WF_vars(proxy_timeout(c))
                        /\ WF_vars(Retrying(c) /\ proxy_connect_server(c))
-----------------------------------------------------------------------------
(***************************************************************************)
(* Properties                                                              *)
(***************************************************************************)
\* connected_clients is the number of open connections to the backend, after
\* any sequence of connects, failures, timeouts, swaps with the pool and
\* closes of any connection.
ClientsCounted ==
    \A b \in Bs : clients[b] = Cardinality({c \in Cons : con[c].at = "up" /\ con[c].sock = b})

\* A connection knows the backend its server socket is connected to, and the
\* pool of a backend holds connections to that backend only.
SocketsAreHome ==
    /\ \A c \in Cons : con[c].sock # None => con[c].backend = con[c].sock
    /\ \A b \in Bs : \A i \in DOMAIN pool[b] : pool[b][i] = b

\* No connect() goes to a backend that is DOWN, whoever chose the backend.
DownIsLeftAlone ==
    [][\A c \in Cons : con[c].at = "new" /\ con'[c].at = "pending"
          => bstate'[con'[c].backend] # "DOWN"]_vars

\* A backend that is DOWN is not woken up before it was DOWN for 4 seconds:
\* network_backends_check() compares whole seconds, so they differ by 5.
WokenLate ==
    [][\A b \in Bs : bstate[b] = "DOWN" /\ bstate'[b] = "UNKNOWN"
          => down_for[b] > WakeAfter]_vars

\* A connect() that no server answers ends all the same: the client is
\* connected to another backend or told that all are down. The backends that
\* were given up must not be woken up again while the others are tried.
ConnectEnds ==
    \A c \in Cons : con[c].at = "pending" ~> con[c].at \in {"up", "refused"}

\* As long as no connection was closed and no backend failed, the writable
\* backends have the same number of clients, or one more.
LoadedEqually ==
    (\A c \in Cons : con[c].at # "closed") /\ (\A b \in Bs : bstate[b] # "DOWN")
        => \A a, b \in Bs \ ReadOnly : clients[a] <= clients[b] + 1
=============================================================================
