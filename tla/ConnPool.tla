------------------------------ MODULE ConnPool ------------------------------
(***************************************************************************)
(* The connection pool of one backend (src/src/network-conn-pool.c) and    *)
(* the handler that watches its idle sockets                               *)
(* (src/src/network-conn-pool-lua.c).                                      *)
(*                                                                         *)
(* The pool maps user names to queues of idle sockets. Scripts put sockets *)
(* in and take them out with the Lua mutex held. The idle handler takes no *)
(* mutex: with several event threads the pool is used between the moment   *)
(* its event fires and the moment it changes the pool, and while it does.  *)
(* Spec is the pool of one event thread, ThreadedSpec that of several.     *)
(***************************************************************************)
EXTENDS Naturals, Sequences

CONSTANTS
    Users,        \* user names, without the empty one
    Anonymous,    \* the empty user name
    Names,        \* the names clients log in with
    Sockets,      \* server sockets
    Phases,       \* when scripts take from the pool: "login", "command"
    MinIdles,     \* values a script sets min_idle_connections to
    Threaded,     \* there is more than one event thread
    Talkative     \* servers may send something to an idle connection

ASSUME ConnPoolAssumption ==
    /\ Anonymous \notin Users /\ Names \subseteq Users \cup {Anonymous} /\ Names # {}
    /\ Phases \subseteq {"login", "command"} /\ MinIdles \subseteq Nat
    /\ Threaded \in BOOLEAN /\ Talkative \in BOOLEAN

VARIABLES
    users,      \* pool->users: a function from some names to queues
    min_idle,   \* pool->min_idle_connections
    where,      \* of each socket: see Places
    owner,      \* sock->response->username: whom the server let in
    client,     \* the user of the client that has the socket, or had it last
    armed,      \* its idle event is waited for
    handling,   \* its idle handler has started and found this; see Handlings
    unread,     \* the server has sent something that is not read yet
    closed,     \* the server has closed the connection
    missed      \* the last network_connection_pool_get() returned NULL

vars == <<users, min_idle, where, owner, client, armed, handling, unread, closed, missed>>

Places == {"unborn", "login", "used", "idle", "freed"}

\* "stale": the pool entry of a closed connection was freed under the handler;
\* "unlinking": the handler has freed the entry, which is still in its queue.
Handlings == {"no", "data", "closed", "stale", "unlinking"}

TypeOK ==
    /\ DOMAIN users \subseteq Names
    /\ \A u \in DOMAIN users : users[u] \in Seq(Sockets)
    /\ min_idle \in Nat
    /\ where \in [Sockets -> Places]
    /\ owner \in [Sockets -> Names] /\ client \in [Sockets -> Names]
    /\ armed \in [Sockets -> BOOLEAN]
    /\ handling \in [Sockets -> Handlings]
    /\ unread \in [Sockets -> BOOLEAN] /\ closed \in [Sockets -> BOOLEAN]
    /\ missed \in BOOLEAN

Init ==
    /\ users = [u \in {} |-> <<>>]
    /\ min_idle = 0
    /\ where = [s \in Sockets |-> "unborn"]
    /\ owner = [s \in Sockets |-> CHOOSE n \in Names : TRUE] /\ client = owner
    /\ armed = [s \in Sockets |-> FALSE]
    /\ handling = [s \in Sockets |-> "no"]
    /\ unread = [s \in Sockets |-> FALSE] /\ closed = unread
    /\ missed = FALSE

\* One thread handles one event after the other.
NoHandler == Threaded \/ \A s \in Sockets : handling[s] = "no"
-----------------------------------------------------------------------------
Elements(q) == {q[i] : i \in DOMAIN q}
WithKey(u, q) == [n \in DOMAIN users \cup {u} |-> IF n = u THEN q ELSE users[n]]
WithoutKey(f, u) == [n \in DOMAIN f \ {u} |-> f[n]]

\* Mutant: no idle event is added.
pool_add_unwatched(s) ==
    /\ NoHandler
    /\ where[s] = "used"
    /\ users' = WithKey(owner[s],
                 Append(IF owner[s] \in DOMAIN users THEN users[owner[s]] ELSE <<>>, s))
    /\ where' = [where EXCEPT ![s] = "idle"]
    /\ unread' = [unread EXCEPT ![s] = FALSE]
    /\ UNCHANGED <<min_idle, owner, client, armed, handling, closed, missed>>

\* network_connection_pool_add(), the idle event added by its caller. What
\* the server had sent was read while the socket was used.
pool_add(s) ==
    /\ NoHandler
    /\ where[s] = "used"
    /\ users' = WithKey(owner[s],
                 Append(IF owner[s] \in DOMAIN users THEN users[owner[s]] ELSE <<>>, s))
    /\ where' = [where EXCEPT ![s] = "idle"]
    /\ armed' = [armed EXCEPT ![s] = TRUE]
    /\ unread' = [unread EXCEPT ![s] = FALSE]
    /\ UNCHANGED <<min_idle, owner, client, handling, closed, missed>>

\* Mutant: the limit itself is enough.
find_idle_conns_at == {n \in DOMAIN users : Len(users[n]) >= min_idle /\ users[n] # <<>>}

\* network_connection_pool_get_conns(): the names whose queue it may return.
\* g_hash_table_find() returns the first in an order nobody knows.
find_idle_conns == {n \in DOMAIN users : Len(users[n]) > min_idle}
get_conns(name) ==
    IF name # Anonymous /\ name \in DOMAIN users THEN {name} ELSE find_idle_conns

\* network_connection_pool_get(): the head of the queue. A queue that becomes
\* empty is removed under the name that was asked for; what is in the queue
\* of that name is freed with it.
Popped(n) == [users EXCEPT ![n] = IF @ = <<>> THEN @ ELSE Tail(@)]
Dropped(f, name) == IF name \in DOMAIN f THEN Elements(f[name]) ELSE {}
pool_get(name, n, user, place) ==
    LET emptied == Popped(n)[n] = <<>>
        gone == IF emptied THEN Dropped(Popped(n), name) ELSE {}
        taken == IF users[n] = <<>> THEN {} ELSE {Head(users[n])}
    IN
    /\ users' = IF emptied THEN WithoutKey(Popped(n), name) ELSE Popped(n)
    /\ where' = [s \in Sockets |-> CASE s \in taken -> place [] s \in gone -> "freed"
                                     [] OTHER -> where[s]]
    /\ client' = [s \in Sockets |-> IF s \in taken THEN user ELSE client[s]]
    /\ armed' = [s \in Sockets |-> armed[s] /\ s \notin taken \cup gone]
    /\ handling' = [s \in Sockets |-> IF s \in taken \cup gone /\ handling[s] = "closed"
                                      THEN "stale" ELSE handling[s]]
    /\ missed' = (taken = {})
    /\ UNCHANGED <<min_idle, owner, unread, closed>>

pool_get_nothing(name) ==
    /\ get_conns(name) = {}
    /\ missed' = TRUE
    /\ UNCHANGED <<users, min_idle, where, owner, client, armed, handling, unread, closed>>

\* network_connection_pool_lua_swap(): while the client logs in its name is
\* not known yet, later on it is.
swap(user, phase) ==
    /\ NoHandler
    /\ LET name == IF phase = "login" THEN Anonymous ELSE user IN
       \/ \E n \in get_conns(name) :
             pool_get(name, n, user, IF phase = "login" THEN "login" ELSE "used")
       \/ pool_get_nothing(name)
-----------------------------------------------------------------------------
\* network_mysqld_con_idle_handle(). Its event is not persistent: it fires
\* once. FIONREAD is 0 when the server has closed the connection.
IdleFires(s) ==
    /\ NoHandler
    /\ armed[s] /\ (unread[s] \/ closed[s])
    /\ armed' = [armed EXCEPT ![s] = FALSE]
    /\ handling' = [handling EXCEPT ![s] = IF unread[s] THEN "data" ELSE "closed"]
    /\ UNCHANGED <<users, min_idle, where, owner, client, unread, closed, missed>>

\* Mutant: the entry is freed and stays in the queue.
pool_remove_kept(s) ==
    where' = [where EXCEPT ![s] = "freed"] /\ UNCHANGED users

\* g_queue_remove(): the first element that is s, if there is one.
Without(q, s) ==
    IF s \in Elements(q)
    THEN LET i == CHOOSE i \in DOMAIN q : q[i] = s /\ \A j \in 1..(i - 1) : q[j] # s
         IN  SubSeq(q, 1, i - 1) \o SubSeq(q, i + 1, Len(q))
    ELSE q

\* network_connection_pool_remove(): the queue stays, even when it is empty.
pool_remove(s) ==
    IF owner[s] \in DOMAIN users
    THEN /\ users' = [users EXCEPT ![owner[s]] = Without(@, s)]
         /\ where' = [where EXCEPT ![s] = "freed"]
    ELSE UNCHANGED <<users, where>>

idle_handle(s) ==
    /\ handling[s] \in {"data", "closed"}
    /\ handling' = [handling EXCEPT ![s] = "no"]
    /\ IF handling[s] = "closed" THEN pool_remove(s) ELSE UNCHANGED <<users, where>>
    /\ UNCHANGED <<min_idle, owner, client, armed, unread, closed, missed>>

\* The same, with other threads at work between the two halves of
\* network_connection_pool_remove(): the entry is freed, then taken off its queue.
remove_frees(s) ==
    /\ handling[s] = "closed" /\ owner[s] \in DOMAIN users
    /\ handling' = [handling EXCEPT ![s] = "unlinking"]
    /\ where' = [where EXCEPT ![s] = "freed"]
    /\ UNCHANGED <<users, min_idle, owner, client, armed, unread, closed, missed>>

remove_unlinks(s) ==
    /\ handling[s] = "unlinking"
    /\ handling' = [handling EXCEPT ![s] = "no"]
    /\ users' = [u \in DOMAIN users |-> IF u = owner[s] THEN Without(users[u], s) ELSE users[u]]
    /\ UNCHANGED <<min_idle, where, owner, client, armed, unread, closed, missed>>

\* network_connection_pool_remove() of an entry that pool_get() has freed. The
\* memory names some socket t, the old one if nobody reused it: either no queue
\* has the name it finds there, or t is freed, and leaves the queue if the
\* memory is that of its entry now.
stale_remove(s) ==
    /\ handling[s] = "stale"
    /\ handling' = [handling EXCEPT ![s] = "no"]
    /\ \/ UNCHANGED <<users, where, armed>>
       \/ \E t \in Sockets :
             /\ where[t] # "unborn" /\ owner[t] \in DOMAIN users
             /\ where' = [where EXCEPT ![t] = "freed"]
             /\ armed' = [armed EXCEPT ![t] = FALSE]
             /\ users' \in {users, [users EXCEPT ![owner[t]] = Without(@, t)]}
    /\ UNCHANGED <<min_idle, owner, client, unread, closed, missed>>
-----------------------------------------------------------------------------
\* A fresh connection, on which the server has let the user in.
Open(s, user) ==
    /\ where[s] = "unborn"
    /\ where' = [where EXCEPT ![s] = "used"]
    /\ owner' = [owner EXCEPT ![s] = user] /\ client' = [client EXCEPT ![s] = user]
    /\ UNCHANGED <<users, min_idle, armed, handling, unread, closed, missed>>

\* Mutant: the response of the new user is not copied.
Reauth_kept(s) ==
    /\ where[s] = "login"
    /\ \E p \in {"used", "freed"} : where' = [where EXCEPT ![s] = p]
    /\ UNCHANGED <<users, min_idle, owner, client, armed, handling, unread, closed, missed>>

\* A connection of the pool is given to the user the client logs in as, by
\* COM_CHANGE_USER or because it is the same user; or the login fails.
Reauth(s) ==
    /\ where[s] = "login"
    /\ \E p \in {"used", "freed"} : where' = [where EXCEPT ![s] = p]
    /\ owner' = [owner EXCEPT ![s] = client[s]]
    /\ UNCHANGED <<users, min_idle, client, armed, handling, unread, closed, missed>>

\* network_mysqld_con_free() closes the server of a connection.
ConFree(s) ==
    /\ where[s] = "used"
    /\ where' = [where EXCEPT ![s] = "freed"]
    /\ UNCHANGED <<users, min_idle, owner, client, armed, handling, unread, closed, missed>>

\* pool.min_idle_connections = n
proxy_pool_set(n) ==
    /\ min_idle' = n
    /\ UNCHANGED <<users, where, owner, client, armed, handling, unread, closed, missed>>

ServerSends(s) ==
    /\ Talkative /\ where[s] = "idle" /\ ~closed[s]
    /\ unread' = [unread EXCEPT ![s] = TRUE]
    /\ UNCHANGED <<users, min_idle, where, owner, client, armed, handling, closed, missed>>

ServerCloses(s) ==
    /\ where[s] \in {"used", "idle"} /\ ~closed[s]
    /\ closed' = [closed EXCEPT ![s] = TRUE]
    /\ UNCHANGED <<users, min_idle, where, owner, client, armed, handling, unread, missed>>

Next ==
    \/ \E s \in Sockets :
          \/ pool_add(s) \/ IdleFires(s) \/ idle_handle(s) \/ Reauth(s) \/ ConFree(s)
          \/ ServerSends(s) \/ ServerCloses(s)
          \/ \E user \in Names : Open(s, user)
    \/ \E user \in Names, phase \in Phases : swap(user, phase)
    \/ \E n \in MinIdles : proxy_pool_set(n)

Spec == Init /\ [][Next]_vars

\* Several event threads: the handler takes no mutex. Accesses to the GLib hash
\* and queues that overlap within one call are not told apart.
ThreadedNext ==
    \/ Next
    \/ \E s \in Sockets : remove_frees(s) \/ remove_unlinks(s) \/ stale_remove(s)

ThreadedSpec == Init /\ [][ThreadedNext]_vars

\* Event threads dispatch all events that have occurred, one after the other.
FairSpec == Spec /\ \A s \in Sockets : SF_vars(IdleFires(s)) /\ WF_vars(idle_handle(s))
-----------------------------------------------------------------------------
(***************************************************************************)
(* Properties                                                              *)
(***************************************************************************)
Once(q) == \A i, j \in DOMAIN q : q[i] = q[j] => i = j

\* A socket is either in the pool, once and in the queue of its user, or with
\* a client: it is never in two hands. It needs one event thread.
InOneHand ==
    /\ \A u \in DOMAIN users : Once(users[u])
    /\ \A s \in Sockets : where[s] = "idle" <=>
          \E u \in DOMAIN users : s \in Elements(users[u])
    /\ \A u \in DOMAIN users : \A s \in Elements(users[u]) : owner[s] = u

\* The idle handler works on a pool entry that still exists: pool_get() has
\* not freed it and given its socket away meanwhile.
HandledIsIdle ==
    \A s \in Sockets : handling[s] \in {"data", "closed", "stale"} => where[s] = "idle"

Idle(f, u) == IF u \in DOMAIN f THEN Len(f[u]) ELSE 0

TakesSurplus ==
    \A s \in Sockets :
       where[s] = "idle" /\ where'[s] \in {"login", "used"} /\ client'[s] # owner[s]
       => Idle(users', owner[s]) >= min_idle

\* A connection is taken from another user only while min_idle_connections
\* remain in that user's queue.
MinIdleKept == [][TakesSurplus]_vars

\* Idle connections are kept up: one is closed only when its server closed it.
KeptUp ==
    [][\A s \in Sockets : where[s] = "idle" /\ where'[s] = "freed" => closed[s]]_vars

\* A client that is logged in has a connection of its own user.
SameUser == \A s \in Sockets : where[s] = "used" => owner[s] = client[s]

\* Nothing is got from the pool only if no user has more than
\* min_idle_connections idle.
SurplusIsReused ==
    [][~missed /\ missed' => find_idle_conns = {}]_vars

\* An idle connection that the server closes leaves the pool, unless the server
\* has said something before: it is freed, or somebody takes it and finds out.
QuietCloseIsNoticed ==
    \A s \in Sockets : where[s] = "idle" /\ closed[s] /\ ~unread[s] ~> where[s] # "idle"

\* The same of every idle connection that the server closes.
CloseIsNoticed ==
    \A s \in Sockets : where[s] = "idle" /\ closed[s] ~> where[s] # "idle"
=============================================================================
