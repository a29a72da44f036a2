-------------------------------- MODULE AdminCon --------------------------------
(***************************************************************************)
(* The connections of the admin plugin (plugins/admin/admin-plugin.c), as  *)
(* network_mysqld_con_handle() drives them, and the script that answers    *)
(* their queries in the Lua state they share.                              *)
(*                                                                         *)
(* Each state of a connection is a step, so that those of the connections  *)
(* interleave as they do in two event threads.  A client asks one thing at *)
(* a time; it may close the connection whenever it likes.                  *)
(***************************************************************************)
EXTENDS LuaScope, Passwords

CONSTANTS Usernames, Passwords,            \* what clients try
          admin_username, admin_password,  \* the configuration
          Challenge                        \* the random challenge of each connection

\* The plugin does not start with an empty password or without a user name.  Challenges
\* differ in the 20 bytes that count, and no password is what a scramble is the digest of.
ASSUME AdminAssumption ==
    /\ admin_username \in Usernames /\ admin_password \in Passwords \ {<<>>}
    /\ \A c, d \in Conns : Challenge20(Challenge[c]) = Challenge20(Challenge[d]) => c = d
    /\ \A c \in Conns, p, q \in Passwords :
         p # <<Challenge20(Challenge[c]), SHA1(password_hash(q))>>

VARIABLES state, challenge, response,  \* of each connection
          send_queue, recv_queue,      \* of its client's socket
          client,                      \* what the client is doing
          mute                         \* history: the script answered its query with no packet

conVars == <<state, challenge, response, send_queue, recv_queue, client, mute>>
vars == <<luaVars, conVars>>

NoResponse == [decodes |-> FALSE, v41 |-> FALSE, username |-> <<>>, auth_plugin_data |-> {},
               password |-> <<>>, challenge |-> <<>>]

Init ==
    /\ LuaInit
    /\ state = [c \in Conns |-> "none"] /\ client = [c \in Conns |-> "gone"]
    /\ challenge = [c \in Conns |-> <<>>] /\ response = [c \in Conns |-> NoResponse]
    /\ send_queue = [c \in Conns |-> <<>>] /\ recv_queue = [c \in Conns |-> <<>>]
    /\ mute = [c \in Conns |-> FALSE]

At(c, s) == state[c] = s /\ ~aborted
Goto(c, s) == state' = [state EXCEPT ![c] = s]
Queue(c, p) == send_queue' = [send_queue EXCEPT ![c] = Append(@, p)]
Taken(c) == recv_queue' = [recv_queue EXCEPT ![c] = Tail(@)]

-----------------------------------------------------------------------------
(***************************************************************************)
(* A client.                                                               *)
(***************************************************************************)
Connect(c) ==
    /\ At(c, "none") /\ client[c] = "gone"
    /\ Goto(c, "INIT") /\ client' = [client EXCEPT ![c] = "greeted"]
    /\ UNCHANGED <<challenge, response, send_queue, recv_queue, mute, luaVars>>

\* It answers a challenge with the scramble of a password: as it should, or with one thing
\* wrong; an old client has another protocol, and something may not decode at all.
ClientResponse(c) ==
    LET answer(u, p, d) == [decodes |-> TRUE, v41 |-> TRUE, username |-> u, password |-> p,
                            challenge |-> Challenge[d],
                            auth_plugin_data |-> password_scramble(Challenge[d], password_hash(p))]
    IN  {NoResponse, [NoResponse EXCEPT !.decodes = TRUE]}
          \cup {answer(u, admin_password, c) : u \in Usernames}
          \cup {answer(admin_username, p, c) : p \in Passwords}
          \cup {answer(admin_username, admin_password, d) : d \in Conns}

SendAuth(c) ==
    /\ client[c] = "login" /\ state[c] # "none"
    /\ \E r \in ClientResponse(c) : recv_queue' = [recv_queue EXCEPT ![c] = <<r>>]
    /\ client' = [client EXCEPT ![c] = "logging in"]
    /\ UNCHANGED <<state, challenge, response, send_queue, mute, luaVars>>

\* A packet that is too short and LOAD DATA are not shown to the script.
SendQuery(c) ==
    /\ client[c] = "ready" /\ state[c] # "none"
    /\ \E q \in {"query", "unseen"} : recv_queue' = [recv_queue EXCEPT ![c] = <<q>>]
    /\ client' = [client EXCEPT ![c] = "asked"]
    /\ UNCHANGED <<state, challenge, response, send_queue, mute, luaVars>>

\* On its own, or because the proxy did.
ClientCloses(c) ==
    /\ client[c] # "gone"
    /\ client' = [client EXCEPT ![c] = "gone"]
    /\ UNCHANGED <<state, challenge, response, send_queue, recv_queue, mute, luaVars>>

Received(c) ==
    CASE client[c] = "greeted"    -> "login"
      [] client[c] = "logging in" -> IF send_queue[c][1] = "OK" THEN "ready" ELSE "refused"
      [] client[c] = "asked"      -> "ready"
      [] OTHER                    -> client[c]

-----------------------------------------------------------------------------
(***************************************************************************)
(* network_mysqld_con_handle() for a connection without a server.          *)
(***************************************************************************)
\* The send queue is written, or the client is not there any more.
Write(c, next) ==
    \/ /\ client' = [client EXCEPT ![c] = IF send_queue[c] = <<>> THEN @ ELSE Received(c)]
       /\ send_queue' = [send_queue EXCEPT ![c] = <<>>]
       /\ Goto(c, next)
    \/ /\ client[c] = "gone"
       /\ Goto(c, IF state[c] = "SEND_ERROR" THEN "CLOSE_CLIENT" ELSE "ERROR")
       /\ UNCHANGED <<client, send_queue>>

SendHandshake(c) ==
    /\ At(c, "SEND_HANDSHAKE") /\ Write(c, "READ_AUTH")
    /\ UNCHANGED <<challenge, response, recv_queue, mute, luaVars>>

SendAuthResult(c) ==
    /\ At(c, "SEND_AUTH_RESULT") /\ Write(c, "READ_QUERY")
    /\ UNCHANGED <<challenge, response, recv_queue, mute, luaVars>>

SendQueryResult(c) ==
    /\ At(c, "SEND_QUERY_RESULT") /\ Write(c, "READ_QUERY")
    /\ UNCHANGED <<challenge, response, recv_queue, mute, luaVars>>

SendError(c) ==
    /\ At(c, "SEND_ERROR") /\ Write(c, "CLOSE_CLIENT")
    /\ UNCHANGED <<challenge, response, recv_queue, mute, luaVars>>

ReadsEof(c) ==
    /\ state[c] \in {"READ_AUTH", "READ_QUERY"} /\ ~aborted
    /\ client[c] = "gone" /\ recv_queue[c] = <<>> /\ scope.holder # c
    /\ Goto(c, "CLOSE_CLIENT")
    /\ UNCHANGED <<challenge, response, send_queue, recv_queue, client, mute, luaVars>>

-----------------------------------------------------------------------------
(***************************************************************************)
(* The hooks.                                                              *)
(***************************************************************************)
server_con_init(c) ==
    /\ At(c, "INIT") /\ scope_is_free
    /\ challenge' = [challenge EXCEPT ![c] = Challenge[c]]
    /\ Queue(c, "challenge") /\ Goto(c, "SEND_HANDSHAKE")
    /\ UNCHANGED <<response, recv_queue, client, mute, luaVars>>

AuthMatches(c, auth) ==
    password_scramble(challenge[c], password_hash(admin_password)) = auth.auth_plugin_data

\* An old client is told, one that makes no sense is not.  (Nobody looks at the response of
\* a client that was refused.)
server_read_auth(c) ==
    LET auth == recv_queue[c][1]
        good == auth.username = admin_username /\ AuthMatches(c, auth)
    IN  /\ At(c, "READ_AUTH") /\ scope_is_free /\ recv_queue[c] # <<>>
        /\ \/ ~auth.decodes /\ Goto(c, "SEND_ERROR") /\ UNCHANGED <<send_queue, response>>
           \/ /\ auth.decodes /\ ~auth.v41
              /\ Queue(c, "ERR") /\ Goto(c, "SEND_ERROR") /\ UNCHANGED response
           \/ /\ auth.decodes /\ auth.v41
              /\ response' = IF good THEN [response EXCEPT ![c] = auth] ELSE response
              /\ Queue(c, IF good THEN "OK" ELSE "ERR")
              /\ Goto(c, IF good THEN "SEND_AUTH_RESULT" ELSE "SEND_ERROR")
        /\ Taken(c)
        /\ UNCHANGED <<challenge, client, mute, luaVars>>

\* Mutant: a query that nobody decided about is dropped.
DropUndecided(c, ret, answer) ==
    /\ IF ret = "SEND_RESULT"
       THEN /\ send_queue' = [send_queue EXCEPT ![c] = @ \o answer] /\ Goto(c, "SEND_QUERY_RESULT")
            /\ mute' = [mute EXCEPT ![c] = answer = <<>>]
       ELSE Goto(c, "SEND_ERROR") /\ UNCHANGED <<send_queue, mute>>
    /\ Taken(c) /\ UNCHANGED <<challenge, response, client>>

\* What the script decided: its answer is sent, and anything else is an error.
server_read_query(c, ret, answer) ==
    /\ IF ret = "SEND_RESULT"
       THEN /\ send_queue' = [send_queue EXCEPT ![c] = @ \o answer] /\ Goto(c, "SEND_QUERY_RESULT")
            /\ mute' = [mute EXCEPT ![c] = answer = <<>>]
       ELSE Queue(c, "ERR") /\ Goto(c, "SEND_ERROR") /\ UNCHANGED mute
    /\ Taken(c) /\ UNCHANGED <<challenge, response, client>>

\* The packets the script is not asked about.
read_query_unseen(c) ==
    /\ At(c, "READ_QUERY") /\ scope_is_free /\ recv_queue[c] # <<>>
    /\ recv_queue[c][1] = "unseen"
    /\ server_read_query(c, "SEND_QUERY", <<>>)
    /\ UNCHANGED luaVars

read_query_starts(c) ==
    /\ At(c, "READ_QUERY") /\ recv_queue[c] # <<>> /\ recv_queue[c][1] = "query"
    /\ scope_get(c, "register")
    /\ UNCHANGED <<file, cached, registry, proxy, L, L_ref, failures, aborted, conVars>>

\* The script did not load or did not run: the error is sent as a result.
read_query_fails(c) ==
    /\ Holds(c, "load_failed") \/ Holds(c, "execute_failed")
    /\ server_read_query(c, "SEND_RESULT", <<"result">>) /\ scope_release
    /\ UNCHANGED <<file, cached, registry, proxy, L, L_ref, failures, aborted>>

\* handle_proxy_response(): a result (also an ERR of the script, or the one that replaces a
\* proxy.response that makes no sense), or a raw response of no packets.
ProxyResponse == {<<"result">>, <<>>}

\* read_query() of the script decides; an error in it is PROXY_SEND_QUERY, and so are
\* queries it injected.
read_query_calls(c) ==
    /\ Holds(c, "call")
    /\ \E ret \in {"NO_DECISION", "SEND_RESULT", "SEND_QUERY", "SEND_INJECTION"},
          answer \in ProxyResponse : server_read_query(c, ret, answer)
    /\ scope_release
    /\ UNCHANGED <<file, cached, registry, proxy, L, L_ref, failures, aborted>>

register(c) == register_callback(c) /\ UNCHANGED conVars

\* plugin_call_cleanup() and network_mysqld_con_free()
admin_disconnect_client(c) ==
    /\ state[c] \in {"CLOSE_CLIENT", "ERROR"} /\ scope_is_free
    /\ Goto(c, "none")
    /\ send_queue' = [send_queue EXCEPT ![c] = <<>>]
    /\ recv_queue' = [recv_queue EXCEPT ![c] = <<>>]
    /\ challenge' = [challenge EXCEPT ![c] = <<>>]
    /\ response' = [response EXCEPT ![c] = NoResponse]
    /\ mute' = [mute EXCEPT ![c] = FALSE]
    /\ con_lua_free(c)
    /\ UNCHANGED client

-----------------------------------------------------------------------------
Handle(c) ==
    \/ SendHandshake(c) \/ SendAuthResult(c) \/ SendQueryResult(c) \/ SendError(c) \/ ReadsEof(c)
    \/ server_con_init(c) \/ server_read_auth(c) \/ read_query_unseen(c) \/ read_query_starts(c)
    \/ register(c) \/ read_query_fails(c) \/ read_query_calls(c) \/ admin_disconnect_client(c)

Client(c) == Connect(c) \/ SendAuth(c) \/ SendQuery(c) \/ ClientCloses(c)

Files == (Edit \/ RemoveFile) /\ UNCHANGED conVars

Next == Files \/ \E c \in Conns : Handle(c) \/ Client(c)

\* The event loop comes back to a connection that can go on, and the mutex is handed over:
\* it is not always the same thread that gets it.
Fairness == \A c \in Conns : SF_vars(Handle(c))

Spec == Init /\ [][Next]_vars /\ Fairness

-----------------------------------------------------------------------------
\* A client is past the login only with the user name and the password of the
\* configuration, and with an answer to the challenge of its own connection
\* (server_read_auth() and the scramble of lib/mysql-password.c).
AdmittedByPassword ==
    \A c \in Conns : state[c] \in {"SEND_AUTH_RESULT", "READ_QUERY", "SEND_QUERY_RESULT"} =>
      /\ response[c].username = admin_username
      /\ response[c].password = admin_password
      /\ response[c].challenge = challenge[c]

\* A hook is called with proxy.* of its own connection, whichever connections ran hooks
\* before (the metatable of _G.proxy is re-pointed in register_callback()).
OwnProxy == \A c \in Conns : Holds(c, "call") => proxy = c /\ L[c] = c

\* A connection that sets its script up runs what is in the file, if the file is still as
\* stat() saw it: the cache never answers for a text that was replaced, also if the edit
\* came between an earlier stat() and the load (lua_scope_load_script()).
ScriptIsCurrent ==
    \A c \in Conns : Holds(c, "copy") /\ scope.st = Stamp => cached.func = file.content

\* A query is lost only if the script says so: while a client waits for its answer the
\* query is still to be read or an answer is on its way, whatever the script returned or
\* failed to, unless it returned PROXY_SEND_RESULT with a raw response of no packets
\* (server_read_query() and its returns from admin_lua_read_query()).
QueryNotDropped ==
    \A c \in Conns : client[c] = "asked" /\ state[c] # "none" /\ ~mute[c] =>
      recv_queue[c] # <<>> \/ send_queue[c] # <<>>

\* The same of every query, which the raw response of no packets refutes.
EveryQueryKept ==
    \A c \in Conns : client[c] = "asked" /\ state[c] # "none" =>
      recv_queue[c] # <<>> \/ send_queue[c] # <<>>

\* Every query a connection has got is answered, unless the client goes, the process dies
\* or the script answers with no packet (server_read_query()).
QueryIsAnswered ==
    \A c \in Conns : (state[c] = "READ_QUERY" /\ client[c] = "asked")
                      ~> (client[c] # "asked" \/ mute[c] \/ aborted)

\* "luaL_ref() moves the state into the registry and cleans up the global stack": the
\* registry refers to the thread of a connection for as long as the connection uses it.
ThreadsAnchored == \A c \in Conns : L[c] # NoCon => Anchored(c)

\* No assertion on the script cache or the stack of Lua fails, and no thread is used that
\* was collected.
NeverAborts == ~aborted
=============================================================================
