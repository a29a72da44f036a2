-------------------------------- MODULE AdminConProofs --------------------------------
(***************************************************************************)
(* The safety invariants of AdminCon, for any set of connections, user     *)
(* names, passwords and scripts.  First OwnProxy: a hook never sees        *)
(* proxy.* of another connection.                                          *)
(***************************************************************************)
EXTENDS AdminCon, TLAPS

\* The fields of the mutex, and what is kept from step to step: a holder that is about to
\* call the script has its own thread and _G.proxy points to it; a thread is that of its
\* connection.
IsScope(x) == x = [holder |-> x.holder, pc |-> x.pc, st |-> x.st]

ProxyInv ==
    /\ IsScope(scope)
    /\ L \in [Conns -> Conns \cup {NoCon}]
    /\ \A c \in Conns : L[c] \in {c, NoCon}
    /\ \A c \in Conns : scope.holder = c /\ scope.pc = "call" => proxy = c /\ L[c] = c

\* Steps that touch nothing of the scope.
LEMMA ElsewhereKeepsProxyInv == ProxyInv /\ UNCHANGED <<L, scope, proxy>> => ProxyInv'
BY DEF ProxyInv

LEMMA ScopeMovesOn ==
    ASSUME ProxyInv, UNCHANGED <<L, proxy>>, IsScope(scope'), scope'.pc # "call" PROVE ProxyInv'
BY DEF ProxyInv

LEMMA ProceedIsScope ==
    ASSUME ProxyInv, NEW pc, Proceed(pc)
    PROVE  IsScope(scope') /\ scope'.pc = pc /\ scope'.holder = scope.holder
BY DEF ProxyInv, Proceed, IsScope

LEMMA InitProxyInv == Init => ProxyInv
<1> SUFFICES ASSUME Init PROVE ProxyInv
  OBVIOUS
<1>1. L = [c \in Conns |-> NoCon] /\ scope.pc = "free" /\ IsScope(scope)
  BY DEF Init, LuaInit, Free, IsScope
<1> QED BY <1>1 DEF ProxyInv

\* register_callback() keeps it: every way to the call goes through pointing _G.proxy at
\* the holder.
LEMMA RegisterKeepsProxyInv ==
    ASSUME NEW c \in Conns, ProxyInv, register_callback(c) PROVE ProxyInv'
<1>1. CASE register_again(c)
  <2>1. CASE point_proxy(c) /\ Proceed("call")
    <3>1. L[c] = c /\ UNCHANGED L /\ proxy' = c /\ scope.holder = c
      BY <1>1, <2>1 DEF register_again, point_proxy, Holds, ProxyInv
    <3> QED BY <2>1, <3>1, ProceedIsScope DEF ProxyInv
  <2>2. CASE UNCHANGED <<proxy, scope>>
    BY <1>1, <2>2, ElsewhereKeepsProxyInv DEF register_again
  <2> QED BY <1>1, <2>1, <2>2 DEF register_again
<1>2. CASE register_load(c)
  BY <1>2, ScopeMovesOn, ProceedIsScope DEF register_load
<1>3. CASE stat_script(c)
  <2>1. IsScope(scope') /\ scope'.pc \in {"load_failed", "copy", "load_file"}
    BY <1>3, ProceedIsScope, ZenonT(60) DEF stat_script, ProxyInv, IsScope
  <2> QED BY <1>3, <2>1, ScopeMovesOn DEF stat_script
<1>4. CASE load_file(c)
  <2>1. CASE UNCHANGED scope
    BY <1>4, <2>1, ElsewhereKeepsProxyInv DEF load_file
  <2>2. CASE Proceed("load_failed") \/ Proceed("copy")
    BY <1>4, <2>2, ScopeMovesOn, ProceedIsScope DEF load_file
  <2> QED BY <1>4, <2>1, <2>2 DEF load_file
<1>5. CASE copy_script(c)
  <2>1. CASE UNCHANGED scope
    BY <1>5, <2>1, ElsewhereKeepsProxyInv DEF copy_script
  <2>2. CASE Proceed("setup")
    BY <1>5, <2>2, ScopeMovesOn, ProceedIsScope DEF copy_script
  <2> QED BY <1>5, <2>1, <2>2 DEF copy_script
<1>6. CASE register_setup(c)
  <2>1. scope.holder = c /\ proxy' = c
    BY <1>6 DEF register_setup, Holds
  <2>2. CASE L' = [L EXCEPT ![c] = c] /\ Proceed("call")
    BY <2>1, <2>2, ProceedIsScope DEF ProxyInv
  <2>3. CASE Proceed("execute_failed") /\ UNCHANGED L
    BY <2>1, <2>3, ProceedIsScope DEF ProxyInv
  <2> QED BY <1>6, <2>2, <2>3 DEF register_setup
<1> QED BY <1>1, <1>2, <1>3, <1>4, <1>5, <1>6 DEF register_callback

\* A connection is cleaned up only while nobody is in a hook.
LEMMA CleanupKeepsProxyInv ==
    ASSUME NEW c \in Conns, ProxyInv, admin_disconnect_client(c) PROVE ProxyInv'
<1>1. scope.holder = NoCon /\ UNCHANGED <<scope, proxy>> /\ L' = [L EXCEPT ![c] = NoCon]
  BY DEF admin_disconnect_client, con_lua_free, scope_is_free
<1> QED BY <1>1, LuaScopeAssumption DEF ProxyInv

LEMMA HandleKeepsProxyInv ==
    ASSUME NEW c \in Conns, ProxyInv, Handle(c) PROVE ProxyInv'
<1>1. CASE register(c)
  BY <1>1, RegisterKeepsProxyInv DEF register
<1>2. CASE admin_disconnect_client(c)
  BY <1>2, CleanupKeepsProxyInv
<1>3. CASE read_query_starts(c)
  BY <1>3, ScopeMovesOn, ZenonT(60) DEF read_query_starts, scope_get, Free, IsScope
<1>4. CASE read_query_fails(c) \/ read_query_calls(c)
  BY <1>4, ScopeMovesOn DEF read_query_fails, read_query_calls, scope_release, Free, IsScope
<1>5. CASE UNCHANGED luaVars
  BY <1>5, ElsewhereKeepsProxyInv DEF luaVars
<1> QED
  BY <1>1, <1>2, <1>3, <1>4, <1>5
  DEF Handle, SendHandshake, SendAuthResult, SendQueryResult, SendError, ReadsEof,
      server_con_init, server_read_auth, read_query_unseen

LEMMA NextKeepsProxyInv == ProxyInv /\ [Next]_vars => ProxyInv'
<1> SUFFICES ASSUME ProxyInv, [Next]_vars PROVE ProxyInv'
  OBVIOUS
<1>1. CASE Files
  BY <1>1, ElsewhereKeepsProxyInv, ZenonT(60) DEF Files, Edit, RemoveFile
<1>2. ASSUME NEW c \in Conns, Handle(c) PROVE ProxyInv'
  BY <1>2, HandleKeepsProxyInv
<1>3. ASSUME NEW c \in Conns, Client(c) PROVE ProxyInv'
  BY <1>3, ElsewhereKeepsProxyInv, ZenonT(60) DEF Client, Connect, SendAuth, SendQuery, ClientCloses, luaVars
<1>4. CASE UNCHANGED vars
  BY <1>4, ElsewhereKeepsProxyInv DEF vars, luaVars
<1> QED BY <1>1, <1>2, <1>3, <1>4 DEF Next

\* Every hook runs with proxy.* of its own connection, however many connections share the
\* Lua state and whatever happens to the script file meanwhile: each way through
\* network_mysqld_con_lua_register_callback() points _G.proxy at the connection first.
THEOREM HooksSeeTheirOwnProxy == Spec => []OwnProxy
<1>1. Init => ProxyInv
  BY InitProxyInv
<1>2. ProxyInv /\ [Next]_vars => ProxyInv'
  BY NextKeepsProxyInv
<1>3. ProxyInv => OwnProxy
  BY DEF ProxyInv, OwnProxy, Holds
<1> QED BY <1>1, <1>2, <1>3, PTL DEF Spec

-----------------------------------------------------------------------------
(***************************************************************************)
(* ScriptIsCurrent, where every edit of the script shows in its stamp.     *)
(***************************************************************************)
\* A stamp that stat() made now or earlier: stamps grow, first by mtime and then by size.
Earlier(st) ==
    /\ st = [mtime |-> st.mtime, size |-> st.size] /\ st.mtime \in Nat /\ st.size \in Nat
    /\ st.mtime < file.mtime \/ (st.mtime = file.mtime /\ st.size <= file.content.size)

FileOK ==
    /\ file = [exists |-> file.exists, mtime |-> file.mtime, content |-> file.content]
    /\ file.mtime \in Nat /\ file.content \in Contents

\* The cache and the stat() of the holder are from now or earlier.  Only the text that is in
\* the file now is kept under the stamp that the file has now.
CacheInv ==
    /\ FileOK /\ IsScope(scope)
    /\ cached = [known |-> cached.known, stamp |-> cached.stamp, func |-> cached.func]
    /\ Earlier(cached.stamp) /\ Earlier(scope.st)
    /\ cached.known /\ cached.stamp = Stamp => cached.func = file.content
    /\ scope.pc = "copy" /\ scope.st = Stamp => cached.func = file.content

LEMMA InitCacheInv == Init => CacheInv
<1> SUFFICES ASSUME Init PROVE CacheInv
  OBVIOUS
<1>1. /\ scope = [holder |-> NoCon, pc |-> "free", st |-> [mtime |-> 0, size |-> 0]]
      /\ cached = [known |-> FALSE, stamp |-> [mtime |-> 0, size |-> 0], func |-> NoFunc]
  BY DEF Init, LuaInit, Free
<1>2. PICK s \in Contents : file = [exists |-> TRUE, mtime |-> 0, content |-> s]
  BY Zenon DEF Init, LuaInit
<1>3. s.size \in Nat
  BY LuaScopeAssumption
<1>4. FileOK
  BY <1>2 DEF FileOK
<1>5. Earlier([mtime |-> 0, size |-> 0])
  BY <1>2, <1>3 DEF Earlier
<1> QED BY <1>1, <1>4, <1>5 DEF CacheInv, IsScope

\* Nothing of it depends on more than this.
LEMMA ElsewhereKeepsCacheInv == CacheInv /\ UNCHANGED <<file, cached, scope>> => CacheInv'
BY Zenon DEF CacheInv, FileOK, Earlier, Stamp

\* A holder that goes on without a new stat(), to anything but the copy.
LEMMA ProceedKeepsCacheInv ==
    ASSUME CacheInv, UNCHANGED <<file, cached>>, NEW pc, Proceed(pc), pc # "copy"
    PROVE  CacheInv'
<1>1. IsScope(scope') /\ scope'.pc = pc /\ scope'.st = scope.st
  BY DEF CacheInv, Proceed, IsScope
<1> QED BY <1>1 DEF CacheInv, FileOK, Earlier, Stamp

LEMMA FreshScopeKeepsCacheInv ==
    ASSUME CacheInv, UNCHANGED <<file, cached>>, NEW h, NEW pc, pc # "copy",
           scope' = [holder |-> h, pc |-> pc, st |-> [mtime |-> 0, size |-> 0]]
    PROVE  CacheInv'
<1>1. file.mtime \in Nat /\ file.content.size \in Nat
  BY LuaScopeAssumption DEF CacheInv, FileOK
<1>2. IsScope(scope') /\ scope'.pc = pc /\ scope'.st = [mtime |-> 0, size |-> 0]
  BY DEF IsScope
<1>3. Earlier([mtime |-> 0, size |-> 0])
  BY <1>1 DEF Earlier
<1>4. Earlier(scope.st)'
  BY <1>2, <1>3 DEF Earlier
<1> QED BY <1>2, <1>4 DEF CacheInv, FileOK, Earlier, Stamp

\* An edit makes every stamp of before an old one.
LEMMA EditKeepsCacheInv ==
    ASSUME EditsShow, CacheInv, Edit PROVE CacheInv'
<1>1. PICK s \in Contents, m \in 0..MaxMtime :
        /\ m >= file.mtime /\ (m > file.mtime \/ s.size > file.content.size)
        /\ file' = [file EXCEPT !.mtime = m, !.content = s]
  BY Zenon DEF Edit
<1>2. file' = [exists |-> file.exists, mtime |-> m, content |-> s]
  BY <1>1, Zenon DEF CacheInv, FileOK
<1>3. m \in Nat /\ file.mtime \in Nat /\ s.size \in Nat /\ file.content.size \in Nat
  BY LuaScopeAssumption DEF CacheInv, FileOK
<1>4. FileOK' /\ Stamp' = [mtime |-> m, size |-> s.size]
  BY <1>2, <1>3 DEF FileOK, Stamp
<1>5. file'.mtime = m /\ file'.content = s
  BY <1>2
<1>6. ASSUME NEW st, Earlier(st)
      PROVE  /\ st.mtime \in Nat /\ st.size \in Nat
             /\ st.mtime < m \/ (st.mtime = m /\ st.size < s.size)
  BY <1>1, <1>3, <1>6 DEF Earlier
<1>7. Earlier(cached.stamp) /\ Earlier(scope.st) /\ UNCHANGED <<cached, scope>>
  BY DEF CacheInv, Edit
<1>8. cached.stamp # Stamp' /\ Earlier(cached.stamp)'
  BY <1>3, <1>4, <1>5, <1>6, <1>7 DEF Earlier
<1>9. scope.st # Stamp' /\ Earlier(scope.st)'
  BY <1>3, <1>4, <1>5, <1>6, <1>7 DEF Earlier
<1> QED BY <1>4, <1>7, <1>8, <1>9 DEF CacheInv

LEMMA RemoveKeepsCacheInv == CacheInv /\ RemoveFile => CacheInv'
<1> SUFFICES ASSUME CacheInv, RemoveFile PROVE CacheInv'
  OBVIOUS
<1>1. UNCHANGED <<cached, scope>> /\ file' = [file EXCEPT !.exists = ~@]
  BY DEF RemoveFile
<1>2. file' = [exists |-> ~file.exists, mtime |-> file.mtime, content |-> file.content]
  BY <1>1 DEF CacheInv, FileOK
<1>3. FileOK' /\ file'.mtime = file.mtime /\ file'.content = file.content
  BY <1>2 DEF CacheInv, FileOK
<1> QED BY <1>1, <1>3 DEF CacheInv, Earlier, Stamp

\* stat(): the cached function is used only under the stamp that the file has.
LEMMA StatKeepsCacheInv ==
    ASSUME NEW c \in Conns, CacheInv, stat_script(c) PROVE CacheInv'
<1>0. file.mtime \in Nat /\ file.content.size \in Nat /\ UNCHANGED file
  BY LuaScopeAssumption DEF CacheInv, FileOK, stat_script
<1>1. CASE Proceed("load_failed") /\ UNCHANGED cached
  BY <1>0, <1>1, ProceedKeepsCacheInv
<1>2. CASE cache_is_fresh /\ scope' = [scope EXCEPT !.pc = "copy", !.st = Stamp] /\ UNCHANGED cached
  <2>1. scope' = [holder |-> scope.holder, pc |-> "copy", st |-> Stamp]
    BY <1>2, Zenon DEF CacheInv, IsScope
  <2>2. cached.func = file.content
    BY <1>2 DEF CacheInv, cache_is_fresh
  <2>3. Earlier(Stamp)
    BY <1>0 DEF Earlier, Stamp
  <2>4. IsScope(scope') /\ scope'.st = Stamp
    BY <2>1 DEF IsScope
  <2> QED BY <1>0, <1>2, <2>2, <2>3, <2>4 DEF CacheInv, FileOK, Earlier, Stamp
<1>3. CASE /\ ~cache_is_fresh /\ scope' = [scope EXCEPT !.pc = "load_file", !.st = Stamp]
           /\ cached' = [cached EXCEPT !.func = NoFunc]
  <2>1. scope' = [holder |-> scope.holder, pc |-> "load_file", st |-> Stamp]
    BY <1>3, Zenon DEF CacheInv, IsScope
  <2>2. cached' = [known |-> cached.known, stamp |-> cached.stamp, func |-> NoFunc]
    BY <1>3 DEF CacheInv
  <2>3. Earlier(Stamp)
    BY <1>0 DEF Earlier, Stamp
  <2>4. IsScope(scope') /\ scope'.st = Stamp /\ scope'.pc # "copy"
    BY <2>1 DEF IsScope
  <2>5. /\ cached'.known = cached.known /\ cached'.stamp = cached.stamp
        /\ cached' = [known |-> cached'.known, stamp |-> cached'.stamp, func |-> cached'.func]
    BY <2>2
  <2>6. ~(cached'.known /\ cached'.stamp = Stamp)
    BY <1>3, <2>5 DEF cache_is_fresh
  <2> QED BY <1>0, <2>3, <2>4, <2>5, <2>6 DEF CacheInv, FileOK, Earlier, Stamp
<1> QED BY <1>1, <1>2, <1>3 DEF stat_script

\* The load: what is read now is kept under the stamp of the stat() before.
LEMMA LoadKeepsCacheInv ==
    ASSUME NEW c \in Conns, CacheInv, load_file(c) PROVE CacheInv'
<1>1. CASE UNCHANGED <<cached, scope>>
  BY <1>1, ElsewhereKeepsCacheInv DEF load_file
<1>2. CASE Proceed("load_failed") /\ UNCHANGED cached
  BY <1>2, ProceedKeepsCacheInv DEF load_file
<1>3. CASE cached' = [known |-> TRUE, stamp |-> scope.st, func |-> file.content] /\ Proceed("copy")
  <2>1. IsScope(scope') /\ scope'.st = scope.st
    BY <1>3 DEF CacheInv, Proceed, IsScope
  <2>2. /\ cached'.stamp = scope.st /\ cached'.func = file.content
        /\ cached' = [known |-> cached'.known, stamp |-> cached'.stamp, func |-> cached'.func]
    BY <1>3
  <2>3. UNCHANGED file
    BY DEF load_file
  <2> QED BY <2>1, <2>2, <2>3 DEF CacheInv, FileOK, Earlier, Stamp
<1> QED BY <1>1, <1>2, <1>3 DEF load_file

LEMMA RegisterKeepsCacheInv ==
    ASSUME NEW c \in Conns, CacheInv, register_callback(c) PROVE CacheInv'
<1>1. CASE register_again(c) \/ register_load(c) \/ register_setup(c) \/ copy_script(c)
  <2>1. UNCHANGED <<file, cached>>
    BY <1>1 DEF register_again, register_load, register_setup, copy_script
  <2>2. UNCHANGED scope \/ \E pc \in {"call", "load_script", "execute_failed", "setup"} : Proceed(pc)
    BY <1>1 DEF register_again, register_load, register_setup, copy_script
  <2> QED BY <2>1, <2>2, ElsewhereKeepsCacheInv, ProceedKeepsCacheInv
<1> QED BY <1>1, StatKeepsCacheInv, LoadKeepsCacheInv DEF register_callback

LEMMA NextKeepsCacheInv ==
    ASSUME EditsShow, CacheInv, [Next]_vars PROVE CacheInv'
<1>1. CASE Files
  BY <1>1, EditKeepsCacheInv, RemoveKeepsCacheInv DEF Files
<1>2. ASSUME NEW c \in Conns, register(c) PROVE CacheInv'
  BY <1>2, RegisterKeepsCacheInv, ZenonT(60) DEF register
<1>3. ASSUME NEW c \in Conns, read_query_starts(c) PROVE CacheInv'
  <2>1. scope' = [holder |-> c, pc |-> "register", st |-> [mtime |-> 0, size |-> 0]]
    BY <1>3, ZenonT(60) DEF read_query_starts, scope_get, Free
  <2> QED BY <1>3, <2>1, FreshScopeKeepsCacheInv DEF read_query_starts
<1>4. ASSUME NEW c \in Conns, read_query_fails(c) \/ read_query_calls(c) PROVE CacheInv'
  <2>1. scope' = [holder |-> NoCon, pc |-> "free", st |-> [mtime |-> 0, size |-> 0]]
    BY <1>4 DEF read_query_fails, read_query_calls, scope_release, Free
  <2> QED BY <1>4, <2>1, FreshScopeKeepsCacheInv DEF read_query_fails, read_query_calls
<1>5. ASSUME NEW c \in Conns, admin_disconnect_client(c) PROVE CacheInv'
  BY <1>5, ElsewhereKeepsCacheInv DEF admin_disconnect_client, con_lua_free
<1>6. CASE UNCHANGED luaVars
  BY <1>6, ElsewhereKeepsCacheInv DEF luaVars
<1>7. ASSUME NEW c \in Conns, Handle(c), ~register(c), ~read_query_starts(c), ~read_query_fails(c),
             ~read_query_calls(c), ~admin_disconnect_client(c)
      PROVE  UNCHANGED luaVars
  BY <1>7, Zenon DEF Handle, SendHandshake, SendAuthResult, SendQueryResult, SendError, ReadsEof,
     server_con_init, server_read_auth, read_query_unseen
<1>8. ASSUME NEW c \in Conns, Client(c) PROVE UNCHANGED luaVars
  BY <1>8, Zenon DEF Client, Connect, SendAuth, SendQuery, ClientCloses
<1>9. CASE UNCHANGED vars
  BY <1>6, <1>9 DEF vars
<1> QED BY <1>1, <1>2, <1>3, <1>4, <1>5, <1>6, <1>7, <1>8, <1>9 DEF Next

\* Where no edit keeps or brings back both the size and the mtime of the script, the cache
\* never answers for a text that was replaced, whenever the edits come and however many
\* connections load: the stamp that lua_scope_load_script() keeps with a function is from
\* before the load, so an edit in between can only make it look old.
THEOREM CacheIsNeverStale ==
    ASSUME EditsShow PROVE Spec => []ScriptIsCurrent
<1>1. Init => CacheInv
  BY InitCacheInv
<1>2. CacheInv /\ [Next]_vars => CacheInv'
  BY NextKeepsCacheInv
<1>3. CacheInv => ScriptIsCurrent
  BY DEF CacheInv, ScriptIsCurrent, Holds
<1> QED BY <1>1, <1>2, <1>3, PTL DEF Spec

-----------------------------------------------------------------------------
(***************************************************************************)
(* AdmittedByPassword and QueryNotDropped.                                 *)
(***************************************************************************)
Past == {"SEND_AUTH_RESULT", "READ_QUERY", "SEND_QUERY_RESULT"}

IsFunction(f) == f = [c \in Conns |-> f[c]]

ConTypes ==
    /\ IsFunction(state) /\ IsFunction(challenge) /\ IsFunction(response) /\ IsFunction(client)
    /\ IsFunction(recv_queue) /\ IsFunction(mute)
    /\ send_queue \in [Conns -> Seq({"challenge", "OK", "ERR", "result"})]

\* What holds of the login of a connection.  Until the client has been let in it has nothing
\* to send but its one answer to the challenge; it is the answer that made the connection go
\* on; and the connection whose query a hook is looking at is past the login.
LoginOK(c) ==
    /\ state[c] \notin {"none", "INIT"} => challenge[c] = Challenge[c]
    /\ state[c] \in {"none", "INIT", "SEND_HANDSHAKE"} => recv_queue[c] = <<>>
    /\ state[c] \in {"INIT", "SEND_HANDSHAKE"} => client[c] \in {"greeted", "gone"}
    /\ state[c] = "READ_AUTH" =>
         /\ client[c] \in {"greeted", "login", "logging in", "gone"}
         /\ recv_queue[c] = <<>> \/ \E r \in ClientResponse(c) : recv_queue[c] = <<r>>
    /\ scope.holder = c => state[c] = "READ_QUERY"
    /\ state[c] \in Past =>
         /\ response[c].username = admin_username
         /\ response[c].password = admin_password
         /\ response[c].challenge = challenge[c]
    /\ client[c] = "asked" /\ state[c] # "none" /\ ~mute[c] =>
         recv_queue[c] # <<>> \/ send_queue[c] # <<>>

LoginInv == ConTypes /\ \A c \in Conns : LoginOK(c)

\* The scramble tells passwords and challenges apart.
LEMMA ScrambleIsInjective ==
    ASSUME NEW c \in Conns, NEW d \in Conns, NEW p \in Passwords,
           password_scramble(Challenge[c], password_hash(admin_password))
             = password_scramble(Challenge[d], password_hash(p))
    PROVE  p = admin_password /\ d = c
<1> DEFINE term(e, q) == <<Challenge20(Challenge[e]), SHA1(password_hash(q))>>
<1>1. admin_password \in Passwords
  BY AdminAssumption
<1>2. \A e \in Conns, q, r \in Passwords : r # term(e, q)
  BY AdminAssumption
<1>3. ASSUME NEW e \in Conns, NEW q \in Passwords
      PROVE  password_scramble(Challenge[e], password_hash(q)) = {<<"SHA1", term(e, q)>>, <<"SHA1", q>>}
  <2> HIDE DEF term
  <2>1. <<"SHA1", term(e, q)>> # <<"SHA1", q>>
    BY <1>2, <1>3
  <2>2. XOR({<<"SHA1", term(e, q)>>}, {<<"SHA1", q>>}) = {<<"SHA1", term(e, q)>>, <<"SHA1", q>>}
    BY <2>1 DEF XOR
  <2>3. password_scramble(Challenge[e], password_hash(q)) = XOR(SHA1(term(e, q)), SHA1(q))
    BY DEF password_scramble, password_hash, term
  <2> QED BY <2>2, <2>3 DEF SHA1
<1>4. {<<"SHA1", term(c, admin_password)>>, <<"SHA1", admin_password>>}
        = {<<"SHA1", term(d, p)>>, <<"SHA1", p>>}
  BY <1>1, <1>3
<1>5. p = admin_password /\ term(c, admin_password) = term(d, p)
  <2> HIDE DEF term
  <2>1. p # term(c, admin_password) /\ admin_password # term(d, p)
    BY <1>1, <1>2
  <2>2. \A x, y : <<"SHA1", x>> = <<"SHA1", y>> => x = y
    OBVIOUS
  <2>3. /\ <<"SHA1", p>> \in {<<"SHA1", term(c, admin_password)>>, <<"SHA1", admin_password>>}
        /\ <<"SHA1", term(c, admin_password)>> \in {<<"SHA1", term(d, p)>>, <<"SHA1", p>>}
    BY <1>4, Zenon
  <2>4. /\ <<"SHA1", p>> = <<"SHA1", admin_password>>
        /\ <<"SHA1", term(c, admin_password)>> = <<"SHA1", term(d, p)>>
    BY <2>1, <2>2, <2>3, Zenon
  <2> QED BY <2>2, <2>4, Zenon
<1>6. Challenge20(Challenge[c]) = Challenge20(Challenge[d])
  BY <1>5
<1> QED BY <1>5, <1>6, AdminAssumption

\* So an answer that matches is one to the challenge of this connection, with the password.
LEMMA MatchingAnswer ==
    ASSUME NEW c \in Conns, NEW auth \in ClientResponse(c), auth.v41, auth.username = admin_username,
           challenge[c] = Challenge[c], AuthMatches(c, auth)
    PROVE  auth.password = admin_password /\ auth.challenge = challenge[c]
<1>1. PICK u \in Usernames, p \in Passwords, d \in Conns :
        auth = [decodes |-> TRUE, v41 |-> TRUE, username |-> u, password |-> p,
                challenge |-> Challenge[d],
                auth_plugin_data |-> password_scramble(Challenge[d], password_hash(p))]
  <2>1. auth # NoResponse /\ auth # [NoResponse EXCEPT !.decodes = TRUE]
    BY DEF NoResponse
  <2> QED BY <2>1, AdminAssumption DEF ClientResponse
<1>2. password_scramble(Challenge[c], password_hash(admin_password))
        = password_scramble(Challenge[d], password_hash(p))
  BY <1>1 DEF AuthMatches
<1>3. p = admin_password /\ d = c
  BY <1>2, ScrambleIsInjective
<1> QED BY <1>1, <1>3

LEMMA SendQueueUpdated ==
    ASSUME ConTypes, NEW c \in Conns, NEW q \in Seq({"challenge", "OK", "ERR", "result"}),
           send_queue' = [send_queue EXCEPT ![c] = q]
    PROVE  /\ send_queue' \in [Conns -> Seq({"challenge", "OK", "ERR", "result"})]
           /\ send_queue'[c] = q
           /\ \A d \in Conns \ {c} : send_queue'[d] = send_queue[d]
BY DEF ConTypes

LEMMA Queued ==
    ASSUME ConTypes, NEW c \in Conns, NEW p \in {"challenge", "OK", "ERR", "result"}, Queue(c, p)
    PROVE  /\ send_queue' \in [Conns -> Seq({"challenge", "OK", "ERR", "result"})]
           /\ send_queue'[c] # <<>>
           /\ \A d \in Conns \ {c} : send_queue'[d] = send_queue[d]
<1>1. send_queue[c] \in Seq({"challenge", "OK", "ERR", "result"})
  BY DEF ConTypes
<1>2. /\ Append(send_queue[c], p) \in Seq({"challenge", "OK", "ERR", "result"})
      /\ Append(send_queue[c], p) # <<>>
  BY <1>1
<1>3. send_queue' = [send_queue EXCEPT ![c] = Append(send_queue[c], p)]
  BY DEF Queue
<1> QED BY <1>2, <1>3, SendQueueUpdated, Zenon

Same(d) ==
    /\ state'[d] = state[d] /\ challenge'[d] = challenge[d] /\ response'[d] = response[d]
    /\ send_queue'[d] = send_queue[d] /\ recv_queue'[d] = recv_queue[d] /\ client'[d] = client[d]
    /\ mute'[d] = mute[d]

\* A step of connection c: the others are left alone.
LEMMA StepOfOne ==
    ASSUME LoginInv, NEW c \in Conns, ConTypes', LoginOK(c)', \A d \in Conns \ {c} : Same(d),
           scope'.holder \in {scope.holder, c, NoCon}
    PROVE  LoginInv'
<1>1. ASSUME NEW d \in Conns, d # c PROVE LoginOK(d)'
  <2>1. LoginOK(d) /\ Same(d) /\ (scope'.holder = d => scope.holder = d)
    BY <1>1, LuaScopeAssumption DEF LoginInv
  <2> QED BY <2>1, Zenon DEF LoginOK, Same, ClientResponse
<1> QED BY <1>1 DEF LoginInv

LEMMA ElsewhereKeepsLoginInv ==
    ASSUME LoginInv, UNCHANGED conVars, scope'.holder \in {scope.holder, NoCon} PROVE LoginInv'
<1>1. ConTypes'
  BY Zenon DEF LoginInv, ConTypes, conVars, IsFunction
<1>2. ASSUME NEW d \in Conns PROVE LoginOK(d)'
  <2>1. LoginOK(d) /\ Same(d) /\ (scope'.holder = d => scope.holder = d)
    BY LuaScopeAssumption DEF LoginInv, conVars, Same
  <2> QED BY <2>1, Zenon DEF LoginOK, Same, ClientResponse
<1> QED BY <1>1, <1>2 DEF LoginInv

LEMMA InitLoginInv == Init => LoginInv
<1> SUFFICES ASSUME Init PROVE LoginInv
  OBVIOUS
<1>1. ConTypes
  BY DEF Init, ConTypes, IsFunction
<1>2. scope.holder = NoCon
  BY DEF Init, LuaInit, Free
<1>3. ASSUME NEW c \in Conns PROVE LoginOK(c)
  BY <1>2, LuaScopeAssumption DEF Init, LoginOK, Past
<1> QED BY <1>1, <1>3 DEF LoginInv

\* What a client does.
LEMMA ClientKeepsLoginInv ==
    ASSUME LoginInv, NEW c \in Conns, Client(c) PROVE LoginInv'
<1>0. UNCHANGED <<scope, challenge, response, send_queue, mute>>
  BY Zenon DEF Client, Connect, SendAuth, SendQuery, ClientCloses, luaVars
<1>t. ConTypes /\ LoginOK(c)
  BY DEF LoginInv
<1>1. CASE Connect(c)
  <2>1. /\ IsFunction(state') /\ state'[c] = "INIT" /\ \A d \in Conns \ {c} : state'[d] = state[d]
        /\ IsFunction(client') /\ client'[c] = "greeted"
        /\ \A d \in Conns \ {c} : client'[d] = client[d]
        /\ UNCHANGED recv_queue
    <3>1. state' = [state EXCEPT ![c] = "INIT"] /\ client' = [client EXCEPT ![c] = "greeted"]
      BY <1>1 DEF Connect, Goto
    <3>2. UNCHANGED recv_queue /\ IsFunction(state) /\ IsFunction(client)
      BY <1>1, <1>t DEF Connect, ConTypes
    <3> QED BY <3>1, <3>2, Zenon DEF IsFunction
  <2>2. ConTypes' /\ \A d \in Conns \ {c} : Same(d)
    BY <1>0, <1>t, <2>1, Zenon DEF ConTypes, Same
  <2>3. state[c] = "none"
    BY <1>1 DEF Connect, At
  <2>4. LoginOK(c)'
    BY <1>0, <1>t, <2>1, <2>3 DEF LoginOK, Past
  <2> QED BY <1>0, <2>2, <2>4, StepOfOne
<1>2. CASE SendAuth(c)
  <2>0. PICK r \in ClientResponse(c) : recv_queue' = [recv_queue EXCEPT ![c] = <<r>>]
    BY <1>2, Zenon DEF SendAuth
  <2>1. /\ IsFunction(recv_queue') /\ recv_queue'[c] = <<r>>
        /\ \A d \in Conns \ {c} : recv_queue'[d] = recv_queue[d]
        /\ IsFunction(client') /\ client'[c] = "logging in"
        /\ \A d \in Conns \ {c} : client'[d] = client[d]
        /\ UNCHANGED state
    <3>1. client' = [client EXCEPT ![c] = "logging in"] /\ UNCHANGED state
      BY <1>2, Zenon DEF SendAuth
    <3>2. IsFunction(recv_queue) /\ IsFunction(client)
      BY <1>t DEF ConTypes
    <3> QED BY <2>0, <3>1, <3>2, Zenon DEF IsFunction
  <2>2. ConTypes' /\ \A d \in Conns \ {c} : Same(d)
    BY <1>0, <1>t, <2>1, Zenon DEF ConTypes, Same
  <2>3. client[c] = "login" /\ state[c] # "none"
    BY <1>2, Zenon DEF SendAuth
  <2>4. LoginOK(c)'
    BY <1>0, <1>t, <2>1, <2>3, Zenon DEF LoginOK, ClientResponse
  <2> QED BY <1>0, <2>2, <2>4, StepOfOne
<1>3. CASE SendQuery(c)
  <2>0. PICK q \in {"query", "unseen"} : recv_queue' = [recv_queue EXCEPT ![c] = <<q>>]
    BY <1>3, Zenon DEF SendQuery
  <2>1. /\ IsFunction(recv_queue') /\ recv_queue'[c] = <<q>>
        /\ \A d \in Conns \ {c} : recv_queue'[d] = recv_queue[d]
        /\ IsFunction(client') /\ client'[c] = "asked"
        /\ \A d \in Conns \ {c} : client'[d] = client[d]
        /\ UNCHANGED state
    <3>1. client' = [client EXCEPT ![c] = "asked"] /\ UNCHANGED state
      BY <1>3 DEF SendQuery
    <3>2. IsFunction(recv_queue) /\ IsFunction(client)
      BY <1>t DEF ConTypes
    <3> QED BY <2>0, <3>1, <3>2, Zenon DEF IsFunction
  <2>2. ConTypes' /\ \A d \in Conns \ {c} : Same(d)
    BY <1>0, <1>t, <2>1, Zenon DEF ConTypes, Same
  <2>3. client[c] = "ready" /\ state[c] # "none" /\ recv_queue'[c] # <<>>
    BY <1>3, <2>1 DEF SendQuery
  <2>4. LoginOK(c)'
    BY <1>0, <1>t, <2>1, <2>3, Zenon DEF LoginOK
  <2> QED BY <1>0, <2>2, <2>4, StepOfOne
<1>4. CASE ClientCloses(c)
  <2>1. /\ IsFunction(client') /\ client'[c] = "gone"
        /\ \A d \in Conns \ {c} : client'[d] = client[d]
        /\ UNCHANGED <<state, recv_queue>>
    <3>1. client' = [client EXCEPT ![c] = "gone"] /\ UNCHANGED <<state, recv_queue>>
      BY <1>4 DEF ClientCloses
    <3>2. IsFunction(client)
      BY <1>t DEF ConTypes
    <3> QED BY <3>1, <3>2 DEF IsFunction
  <2>2. ConTypes' /\ \A d \in Conns \ {c} : Same(d)
    BY <1>0, <1>t, <2>1, Zenon DEF ConTypes, Same
  <2>4. LoginOK(c)'
    BY <1>0, <1>t, <2>1, Zenon DEF LoginOK, ClientResponse
  <2> QED BY <1>0, <2>2, <2>4, StepOfOne
<1> QED BY <1>1, <1>2, <1>3, <1>4 DEF Client

LEMMA WhatIsReceived ==
    ASSUME NEW c \in Conns
    PROVE  /\ Received(c) # "asked"
           /\ client[c] = "greeted" => Received(c) = "login"
           /\ client[c] = "gone" => Received(c) = "gone"
BY Zenon DEF Received

\* The states that write: what the client got decides what it does next.
LEMMA WriteKeepsLoginInv ==
    ASSUME LoginInv, NEW c \in Conns, NEW next, Write(c, next),
           UNCHANGED <<challenge, response, recv_queue, mute, scope>>,
           \/ state[c] = "SEND_HANDSHAKE" /\ next = "READ_AUTH"
           \/ state[c] \in {"SEND_AUTH_RESULT", "SEND_QUERY_RESULT"} /\ next = "READ_QUERY"
           \/ state[c] = "SEND_ERROR" /\ next = "CLOSE_CLIENT"
    PROVE  LoginInv'
<1>t. ConTypes /\ LoginOK(c) /\ IsFunction(state) /\ IsFunction(client)
  BY Zenon DEF LoginInv, ConTypes
<1>1. CASE /\ client' = [client EXCEPT ![c] = IF send_queue[c] = <<>> THEN @ ELSE Received(c)]
           /\ send_queue' = [send_queue EXCEPT ![c] = <<>>] /\ Goto(c, next)
  <2>1. /\ IsFunction(client') /\ \A d \in Conns \ {c} : client'[d] = client[d]
        /\ client'[c] = IF send_queue[c] = <<>> THEN client[c] ELSE Received(c)
    BY <1>1, <1>t, Zenon DEF IsFunction
  <2>2. /\ IsFunction(state') /\ \A d \in Conns \ {c} : state'[d] = state[d]
        /\ state'[c] = next
    BY <1>1, <1>t, Zenon DEF IsFunction, Goto
  <2>3. /\ send_queue' \in [Conns -> Seq({"challenge", "OK", "ERR", "result"})]
        /\ \A d \in Conns \ {c} : send_queue'[d] = send_queue[d]
    <3>1. <<>> \in Seq({"challenge", "OK", "ERR", "result"})
      OBVIOUS
    <3> QED BY <1>1, <1>t, <3>1, SendQueueUpdated, Zenon
  <2>4. ConTypes' /\ \A d \in Conns \ {c} : Same(d)
    BY <1>t, <2>1, <2>2, <2>3, Zenon DEF ConTypes, Same
  <2>5. /\ client'[c] = "asked" /\ ~mute'[c] => recv_queue'[c] # <<>>
        /\ next = "READ_AUTH" => client'[c] \in {"greeted", "login", "gone"} /\ recv_queue'[c] = <<>>
    <3>1. client'[c] = "asked" => client[c] = "asked" /\ send_queue[c] = <<>>
      BY <2>1, WhatIsReceived
    <3>2. client'[c] = "asked" /\ ~mute[c] => recv_queue[c] # <<>>
      BY <1>t, <3>1, Zenon DEF LoginOK
    <3>3. next = "READ_AUTH" => client[c] \in {"greeted", "gone"} /\ recv_queue[c] = <<>>
      BY <1>t, Zenon DEF LoginOK
    <3> QED BY <2>1, <3>2, <3>3, WhatIsReceived
  <2>6. LoginOK(c)'
    BY <1>t, <2>2, <2>5, Zenon DEF LoginOK, Past
  <2> QED BY <2>4, <2>6, StepOfOne
<1>2. CASE /\ client[c] = "gone" /\ UNCHANGED <<client, send_queue>>
           /\ Goto(c, IF state[c] = "SEND_ERROR" THEN "CLOSE_CLIENT" ELSE "ERROR")
  <2>1. /\ IsFunction(state') /\ \A d \in Conns \ {c} : state'[d] = state[d]
        /\ state'[c] = IF state[c] = "SEND_ERROR" THEN "CLOSE_CLIENT" ELSE "ERROR"
    BY <1>2, <1>t, Zenon DEF IsFunction, Goto
  <2>2. ConTypes' /\ \A d \in Conns \ {c} : Same(d)
    BY <1>2, <1>t, <2>1, Zenon DEF ConTypes, Same
  <2>3. LoginOK(c)'
    BY <1>2, <1>t, <2>1 DEF LoginOK, Past
  <2> QED BY <2>2, <2>3, StepOfOne
<1> QED BY <1>1, <1>2 DEF Write

\* The states that go on without the client: the end of its input, the greeting, the end.
LEMMA TurnKeepsLoginInv ==
    ASSUME LoginInv, NEW c \in Conns,
           ReadsEof(c) \/ server_con_init(c) \/ admin_disconnect_client(c)
    PROVE  LoginInv'
<1>t. ConTypes /\ LoginOK(c) /\ UNCHANGED <<scope, client>>
  BY DEF LoginInv, ReadsEof, server_con_init, admin_disconnect_client, con_lua_free, luaVars
<1>1. CASE ReadsEof(c)
  <2>1. /\ IsFunction(state') /\ \A d \in Conns \ {c} : state'[d] = state[d]
        /\ state'[c] = "CLOSE_CLIENT"
    BY <1>1, <1>t, Zenon DEF ReadsEof, ConTypes, IsFunction, Goto
  <2>2. /\ state[c] \in {"READ_AUTH", "READ_QUERY"} /\ scope.holder # c /\ client[c] = "gone"
        /\ UNCHANGED <<challenge, response, send_queue, recv_queue, mute>>
    BY <1>1, Zenon DEF ReadsEof
  <2>3. ConTypes' /\ \A d \in Conns \ {c} : Same(d)
    BY <1>t, <2>1, <2>2, Zenon DEF ConTypes, Same
  <2>4. LoginOK(c)'
    BY <1>t, <2>1, <2>2 DEF LoginOK, Past
  <2> QED BY <1>t, <2>3, <2>4, StepOfOne
<1>2. CASE server_con_init(c)
  <2>1. /\ IsFunction(state') /\ \A d \in Conns \ {c} : state'[d] = state[d]
        /\ state'[c] = "SEND_HANDSHAKE"
    BY <1>2, <1>t, Zenon DEF server_con_init, ConTypes, IsFunction, Goto
  <2>2. /\ IsFunction(challenge') /\ \A d \in Conns \ {c} : challenge'[d] = challenge[d]
        /\ challenge'[c] = Challenge[c]
    BY <1>2, <1>t, Zenon DEF server_con_init, ConTypes, IsFunction
  <2>3. state[c] = "INIT" /\ UNCHANGED <<response, recv_queue, mute>> /\ Queue(c, "challenge")
    BY <1>2, Zenon DEF server_con_init, At
  <2>4. ConTypes' /\ \A d \in Conns \ {c} : Same(d)
    BY <1>t, <2>1, <2>2, <2>3, Queued, Zenon DEF ConTypes, Same
  <2>5. LoginOK(c)'
    BY <1>t, <2>1, <2>2, <2>3 DEF LoginOK, Past
  <2> QED BY <1>t, <2>4, <2>5, StepOfOne
<1>3. CASE admin_disconnect_client(c)
  <2>1. /\ IsFunction(state') /\ \A d \in Conns \ {c} : state'[d] = state[d]
        /\ state'[c] = "none"
    BY <1>3, <1>t, Zenon DEF admin_disconnect_client, ConTypes, IsFunction, Goto
  <2>2. /\ IsFunction(challenge') /\ \A d \in Conns \ {c} : challenge'[d] = challenge[d]
        /\ IsFunction(response') /\ \A d \in Conns \ {c} : response'[d] = response[d]
        /\ IsFunction(mute') /\ \A d \in Conns \ {c} : mute'[d] = mute[d]
    BY <1>3, <1>t, Zenon DEF admin_disconnect_client, ConTypes, IsFunction
  <2>3. /\ IsFunction(recv_queue') /\ \A d \in Conns \ {c} : recv_queue'[d] = recv_queue[d]
        /\ recv_queue'[c] = <<>>
    BY <1>3, <1>t, Zenon DEF admin_disconnect_client, ConTypes, IsFunction
  <2>4. /\ send_queue' \in [Conns -> Seq({"challenge", "OK", "ERR", "result"})]
        /\ \A d \in Conns \ {c} : send_queue'[d] = send_queue[d]
    <3>1. /\ <<>> \in Seq({"challenge", "OK", "ERR", "result"})
          /\ send_queue' = [send_queue EXCEPT ![c] = <<>>]
      BY <1>3 DEF admin_disconnect_client
    <3> QED BY <1>t, <3>1, SendQueueUpdated, Zenon
  <2>5. scope.holder = NoCon /\ scope.holder # c
    BY <1>3, LuaScopeAssumption DEF admin_disconnect_client, scope_is_free
  <2>6. ConTypes' /\ \A d \in Conns \ {c} : Same(d)
    BY <1>t, <2>1, <2>2, <2>3, <2>4, Zenon DEF ConTypes, Same
  <2>7. LoginOK(c)'
    BY <1>t, <2>1, <2>3, <2>5, ZenonT(60) DEF LoginOK, Past
  <2> QED BY <1>t, <2>6, <2>7, StepOfOne
<1> QED BY <1>1, <1>2, <1>3, ZenonT(60)

\* The login itself: what lets a client in is an answer to its own challenge.
LEMMA ReadAuthKeepsLoginInv ==
    ASSUME LoginInv, NEW c \in Conns, server_read_auth(c) PROVE LoginInv'
<1> DEFINE auth == recv_queue[c][1]
           good == auth.username = admin_username /\ AuthMatches(c, auth)
<1>t. ConTypes /\ LoginOK(c) /\ UNCHANGED <<scope, client, challenge, mute>>
  BY DEF LoginInv, server_read_auth, luaVars
<1>1. state[c] = "READ_AUTH" /\ recv_queue[c] # <<>> /\ scope.holder # c
  BY LuaScopeAssumption DEF server_read_auth, At, scope_is_free
<1>2. PICK r \in ClientResponse(c) : recv_queue[c] = <<r>>
  BY <1>t, <1>1, Zenon DEF LoginOK
<1>3. auth = r /\ auth \in ClientResponse(c) /\ Tail(recv_queue[c]) = <<>>
  BY <1>2
<1>4. IsFunction(recv_queue') /\ \A d \in Conns \ {c} : recv_queue'[d] = recv_queue[d]
  BY <1>t, Zenon DEF server_read_auth, Taken, ConTypes, IsFunction
<1>5. challenge[c] = Challenge[c] /\ client[c] # "asked"
  BY <1>t, <1>1, ZenonT(60) DEF LoginOK
<1>6. \/ /\ Goto(c, "SEND_ERROR") /\ UNCHANGED response
         /\ UNCHANGED send_queue \/ \E p \in {"OK", "ERR"} : Queue(c, p)
      \/ /\ auth.v41 /\ good
         /\ Queue(c, "OK") /\ Goto(c, "SEND_AUTH_RESULT") /\ response' = [response EXCEPT ![c] = auth]
  BY DEF server_read_auth
<1>7. /\ send_queue' \in [Conns -> Seq({"challenge", "OK", "ERR", "result"})]
      /\ \A d \in Conns \ {c} : send_queue'[d] = send_queue[d]
  <2>1. CASE UNCHANGED send_queue
    BY <1>t, <2>1 DEF ConTypes
  <2>2. CASE \E p \in {"OK", "ERR"} : Queue(c, p)
    BY <1>t, <2>2, Queued
  <2> QED BY <1>6, <2>1, <2>2
<1>8. CASE Goto(c, "SEND_ERROR") /\ UNCHANGED response
  <2>1. /\ IsFunction(state') /\ \A d \in Conns \ {c} : state'[d] = state[d]
        /\ state'[c] = "SEND_ERROR"
    BY <1>8, <1>t, Zenon DEF ConTypes, IsFunction, Goto
  <2>2. ConTypes' /\ \A d \in Conns \ {c} : Same(d)
    BY <1>t, <1>4, <1>7, <1>8, <2>1, Zenon DEF ConTypes, Same
  <2>3. LoginOK(c)'
    BY <1>t, <1>1, <1>5, <2>1, Zenon DEF LoginOK, Past
  <2> QED BY <1>t, <2>2, <2>3, StepOfOne
<1>9. CASE /\ auth.v41 /\ good /\ Goto(c, "SEND_AUTH_RESULT")
           /\ response' = [response EXCEPT ![c] = auth]
  <2>1. /\ IsFunction(state') /\ \A d \in Conns \ {c} : state'[d] = state[d]
        /\ state'[c] = "SEND_AUTH_RESULT"
    BY <1>9, <1>t, Zenon DEF ConTypes, IsFunction, Goto
  <2>2. /\ IsFunction(response') /\ \A d \in Conns \ {c} : response'[d] = response[d]
        /\ response'[c] = auth
    BY <1>9, <1>t, Zenon DEF ConTypes, IsFunction
  <2>3. ConTypes' /\ \A d \in Conns \ {c} : Same(d)
    BY <1>t, <1>4, <1>7, <2>1, <2>2, Zenon DEF ConTypes, Same
  <2>4. auth.username = admin_username /\ auth.password = admin_password /\ auth.challenge = challenge[c]
    <3> HIDE DEF auth
    <3> QED BY <1>3, <1>5, <1>9, MatchingAnswer, Zenon
  <2> HIDE DEF auth
  <2>5. LoginOK(c)'
    BY <1>t, <1>1, <1>5, <2>1, <2>2, <2>4, Zenon DEF LoginOK, Past
  <2> QED BY <1>t, <2>3, <2>5, StepOfOne
<1> QED BY <1>6, <1>8, <1>9

\* A query is taken together with its answer, or the answer has no packet.
LEMMA ReadQueryKeepsLoginInv ==
    ASSUME LoginInv, NEW c \in Conns, state[c] = "READ_QUERY", NEW ret, NEW answer \in ProxyResponse,
           server_read_query(c, ret, answer), scope'.holder = NoCon
    PROVE  LoginInv'
<1>t. ConTypes /\ LoginOK(c) /\ UNCHANGED <<client, challenge, response>>
  BY DEF LoginInv, server_read_query
<1>1. PICK next \in {"SEND_QUERY_RESULT", "SEND_ERROR"} : Goto(c, next)
  BY DEF server_read_query
<1>2. /\ IsFunction(state') /\ \A d \in Conns \ {c} : state'[d] = state[d]
      /\ state'[c] = next
  BY <1>1, <1>t, Zenon DEF ConTypes, IsFunction, Goto
<1>3. IsFunction(recv_queue') /\ \A d \in Conns \ {c} : recv_queue'[d] = recv_queue[d]
  BY <1>t, Zenon DEF server_read_query, Taken, ConTypes, IsFunction
<1>4. /\ send_queue' \in [Conns -> Seq({"challenge", "OK", "ERR", "result"})]
      /\ send_queue'[c] # <<>> \/ mute'[c]
      /\ \A d \in Conns \ {c} : send_queue'[d] = send_queue[d] /\ mute'[d] = mute[d]
      /\ IsFunction(mute')
  <2>1. CASE ret = "SEND_RESULT"
    <3>1. /\ send_queue' = [send_queue EXCEPT ![c] = send_queue[c] \o answer]
          /\ mute' = [mute EXCEPT ![c] = answer = <<>>]
      BY <2>1 DEF server_read_query
    <3>2. /\ send_queue[c] \o answer \in Seq({"challenge", "OK", "ERR", "result"})
          /\ answer # <<>> => send_queue[c] \o answer # <<>>
      <4>1. send_queue[c] \in Seq({"challenge", "OK", "ERR", "result"})
        BY <1>t DEF ConTypes
      <4>2. CASE answer = <<"result">>
        <5>1. send_queue[c] \o answer = Append(send_queue[c], "result")
          BY <4>1, <4>2
        <5> QED BY <4>1, <5>1
      <4>3. CASE answer = <<>>
        BY <4>1, <4>3
      <4> QED BY <4>2, <4>3 DEF ProxyResponse
    <3>3. IsFunction(mute') /\ mute'[c] = (answer = <<>>) /\ \A d \in Conns \ {c} : mute'[d] = mute[d]
      BY <1>t, <3>1, Zenon DEF ConTypes, IsFunction
    <3> QED BY <1>t, <3>1, <3>2, <3>3, SendQueueUpdated, Zenon
  <2>2. CASE ret # "SEND_RESULT"
    <3>1. Queue(c, "ERR") /\ UNCHANGED mute
      BY <2>2 DEF server_read_query
    <3> QED BY <1>t, <3>1, Queued, Zenon DEF ConTypes
  <2> QED BY <2>1, <2>2
<1>5. ConTypes' /\ \A d \in Conns \ {c} : Same(d)
  BY <1>t, <1>2, <1>3, <1>4, Zenon DEF ConTypes, Same
<1>6. scope'.holder # c
  BY LuaScopeAssumption, Zenon
<1>7. LoginOK(c)'
  BY <1>t, <1>2, <1>4, <1>6, Zenon DEF LoginOK, Past
<1> QED BY <1>5, <1>7, StepOfOne

LEMMA HandleKeepsLoginInv ==
    ASSUME LoginInv, IsScope(scope), NEW c \in Conns, Handle(c) PROVE LoginInv'
<1>1. CASE SendHandshake(c) \/ SendAuthResult(c) \/ SendQueryResult(c) \/ SendError(c)
  <2>1. UNCHANGED <<challenge, response, recv_queue, mute, scope>>
    BY <1>1, Zenon DEF SendHandshake, SendAuthResult, SendQueryResult, SendError, luaVars
  <2> QED BY <1>1, <2>1, WriteKeepsLoginInv, Zenon
          DEF SendHandshake, SendAuthResult, SendQueryResult, SendError, At
<1>2. CASE ReadsEof(c) \/ server_con_init(c) \/ admin_disconnect_client(c)
  BY <1>2, TurnKeepsLoginInv
<1>3. CASE server_read_auth(c)
  BY <1>3, ReadAuthKeepsLoginInv
<1>4. CASE read_query_unseen(c)
  BY <1>4, ReadQueryKeepsLoginInv DEF read_query_unseen, ProxyResponse, At, scope_is_free, luaVars
<1>5. CASE read_query_starts(c)
  <2>1. scope'.holder = c /\ state[c] = "READ_QUERY" /\ UNCHANGED conVars
    BY <1>5 DEF read_query_starts, scope_get, Free, At
  <2>2. ConTypes' /\ \A d \in Conns \ {c} : Same(d)
    BY <2>1, Zenon DEF LoginInv, ConTypes, Same, conVars
  <2>3. LoginOK(c) /\ Same(c)
    BY <2>1, Zenon DEF LoginInv, Same, conVars
  <2>4. LoginOK(c)'
    BY <2>1, <2>3, Zenon DEF LoginOK, Same, ClientResponse
  <2> QED BY <2>1, <2>2, <2>4, StepOfOne
<1>6. CASE register(c)
  <2>1. scope'.holder = scope.holder
    BY <1>6, ZenonT(60) DEF register, register_callback, register_again, register_load, stat_script, load_file,
                copy_script, register_setup, Proceed, IsScope
  <2> QED BY <1>6, <2>1, ElsewhereKeepsLoginInv DEF register
<1>7. CASE read_query_fails(c) \/ read_query_calls(c)
  <2>1. /\ scope.holder = c /\ scope' = Free
        /\ \E ret : \E answer \in ProxyResponse : server_read_query(c, ret, answer)
    BY <1>7 DEF read_query_fails, read_query_calls, ProxyResponse, Holds, scope_release
  <2>2. state[c] = "READ_QUERY" /\ scope'.holder = NoCon
    BY <2>1, Zenon DEF LoginInv, LoginOK, Free
  <2> QED BY <2>1, <2>2, ReadQueryKeepsLoginInv
<1> QED BY <1>1, <1>2, <1>3, <1>4, <1>5, <1>6, <1>7, Zenon DEF Handle

LEMMA NextKeepsLoginInv ==
    ASSUME LoginInv, ProxyInv, [Next]_vars PROVE LoginInv'
<1>1. CASE Files
  BY <1>1, ElsewhereKeepsLoginInv, Zenon DEF Files, Edit, RemoveFile
<1>2. ASSUME NEW c \in Conns, Handle(c) PROVE LoginInv'
  BY <1>2, HandleKeepsLoginInv DEF ProxyInv
<1>3. ASSUME NEW c \in Conns, Client(c) PROVE LoginInv'
  BY <1>3, ClientKeepsLoginInv
<1>4. CASE UNCHANGED vars
  BY <1>4, ElsewhereKeepsLoginInv DEF vars, luaVars
<1> QED BY <1>1, <1>2, <1>3, <1>4 DEF Next

LEMMA LoginInvHolds == Spec => []LoginInv
<1>1. Init => ProxyInv /\ LoginInv
  BY InitProxyInv, InitLoginInv
<1>2. ProxyInv /\ LoginInv /\ [Next]_vars => (ProxyInv /\ LoginInv)'
  BY NextKeepsProxyInv, NextKeepsLoginInv
<1> QED BY <1>1, <1>2, PTL DEF Spec

\* Nobody gets past the login without the user name and the password of the configuration,
\* and without having answered the challenge of this very connection, for any number of
\* connections, user names and passwords: server_read_auth() compares with the scramble of
\* the challenge that server_con_init() kept, and a scramble tells passwords and challenges
\* apart (SHA1 is taken to be free of collisions).
THEOREM LoginNeedsThePassword == Spec => []AdmittedByPassword
<1>1. LoginInv => AdmittedByPassword
  BY Zenon DEF LoginInv, LoginOK, AdmittedByPassword, Past
<1> QED BY <1>1, LoginInvHolds, PTL

\* No query is taken without an answer being queued, however the connections interleave and
\* whatever the script returns or fails to, but for a raw response of no packets: every
\* other way out of admin_lua_read_query() ends in a result or an error for the client.
THEOREM NoQueryIsDropped == Spec => []QueryNotDropped
<1>1. LoginInv => QueryNotDropped
  BY Zenon DEF LoginInv, LoginOK, QueryNotDropped
<1> QED BY <1>1, LoginInvHolds, PTL
=============================================================================
