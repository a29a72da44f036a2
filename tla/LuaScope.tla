-------------------------------- MODULE LuaScope --------------------------------
(***************************************************************************)
(* The Lua state all connections share (src/lua-scope.c) and the setup of  *)
(* a connection's script in it (src/network-mysqld-lua.c).                 *)
(*                                                                         *)
(* A hook runs under the mutex of the scope.  What goes on around it is    *)
(* not held up by that mutex: the script file may be edited between the    *)
(* stat() that looks at it and the fopen() that loads it.                  *)
(*                                                                         *)
(* A script's text is a member of Contents with a size, and it compiles or *)
(* it does not.  A file is replaced as a whole.  mtime counts seconds.     *)
(***************************************************************************)
EXTENDS Integers, FiniteSets

CONSTANTS Conns,          \* connections that may be open at a time
          Contents,      \* texts of the script: [size, compiles]
          NoCon, NoFunc, \* NULL pointers
          MaxMtime,      \* the last second in which the file is edited
          MaxFailures,   \* how often the script fails when it is run
          EditsShow,     \* no edit keeps or brings back both size and mtime
          FileStays      \* the script is never removed

ASSUME LuaScopeAssumption ==
    /\ NoCon \notin Conns /\ NoFunc \notin Contents
    /\ MaxMtime \in Nat /\ MaxFailures \in Nat
    /\ \A s \in Contents : s.compiles \in BOOLEAN /\ s.size \in Nat

VARIABLES file,      \* the script file
          cached,    \* registry.cachedscripts[name]
          registry,  \* the integer keys of the registry of Lua
          proxy,     \* the connection whose __proxy the metatable of _G.proxy points to
          scope,     \* the mutex: its holder, how far it got, the stat() it made
          L, L_ref,  \* st->L and st->L_ref of each connection
          failures,  \* how often a script failed when it was run
          aborted    \* an assertion failed, or memory was used after it was freed

luaVars == <<file, cached, registry, proxy, scope, L, L_ref, failures, aborted>>

Stamp == [mtime |-> file.mtime, size |-> file.content.size]

\* The entry of a key is a number (nil is 0) or the thread of a connection.
Number(n) == [ref |-> n, thread |-> NoCon]
Thread(c) == [ref |-> 0, thread |-> c]
Refs == 0..(Cardinality(Conns) + MaxFailures + 1)

Free == [holder |-> NoCon, pc |-> "free", st |-> [mtime |-> 0, size |-> 0]]

LuaInit ==
    /\ \E s \in Contents : file = [exists |-> TRUE, mtime |-> 0, content |-> s]
    /\ cached = [known |-> FALSE, stamp |-> [mtime |-> 0, size |-> 0], func |-> NoFunc]
    /\ registry = [r \in Refs |-> Number(0)]
    /\ proxy = NoCon /\ scope = Free
    /\ L = [c \in Conns |-> NoCon] /\ L_ref = [c \in Conns |-> 0]
    /\ failures = 0 /\ aborted = FALSE

\* Somebody edits the script, or removes it and puts it back.
Edit ==
    /\ \E s \in Contents \ {file.content}, m \in 0..MaxMtime :
         /\ m >= file.mtime \/ ~EditsShow
         /\ EditsShow => (m > file.mtime \/ s.size > file.content.size)
         /\ file' = [file EXCEPT !.mtime = m, !.content = s]
    /\ UNCHANGED <<cached, registry, proxy, scope, L, L_ref, failures, aborted>>

RemoveFile ==
    /\ ~FileStays
    /\ file' = [file EXCEPT !.exists = ~@]
    /\ UNCHANGED <<cached, registry, proxy, scope, L, L_ref, failures, aborted>>

-----------------------------------------------------------------------------
(***************************************************************************)
(* The mutex.                                                              *)
(***************************************************************************)
scope_is_free == scope.holder = NoCon /\ ~aborted

scope_get(c, pc) == scope_is_free /\ scope' = [Free EXCEPT !.holder = c, !.pc = pc]

scope_release == scope' = Free

Holds(c, pc) == scope.holder = c /\ scope.pc = pc /\ ~aborted

Proceed(pc) == scope' = [scope EXCEPT !.pc = pc]

Abort == aborted' = TRUE

-----------------------------------------------------------------------------
(***************************************************************************)
(* lua_scope_load_script()                                                 *)
(***************************************************************************)
\* Mutant: the reload goes by the size of the file alone.
SameSize == cached.known /\ cached.stamp.size = file.content.size

cache_is_fresh == cached.known /\ cached.stamp = Stamp

\* stat() the script; if it is not what the cache has, the cached function is dropped.
stat_script(c) ==
    /\ Holds(c, "load_script")
    /\ \/ ~file.exists /\ Proceed("load_failed") /\ UNCHANGED cached
       \/ /\ file.exists /\ cache_is_fresh
          /\ scope' = [scope EXCEPT !.pc = "copy", !.st = Stamp] /\ UNCHANGED cached
       \/ /\ file.exists /\ ~cache_is_fresh
          /\ scope' = [scope EXCEPT !.pc = "load_file", !.st = Stamp]
          /\ cached' = [cached EXCEPT !.func = NoFunc]
    /\ UNCHANGED <<file, registry, proxy, L, L_ref, failures, aborted>>

luaL_loadfile_factory ==
    IF ~file.exists THEN "ERRFILE" ELSE IF ~file.content.compiles THEN "ERRSYNTAX" ELSE "OK"

\* Load it.  The stamp that is kept with the function is the one from before the load.  If
\* fopen() fails a value of the stack is popped that is not an error message, and the
\* assertion on the height of the stack fails.
load_file(c) ==
    /\ Holds(c, "load_file")
    /\ \/ luaL_loadfile_factory = "ERRFILE" /\ Abort /\ UNCHANGED <<cached, scope>>
       \/ /\ luaL_loadfile_factory = "ERRSYNTAX"
          /\ Proceed("load_failed") /\ UNCHANGED <<cached, aborted>>
       \/ /\ luaL_loadfile_factory = "OK"
          /\ cached' = [known |-> TRUE, stamp |-> scope.st, func |-> file.content]
          /\ Proceed("copy") /\ UNCHANGED aborted
    /\ UNCHANGED <<file, registry, proxy, L, L_ref, failures>>

\* The function has to be in the cache now (an assertion).
copy_script(c) ==
    /\ Holds(c, "copy")
    /\ IF cached.func = NoFunc THEN Abort /\ UNCHANGED scope
       ELSE Proceed("setup") /\ UNCHANGED aborted
    /\ UNCHANGED <<file, cached, registry, proxy, L, L_ref, failures>>

-----------------------------------------------------------------------------
(***************************************************************************)
(* luaL_ref() and luaL_unref() of Lua: key 0 starts the list of free keys. *)
(***************************************************************************)
NewRef(t) ==
    IF t[0].ref # 0 THEN t[0].ref
    ELSE CHOOSE r \in Refs \ {0} :
           t[r] = Number(0) /\ \A q \in 1..(r - 1) : t[q] # Number(0)

luaL_ref(t, thread) ==
    LET r == NewRef(t)
    IN  [t EXCEPT ![0] = IF t[0].ref # 0 THEN t[r] ELSE @, ![r] = thread]

luaL_unref(t, r) == [t EXCEPT ![r] = t[0], ![0] = Number(r)]

-----------------------------------------------------------------------------
(***************************************************************************)
(* network_mysqld_con_lua_register_callback()                              *)
(***************************************************************************)
Anchored(c) == \E r \in Refs : registry[r] = Thread(c)

\* Mutant: _G.proxy stays with the connection that ran a hook last.
ProxyStays(c) == UNCHANGED proxy

point_proxy(c) == proxy' = c

\* The connection has its script: _G.proxy is made to point to it.  A thread that nothing
\* refers to may have been collected.
register_again(c) ==
    /\ Holds(c, "register") /\ L[c] # NoCon
    /\ \/ point_proxy(c) /\ Proceed("call") /\ UNCHANGED aborted
       \/ ~Anchored(c) /\ Abort /\ UNCHANGED <<proxy, scope>>
    /\ UNCHANGED <<file, cached, registry, L, L_ref, failures>>

register_load(c) ==
    /\ Holds(c, "register") /\ L[c] = NoCon
    /\ Proceed("load_script")
    /\ UNCHANGED <<file, cached, registry, proxy, L, L_ref, failures, aborted>>

\* A thread for the connection, an environment for the script, and the script is run once.
\* If it fails the thread is given back, and st->L_ref keeps the key.
register_setup(c) ==
    LET t == luaL_ref(registry, Thread(c))
        r == NewRef(registry)
    IN  /\ Holds(c, "setup")
        /\ L_ref' = [L_ref EXCEPT ![c] = r]
        /\ proxy' = c
        /\ \/ /\ L' = [L EXCEPT ![c] = c] /\ registry' = t
              /\ Proceed("call") /\ UNCHANGED failures
           \/ /\ failures < MaxFailures /\ failures' = failures + 1
              /\ registry' = luaL_unref(t, r) /\ Proceed("execute_failed") /\ UNCHANGED L
        /\ UNCHANGED <<file, cached, aborted>>

register_callback(c) ==
    \/ register_again(c) \/ register_load(c) \/ stat_script(c) \/ load_file(c)
    \/ copy_script(c) \/ register_setup(c)

-----------------------------------------------------------------------------
(***************************************************************************)
(* The end of a connection: the hook for it gives the thread back.         *)
(***************************************************************************)
con_lua_free(c) ==
    /\ registry' = IF L_ref[c] > 0 THEN luaL_unref(registry, L_ref[c]) ELSE registry
    /\ L' = [L EXCEPT ![c] = NoCon] /\ L_ref' = [L_ref EXCEPT ![c] = 0]
    /\ UNCHANGED <<file, cached, proxy, scope, failures, aborted>>
=============================================================================
