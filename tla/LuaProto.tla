--------------------------------- MODULE LuaProto ---------------------------------
(***************************************************************************)
(* The module mysql.proto of scripts (lib/mysql-proto.c): tables to        *)
(* packets and back.  A Lua table is a function on the fields that are not *)
(* nil.  to_ takes the fields a table has and leaves the others as the     *)
(* struct was created; from_ gives a table of the fields of the struct,    *)
(* without the strings that are empty, or raises an error (ok = FALSE).    *)
(* Numbers are below 2^53, which a Lua number holds exactly.               *)
(***************************************************************************)
EXTENDS BinaryRows

Same(fields) == [f \in fields |-> f]

\* LUA_IMPORT_*: as[f] is the field of the table that goes to field f of the struct.
Import(struct, as, table) ==
    [f \in DOMAIN struct |-> IF f \in DOMAIN as /\ as[f] \in DOMAIN table
                             THEN table[as[f]] ELSE struct[f]]

\* LUA_EXPORT_*: the other way, without the strings that are empty.
Export(got, as, strings) ==
    LET given == {f \in DOMAIN as : f \notin strings \/ got[f] # <<>>}
    IN  [n \in {as[f] : f \in given} |-> got[CHOOSE f \in given : as[f] = n]]

Answer(c, Table(_)) ==
    [ok |-> ~c.err, left |-> Left(c), table |-> IF c.err THEN <<>> ELSE Table(c.got)]

OkFields == Same({"server_status", "insert_id", "warnings", "affected_rows"})
to_ok_packet(t) == append_ok_packet(Import(ok_packet_new, OkFields, t))
from_ok_packet(s) ==
    Answer(get_ok_packet(Cursor(s, ok_packet_new)), LAMBDA got : Export(got, OkFields, {}))

ErrFields == Same({"errmsg", "sqlstate", "errcode"})
to_err_packet(t) == append_err_packet(Import(err_packet_new("41"), ErrFields, t))
from_err_packet(s) ==
    Answer(get_err_packet(Cursor(s, err_packet_new("41"))),
           LAMBDA got : Export(got, ErrFields, {"errmsg", "sqlstate"}))

EofFields == Same({"server_status", "warnings"})
to_eof_packet(t) == append_eof_packet(Import(eof_packet_new, EofFields, t))
from_eof_packet(s) ==
    Answer(get_eof_packet(Cursor(s, eof_packet_new)), LAMBDA got : Export(got, EofFields, {}))

\* The name of the plugin is exported and not imported.
ChallengeFields ==
    ("auth_plugin_data" :> "challenge")
      @@ Same({"protocol_version", "server_version", "thread_id", "capabilities", "charset",
               "server_status"})
to_challenge_packet(t) == append_auth_challenge(Import(auth_challenge_new, ChallengeFields, t))
from_challenge_packet(s) ==
    Answer(get_auth_challenge(Cursor(s, auth_challenge_new)),
           LAMBDA got : Export(got, ChallengeFields @@ Same({"auth_plugin_name"}),
                               {"auth_plugin_data", "auth_plugin_name"}))

ResponseFields ==
    ("client_capabilities" :> "capabilities") @@ ("auth_plugin_data" :> "response")
      @@ Same({"max_packet_size", "charset", "username", "auth_plugin_name", "database"})
to_response_packet(t) ==
    append_auth_response(Import(auth_response_new(t.server_capabilities), ResponseFields, t))
from_response_packet(s, server_capabilities) ==
    Answer(get_auth_response(Cursor(s, auth_response_new(server_capabilities))),
           LAMBDA got : Export(got, ResponseFields @@ Same({"server_capabilities"}),
                               {"username", "auth_plugin_data", "auth_plugin_name", "database"}))

to_masterinfo_string(t) ==
    masterinfo_append(Import(masterinfo_new, Same(Range(MasterLines)), t))
from_masterinfo_string(s) ==
    Answer(masterinfo_get(Cursor(s, masterinfo_new)),
           LAMBDA got : Export(got, Same(Range(LinesOf(got.master_lines))),
                               Range(MasterLines) \ MasterInts))

from_stmt_prepare_packet(s) ==
    Answer(get_stmt_prepare_packet(Cursor(s, stmt_prepare_packet_new)),
           LAMBDA got : Export(got, Same({"stmt_text"}), {"stmt_text"}))

from_stmt_prepare_ok_packet(s) ==
    Answer(get_stmt_prepare_ok_packet(Cursor(s, stmt_prepare_ok_packet_new)),
           LAMBDA got : Export(got, Same(DOMAIN stmt_prepare_ok_packet_new), {}))

from_stmt_close_packet(s) ==
    Answer(get_stmt_close_packet(Cursor(s, stmt_close_packet_new)),
           LAMBDA got : Export(got, Same({"stmt_id"}), {}))

stmt_id_from_stmt_execute_packet(s) ==
    Answer(get_stmt_execute_packet_stmt_id(Cursor(s, stmt_execute_packet_new)),
           LAMBDA got : got.stmt_id)

\* A parameter is a table of its type and, unless it is NULL, its value.
Param(v) == IF v.is_null THEN [type |-> v.type] ELSE [type |-> v.type, value |-> param_value(v)]

from_stmt_execute_packet(s, param_count) ==
    LET bound(got) == got.new_params_bound # <<>>
        checked(c) == IF bound(c.got) /\ \E i \in DOMAIN c.got.row :
                           ~c.got.row[i].is_null /\ param_value(c.got.row[i]) = UNREADABLE
                      THEN Fail(c) ELSE c
        head(got)  == Export(got, Same({"stmt_id", "flags", "iteration_count"}), {})
                        @@ ("new_params_bound" :> bound(got))
        params(got) == IF bound(got) THEN "params" :> [i \in DOMAIN got.row |-> Param(got.row[i])]
                       ELSE <<>>
    IN  Answer(Then(get_stmt_execute_packet(Cursor(s, stmt_execute_packet_new), param_count), checked),
               LAMBDA got : head(got) @@ params(got))
=============================================================================
