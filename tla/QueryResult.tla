---------------------------- MODULE QueryResult -----------------------------
(***************************************************************************)
(* Where does the response to a command end? The proxy forwards packets as *)
(* they pass by; network_mysqld_proto_get_query_result()                   *)
(* (src/src/network-mysqld-packet.c) looks at the first byte, the length   *)
(* and the status flags of each and answers "need more" (0), "last" (1) or *)
(* "invalid" (-1). The rest of the proxy relies on the answer: ProxyQuery  *)
(* takes it as given that the last packet is recognised. Here the tracker  *)
(* follows a server that produces every response the protocol allows.      *)
(***************************************************************************)
EXTENDS Naturals, FiniteSets

CONSTANTS
    Commands,    \* commands the client sends
    Beyond,      \* what the server does that the tracker was not written for
    Dbs,         \* names of databases
    MaxResults,  \* bound: result-sets of one response
    MaxRows      \* bound: rows of one response

Querying == {"QUERY", "PROCESS_INFO", "STMT_EXECUTE"}
OkOrErr == {"CHANGE_USER", "REFRESH", "STMT_RESET", "PING", "TIME",
            "REGISTER_SLAVE", "PROCESS_KILL"}
EofOrErr == {"DEBUG", "SET_OPTION", "SHUTDOWN"}
OnePacket == {"QUIT", "STATISTICS"}
AllCommands == Querying \cup OkOrErr \cup EofOrErr \cup OnePacket
    \cup {"INIT_DB", "FIELD_LIST", "STMT_FETCH", "STMT_PREPARE"}
AllBeyond == {"infile_err", "infile_more", "long_row", "auth_switch"}
NoDb == "no db"

ASSUME CommandsAssumption == Commands \subseteq AllCommands
ASSUME BeyondAssumption == Beyond \subseteq AllBeyond
ASSUME DbsAssumption == NoDb \notin Dbs
ASSUME BoundsAssumption == MaxResults \in Nat /\ MaxRows \in Nat

VARIABLES
    command,     \* con->parse.command, "none" for -1
    query,       \* con->parse.data of a COM_QUERY and the like
    prepare,     \* con->parse.data of a COM_STMT_PREPARE
    db_name,     \* con->parse.data of a COM_INIT_DB
    default_db,  \* default_db of con->client and con->server
    verdict,     \* what the tracker said of the last packet
    srv,         \* where in its response the server is
    results,     \* result-sets of this response so far
    rows,        \* rows of this response so far
    long,        \* one of them takes several packets
    failed,      \* the last packet of this response was an ERR
    db           \* the database the server uses for this connection

parseVars == <<query, prepare, db_name, default_db>>
serverVars == <<srv, results, rows, long, failed, db>>
resultVars == <<command, parseVars, verdict, serverVars>>

\* What tells packets apart: the first byte (MYSQLD_PACKET_OK ..., "other" for
\* any other), whether the packet is 9 bytes long as an EOF is, the status
\* flags, and the counts of a COM_STMT_PREPARE's OK.
Heads == {"OK", "ERR", "EOF", "NULL", "other"}
Flags == {"MORE_RESULTS_EXISTS", "CURSOR_EXISTS", "LAST_ROW_SENT", "PS_OUT_PARAMS"}
More == {"MORE_RESULTS_EXISTS"}
Packet(h) == [head |-> h, nine |-> FALSE, empty |-> FALSE, status |-> {}, eofs |-> 0]
Ok(flags) == [Packet("OK") EXCEPT !.status = flags]
Eof(flags) == [Packet("EOF") EXCEPT !.nine = TRUE, !.status = flags]
Err == Packet("ERR")
Definition == Packet("other")
Empty == [Packet("other") EXCEPT !.empty = TRUE]

QueryStates == {"INIT", "FIELD", "RESULT", "LOCAL_INFILE_DATA", "LOCAL_INFILE_RESULT"}
SrvStates == {"idle", "first", "fields", "rows", "out_rows", "long_row",
              "params", "columns", "infile", "loaded", "over"}

query_result_new ==
    [state |-> "INIT", query_status |-> "NULL", server_status |-> {}, rows |-> 0,
     was_resultset |-> FALSE]
stmt_prepare_result_new == [first_packet |-> TRUE, want_eofs |-> 0]

ResultTypeOK ==
    /\ command \in AllCommands \cup {"none"}
    /\ query \in [state : QueryStates, query_status : {"NULL", "OK", "ERR"},
                  server_status : SUBSET Flags, rows : 0..(2 * MaxRows),
                  was_resultset : BOOLEAN]
    /\ prepare \in [first_packet : BOOLEAN, want_eofs : 0..2]
    /\ db_name \in Dbs \cup {NoDb}
    /\ default_db \in [client : Dbs \cup {NoDb}, server : Dbs \cup {NoDb}]
    /\ verdict \in {"more", "last", "invalid"}
    /\ srv \in SrvStates
    /\ results \in 0..MaxResults /\ rows \in 0..MaxRows
    /\ long \in BOOLEAN /\ failed \in BOOLEAN /\ db \in Dbs \cup {NoDb}

ResultInit ==
    /\ command = "none" /\ verdict = "more"
    /\ query = query_result_new /\ prepare = stmt_prepare_result_new
    /\ db_name = NoDb /\ default_db = [client |-> NoDb, server |-> NoDb]
    /\ srv = "idle" /\ results = 0 /\ rows = 0 /\ long = FALSE
    /\ failed = FALSE /\ db = NoDb
-----------------------------------------------------------------------------
(***************************************************************************)
(* network_mysqld_proto_get_com_query_result(), one operator per state:    *)
(* what it says of packet p, and the query it leaves.                      *)
(***************************************************************************)
Says(v, q) == [verdict |-> v, query |-> q]

QueryInit(p, q) ==
    CASE p.head = "ERR" -> Says("last", [q EXCEPT !.query_status = "ERR"])
      [] p.head = "OK" ->
            Says(IF "MORE_RESULTS_EXISTS" \in p.status THEN "more" ELSE "last",
                 [q EXCEPT !.query_status = "OK", !.server_status = p.status,
                           !.was_resultset = FALSE])
      [] p.head = "NULL" -> Says("last", [q EXCEPT !.state = "LOCAL_INFILE_DATA"])
      [] p.head = "EOF" -> Says("invalid", q)
      [] OTHER -> Says("more", [q EXCEPT !.query_status = "OK", !.state = "FIELD"])

\* Mutant: a cursor is looked for in text result-sets too.
QueryFieldAnyCursor(p, q, binary) ==
    IF p.head = "EOF" /\ "CURSOR_EXISTS" \in p.status
                      /\ "MORE_RESULTS_EXISTS" \notin p.status
    THEN Says("last", [q EXCEPT !.server_status = p.status])
    ELSE IF p.head = "EOF"
    THEN Says("more", [q EXCEPT !.state = "RESULT", !.server_status = p.status])
    ELSE Says("more", q)

\* Only a prepared statement fetches the rows of a cursor later; with
\* SERVER_MORE_RESULTS_EXISTS the rows follow even so (#61998).
QueryField(p, q, binary) ==
    CASE p.head \in {"ERR", "OK", "NULL"} -> Says("invalid", q)
      [] p.head = "EOF" /\ p.nine ->
            IF binary /\ "CURSOR_EXISTS" \in p.status /\ "MORE_RESULTS_EXISTS" \notin p.status
            THEN Says("last", [q EXCEPT !.server_status = p.status])
            ELSE Says("more", [q EXCEPT !.state = "RESULT", !.server_status = p.status])
      [] p.head = "EOF" /\ ~p.nine -> Says("more", [q EXCEPT !.state = "RESULT"])
      [] OTHER -> Says("more", q)

\* Mutant: a row whose first column is NULL or empty is not counted.
QueryRowsNotNull(p, q) ==
    LET st == IF "PS_OUT_PARAMS" \in q.server_status THEN q.server_status ELSE p.status
    IN  CASE p.head = "EOF" /\ p.nine ->
               Says(IF More \subseteq st THEN "more" ELSE "last",
                    [q EXCEPT !.was_resultset = TRUE, !.server_status = st,
                              !.state = IF More \subseteq st THEN "INIT" ELSE @])
          [] p.head = "ERR" -> Says("last", q)
          [] p.head \in {"OK", "NULL"} \/ (p.head = "EOF" /\ ~p.nine) -> Says("more", q)
          [] OTHER -> Says("more", [q EXCEPT !.rows = @ + 1])

\* The flags of the second EOF count, unless the first announced the OUT
\* parameters of a CALL: its end of rows lacks SERVER_MORE_RESULTS_EXISTS. A
\* row of 16 Mbyte may begin with 0xfe as well: no EOF, and not counted.
QueryRows(p, q) ==
    LET st == IF "PS_OUT_PARAMS" \in q.server_status THEN q.server_status ELSE p.status
    IN  CASE p.head = "EOF" /\ p.nine ->
               Says(IF More \subseteq st THEN "more" ELSE "last",
                    [q EXCEPT !.was_resultset = TRUE, !.server_status = st,
                              !.state = IF More \subseteq st THEN "INIT" ELSE @])
          [] p.head = "EOF" /\ ~p.nine -> Says("more", q)
          [] p.head = "ERR" -> Says("last", q)
          [] OTHER -> Says("more", [q EXCEPT !.rows = @ + 1])

InfileData(p, q) ==
    IF p.empty THEN Says("last", [q EXCEPT !.state = "LOCAL_INFILE_RESULT"])
               ELSE Says("more", q)

InfileResult(p, q) == Says(IF p.head = "OK" THEN "last" ELSE "invalid", q)

get_com_query_result(p, q, binary) ==
    CASE q.state = "INIT" -> QueryInit(p, q)
      [] q.state = "FIELD" -> QueryField(p, q, binary)
      [] q.state = "RESULT" -> QueryRows(p, q)
      [] q.state = "LOCAL_INFILE_DATA" -> InfileData(p, q)
      [] q.state = "LOCAL_INFILE_RESULT" -> InfileResult(p, q)
-----------------------------------------------------------------------------
\* network_mysqld_proto_get_com_stmt_prepare_result(). A packet it does not
\* expect ends the process (g_error()); no server of this model sends one.
get_com_stmt_prepare_result(p, s) ==
    IF s.first_packet
    THEN [verdict |-> IF p.head = "ERR" \/ p.eofs = 0 THEN "last" ELSE "more",
          prepare |-> [first_packet |-> FALSE,
                       want_eofs |-> IF p.head = "OK" THEN p.eofs ELSE s.want_eofs]]
    ELSE [verdict |-> IF p.head = "EOF" /\ s.want_eofs = 1 THEN "last" ELSE "more",
          prepare |-> [s EXCEPT !.want_eofs = IF p.head = "EOF" THEN @ - 1 ELSE @]]

\* network_mysqld_proto_get_com_init_db()
get_com_init_db(p) ==
    /\ default_db' = IF p.head = "OK" THEN [client |-> db_name, server |-> db_name]
                                     ELSE default_db
    /\ verdict' = IF p.head \in {"OK", "ERR"} THEN "last" ELSE "invalid"

LastIf(b, else) == IF b THEN "last" ELSE else

\* The commands that get_query_result() decides by itself.
SimpleVerdict(p) ==
    CASE command \in OkOrErr -> LastIf(p.head \in {"OK", "ERR"}, "invalid")
      [] command \in EofOrErr -> LastIf(p.head \in {"EOF", "ERR"}, "invalid")
      [] command = "FIELD_LIST" ->
            LastIf(p.head \in {"EOF", "ERR"},
                   IF p.head \in {"OK", "NULL"} THEN "invalid" ELSE "more")
      [] command = "STMT_FETCH" ->
            LastIf(\/ p.head = "ERR"
                   \/ /\ p.head = "EOF"
                      /\ p.status \cap {"LAST_ROW_SENT", "CURSOR_EXISTS"} # {}, "more")
      [] command \in OnePacket -> "last"

get_query_result(p) ==
    \/ /\ command \in Querying
       /\ LET r == get_com_query_result(p, query, command = "STMT_EXECUTE")
          IN  verdict' = r.verdict /\ query' = r.query
       /\ UNCHANGED <<prepare, db_name, default_db>>
    \/ /\ command = "STMT_PREPARE"
       /\ LET r == get_com_stmt_prepare_result(p, prepare)
          IN  verdict' = r.verdict /\ prepare' = r.prepare
       /\ UNCHANGED <<query, db_name, default_db>>
    \/ /\ command = "INIT_DB"
       /\ get_com_init_db(p)
       /\ UNCHANGED <<query, prepare, db_name>>
    \/ /\ command \notin Querying \cup {"STMT_PREPARE", "INIT_DB"}
       /\ verdict' = SimpleVerdict(p)
       /\ UNCHANGED parseVars
-----------------------------------------------------------------------------

\* network_mysqld_con_reset_command_response_state(), then
\* network_mysqld_con_command_states_init() for the next command.
command_states_init(cmd, name) ==
    /\ command' = cmd
    /\ query' = query_result_new
    /\ prepare' = stmt_prepare_result_new
    /\ db_name' = IF cmd = "INIT_DB" THEN name ELSE NoDb
    /\ UNCHANGED default_db

Ask(cmd, name) ==
    /\ srv \in {"idle", "over"}
    /\ command_states_init(cmd, name)
    /\ verdict' = "more"
    /\ srv' = "first" /\ results' = 0 /\ rows' = 0 /\ long' = FALSE /\ failed' = FALSE
    /\ UNCHANGED db
-----------------------------------------------------------------------------
(***************************************************************************)
(* The server: the packets it may send next, each with where that leads.   *)
(***************************************************************************)
To(ps, s) == {<<p, s>> : p \in ps}
\* A status that says whether another result-set follows.
Following(p(_)) ==
    To({p({})}, "over") \cup To(IF results < MaxResults THEN {p(More)} ELSE {}, "first")
Rows == IF rows = MaxRows THEN {}
        ELSE IF command = "STMT_EXECUTE" THEN {Packet("OK")}
        ELSE {Packet("OK"), Packet("NULL"), Packet("other")}
Binary == command = "STMT_EXECUTE"

FirstReplies ==
    CASE command \in Querying ->
            To({Err}, "over") \cup Following(Ok) \cup To({Definition}, "fields")
            \cup To(IF command = "QUERY" THEN {Packet("NULL")} ELSE {}, "infile")
      [] command = "CHANGE_USER" ->
            To({Ok({}), Err} \cup IF "auth_switch" \in Beyond THEN {Packet("EOF")} ELSE {}, "over")
      [] command \in OkOrErr \cup {"INIT_DB"} -> To({Ok({}), Err}, "over")
      [] command \in EofOrErr -> To({Eof({}), Err}, "over")
      [] command = "FIELD_LIST" -> To({Definition}, "first") \cup To({Eof({}), Err}, "over")
      [] command = "STMT_FETCH" ->
            To({Packet("OK")}, "first")
            \cup To({Eof({"CURSOR_EXISTS"}), Eof({"LAST_ROW_SENT"}), Err}, "over")
      [] command \in OnePacket -> To({Definition}, "over")
      [] command = "STMT_PREPARE" ->
            To({Err, Ok({})}, "over") \cup To({[Ok({}) EXCEPT !.eofs = 1]}, "columns")
            \cup To({[Ok({}) EXCEPT !.eofs = 2]}, "params")

\* Behind the column definitions. A cursor of a prepared statement is read
\* with COM_STMT_FETCH; elsewhere the flag has no meaning.
FieldsEnd ==
    To({Eof({}), Eof(More), Eof(More \cup {"CURSOR_EXISTS"})}, "rows")
    \cup To({Eof({"CURSOR_EXISTS"})}, IF Binary THEN "over" ELSE "rows")
    \cup To(IF Binary /\ results < MaxResults THEN {Eof(More \cup {"PS_OUT_PARAMS"})} ELSE {},
            "out_rows")

\* A row of 16 Mbyte and more takes several packets: the first is as long as a
\* packet can be and may begin with 0xfe, the others begin with any byte.
RowReplies ==
    To(Rows, srv)
    \cup To(IF rows = MaxRows THEN {} ELSE Rows \cup {Packet("EOF")}, "long_row")
LongRowEnds ==
    To({Packet("OK"), Packet("NULL"), Packet("other")}
       \cup IF "long_row" \in Beyond THEN {Err, Eof({})} ELSE {}, "rows")

SrvReplies ==
    CASE srv = "first" -> FirstReplies
      [] srv = "fields" -> To({Definition}, "fields") \cup FieldsEnd
      [] srv = "rows" -> RowReplies \cup Following(Eof) \cup To({Err}, "over")
      [] srv = "out_rows" -> To(Rows, srv) \cup To({Eof({})}, "first") \cup To({Err}, "over")
      [] srv = "long_row" -> LongRowEnds
      [] srv = "params" -> To({Definition}, "params") \cup To({Eof({})}, "columns")
      [] srv = "columns" -> To({Definition}, "columns") \cup To({Eof({})}, "over")
      [] srv = "loaded" ->
            To({Ok({})} \cup IF "infile_err" \in Beyond THEN {Err} ELSE {}, "over")
            \cup To(IF "infile_more" \in Beyond THEN {Ok(More)} ELSE {}, "first")
      [] OTHER -> {}

\* A packet of the server passes by.
Answer ==
    \E r \in SrvReplies :
       /\ get_query_result(r[1])
       /\ srv' = r[2]
       /\ results' = IF r[2] = "first" /\ command \in Querying THEN results + 1 ELSE results
       /\ rows' = IF srv' = "long_row" \/ (srv \in {"rows", "out_rows"} /\ r[1] \in Rows)
                  THEN rows + 1 ELSE rows
       /\ long' = (long \/ srv' = "long_row")
       /\ failed' = (r[1] = Err)
       /\ db' = IF command = "INIT_DB" /\ r[1] = Ok({}) THEN db_name ELSE db
       /\ UNCHANGED command

\* A piece of the file, or the empty packet behind it, passes by the other way.
SendFile ==
    /\ srv = "infile"
    /\ \E p \in {Definition, Empty} :
          /\ get_query_result(p)
          /\ srv' = IF p.empty THEN "loaded" ELSE "infile"
    /\ UNCHANGED <<command, results, rows, long, failed, db>>

ResultNext ==
    \/ \E cmd \in Commands, name \in Dbs : Ask(cmd, name)
    \/ Answer
    \/ SendFile

ResultSpec == ResultInit /\ [][ResultNext]_resultVars
-----------------------------------------------------------------------------
(***************************************************************************)
(* What the rest of the proxy relies on.                                   *)
(***************************************************************************)
\* The tracker finds the end of the response with the packet that is its end,
\* neither before (the client would get half of it and the rest as the answer
\* to its next command) nor after it (everyone would wait).
EndsTogether ==
    CASE srv \in {"idle", "over"} -> verdict = IF command = "none" THEN "more" ELSE "last"
      [] srv = "infile" -> verdict \in {"last", "more"} /\ query.state = "LOCAL_INFILE_DATA"
      [] srv = "loaded" -> verdict = "last" /\ query.state = "LOCAL_INFILE_RESULT"
      [] OTHER -> verdict = "more"

\* The statistics a script sees as inj.resultset.row_count: all rows of all
\* result-sets of the response, whatever they begin with. (A row of several
\* packets counts once for each of them that does not begin with 0xfe.)
RowsCounted == command \in Querying /\ ~long => query.rows = rows

\* default_db of both sockets is the database that the server uses, also when
\* it refuses to change it.
DbFollows == default_db = [client |-> db, server |-> db]

\* query_status is "ERR for a error-packet": a response that ends with an ERR
\* is reported as failed.
StatusIsTrue ==
    srv = "over" /\ command \in Querying => (query.query_status = "ERR") = failed
=============================================================================
