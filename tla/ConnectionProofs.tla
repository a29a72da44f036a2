------------------------- MODULE ConnectionProofs --------------------------
(***************************************************************************)
(* Proofs about what a client's connection rests on: the tracker of the    *)
(* server's responses (QueryResult), and the pool its server connections   *)
(* come from (ConnPool).  The two share no variable.                       *)
(***************************************************************************)
EXTENDS QueryResult, ConnPool, TLAPS

-----------------------------------------------------------------------------
(***************************************************************************)
(* The tracker of the responses, for any number of result-sets, rows and   *)
(* databases, as long as the server keeps to what the tracker was written  *)
(* for (Beyond = {}): it finds the end of each response, counts its rows,  *)
(* and knows the database.                                                 *)
(***************************************************************************)
Queries ==
    [state : QueryStates, query_status : {"NULL", "OK", "ERR"}, server_status : SUBSET Flags,
     rows : Nat, was_resultset : BOOLEAN]

\* Where the server is in its response tells where the tracker is, and what it has said.
InStep(at, cmd, q, prep, said) ==
    /\ at \in {"idle", "over"} => said = IF cmd = "none" THEN "more" ELSE "last"
    /\ at = "first" => /\ said = "more"
                       /\ cmd \in Querying => q.state = "INIT"
                       /\ cmd = "STMT_PREPARE" => prep.first_packet
    /\ at = "fields" => said = "more" /\ cmd \in Querying /\ q.state = "FIELD"
    /\ at \in {"rows", "long_row"} =>
          /\ said = "more" /\ cmd \in Querying /\ q.state = "RESULT"
          /\ "PS_OUT_PARAMS" \notin q.server_status
    /\ at = "out_rows" =>
          /\ said = "more" /\ cmd = "STMT_EXECUTE" /\ q.state = "RESULT"
          /\ "PS_OUT_PARAMS" \in q.server_status /\ "MORE_RESULTS_EXISTS" \in q.server_status
    /\ at = "infile" => said \in {"last", "more"} /\ cmd = "QUERY" /\ q.state = "LOCAL_INFILE_DATA"
    /\ at = "loaded" => said = "last" /\ cmd = "QUERY" /\ q.state = "LOCAL_INFILE_RESULT"
    /\ at \in {"params", "columns"} =>
          /\ said = "more" /\ cmd = "STMT_PREPARE" /\ ~prep.first_packet
          /\ prep.want_eofs = IF at = "params" THEN 2 ELSE 1

TrackInv ==
    /\ srv \in SrvStates /\ command \in AllCommands \cup {"none"}
    /\ srv = "idle" <=> command = "none"
    /\ query \in Queries /\ rows \in Nat /\ long \in BOOLEAN
    /\ prepare = [first_packet |-> prepare.first_packet, want_eofs |-> prepare.want_eofs]
    /\ InStep(srv, command, query, prepare, verdict)
    /\ srv = "long_row" => long
    /\ command \in Querying /\ ~long => query.rows = rows

-----------------------------------------------------------------------------
(***************************************************************************)
(* The packets, and what the tracker says of them.                         *)
(***************************************************************************)
LEMMA PacketFields ==
    /\ \A h : /\ Packet(h).head = h /\ ~Packet(h).nine /\ ~Packet(h).empty
              /\ Packet(h).status = {} /\ Packet(h).eofs = 0
    /\ \A f : Ok(f).head = "OK" /\ Ok(f).status = f /\ Ok(f).eofs = 0
    /\ \A f : Eof(f).head = "EOF" /\ Eof(f).nine /\ Eof(f).status = f
    /\ \A n : [Ok({}) EXCEPT !.eofs = n].head = "OK" /\ [Ok({}) EXCEPT !.eofs = n].eofs = n
    /\ Err.head = "ERR" /\ Definition.head = "other" /\ ~Definition.empty /\ Empty.empty
BY DEF Packet, Ok, Eof, Err, Definition, Empty

LEMMA QueryInitSays ==
    ASSUME NEW p, p.status \in SUBSET Flags, NEW q \in Queries
    PROVE  LET r == QueryInit(p, q) IN
           /\ r.query \in Queries /\ r.query.rows = q.rows
           /\ p.head = "ERR" => r.verdict = "last"
           /\ p.head = "OK" => /\ r.query.state = q.state
                               /\ r.verdict = IF "MORE_RESULTS_EXISTS" \in p.status THEN "more" ELSE "last"
           /\ p.head = "NULL" => r.verdict = "last" /\ r.query.state = "LOCAL_INFILE_DATA"
           /\ p.head = "other" => r.verdict = "more" /\ r.query.state = "FIELD"
<1> DEFINE r == QueryInit(p, q)
<1>1. CASE p.head = "ERR"
  <2>1. r = Says("last", [q EXCEPT !.query_status = "ERR"])
    BY <1>1 DEF QueryInit
  <2>2. r.verdict = "last"
        /\ r.query = [q EXCEPT !.query_status = "ERR"]
    BY <2>1 DEF Says
  <2>3. LET u == [q EXCEPT !.query_status = "ERR"] IN
        u \in Queries /\ u.rows = q.rows
    BY Zenon DEF Queries, QueryStates
  <2> QED BY <1>1, <2>2, <2>3
<1>2. CASE p.head = "OK"
  <2>1. r = Says(IF "MORE_RESULTS_EXISTS" \in p.status THEN "more" ELSE "last",
                 [q EXCEPT !.query_status = "OK", !.server_status = p.status, !.was_resultset = FALSE])
    BY <1>2 DEF QueryInit
  <2>2. r.verdict = (IF "MORE_RESULTS_EXISTS" \in p.status THEN "more" ELSE "last")
        /\ r.query = [q EXCEPT !.query_status = "OK", !.server_status = p.status, !.was_resultset = FALSE]
    BY <2>1 DEF Says
  <2>3. LET u == [q EXCEPT !.query_status = "OK", !.server_status = p.status, !.was_resultset = FALSE] IN
        u \in Queries /\ u.rows = q.rows /\ u.state = q.state
    BY Zenon DEF Queries, QueryStates
  <2> QED BY <1>2, <2>2, <2>3
<1>3. CASE p.head = "NULL"
  <2>1. r = Says("last", [q EXCEPT !.state = "LOCAL_INFILE_DATA"])
    BY <1>3 DEF QueryInit
  <2>2. r.verdict = "last"
        /\ r.query = [q EXCEPT !.state = "LOCAL_INFILE_DATA"]
    BY <2>1 DEF Says
  <2>3. LET u == [q EXCEPT !.state = "LOCAL_INFILE_DATA"] IN
        u \in Queries /\ u.rows = q.rows /\ u.state = "LOCAL_INFILE_DATA"
    BY Zenon DEF Queries, QueryStates
  <2> QED BY <1>3, <2>2, <2>3
<1>4. CASE p.head = "EOF"
  <2>1. r = Says("invalid", q)
    BY <1>4 DEF QueryInit
  <2>2. r.verdict = "invalid" /\ r.query = q
    BY <2>1 DEF Says
  <2> QED BY <1>4, <2>2
<1>5. CASE p.head \notin {"ERR", "OK", "NULL", "EOF"}
  <2>1. r = Says("more", [q EXCEPT !.query_status = "OK", !.state = "FIELD"])
    BY <1>5 DEF QueryInit
  <2>2. r.verdict = "more"
        /\ r.query = [q EXCEPT !.query_status = "OK", !.state = "FIELD"]
    BY <2>1 DEF Says
  <2>3. LET u == [q EXCEPT !.query_status = "OK", !.state = "FIELD"] IN
        u \in Queries /\ u.rows = q.rows /\ u.state = "FIELD"
    BY Zenon DEF Queries, QueryStates
  <2> QED BY <1>5, <2>2, <2>3
<1> QED BY <1>1, <1>2, <1>3, <1>4, <1>5

LEMMA QueryFieldSays ==
    ASSUME NEW p, p.status \in SUBSET Flags, NEW q \in Queries, NEW binary
    PROVE  LET r == QueryField(p, q, binary) IN
           /\ r.query \in Queries /\ r.query.rows = q.rows
           /\ p.head = "other" => r.verdict = "more" /\ r.query = q
           /\ p.head = "EOF" /\ p.nine =>
                 /\ r.query.server_status = p.status
                 /\ IF binary /\ "CURSOR_EXISTS" \in p.status /\ "MORE_RESULTS_EXISTS" \notin p.status
                    THEN r.verdict = "last"
                    ELSE r.verdict = "more" /\ r.query.state = "RESULT"
<1> DEFINE r == QueryField(p, q, binary)
<1>1. CASE p.head \in {"ERR", "OK", "NULL"}
  <2>1. r = Says("invalid", q)
    BY <1>1 DEF QueryField
  <2>2. r.verdict = "invalid" /\ r.query = q
    BY <2>1 DEF Says
  <2> QED BY <1>1, <2>2
<1>2. CASE p.head = "EOF" /\ p.nine
  <2>1. r = IF binary /\ "CURSOR_EXISTS" \in p.status /\ "MORE_RESULTS_EXISTS" \notin p.status
            THEN Says("last", [q EXCEPT !.server_status = p.status])
            ELSE Says("more", [q EXCEPT !.state = "RESULT", !.server_status = p.status])
    BY <1>2 DEF QueryField
  <2>2. LET u == [q EXCEPT !.server_status = p.status] IN
        u \in Queries /\ u.rows = q.rows /\ u.server_status = p.status
    BY Zenon DEF Queries
  <2>3. LET u == [q EXCEPT !.state = "RESULT", !.server_status = p.status] IN
        u \in Queries /\ u.rows = q.rows /\ u.server_status = p.status /\ u.state = "RESULT"
    BY Zenon DEF Queries, QueryStates
  <2> QED BY <1>2, <2>1, <2>2, <2>3 DEF Says
<1>3. CASE p.head = "EOF" /\ ~p.nine
  <2>1. r = Says("more", [q EXCEPT !.state = "RESULT"])
    BY <1>3 DEF QueryField
  <2>2. r.verdict = "more"
        /\ r.query = [q EXCEPT !.state = "RESULT"]
    BY <2>1 DEF Says
  <2>3. LET u == [q EXCEPT !.state = "RESULT"] IN
        u \in Queries /\ u.rows = q.rows
    BY Zenon DEF Queries, QueryStates
  <2> QED BY <1>3, <2>2, <2>3
<1>4. CASE p.head \notin {"ERR", "OK", "NULL", "EOF"}
  <2>1. r = Says("more", q)
    BY <1>4 DEF QueryField
  <2>2. r.verdict = "more" /\ r.query = q
    BY <2>1 DEF Says
  <2> QED BY <1>4, <2>2
<1> QED BY <1>1, <1>2, <1>3, <1>4

LEMMA QueryRowsSays ==
    ASSUME NEW p, p.status \in SUBSET Flags, NEW q \in Queries
    PROVE  LET r == QueryRows(p, q)
               st == IF "PS_OUT_PARAMS" \in q.server_status THEN q.server_status ELSE p.status IN
           /\ r.query \in Queries
           /\ p.head = "EOF" /\ p.nine =>
                 /\ r.query.rows = q.rows
                 /\ IF "MORE_RESULTS_EXISTS" \in st THEN r.verdict = "more" /\ r.query.state = "INIT"
                                                    ELSE r.verdict = "last"
           /\ p.head = "EOF" /\ ~p.nine => r.verdict = "more" /\ r.query = q
           /\ p.head = "ERR" => r.verdict = "last" /\ r.query = q
           /\ p.head \in {"OK", "NULL", "other"} =>
                 /\ r.verdict = "more" /\ r.query.rows = q.rows + 1
                 /\ r.query.state = q.state /\ r.query.server_status = q.server_status
<1> DEFINE r == QueryRows(p, q)
           st == IF "PS_OUT_PARAMS" \in q.server_status THEN q.server_status ELSE p.status
<1>1. CASE p.head = "EOF" /\ p.nine
  <2>1. More \subseteq st <=> "MORE_RESULTS_EXISTS" \in st
    BY DEF More
  <2>2. st \in SUBSET Flags
    BY DEF Queries
  <2> DEFINE x == IF "MORE_RESULTS_EXISTS" \in st THEN "INIT" ELSE q.state
             u == [q EXCEPT !.was_resultset = TRUE, !.server_status = st, !.state = x]
  <2>3. r = Says(IF "MORE_RESULTS_EXISTS" \in st THEN "more" ELSE "last", u)
    BY <1>1, <2>1, Zenon DEF QueryRows
  <2>4. r.verdict = (IF "MORE_RESULTS_EXISTS" \in st THEN "more" ELSE "last") /\ r.query = u
    BY <2>3 DEF Says
  <2>5. x \in QueryStates
    BY DEF Queries, QueryStates
  <2> HIDE DEF x, st
  <2>6. u \in Queries /\ u.rows = q.rows /\ u.state = x
    BY <2>2, <2>5, Zenon DEF Queries
  <2> HIDE DEF r, u
  <2> QED BY <1>1, <2>4, <2>6 DEF r, st, x
<1>2. CASE p.head = "EOF" /\ ~p.nine
  <2>1. r = Says("more", q)
    BY <1>2 DEF QueryRows
  <2>2. r.verdict = "more" /\ r.query = q
    BY <2>1 DEF Says
  <2> QED BY <1>2, <2>2
<1>3. CASE p.head = "ERR"
  <2>1. r = Says("last", q)
    BY <1>3 DEF QueryRows
  <2>2. r.verdict = "last" /\ r.query = q
    BY <2>1 DEF Says
  <2> QED BY <1>3, <2>2
<1>4. CASE p.head \notin {"ERR", "EOF"}
  <2>1. r = Says("more", [q EXCEPT !.rows = q.rows + 1])
    BY <1>4 DEF QueryRows
  <2>2. r.verdict = "more"
        /\ r.query = [q EXCEPT !.rows = q.rows + 1]
    BY <2>1 DEF Says
  <2>3. q.rows + 1 \in Nat
    BY DEF Queries
  <2>4. LET u == [q EXCEPT !.rows = q.rows + 1] IN
        /\ u \in Queries /\ u.rows = q.rows + 1 /\ u.state = q.state
        /\ u.server_status = q.server_status
    BY <2>3, Zenon DEF Queries
  <2> QED BY <1>4, <2>2, <2>4
<1> QED BY <1>1, <1>2, <1>3, <1>4

-----------------------------------------------------------------------------
(***************************************************************************)
(* A packet p of the server passes by and leads it to at.                  *)
(***************************************************************************)
Passes(p, at) ==
    /\ get_query_result(p) /\ srv' = at /\ command' = command
    /\ rows' = IF at = "long_row" \/ (srv \in {"rows", "out_rows"} /\ p \in Rows) THEN rows + 1 ELSE rows
    /\ long' = (long \/ at = "long_row")

LEMMA ReplyOf == ASSUME NEW ps, NEW at, NEW r \in To(ps, at) PROVE r[1] \in ps /\ r[2] = at
BY DEF To

LEMMA RowsAre ==
    /\ \A p \in Rows : p.head \in {"OK", "NULL", "other"} /\ p.status = {}
    /\ \A p : p.head \in {"EOF", "ERR"} => p \notin Rows
<1>1. Rows \subseteq {Packet("OK"), Packet("NULL"), Packet("other")}
  BY DEF Rows
<1> QED BY <1>1, PacketFields

LEMMA CommandsApart ==
    /\ Querying \subseteq AllCommands /\ "none" \notin AllCommands
    /\ "STMT_PREPARE" \notin Querying /\ "INIT_DB" \notin Querying
    /\ "QUERY" \in Querying /\ "STMT_EXECUTE" \in Querying
BY DEF Querying, AllCommands, OkOrErr, EofOrErr, OnePacket

\* A command with a query_result: the tracker is the one of its state.
LEMMA Queried ==
    ASSUME command \in Querying, NEW p, get_query_result(p)
    PROVE  LET r == get_com_query_result(p, query, command = "STMT_EXECUTE") IN
           /\ prepare' = prepare /\ verdict' = r.verdict /\ query' = r.query
           /\ query.state = "INIT" => r = QueryInit(p, query)
           /\ query.state = "FIELD" => r = QueryField(p, query, command = "STMT_EXECUTE")
           /\ query.state = "RESULT" => r = QueryRows(p, query)
           /\ query.state = "LOCAL_INFILE_DATA" => r = InfileData(p, query)
           /\ query.state = "LOCAL_INFILE_RESULT" => r = InfileResult(p, query)
<1>1. command \notin {"STMT_PREPARE", "INIT_DB"}
  BY CommandsApart
<1> DEFINE r == get_com_query_result(p, query, command = "STMT_EXECUTE")
<1>2. prepare' = prepare /\ verdict' = r.verdict /\ query' = r.query
  <2> HIDE DEF r
  <2> QED BY <1>1 DEF get_query_result, r
<1> QED BY <1>2 DEF get_com_query_result

\* What remains to be shown of a packet in a response with a query_result.
LEMMA QueriedInv ==
    ASSUME TrackInv, command \in Querying, NEW p, NEW at \in SrvStates \ {"idle"}, Passes(p, at),
           query' \in Queries, prepare' = prepare,
           InStep(at, command, query', prepare, verdict'),
           long' \/ query'.rows - query.rows = rows' - rows
    PROVE  TrackInv'
<1>1. command \in AllCommands /\ command # "none"
  BY CommandsApart
<1>2. rows' \in Nat /\ srv' = at /\ command' = command
  BY DEF Passes, TrackInv
<1>3. long' \in BOOLEAN /\ (srv' = "long_row" => long') /\ (~long' => ~long)
  <2>1. long' = (long \/ at = "long_row") /\ srv' = at
    BY DEF Passes
  <2> QED BY <2>1, Zenon
<1>4. ~long' => query'.rows = rows'
  <2>1. SUFFICES ASSUME ~long' PROVE query'.rows = rows'
    OBVIOUS
  <2>2. ~long /\ query'.rows - query.rows = rows' - rows
    BY <1>3, <2>1, Zenon
  <2>3. query.rows = rows /\ query.rows \in Nat /\ query'.rows \in Nat
    BY <2>2 DEF TrackInv, Queries
  <2> QED BY <1>2, <2>2, <2>3
<1> QED BY <1>1, <1>2, <1>3, <1>4 DEF TrackInv

LEMMA FollowingReplies ==
    /\ \A r \in Following(Ok) :
          (r[1] = Ok({}) /\ r[2] = "over") \/ (r[1] = Ok(More) /\ r[2] = "first")
    /\ \A r \in Following(Eof) :
          (r[1] = Eof({}) /\ r[2] = "over") \/ (r[1] = Eof(More) /\ r[2] = "first")
BY DEF Following, To

\* The first packet of a result.
LEMMA FirstOfResult ==
    ASSUME TrackInv, srv = "first", command \in Querying, NEW r \in SrvReplies, Passes(r[1], r[2])
    PROVE  TrackInv'
<1>1. r \in To({Err}, "over") \cup Following(Ok) \cup To({Definition}, "fields")
            \cup To(IF command = "QUERY" THEN {Packet("NULL")} ELSE {}, "infile")
  <2>1. SrvReplies = FirstReplies
    BY DEF SrvReplies
  <2> QED BY <2>1 DEF FirstReplies, Querying, OkOrErr, EofOrErr, OnePacket
<1>2. \/ r[1] = Err /\ r[2] = "over"
      \/ r[1] = Ok({}) /\ r[2] = "over"
      \/ r[1] = Ok(More) /\ r[2] = "first"
      \/ r[1] = Definition /\ r[2] = "fields"
      \/ r[1] = Packet("NULL") /\ r[2] = "infile" /\ command = "QUERY"
  <2>1. CASE r \in Following(Ok)
    BY <2>1, FollowingReplies, Zenon
  <2>2. CASE r \in To({Err}, "over") \cup To({Definition}, "fields")
    BY <2>2 DEF To
  <2>3. CASE r \in To(IF command = "QUERY" THEN {Packet("NULL")} ELSE {}, "infile")
    BY <2>3 DEF To
  <2> QED BY <1>1, <2>1, <2>2, <2>3, Zenon
<1> DEFINE p == r[1]
           R == QueryInit(p, query)
<1>3. p.status \in SUBSET Flags /\ (p = Ok({}) => "MORE_RESULTS_EXISTS" \notin p.status)
      /\ (p = Ok(More) => "MORE_RESULTS_EXISTS" \in p.status)
  BY <1>2, PacketFields DEF More, Flags, Err, Definition
<1>4. query.state = "INIT" /\ query \in Queries
  BY DEF TrackInv, InStep
<1>5. verdict' = R.verdict /\ query' = R.query /\ prepare' = prepare
  BY <1>4, Queried DEF Passes
<1> HIDE DEF R
<1>6. /\ query' \in Queries /\ query'.rows = query.rows
      /\ p.head = "ERR" => verdict' = "last"
      /\ p.head = "OK" => /\ query'.state = "INIT"
                          /\ verdict' = IF "MORE_RESULTS_EXISTS" \in p.status THEN "more" ELSE "last"
      /\ p.head = "NULL" => verdict' = "last" /\ query'.state = "LOCAL_INFILE_DATA"
      /\ p.head = "other" => verdict' = "more" /\ query'.state = "FIELD"
  BY <1>3, <1>4, <1>5, QueryInitSays DEF R
<1>7. r[2] \in SrvStates \ {"idle"} /\ rows' = rows /\ query'.rows - query.rows = rows' - rows
  BY <1>2, <1>6 DEF SrvStates, Passes, TrackInv, Queries
<1>8. command # "none" /\ command # "STMT_PREPARE"
  BY CommandsApart
<1>9. InStep(r[2], command, query', prepare, verdict')
  <2>1. CASE r[1] = Err /\ r[2] = "over"
    BY <1>6, <1>8, <2>1, PacketFields DEF InStep
  <2>2. CASE r[1] = Ok({}) /\ r[2] = "over"
    BY <1>3, <1>6, <1>8, <2>2, PacketFields DEF InStep
  <2>3. CASE r[1] = Ok(More) /\ r[2] = "first"
    BY <1>3, <1>6, <1>8, <2>3, PacketFields DEF InStep
  <2>4. CASE r[1] = Definition /\ r[2] = "fields"
    BY <1>6, <2>4, PacketFields DEF InStep
  <2>5. CASE r[1] = Packet("NULL") /\ r[2] = "infile" /\ command = "QUERY"
    BY <1>6, <2>5, PacketFields DEF InStep
  <2> QED BY <1>2, <2>1, <2>2, <2>3, <2>4, <2>5
<1> QED BY <1>5, <1>6, <1>7, <1>9, QueriedInv

\* The column definitions and the EOF behind them.
LEMMA FieldsOfResult ==
    ASSUME TrackInv, srv = "fields", NEW r \in SrvReplies, Passes(r[1], r[2])
    PROVE  TrackInv'
<1>1. r \in To({Definition}, "fields") \cup FieldsEnd
  BY DEF SrvReplies
<1>2. \/ r[1] = Definition /\ r[2] = "fields"
      \/ r[1] \in {Eof({}), Eof(More), Eof(More \cup {"CURSOR_EXISTS"})} /\ r[2] = "rows"
      \/ r[1] = Eof({"CURSOR_EXISTS"}) /\ r[2] = IF Binary THEN "over" ELSE "rows"
      \/ r[1] = Eof(More \cup {"PS_OUT_PARAMS"}) /\ Binary /\ r[2] = "out_rows"
  BY <1>1 DEF FieldsEnd, To
<1> DEFINE p == r[1]
           R == QueryField(p, query, command = "STMT_EXECUTE")
<1>3. query.state = "FIELD" /\ query \in Queries /\ command \in Querying
  BY DEF TrackInv, InStep
<1>4. verdict' = R.verdict /\ query' = R.query /\ prepare' = prepare
  BY <1>3, Queried DEF Passes
<1>5. p.status \in SUBSET Flags
  BY <1>2, PacketFields DEF More, Flags, Definition
<1> HIDE DEF R
<1>6. /\ query' \in Queries /\ query'.rows = query.rows
      /\ p.head = "other" => verdict' = "more" /\ query' = query
      /\ p.head = "EOF" /\ p.nine =>
            /\ query'.server_status = p.status
            /\ IF Binary /\ "CURSOR_EXISTS" \in p.status /\ "MORE_RESULTS_EXISTS" \notin p.status
               THEN verdict' = "last"
               ELSE verdict' = "more" /\ query'.state = "RESULT"
  <2>1. PICK b : b = Binary
    OBVIOUS
  <2>2. R = QueryField(p, query, b)
    BY <2>1 DEF R, Binary
  <2> HIDE DEF p
  <2>3. /\ R.query \in Queries /\ R.query.rows = query.rows
        /\ p.head = "other" => R.verdict = "more" /\ R.query = query
        /\ p.head = "EOF" /\ p.nine =>
              /\ R.query.server_status = p.status
              /\ IF b /\ "CURSOR_EXISTS" \in p.status /\ "MORE_RESULTS_EXISTS" \notin p.status
                 THEN R.verdict = "last"
                 ELSE R.verdict = "more" /\ R.query.state = "RESULT"
    BY <1>3, <1>5, <2>2, QueryFieldSays
  <2> QED BY <1>4, <2>1, <2>3
<1>7. r[2] \in SrvStates \ {"idle"} /\ rows' = rows /\ query'.rows - query.rows = rows' - rows
  BY <1>2, <1>6 DEF SrvStates, Passes, TrackInv, Queries
<1>8. command # "none" /\ command # "STMT_PREPARE"
  BY <1>3, CommandsApart
<1>9. InStep(r[2], command, query', prepare, verdict')
  <2>1. CASE r[1] = Definition /\ r[2] = "fields"
    BY <1>3, <1>6, <2>1, PacketFields DEF InStep
  <2>2. CASE r[1] \in {Eof({}), Eof(More), Eof(More \cup {"CURSOR_EXISTS"})} /\ r[2] = "rows"
    <3>1. /\ p.head = "EOF" /\ p.nine /\ "PS_OUT_PARAMS" \notin p.status
          /\ "CURSOR_EXISTS" \in p.status => "MORE_RESULTS_EXISTS" \in p.status
      BY <2>2, PacketFields DEF More
    <3> QED BY <1>3, <1>6, <2>2, <3>1 DEF InStep
  <2>3. CASE r[1] = Eof({"CURSOR_EXISTS"}) /\ r[2] = IF Binary THEN "over" ELSE "rows"
    <3>1. /\ p.head = "EOF" /\ p.nine /\ "PS_OUT_PARAMS" \notin p.status
          /\ "CURSOR_EXISTS" \in p.status /\ "MORE_RESULTS_EXISTS" \notin p.status
      BY <2>3, PacketFields
    <3> QED BY <1>3, <1>6, <1>8, <2>3, <3>1 DEF InStep
  <2>4. CASE r[1] = Eof(More \cup {"PS_OUT_PARAMS"}) /\ Binary /\ r[2] = "out_rows"
    <3>1. /\ p.head = "EOF" /\ p.nine /\ "PS_OUT_PARAMS" \in p.status
          /\ "MORE_RESULTS_EXISTS" \in p.status
      BY <2>4, PacketFields DEF More
    <3> QED BY <1>6, <2>4, <3>1 DEF InStep, Binary
  <2> QED BY <1>2, <2>1, <2>2, <2>3, <2>4
<1> QED BY <1>3, <1>4, <1>6, <1>7, <1>9, QueriedInv

\* The rows, and the EOF or ERR behind them.
LEMMA RowsOfResult ==
    ASSUME Beyond = {}, TrackInv, srv \in {"rows", "out_rows", "long_row"},
           NEW r \in SrvReplies, Passes(r[1], r[2])
    PROVE  TrackInv'
<1> DEFINE p == r[1]
           R == QueryRows(p, query)
           st == IF "PS_OUT_PARAMS" \in query.server_status THEN query.server_status ELSE p.status
           Row == p.head \in {"OK", "NULL", "other"} /\ p.status = {}
<1>1. \/ p \in Rows /\ Row /\ r[2] = srv /\ srv # "long_row"
      \/ (Row \/ p = Packet("EOF")) /\ r[2] = "long_row" /\ srv = "rows"
      \/ Row /\ r[2] = "rows" /\ srv = "long_row"
      \/ p = Eof({}) /\ r[2] = "over" /\ srv = "rows"
      \/ p = Eof(More) /\ r[2] = "first" /\ srv = "rows"
      \/ p = Eof({}) /\ r[2] = "first" /\ srv = "out_rows"
      \/ p = Err /\ r[2] = "over"
  <2>1. CASE srv = "rows"
    <3>1. r \in RowReplies \cup Following(Eof) \cup To({Err}, "over")
      BY <2>1 DEF SrvReplies
    <3>2. CASE r \in Following(Eof)
      BY <2>1, <3>2, FollowingReplies, Zenon
    <3>3. CASE r \in To({Err}, "over")
      BY <3>3 DEF To
    <3>4. CASE r \in To(Rows, srv)
      BY <2>1, <3>4, ReplyOf, RowsAre
    <3>5. CASE r \in To(IF rows = MaxRows THEN {} ELSE Rows \cup {Packet("EOF")}, "long_row")
      <4>1. p \in Rows \cup {Packet("EOF")} /\ r[2] = "long_row"
        BY <3>5, ReplyOf
      <4> QED BY <2>1, <4>1, RowsAre
    <3> QED BY <3>1, <3>2, <3>3, <3>4, <3>5, Zenon DEF RowReplies
  <2>2. CASE srv = "out_rows"
    <3>1. r \in To(Rows, srv) \cup To({Eof({})}, "first") \cup To({Err}, "over")
      BY <2>2 DEF SrvReplies
    <3>2. CASE r \in To(Rows, srv)
      BY <2>2, <3>2, ReplyOf, RowsAre
    <3>3. CASE r \in To({Eof({})}, "first")
      BY <2>2, <3>3 DEF To
    <3>4. CASE r \in To({Err}, "over")
      BY <3>4 DEF To
    <3> QED BY <3>1, <3>2, <3>3, <3>4, Zenon
  <2>3. CASE srv = "long_row"
    <3>1. r \in LongRowEnds
      BY <2>3 DEF SrvReplies
    <3>2. p \in {Packet("OK"), Packet("NULL"), Packet("other")} /\ r[2] = "rows"
      BY <3>1 DEF LongRowEnds, To
    <3>3. Row
      BY <3>2, PacketFields
    <3> QED BY <2>3, <3>2, <3>3
  <2> QED BY <2>1, <2>2, <2>3
<1>2. query.state = "RESULT" /\ query \in Queries /\ command \in Querying
      /\ (srv # "out_rows" => "PS_OUT_PARAMS" \notin query.server_status)
      /\ (srv = "out_rows" => /\ "PS_OUT_PARAMS" \in query.server_status
                              /\ "MORE_RESULTS_EXISTS" \in query.server_status
                              /\ command = "STMT_EXECUTE")
  BY CommandsApart DEF TrackInv, InStep
<1>3. verdict' = R.verdict /\ query' = R.query /\ prepare' = prepare
  BY <1>2, Queried DEF Passes
<1>4. p.status \in SUBSET Flags
  <2>1. p.status \in {{}, More}
    BY <1>1, PacketFields DEF Err
  <2> QED BY <2>1 DEF More, Flags
<1> HIDE DEF p, R, st
<1>5. /\ query' \in Queries
      /\ p.head = "EOF" /\ p.nine =>
            /\ query'.rows = query.rows
            /\ IF "MORE_RESULTS_EXISTS" \in st THEN verdict' = "more" /\ query'.state = "INIT"
                                               ELSE verdict' = "last"
      /\ p.head = "EOF" /\ ~p.nine => verdict' = "more" /\ query' = query
      /\ p.head = "ERR" => verdict' = "last" /\ query' = query
      /\ p.head \in {"OK", "NULL", "other"} =>
            /\ verdict' = "more" /\ query'.rows = query.rows + 1
            /\ query'.state = query.state /\ query'.server_status = query.server_status
  BY <1>2, <1>3, <1>4, QueryRowsSays DEF R, st
<1>6. command # "none" /\ command # "STMT_PREPARE" /\ query.rows \in Nat /\ rows \in Nat
      /\ query'.rows \in Nat
  BY <1>2, <1>5, CommandsApart DEF Queries, TrackInv
<1>7. Passes(p, r[2])
  BY DEF p
<1>8. CASE p \in Rows /\ Row /\ r[2] = srv /\ srv # "long_row"
  <2>1. rows' = rows + 1 /\ srv \in SrvStates \ {"idle"}
    BY <1>7, <1>8 DEF Passes, SrvStates
  <2>2. InStep(srv, command, query', prepare, verdict')
    BY <1>2, <1>5, <1>8 DEF InStep
  <2>3. query'.rows - query.rows = rows' - rows
    BY <1>5, <1>6, <1>8, <2>1
  <2> QED BY <1>2, <1>3, <1>5, <1>7, <1>8, <2>1, <2>2, <2>3, QueriedInv
<1>9. CASE (Row \/ p = Packet("EOF")) /\ r[2] = "long_row" /\ srv = "rows"
  <2>1. "long_row" \in SrvStates \ {"idle"}
    BY DEF SrvStates
  <2>2. /\ verdict' = "more" /\ query'.state = query.state
        /\ query'.server_status = query.server_status
    BY <1>5, <1>9, PacketFields
  <2>3. InStep("long_row", command, query', prepare, verdict')
    BY <1>2, <1>9, <2>2 DEF InStep
  <2>4. long'
    BY <1>7, <1>9, Zenon DEF Passes
  <2> QED BY <1>2, <1>3, <1>5, <1>7, <1>9, <2>1, <2>3, <2>4, QueriedInv
<1>10. CASE Row /\ r[2] = "rows" /\ srv = "long_row"
  <2>1. "rows" \in SrvStates \ {"idle"} /\ long'
    BY <1>7, <1>10, Zenon DEF SrvStates, TrackInv, Passes
  <2>2. InStep("rows", command, query', prepare, verdict')
    BY <1>2, <1>5, <1>10 DEF InStep
  <2> QED BY <1>2, <1>3, <1>5, <1>7, <1>10, <2>1, <2>2, QueriedInv
<1>11. CASE p.head \in {"EOF", "ERR"} /\ r[2] \in {"over", "first"} /\ query'.rows = query.rows
            /\ verdict' = (IF r[2] = "over" THEN "last" ELSE "more")
            /\ (r[2] = "first" => query'.state = "INIT")
  <2>1. r[2] \in SrvStates \ {"idle"} /\ rows' = rows
    BY <1>7, <1>11, RowsAre DEF SrvStates, Passes
  <2>2. InStep(r[2], command, query', prepare, verdict')
    BY <1>6, <1>11 DEF InStep
  <2>3. query'.rows - query.rows = rows' - rows
    BY <1>6, <1>11, <2>1
  <2> QED BY <1>2, <1>3, <1>5, <1>7, <1>11, <2>1, <2>2, <2>3, QueriedInv
<1>12. CASE p = Eof({}) /\ r[2] = "over" /\ srv = "rows"
  <2>1. p.head = "EOF" /\ p.nine /\ "MORE_RESULTS_EXISTS" \notin st
    BY <1>2, <1>12, PacketFields DEF st
  <2> QED BY <1>5, <1>11, <1>12, <2>1
<1>13. CASE p = Eof(More) /\ r[2] = "first" /\ srv = "rows"
  <2>1. p.head = "EOF" /\ p.nine /\ "MORE_RESULTS_EXISTS" \in st
    BY <1>2, <1>13, PacketFields DEF st, More
  <2> QED BY <1>5, <1>11, <1>13, <2>1
<1>14. CASE p = Eof({}) /\ r[2] = "first" /\ srv = "out_rows"
  <2>1. p.head = "EOF" /\ p.nine /\ "MORE_RESULTS_EXISTS" \in st
    BY <1>2, <1>14, PacketFields DEF st
  <2> QED BY <1>5, <1>11, <1>14, <2>1
<1>15. CASE p = Err /\ r[2] = "over"
  <2>1. p.head = "ERR"
    BY <1>15, PacketFields
  <2> QED BY <1>5, <1>11, <1>15, <2>1
<1> QED BY <1>1, <1>8, <1>9, <1>10, <1>12, <1>13, <1>14, <1>15

-----------------------------------------------------------------------------
\* The commands without a query_result leave it, and the rows, alone.
LEMMA OtherInv ==
    ASSUME TrackInv, command \in AllCommands \ Querying, NEW p, NEW at \in {"first", "params", "columns", "over"},
           srv \in {"first", "params", "columns"}, Passes(p, at), query' = query,
           prepare' = [first_packet |-> prepare'.first_packet, want_eofs |-> prepare'.want_eofs],
           InStep(at, command, query, prepare', verdict')
    PROVE  TrackInv'
<1>1. command # "none" /\ at \in SrvStates /\ at \notin {"idle", "long_row"}
  BY CommandsApart DEF SrvStates
<1>2. rows' = rows /\ srv' = at /\ command' = command
  BY <1>1 DEF Passes
<1>3. long' \in BOOLEAN
  BY Zenon DEF Passes
<1> QED BY <1>1, <1>2, <1>3 DEF TrackInv

LEMMA PreparePasses ==
    ASSUME TrackInv, command = "STMT_PREPARE", srv \in {"first", "params", "columns"},
           NEW r \in SrvReplies, Passes(r[1], r[2])
    PROVE  TrackInv'
<1> DEFINE p == r[1]
           R == get_com_stmt_prepare_result(p, prepare)
<1>1. command \in AllCommands \ Querying /\ command \in AllCommands
  BY DEF AllCommands, Querying
<1>2. verdict' = R.verdict /\ prepare' = R.prepare /\ query' = query
  <2> HIDE DEF R
  <2> QED BY <1>1, CommandsApart DEF Passes, get_query_result, R
<1>3. prepare = [first_packet |-> prepare.first_packet, want_eofs |-> prepare.want_eofs]
  BY DEF TrackInv
<1>4. CASE srv = "first"
  <2>1. \/ p \in {Err, Ok({})} /\ r[2] = "over"
        \/ p = [Ok({}) EXCEPT !.eofs = 1] /\ r[2] = "columns"
        \/ p = [Ok({}) EXCEPT !.eofs = 2] /\ r[2] = "params"
    <3>1. r \in FirstReplies
      BY <1>4 DEF SrvReplies
    <3>2. r \in To({Err, Ok({})}, "over") \cup To({[Ok({}) EXCEPT !.eofs = 1]}, "columns")
                \cup To({[Ok({}) EXCEPT !.eofs = 2]}, "params")
      BY <3>1 DEF FirstReplies, Querying, OkOrErr, EofOrErr, OnePacket
    <3> QED BY <3>2 DEF To
  <2>2. prepare.first_packet
    BY <1>4 DEF TrackInv, InStep
  <2>3. /\ verdict' = IF p.head = "ERR" \/ p.eofs = 0 THEN "last" ELSE "more"
        /\ prepare' = [first_packet |-> FALSE,
                       want_eofs |-> IF p.head = "OK" THEN p.eofs ELSE prepare.want_eofs]
    BY <1>2, <2>2 DEF get_com_stmt_prepare_result
  <2>4. /\ prepare' = [first_packet |-> prepare'.first_packet, want_eofs |-> prepare'.want_eofs]
        /\ ~prepare'.first_packet
        /\ prepare'.want_eofs = IF p.head = "OK" THEN p.eofs ELSE prepare.want_eofs
    BY <2>3
  <2>5. InStep(r[2], command, query, prepare', verdict')
    <3>1. CASE p \in {Err, Ok({})} /\ r[2] = "over"
      <4>1. verdict' = "last"
        BY <2>3, <3>1, PacketFields
      <4> QED BY <3>1, <4>1 DEF InStep
    <3>2. CASE p = [Ok({}) EXCEPT !.eofs = 1] /\ r[2] = "columns"
      <4>1. p.head = "OK" /\ p.eofs = 1
        BY <3>2, PacketFields
      <4> QED BY <2>3, <2>4, <3>2, <4>1 DEF InStep
    <3>3. CASE p = [Ok({}) EXCEPT !.eofs = 2] /\ r[2] = "params"
      <4>1. p.head = "OK" /\ p.eofs = 2
        BY <3>3, PacketFields
      <4> QED BY <2>3, <2>4, <3>3, <4>1 DEF InStep
    <3> QED BY <2>1, <3>1, <3>2, <3>3
  <2> QED BY <1>1, <1>2, <1>4, <2>1, <2>4, <2>5, OtherInv
<1>5. CASE srv \in {"params", "columns"}
  <2>1. \/ p = Definition /\ r[2] = srv
        \/ p = Eof({}) /\ r[2] = IF srv = "params" THEN "columns" ELSE "over"
    <3>1. CASE srv = "params"
      <4>1. r \in To({Definition}, "params") \cup To({Eof({})}, "columns")
        BY <3>1 DEF SrvReplies
      <4> QED BY <3>1, <4>1 DEF To
    <3>2. CASE srv = "columns"
      <4>1. r \in To({Definition}, "columns") \cup To({Eof({})}, "over")
        BY <3>2 DEF SrvReplies
      <4> QED BY <3>2, <4>1 DEF To
    <3> QED BY <1>5, <3>1, <3>2
  <2>2. ~prepare.first_packet /\ prepare.want_eofs = IF srv = "params" THEN 2 ELSE 1
    BY <1>5 DEF TrackInv, InStep
  <2>3. /\ verdict' = IF p.head = "EOF" /\ prepare.want_eofs = 1 THEN "last" ELSE "more"
        /\ prepare' = [prepare EXCEPT !.want_eofs = IF p.head = "EOF" THEN prepare.want_eofs - 1
                                                                      ELSE prepare.want_eofs]
    BY <1>2, <2>2 DEF get_com_stmt_prepare_result
  <2>4. /\ prepare' = [first_packet |-> prepare'.first_packet, want_eofs |-> prepare'.want_eofs]
        /\ ~prepare'.first_packet
        /\ prepare'.want_eofs = IF p.head = "EOF" THEN prepare.want_eofs - 1 ELSE prepare.want_eofs
    BY <1>3, <2>2, <2>3
  <2>5. InStep(r[2], command, query, prepare', verdict')
    BY <1>5, <2>1, <2>2, <2>3, <2>4, PacketFields DEF InStep
  <2> QED BY <1>1, <1>2, <1>5, <2>1, <2>4, <2>5, OtherInv
<1> QED BY <1>4, <1>5

\* The commands that are answered with one packet, or with packets up to an EOF.
LEMMA SimplePasses ==
    ASSUME Beyond = {}, TrackInv, srv = "first", command \in AllCommands \ (Querying \cup {"STMT_PREPARE"}),
           NEW r \in SrvReplies, Passes(r[1], r[2])
    PROVE  TrackInv'
<1> DEFINE p == r[1]
<1>1. r \in FirstReplies
  BY DEF SrvReplies
<1>2. CASE command \in OkOrErr \cup {"INIT_DB"}
  <2>1. p \in {Ok({}), Err} /\ r[2] = "over"
    BY <1>1, <1>2 DEF FirstReplies, Querying, OkOrErr, EofOrErr, OnePacket, To
  <2>2. verdict' = "last" /\ query' = query /\ prepare' = prepare
    BY <1>2, <2>1, PacketFields DEF Passes, get_query_result, get_com_init_db, SimpleVerdict, LastIf, Querying,
       OkOrErr, EofOrErr, OnePacket, parseVars
  <2>3. InStep(r[2], command, query, prepare', verdict')
    BY <2>1, <2>2, CommandsApart DEF InStep
  <2> QED BY <2>1, <2>2, <2>3, OtherInv DEF TrackInv
<1>3. CASE command \in EofOrErr
  <2>1. p \in {Eof({}), Err} /\ r[2] = "over"
    BY <1>1, <1>3 DEF FirstReplies, Querying, OkOrErr, EofOrErr, OnePacket, To
  <2>2. verdict' = "last" /\ query' = query /\ prepare' = prepare
    BY <1>3, <2>1, PacketFields DEF Passes, get_query_result, SimpleVerdict, LastIf, Querying,
       OkOrErr, EofOrErr, OnePacket, parseVars
  <2>3. InStep(r[2], command, query, prepare', verdict')
    BY <2>1, <2>2, CommandsApart DEF InStep
  <2> QED BY <2>1, <2>2, <2>3, OtherInv DEF TrackInv
<1>4. CASE command \in OnePacket
  <2>1. p = Definition /\ r[2] = "over"
    BY <1>1, <1>4 DEF FirstReplies, Querying, OkOrErr, EofOrErr, OnePacket, To
  <2>2. verdict' = "last" /\ query' = query /\ prepare' = prepare
    BY <1>4, <2>1, PacketFields DEF Passes, get_query_result, SimpleVerdict, LastIf, Querying,
       OkOrErr, EofOrErr, OnePacket, parseVars
  <2>3. InStep(r[2], command, query, prepare', verdict')
    BY <2>1, <2>2, CommandsApart, Zenon DEF InStep
  <2> QED BY <2>1, <2>2, <2>3, OtherInv DEF TrackInv
<1>5. CASE command = "FIELD_LIST"
  <2>1. (p = Definition /\ r[2] = "first") \/ (p \in {Eof({}), Err} /\ r[2] = "over")
    BY <1>1, <1>5 DEF FirstReplies, Querying, OkOrErr, EofOrErr, OnePacket, To
  <2>2. verdict' = (IF r[2] = "over" THEN "last" ELSE "more") /\ query' = query /\ prepare' = prepare
    BY <1>5, <2>1, PacketFields DEF Passes, get_query_result, SimpleVerdict, LastIf, Querying,
       OkOrErr, EofOrErr, OnePacket, parseVars
  <2>3. InStep(r[2], command, query, prepare', verdict')
    BY <1>5, <2>1, <2>2, CommandsApart DEF InStep
  <2> QED BY <2>1, <2>2, <2>3, OtherInv DEF TrackInv
<1>6. CASE command = "STMT_FETCH"
  <2>1. \/ p = Packet("OK") /\ r[2] = "first"
        \/ p \in {Eof({"CURSOR_EXISTS"}), Eof({"LAST_ROW_SENT"}), Err} /\ r[2] = "over"
    BY <1>1, <1>6 DEF FirstReplies, Querying, OkOrErr, EofOrErr, OnePacket, To
  <2>2. verdict' = (IF r[2] = "over" THEN "last" ELSE "more") /\ query' = query /\ prepare' = prepare
    BY <1>6, <2>1, PacketFields DEF Passes, get_query_result, SimpleVerdict, LastIf, Querying,
       OkOrErr, EofOrErr, OnePacket, parseVars
  <2>3. InStep(r[2], command, query, prepare', verdict')
    BY <1>6, <2>1, <2>2, CommandsApart DEF InStep
  <2> QED BY <2>1, <2>2, <2>3, OtherInv DEF TrackInv
<1> QED BY <1>2, <1>3, <1>4, <1>5, <1>6 DEF AllCommands

\* LOAD DATA LOCAL INFILE: the file passes by, and the server's answer to it.
LEMMA FilePasses == ASSUME TrackInv, SendFile PROVE TrackInv'
<1>1. PICK p \in {Definition, Empty} :
          get_query_result(p) /\ srv' = IF p.empty THEN "loaded" ELSE "infile"
  BY DEF SendFile
<1>2. srv = "infile" /\ UNCHANGED <<command, rows, long>>
  BY DEF SendFile
<1>3. query.state = "LOCAL_INFILE_DATA" /\ query \in Queries /\ command = "QUERY" /\ command \in Querying
  BY <1>2, CommandsApart DEF TrackInv, InStep
<1>4. prepare' = prepare /\ verdict' = InfileData(p, query).verdict /\ query' = InfileData(p, query).query
  BY <1>1, <1>3, Queried
<1>5. CASE p.empty
  <2>1. verdict' = "last" /\ query' = [query EXCEPT !.state = "LOCAL_INFILE_RESULT"]
    BY <1>4, <1>5 DEF InfileData, Says
  <2>2. query' \in Queries /\ query'.state = "LOCAL_INFILE_RESULT" /\ query'.rows = query.rows
    BY <1>3, <2>1, Zenon DEF Queries, QueryStates
  <2>3. InStep("loaded", command, query', prepare, verdict') /\ "loaded" \in SrvStates
    BY <1>3, <2>1, <2>2 DEF InStep, SrvStates
  <2> QED BY <1>1, <1>2, <1>3, <1>4, <1>5, <2>2, <2>3 DEF TrackInv
<1>6. CASE ~p.empty
  <2>1. verdict' = "more" /\ query' = query
    BY <1>4, <1>6 DEF InfileData, Says
  <2>2. InStep("infile", command, query, prepare, verdict')
    BY <1>3, <2>1 DEF InStep
  <2> QED BY <1>1, <1>2, <1>3, <1>4, <1>6, <2>1, <2>2 DEF TrackInv
<1> QED BY <1>5, <1>6

LEMMA LoadedPasses ==
    ASSUME Beyond = {}, TrackInv, srv = "loaded", NEW r \in SrvReplies, Passes(r[1], r[2])
    PROVE  TrackInv'
<1> DEFINE p == r[1]
<1>1. p = Ok({}) /\ r[2] = "over"
  BY DEF SrvReplies, To
<1>2. query.state = "LOCAL_INFILE_RESULT" /\ query \in Queries /\ command \in Querying
  BY CommandsApart DEF TrackInv, InStep
<1>3. /\ prepare' = prepare /\ verdict' = InfileResult(p, query).verdict
      /\ query' = InfileResult(p, query).query
  BY <1>2, Queried DEF Passes
<1>4. verdict' = "last" /\ query' = query
  BY <1>1, <1>3, PacketFields DEF InfileResult, Says
<1>5. InStep("over", command, query', prepare, verdict') /\ "over" \in SrvStates \ {"idle"}
  BY <1>2, <1>4, CommandsApart DEF InStep, SrvStates
<1>6. rows' = rows /\ query'.rows - query.rows = rows' - rows
  BY <1>1, <1>2, <1>4 DEF Passes, Queries, TrackInv
<1> QED BY <1>1, <1>2, <1>3, <1>4, <1>5, <1>6, QueriedInv

-----------------------------------------------------------------------------
LEMMA TrackInit == ResultInit => TrackInv
<1> SUFFICES ASSUME ResultInit PROVE TrackInv
  OBVIOUS
<1>1. query_result_new \in Queries
  BY DEF query_result_new, Queries, QueryStates
<1>2. /\ srv = "idle" /\ command = "none" /\ verdict = "more" /\ query = query_result_new
      /\ prepare = stmt_prepare_result_new /\ rows = 0 /\ long = FALSE
  BY DEF ResultInit
<1>3. InStep("idle", "none", query, prepare, "more")
  BY DEF InStep
<1> QED BY <1>1, <1>2, <1>3, CommandsApart, Zenon DEF TrackInv, SrvStates, stmt_prepare_result_new

LEMMA TrackAsk == ASSUME TrackInv, NEW cmd \in Commands, NEW name, Ask(cmd, name) PROVE TrackInv'
<1>1. /\ command' = cmd /\ query' = query_result_new /\ prepare' = stmt_prepare_result_new
      /\ verdict' = "more" /\ srv' = "first" /\ rows' = 0 /\ long' = FALSE
  BY DEF Ask, command_states_init
<1>2. cmd \in AllCommands /\ cmd # "none"
  BY CommandsAssumption, CommandsApart
<1>3. query_result_new \in Queries /\ query_result_new.state = "INIT" /\ query_result_new.rows = 0
  BY DEF query_result_new, Queries, QueryStates
<1>4. stmt_prepare_result_new = [first_packet |-> stmt_prepare_result_new.first_packet,
                                 want_eofs |-> stmt_prepare_result_new.want_eofs]
      /\ stmt_prepare_result_new.first_packet
  BY DEF stmt_prepare_result_new
<1>5. InStep("first", cmd, query_result_new, stmt_prepare_result_new, "more")
  BY <1>2, <1>3, <1>4 DEF InStep
<1> QED BY <1>1, <1>2, <1>3, <1>4, <1>5, Zenon DEF TrackInv, SrvStates

LEMMA TrackAnswer == ASSUME Beyond = {}, TrackInv, Answer PROVE TrackInv'
<1>1. PICK r \in SrvReplies : Passes(r[1], r[2])
  BY DEF Answer, Passes
<1>2. srv \in {"first", "fields", "rows", "out_rows", "long_row", "params", "columns", "loaded"}
  BY <1>1 DEF SrvReplies, TrackInv, SrvStates
<1>3. command \in AllCommands
  BY <1>2 DEF TrackInv
<1>4. CASE srv = "first" /\ command \in Querying
  BY <1>1, <1>4, FirstOfResult
<1>5. CASE srv = "first" /\ command \notin Querying \cup {"STMT_PREPARE"}
  BY <1>1, <1>3, <1>5, SimplePasses
<1>6. CASE srv \in {"first", "params", "columns"} /\ command = "STMT_PREPARE"
  BY <1>1, <1>6, PreparePasses
<1>7. srv \in {"params", "columns"} => command = "STMT_PREPARE"
  BY DEF TrackInv, InStep
<1>8. CASE srv = "fields"
  BY <1>1, <1>8, FieldsOfResult
<1>9. CASE srv \in {"rows", "out_rows", "long_row"}
  BY <1>1, <1>9, RowsOfResult
<1>10. CASE srv = "loaded"
  BY <1>1, <1>10, LoadedPasses
<1> QED BY <1>2, <1>4, <1>5, <1>6, <1>7, <1>8, <1>9, <1>10

LEMMA TrackNext == ASSUME Beyond = {}, TrackInv, [ResultNext]_resultVars PROVE TrackInv'
<1>1. CASE UNCHANGED resultVars
  BY <1>1 DEF resultVars, parseVars, serverVars, TrackInv
<1>2. CASE ResultNext
  BY <1>2, TrackAsk, TrackAnswer, FilePasses DEF ResultNext
<1> QED BY <1>1, <1>2

\* However many rows and result-sets a response has, and whatever the rows begin with: the
\* tracker says "last" with the last packet of the response and not before.
THEOREM TheEndIsFound == ASSUME Beyond = {} PROVE ResultSpec => []EndsTogether
<1>1. TrackInv => EndsTogether
  BY DEF TrackInv, InStep, EndsTogether, SrvStates
<1> QED BY <1>1, TrackInit, TrackNext, PTL DEF ResultSpec

\* The row count that a script sees is the number of rows of the whole response.
THEOREM TheRowsAreCounted == ASSUME Beyond = {} PROVE ResultSpec => []RowsCounted
<1>1. TrackInv => RowsCounted
  BY DEF TrackInv, RowsCounted
<1> QED BY <1>1, TrackInit, TrackNext, PTL DEF ResultSpec

\* Only the answer to a COM_INIT_DB changes the database, on both sides at once.
LEMMA DbNext == ASSUME Beyond = {}, TrackInv, DbFollows, [ResultNext]_resultVars PROVE DbFollows'
<1>1. CASE UNCHANGED <<default_db, db>>
  BY <1>1 DEF DbFollows
<1>2. CASE UNCHANGED resultVars
  BY <1>1, <1>2 DEF resultVars, parseVars, serverVars
<1>3. ASSUME NEW cmd \in Commands, NEW name \in Dbs, Ask(cmd, name) PROVE DbFollows'
  BY <1>1, <1>3 DEF Ask, command_states_init
<1>4. CASE SendFile
  <2>1. command = "QUERY"
    BY <1>4 DEF SendFile, TrackInv, InStep
  <2> QED BY <1>1, <1>4, <2>1 DEF SendFile, get_query_result, Querying, parseVars
<1>5. CASE Answer
  <2>1. PICK r \in SrvReplies :
            /\ get_query_result(r[1])
            /\ db' = IF command = "INIT_DB" /\ r[1] = Ok({}) THEN db_name ELSE db
    BY <1>5 DEF Answer
  <2>2. CASE command # "INIT_DB"
    BY <1>1, <2>1, <2>2 DEF get_query_result, parseVars
  <2>3. CASE command = "INIT_DB"
    <3>1. srv = "first"
      <4>1. srv \notin {"fields", "rows", "out_rows", "long_row", "params", "columns", "loaded"}
        BY <2>3, CommandsApart DEF TrackInv, InStep
      <4>2. srv \in SrvStates \ {"idle", "over", "infile"}
        BY <2>1 DEF SrvReplies, TrackInv, SrvStates
      <4> QED BY <4>1, <4>2 DEF SrvStates
    <3>2. r \in FirstReplies
      BY <2>1, <3>1 DEF SrvReplies
    <3>3. r[1] \in {Ok({}), Err}
      BY <2>3, <3>2, SMTT(30) DEF FirstReplies, Querying, OkOrErr, EofOrErr, OnePacket, To
    <3>4. default_db' = IF r[1].head = "OK" THEN [client |-> db_name, server |-> db_name]
                                            ELSE default_db
      BY <2>1, <2>3, CommandsApart DEF get_query_result, get_com_init_db
    <3> QED BY <2>1, <2>3, <3>3, <3>4, PacketFields DEF DbFollows
  <2> QED BY <2>2, <2>3
<1> QED BY <1>2, <1>3, <1>4, <1>5 DEF ResultNext

\* Whatever commands come and however the server answers them, default_db of both sockets
\* is the database that the server uses.
THEOREM TheDatabaseIsKnown == ASSUME Beyond = {} PROVE ResultSpec => []DbFollows
<1>1. ResultInit => DbFollows
  BY DEF ResultInit, DbFollows
<1> QED BY <1>1, TrackInit, TrackNext, DbNext, PTL DEF ResultSpec

-----------------------------------------------------------------------------
(***************************************************************************)
(* The pool, for any number of users and sockets, any names clients log in *)
(* with, and any values of min_idle_connections.                           *)
(***************************************************************************)


\* g_queue_push_tail() adds one element.
LEMMA PushTail ==
    ASSUME NEW q \in Seq(Sockets), NEW s \in Sockets
    PROVE  /\ Append(q, s) \in Seq(Sockets)
           /\ Elements(Append(q, s)) = Elements(q) \cup {s}
           /\ Once(q) /\ s \notin Elements(q) => Once(Append(q, s))
<1>1. /\ Append(q, s) \in Seq(Sockets) /\ Len(q) \in Nat
      /\ DOMAIN q = 1..Len(q) /\ DOMAIN Append(q, s) = 1..(Len(q) + 1)
      /\ \A i \in 1..Len(q) : Append(q, s)[i] = q[i]
      /\ Append(q, s)[Len(q) + 1] = s
  OBVIOUS
<1>2. Elements(Append(q, s)) = Elements(q) \cup {s}
  BY <1>1 DEF Elements
<1>3. ASSUME Once(q), s \notin Elements(q) PROVE Once(Append(q, s))
  BY <1>1, <1>3 DEF Once, Elements
<1> QED
  BY <1>1, <1>2, <1>3

\* g_queue_pop_head() takes one element.
LEMMA PopHead ==
    ASSUME NEW q \in Seq(Sockets), q # <<>>, Once(q)
    PROVE  /\ Tail(q) \in Seq(Sockets) /\ Len(Tail(q)) = Len(q) - 1
           /\ Head(q) \in Elements(q) /\ Head(q) \in Sockets
           /\ Elements(Tail(q)) = Elements(q) \ {Head(q)}
           /\ Once(Tail(q))
<1>1. /\ Tail(q) \in Seq(Sockets) /\ Len(q) \in Nat \ {0} /\ Len(Tail(q)) = Len(q) - 1
      /\ DOMAIN q = 1..Len(q) /\ DOMAIN Tail(q) = 1..(Len(q) - 1)
      /\ \A i \in 1..(Len(q) - 1) : Tail(q)[i] = q[i + 1]
      /\ Head(q) = q[1] /\ q[1] \in Sockets
  OBVIOUS
<1>2. Head(q) \in Elements(q)
  BY <1>1 DEF Elements
<1>3. ASSUME NEW s \in Elements(Tail(q)) PROVE s \in Elements(q) \ {Head(q)}
  <2>1. PICK i \in 1..(Len(q) - 1) : s = q[i + 1]
    BY <1>1, <1>3 DEF Elements
  <2>2. i + 1 \in 1..Len(q) /\ 1 \in 1..Len(q) /\ i + 1 # 1
    BY <1>1, <2>1
  <2> QED
    BY <1>1, <2>1, <2>2 DEF Elements, Once
<1>4. ASSUME NEW s \in Elements(q), s # Head(q) PROVE s \in Elements(Tail(q))
  <2>1. PICK i \in 1..Len(q) : s = q[i]
    BY <1>1, <1>4 DEF Elements
  <2>2. i - 1 \in 1..(Len(q) - 1) /\ (i - 1) + 1 = i
    BY <1>1, <1>4, <2>1
  <2> QED
    BY <1>1, <2>1, <2>2, Zenon DEF Elements
<1>5. Once(Tail(q))
  <2> SUFFICES ASSUME NEW i \in 1..(Len(q) - 1), NEW j \in 1..(Len(q) - 1),
                      Tail(q)[i] = Tail(q)[j]
               PROVE  i = j
    BY <1>1 DEF Once
  <2>1. i + 1 \in 1..Len(q) /\ j + 1 \in 1..Len(q) /\ q[i + 1] = q[j + 1]
    BY <1>1
  <2> QED
    BY <1>1, <2>1 DEF Once
<1> QED
  BY <1>1, <1>2, <1>3, <1>4, <1>5

\* The entries of a concatenation.
LEMMA Concatenated ==
    ASSUME NEW A, NEW l \in Seq(A), NEW r \in Seq(A)
    PROVE  /\ l \o r \in Seq(A) /\ Len(l \o r) = Len(l) + Len(r)
           /\ \A i \in 1..(Len(l) + Len(r)) :
                 (l \o r)[i] = IF i <= Len(l) THEN l[i] ELSE r[i - Len(l)]
OBVIOUS

\* The entries before the k-th.
LEMMA FirstEntries ==
    ASSUME NEW A, NEW q \in Seq(A), NEW k \in 1..Len(q)
    PROVE  /\ SubSeq(q, 1, k - 1) \in Seq(A) /\ Len(SubSeq(q, 1, k - 1)) = k - 1
           /\ \A i \in 1..(k - 1) : SubSeq(q, 1, k - 1)[i] = q[i]
OBVIOUS

\* The entries behind the k-th.
LEMMA LastEntries ==
    ASSUME NEW A, NEW q \in Seq(A), NEW k \in 1..Len(q)
    PROVE  /\ SubSeq(q, k + 1, Len(q)) \in Seq(A) /\ Len(SubSeq(q, k + 1, Len(q))) = Len(q) - k
           /\ \A i \in 1..(Len(q) - k) : SubSeq(q, k + 1, Len(q))[i] = q[k + i]
OBVIOUS

\* g_queue_remove() takes out the element, wherever it is.
LEMMA RemoveElement ==
    ASSUME NEW q \in Seq(Sockets), NEW s \in Sockets, Once(q)
    PROVE  /\ Without(q, s) \in Seq(Sockets)
           /\ Elements(Without(q, s)) = Elements(q) \ {s}
           /\ Once(Without(q, s))
<1>1. CASE s \notin Elements(q)
  BY <1>1 DEF Without
<1>2. CASE s \in Elements(q)
  <2> DEFINE IsFirst(i) == q[i] = s /\ \A j \in 1..(i - 1) : q[j] # s
             k == CHOOSE i \in DOMAIN q : IsFirst(i)
             w == Without(q, s)
  <2>1. DOMAIN q = 1..Len(q) /\ Len(q) \in Nat /\ \A i \in 1..Len(q) : q[i] \in Sockets
    OBVIOUS
  <2>2. \E i \in DOMAIN q : IsFirst(i)
    <3>1. PICK i \in DOMAIN q : q[i] = s
      BY <1>2 DEF Elements
    <3>2. \A j \in 1..(i - 1) : j \in DOMAIN q /\ j # i
      BY <2>1, <3>1
    <3>3. IsFirst(i)
      BY <3>1, <3>2 DEF Once
    <3> QED
      BY <3>3
  <2>3. k \in 1..Len(q) /\ q[k] = s
    BY <2>1, <2>2
  <2>4. w = SubSeq(q, 1, k - 1) \o SubSeq(q, k + 1, Len(q))
    BY <1>2, Zenon DEF Without
  <2> HIDE DEF k, w
  <2>5. /\ w \in Seq(Sockets) /\ Len(w) = Len(q) - 1
        /\ \A i \in 1..(Len(q) - 1) : w[i] = IF i < k THEN q[i] ELSE q[i + 1]
    <3> DEFINE l == SubSeq(q, 1, k - 1)
               r == SubSeq(q, k + 1, Len(q))
    <3>1. /\ l \in Seq(Sockets) /\ Len(l) = k - 1
          /\ \A i \in 1..(k - 1) : l[i] = q[i]
      BY <2>3, FirstEntries, Zenon
    <3>2. /\ r \in Seq(Sockets) /\ Len(r) = Len(q) - k
          /\ \A i \in 1..(Len(q) - k) : r[i] = q[k + i]
      BY <2>3, LastEntries, Zenon
    <3>3. w = l \o r
      BY <2>4
    <3> HIDE DEF l, r
    <3>4. /\ w \in Seq(Sockets) /\ Len(w) = Len(l) + Len(r)
          /\ \A i \in 1..(Len(l) + Len(r)) :
                w[i] = IF i <= Len(l) THEN l[i] ELSE r[i - Len(l)]
      BY <3>1, <3>2, <3>3, Concatenated, Zenon
    <3>5. ASSUME NEW i \in 1..(Len(q) - 1) PROVE w[i] = IF i < k THEN q[i] ELSE q[i + 1]
      <4>1. CASE i < k
        <5>1. i \in 1..(k - 1) /\ i \in 1..(Len(l) + Len(r)) /\ i <= Len(l)
          BY <2>1, <2>3, <3>1, <3>2, <4>1
        <5>2. w[i] = l[i] /\ l[i] = q[i]
          BY <3>1, <3>4, <5>1
        <5> QED
          BY <4>1, <5>2
      <4>2. CASE ~(i < k)
        <5>1. i - (k - 1) \in 1..(Len(q) - k) /\ k + (i - (k - 1)) = i + 1
          BY <2>1, <2>3, <4>2
        <5>2. i \in 1..(Len(l) + Len(r)) /\ ~(i <= Len(l)) /\ i - Len(l) = i - (k - 1)
          BY <2>1, <2>3, <3>1, <3>2, <4>2
        <5>3. w[i] = r[i - (k - 1)]
          BY <3>4, <5>2
        <5>4. r[i - (k - 1)] = q[i + 1]
          BY <3>2, <5>1
        <5> QED
          BY <4>2, <5>3, <5>4
      <4> QED
        BY <4>1, <4>2
    <3> QED
      BY <2>1, <2>3, <3>1, <3>2, <3>4, <3>5
  <2>6. DOMAIN w = 1..(Len(q) - 1)
    BY <2>1, <2>3, <2>5
  <2>7. ASSUME NEW x \in Elements(w) PROVE x \in Elements(q) \ {s}
    <3>1. PICK i \in 1..(Len(q) - 1) : x = w[i]
      BY <2>6, <2>7 DEF Elements
    <3>2. CASE i < k
      <4>1. i \in 1..Len(q) /\ i # k /\ x = q[i]
        BY <2>1, <2>3, <2>5, <3>1, <3>2
      <4> QED
        BY <2>1, <2>3, <4>1 DEF Elements, Once
    <3>3. CASE ~(i < k)
      <4>1. i + 1 \in 1..Len(q) /\ i + 1 # k /\ x = q[i + 1]
        BY <2>1, <2>3, <2>5, <3>1, <3>3
      <4> QED
        BY <2>1, <2>3, <4>1 DEF Elements, Once
    <3> QED
      BY <3>2, <3>3
  <2>8. ASSUME NEW x \in Elements(q), x # s PROVE x \in Elements(w)
    <3>1. PICK i \in 1..Len(q) : x = q[i]
      BY <2>1, <2>8 DEF Elements
    <3>2. CASE i < k
      <4>1. i \in 1..(Len(q) - 1) /\ w[i] = x
        BY <2>1, <2>3, <2>5, <3>1, <3>2
      <4> QED
        BY <2>6, <4>1 DEF Elements
    <3>3. CASE ~(i < k)
      <4>1. i # k
        BY <2>3, <2>8, <3>1
      <4>2. i - 1 \in 1..(Len(q) - 1) /\ ~(i - 1 < k) /\ (i - 1) + 1 = i
        BY <2>1, <2>3, <3>1, <3>3, <4>1
      <4>3. w[i - 1] = x
        BY <2>5, <3>1, <4>2
      <4> QED
        BY <2>6, <4>2, <4>3 DEF Elements
    <3> QED
      BY <3>2, <3>3
  <2>9. Once(w)
    <3> SUFFICES ASSUME NEW i \in 1..(Len(q) - 1), NEW j \in 1..(Len(q) - 1), w[i] = w[j]
                 PROVE  i = j
      BY <2>6 DEF Once
    <3> DEFINE At(m) == IF m < k THEN m ELSE m + 1
    <3>1. /\ At(i) \in 1..Len(q) /\ At(j) \in 1..Len(q)
          /\ q[At(i)] = w[i] /\ q[At(j)] = w[j]
      BY <2>1, <2>3, <2>5
    <3>2. At(i) = At(j)
      BY <2>1, <3>1 DEF Once
    <3> QED
      BY <2>3, <3>2
  <2> QED
    BY <2>5, <2>7, <2>8, <2>9 DEF w
<1> QED
  BY <1>1, <1>2
-----------------------------------------------------------------------------
\* What is queued are idle sockets.
LEMMA QueuedIsIdle ==
    ASSUME TypeOK, InOneHand, NEW u \in DOMAIN users, NEW s \in Elements(users[u])
    PROVE  s \in Sockets /\ where[s] = "idle"
<1>1. users[u] \in Seq(Sockets)
  BY Zenon DEF TypeOK
<1>2. Elements(users[u]) \subseteq Sockets
  BY <1>1 DEF Elements
<1>3. s \in Sockets
  BY <1>2, Zenon
<1> QED
  BY <1>3, Zenon DEF InOneHand
-----------------------------------------------------------------------------
\* A step that takes sockets from queue n and closes the ones in gone: what is
\* left of the queues, and which sockets change hands.
Leaves(taken, gone, n, user, place) ==
    /\ n \in DOMAIN users
    /\ taken = IF users[n] = <<>> THEN {} ELSE {Head(users[n])}
    /\ taken \subseteq Elements(users[n])
    /\ DOMAIN users' \subseteq DOMAIN users
    /\ \A u \in DOMAIN users' :
          /\ users'[u] \in Seq(Sockets) /\ Once(users'[u])
          /\ Elements(users'[u]) = Elements(users[u]) \ taken
          /\ Elements(users'[u]) \cap gone = {}
    /\ \A u \in DOMAIN users \ DOMAIN users' : Elements(users[u]) \subseteq taken \cup gone
    /\ \A s \in Sockets : where'[s] = IF s \in taken THEN place
                                      ELSE IF s \in gone THEN "freed" ELSE where[s]
    /\ \A s \in Sockets : client'[s] = IF s \in taken THEN user ELSE client[s]
    /\ \A s \in Sockets : armed'[s] = (armed[s] /\ s \notin taken \cup gone)
    /\ users[n] # <<>> => Idle(users', n) = Len(users[n]) - 1

\* network_connection_pool_get() is such a step: it closes what is queued under
\* the name it was asked for if the queue it took from became empty.
LEMMA GetLeaves ==
    ASSUME TypeOK, InOneHand, NEW name, NEW n \in get_conns(name), NEW user \in Names,
           NEW place \in {"login", "used"}, pool_get(name, n, user, place)
    PROVE  \E taken, gone \in SUBSET Sockets : Leaves(taken, gone, n, user, place)
<1> DEFINE q == users[n]
           P == Popped(n)
           taken == IF q = <<>> THEN {} ELSE {Head(q)}
           emptied == P[n] = <<>>
           gone == IF emptied THEN Dropped(P, name) ELSE {}
<1>1. n \in DOMAIN users /\ q \in Seq(Sockets) /\ Once(q)
  BY DEF get_conns, find_idle_conns, TypeOK, InOneHand
<1>2. DOMAIN P = DOMAIN users /\ \A u \in DOMAIN users :
         P[u] = IF u = n /\ q # <<>> THEN Tail(q) ELSE users[u]
  BY <1>1, Zenon DEF Popped
<1>3. taken \subseteq Elements(q) /\ taken \in SUBSET Sockets
  BY <1>1, PopHead, Zenon
<1>4. ASSUME NEW u \in DOMAIN users
      PROVE  /\ P[u] \in Seq(Sockets) /\ Once(P[u])
             /\ Elements(P[u]) = Elements(users[u]) \ taken
  <2>1. CASE u = n /\ q # <<>>
    BY <1>1, <1>2, <2>1, PopHead, Zenon
  <2>2. CASE u = n /\ q = <<>>
    BY <1>1, <1>2, <2>2, Zenon
  <2>3. CASE u # n
    <3>1. Elements(users[u]) \cap taken = {}
      BY <1>1, <1>3, <2>3, SMTT(30) DEF InOneHand
    <3> QED
      BY <1>2, <2>3, <3>1, ZenonT(60) DEF TypeOK, InOneHand
  <2> QED
    BY <2>1, <2>2, <2>3, Zenon
<1>5. gone \in SUBSET Sockets
  BY <1>2, <1>4 DEF Dropped, Elements
<1>6. users' = IF emptied THEN WithoutKey(P, name) ELSE P
  BY DEF pool_get
<1>7. /\ \A s \in Sockets : where'[s] = IF s \in taken THEN place
                                        ELSE IF s \in gone THEN "freed" ELSE where[s]
      /\ \A s \in Sockets : client'[s] = IF s \in taken THEN user ELSE client[s]
  <2>1. taken \cap gone = {}
    BY <1>2, <1>4 DEF Dropped
  <2>2. where' = [s \in Sockets |-> CASE s \in taken -> place [] s \in gone -> "freed"
                                      [] OTHER -> where[s]]
    BY DEF pool_get
  <2>3. client' = [s \in Sockets |-> IF s \in taken THEN user ELSE client[s]]
    BY DEF pool_get
  <2> HIDE DEF taken, gone
  <2> QED
    BY <2>1, <2>2, <2>3
<1>8. \A s \in Sockets : armed'[s] = (armed[s] /\ s \notin taken \cup gone)
  BY Zenon DEF pool_get
<1> HIDE DEF P, taken, gone
<1>9. /\ DOMAIN users' = IF emptied THEN DOMAIN users \ {name} ELSE DOMAIN users
      /\ \A u \in DOMAIN users' : users'[u] = P[u]
  BY <1>2, <1>6 DEF WithoutKey
<1>10. ASSUME NEW u \in DOMAIN users' PROVE Elements(P[u]) \cap gone = {}
  <2>1. CASE emptied /\ name \in DOMAIN users
    <3>1. gone = Elements(users[name]) \ taken /\ u # name
      BY <1>2, <1>4, <1>9, <2>1 DEF gone, Dropped
    <3>2. Elements(users[u]) \cap Elements(users[name]) = {}
      BY <1>9, <2>1, <3>1 DEF InOneHand
    <3> QED
      BY <1>4, <1>9, <3>1, <3>2
  <2>2. CASE ~(emptied /\ name \in DOMAIN users)
    BY <1>2, <2>2 DEF gone, Dropped
  <2> QED
    BY <2>1, <2>2
<1>11. \A u \in DOMAIN users \ DOMAIN users' : Elements(users[u]) \subseteq taken \cup gone
  BY <1>2, <1>4, <1>9 DEF gone, Dropped
<1>12. taken = IF users[n] = <<>> THEN {} ELSE {Head(users[n])}
  BY DEF taken
<1>13. ASSUME q # <<>> PROVE Idle(users', n) = Len(q) - 1
  <2>1. P[n] = Tail(q) /\ Len(Tail(q)) = Len(q) - 1 /\ Tail(q) \in Seq(Sockets)
    BY <1>1, <1>2, <1>13, PopHead
  <2>2. CASE n \in DOMAIN users'
    BY <1>9, <2>1, <2>2, Zenon DEF Idle
  <2>3. CASE n \notin DOMAIN users'
    <3>1. Tail(q) = <<>>
      BY <1>1, <1>9, <2>1, <2>3
    <3>2. Len(<<>>) = 0
      OBVIOUS
    <3>3. Len(q) - 1 = 0
      BY <2>1, <3>1, <3>2, Zenon
    <3> QED
      BY <2>3, <3>3, Zenon DEF Idle
  <2> QED
    BY <2>2, <2>3, ZenonT(60)
<1>14. DOMAIN users' \subseteq DOMAIN users
  BY <1>9
<1>15. \A u \in DOMAIN users' :
          /\ users'[u] \in Seq(Sockets) /\ Once(users'[u])
          /\ Elements(users'[u]) = Elements(users[u]) \ taken
          /\ Elements(users'[u]) \cap gone = {}
  BY <1>4, <1>9, <1>10, <1>14
<1> HIDE DEF q, emptied
<1>16. taken \in SUBSET Sockets /\ taken \subseteq Elements(users[n])
  BY <1>3 DEF q
<1>17. users[n] # <<>> => Idle(users', n) = Len(users[n]) - 1
  BY <1>13 DEF q
<1> taken \in SUBSET Sockets /\ gone \in SUBSET Sockets
  BY <1>5, <1>16
<1> WITNESS taken \in SUBSET Sockets, gone \in SUBSET Sockets
<1> QED
  BY <1>1, <1>7, <1>8, <1>11, <1>12, <1>13, <1>14, <1>15, <1>16, <1>17, Zenon
     DEF Leaves

\* A step that takes a socket from the pool keeps the types and leaves every
\* socket in one hand.
LEMMA GetStep ==
    ASSUME TypeOK, InOneHand, NEW name, NEW n \in get_conns(name), NEW user \in Names,
           NEW place \in {"login", "used"}, pool_get(name, n, user, place)
    PROVE  TypeOK' /\ InOneHand'
<1>0. PICK taken \in SUBSET Sockets, gone \in SUBSET Sockets :
         Leaves(taken, gone, n, user, place)
  BY GetLeaves
<1>1. /\ taken \subseteq Elements(users[n]) /\ n \in DOMAIN users
      /\ DOMAIN users' \subseteq DOMAIN users
      /\ \A u \in DOMAIN users' :
            /\ users'[u] \in Seq(Sockets) /\ Once(users'[u])
            /\ Elements(users'[u]) = Elements(users[u]) \ taken
            /\ Elements(users'[u]) \cap gone = {}
      /\ \A u \in DOMAIN users \ DOMAIN users' : Elements(users[u]) \subseteq taken \cup gone
      /\ \A s \in Sockets : where'[s] = IF s \in taken THEN place
                                        ELSE IF s \in gone THEN "freed" ELSE where[s]
  BY <1>0, Zenon DEF Leaves
<1>2. UNCHANGED <<min_idle, owner, unread, closed>>
  BY DEF pool_get
<1>3. TypeOK'
  <2>1. DOMAIN users' \subseteq Names /\ \A u \in DOMAIN users' : users'[u] \in Seq(Sockets)
    BY <1>1 DEF TypeOK
  <2>2. where' \in [Sockets -> Places]
    BY DEF pool_get, TypeOK, Places
  <2>3. client' \in [Sockets -> Names]
    BY DEF pool_get, TypeOK
  <2>4. armed' \in [Sockets -> BOOLEAN] /\ missed' \in BOOLEAN
    BY Zenon DEF pool_get
  <2>5. handling' \in [Sockets -> Handlings]
    BY DEF pool_get, TypeOK, Handlings
  <2> QED
    BY <1>2, <2>1, <2>2, <2>3, <2>4, <2>5, Zenon DEF TypeOK
<1>4. InOneHand'
  <2>1. \A u \in DOMAIN users' : Once(users'[u])
    BY <1>1, Zenon
  <2>2. ASSUME NEW u \in DOMAIN users', NEW s \in Elements(users'[u]) PROVE owner'[s] = u
    <3>1. u \in DOMAIN users /\ Elements(users'[u]) = Elements(users[u]) \ taken
      BY <1>1, Zenon
    <3>2. s \in Elements(users[u])
      BY <2>2, <3>1, Zenon
    <3>3. owner[s] = u
      BY <3>1, <3>2, Zenon DEF InOneHand
    <3> QED
      BY <1>2, <3>3
  <2>3. ASSUME NEW s \in Sockets, where'[s] = "idle"
        PROVE  \E u \in DOMAIN users' : s \in Elements(users'[u])
    <3>1. where[s] = "idle" /\ s \notin taken \cup gone
      BY <1>1, <2>3, Zenon
    <3>2. PICK u \in DOMAIN users : s \in Elements(users[u])
      BY <3>1, Zenon DEF InOneHand
    <3> QED
      BY <1>1, <3>1, <3>2, Zenon
  <2>4. ASSUME NEW s \in Sockets, NEW u \in DOMAIN users', s \in Elements(users'[u])
        PROVE  where'[s] = "idle"
    <3>1. s \notin taken \cup gone /\ s \in Elements(users[u])
      BY <1>1, <2>4
    <3> QED
      BY <1>1, <2>4, <3>1, ZenonT(60) DEF InOneHand
  <2> QED
    BY <2>1, <2>2, <2>3, <2>4 DEF InOneHand
<1> QED
  BY <1>3, <1>4

\* A script, a client or a server that changes a pooled socket's surroundings
\* leaves it in the hand it is in.
LEMMA HandStep == TypeOK /\ InOneHand /\ [Next]_vars => TypeOK' /\ InOneHand'
<1> SUFFICES ASSUME TypeOK, InOneHand, [Next]_vars PROVE TypeOK' /\ InOneHand'
  OBVIOUS
<1>1. ASSUME NEW s \in Sockets, pool_add(s) PROVE TypeOK' /\ InOneHand'
  <2> DEFINE q == IF owner[s] \in DOMAIN users THEN users[owner[s]] ELSE <<>>
  <2>0. /\ where[s] = "used" /\ owner[s] \in Names
        /\ \A u \in DOMAIN users : s \notin Elements(users[u])
    BY <1>1, ZenonT(60) DEF pool_add, TypeOK, InOneHand
  <2>1. q \in Seq(Sockets) /\ Once(q) /\ s \notin Elements(q)
    <3>1. CASE owner[s] \in DOMAIN users
      BY <2>0, <3>1 DEF TypeOK, InOneHand
    <3>2. CASE owner[s] \notin DOMAIN users
      BY <3>2, SMTT(30) DEF Once, Elements
    <3> QED
      BY <3>1, <3>2
  <2>2. /\ DOMAIN users' = DOMAIN users \cup {owner[s]}
        /\ users'[owner[s]] = Append(q, s)
        /\ \A u \in DOMAIN users : u # owner[s] => users'[u] = users[u]
    BY <1>1, ZenonT(60) DEF pool_add, WithKey
  <2>3. /\ where' = [where EXCEPT ![s] = "idle"]
        /\ UNCHANGED <<min_idle, owner, client, handling, closed, missed>>
    BY <1>1 DEF pool_add
  <2>4. /\ Append(q, s) \in Seq(Sockets) /\ Once(Append(q, s))
        /\ Elements(Append(q, s)) = Elements(q) \cup {s}
    BY <2>1, PushTail, Zenon
  <2>5. armed' \in [Sockets -> BOOLEAN] /\ unread' \in [Sockets -> BOOLEAN]
    BY <1>1 DEF pool_add, TypeOK
  <2>6. TypeOK'
    <3>1. DOMAIN users' \subseteq Names /\ \A u \in DOMAIN users' : users'[u] \in Seq(Sockets)
      BY <2>0, <2>2, <2>4, Zenon DEF TypeOK
    <3>2. where' \in [Sockets -> Places]
      BY <2>3 DEF TypeOK, Places
    <3> QED
      BY <2>3, <2>5, <3>1, <3>2, Zenon DEF TypeOK
  <2>7. Elements(q) = IF owner[s] \in DOMAIN users THEN Elements(users[owner[s]]) ELSE {}
    BY DEF Elements
  <2> HIDE DEF q
  <2>8. InOneHand'
    <3>1. \A u \in DOMAIN users' : Once(users'[u])
      BY <2>2, <2>4, Zenon DEF InOneHand
    <3>2. \A u \in DOMAIN users' : \A x \in Elements(users'[u]) : owner'[x] = u
      <4>1. ASSUME NEW u \in DOMAIN users', NEW x \in Elements(users'[u]) PROVE owner[x] = u
        <5>1. CASE u = owner[s]
          BY <2>2, <2>4, <2>7, <4>1, <5>1, ZenonT(60) DEF InOneHand
        <5>2. CASE u # owner[s]
          BY <2>2, <4>1, <5>2 DEF InOneHand
        <5> QED
          BY <5>1, <5>2
      <4> QED
        BY <2>3, <4>1
    <3>3. \A x \in Sockets : where'[x] = "idle" <=> where[x] = "idle" \/ x = s
      BY <2>3 DEF TypeOK
    <3>4. \A x \in Sockets : (\E u \in DOMAIN users' : x \in Elements(users'[u]))
                               <=> x = s \/ \E u \in DOMAIN users : x \in Elements(users[u])
      BY <2>2, <2>4, <2>7, Zenon
    <3> QED
      BY <3>1, <3>2, <3>3, <3>4 DEF InOneHand
  <2> QED
    BY <2>6, <2>8
<1>2. ASSUME NEW s \in Sockets, IdleFires(s) PROVE TypeOK' /\ InOneHand'
  BY <1>2 DEF IdleFires, TypeOK, Handlings, InOneHand
<1>3. ASSUME NEW s \in Sockets, idle_handle(s) PROVE TypeOK' /\ InOneHand'
  <2>1. /\ UNCHANGED <<min_idle, owner, client, armed, unread, closed, missed>>
        /\ handling' \in [Sockets -> Handlings]
    BY <1>3 DEF idle_handle, TypeOK, Handlings
  <2>2. CASE UNCHANGED <<users, where>>
    BY <2>1, <2>2 DEF TypeOK, InOneHand
  <2>3. CASE ~UNCHANGED <<users, where>>
    <3>1. /\ owner[s] \in DOMAIN users
          /\ users' = [users EXCEPT ![owner[s]] = Without(@, s)]
          /\ where' = [where EXCEPT ![s] = "freed"]
      BY <1>3, <2>3 DEF idle_handle, pool_remove
    <3>2. /\ Without(users[owner[s]], s) \in Seq(Sockets)
          /\ Elements(Without(users[owner[s]], s)) = Elements(users[owner[s]]) \ {s}
          /\ Once(Without(users[owner[s]], s))
      BY <3>1, RemoveElement DEF TypeOK, InOneHand
    <3>3. /\ DOMAIN users' = DOMAIN users
          /\ \A u \in DOMAIN users : users'[u] = IF u = owner[s] THEN Without(users[u], s)
                                                 ELSE users[u]
      BY <3>1
    <3>4. TypeOK'
      <4>1. DOMAIN users' \subseteq Names /\ \A u \in DOMAIN users' : users'[u] \in Seq(Sockets)
        BY <3>2, <3>3, ZenonT(60) DEF TypeOK
      <4>2. where' \in [Sockets -> Places]
        BY <3>1 DEF TypeOK, Places
      <4> QED
        BY <2>1, <4>1, <4>2, Zenon DEF TypeOK
    <3>5. InOneHand'
      <4>1. \A u \in DOMAIN users' : Once(users'[u])
        BY <3>2, <3>3, ZenonT(60) DEF InOneHand
      <4>2. \A u \in DOMAIN users' : Elements(users'[u]) = Elements(users[u]) \ {s}
        BY <3>2, <3>3 DEF InOneHand
      <4>3. \A x \in Sockets : where'[x] = "idle" <=> where[x] = "idle" /\ x # s
        BY <3>1 DEF TypeOK
      <4>4. ASSUME NEW u \in DOMAIN users', NEW x \in Elements(users'[u]) PROVE owner'[x] = u
        <5>1. u \in DOMAIN users /\ x \in Elements(users[u])
          BY <3>3, <4>2, <4>4, Zenon
        <5>2. owner[x] = u
          BY <5>1, Zenon DEF InOneHand
        <5> QED
          BY <2>1, <5>2
      <4>5. ASSUME NEW x \in Sockets
            PROVE  where'[x] = "idle" <=> \E u \in DOMAIN users' : x \in Elements(users'[u])
        <5>1. where[x] = "idle" <=> \E u \in DOMAIN users : x \in Elements(users[u])
          BY Zenon DEF InOneHand
        <5> QED
          BY <3>3, <4>2, <4>3, <5>1, Zenon
      <4> QED
        BY <4>1, <4>4, <4>5, Zenon DEF InOneHand
    <3> QED
      BY <3>4, <3>5
  <2> QED
    BY <2>2, <2>3
<1>4. ASSUME NEW s \in Sockets, Reauth(s) PROVE TypeOK' /\ InOneHand'
  <2>1. /\ where[s] = "login" /\ UNCHANGED users
        /\ \A x \in Sockets : where'[x] = "idle" <=> where[x] = "idle"
        /\ \A x \in Sockets : x # s => owner'[x] = owner[x]
    BY <1>4 DEF Reauth, TypeOK
  <2>2. \A u \in DOMAIN users : \A x \in Elements(users[u]) : x # s /\ x \in Sockets
    <3> TAKE u \in DOMAIN users
    <3> TAKE x \in Elements(users[u])
    <3>1. x \in Sockets /\ where[x] = "idle"
      BY QueuedIsIdle, Zenon
    <3> QED
      BY <2>1, <3>1
  <2>3. InOneHand'
    BY <2>1, <2>2 DEF InOneHand
  <2> QED
    BY <1>4, <2>3 DEF Reauth, TypeOK, Places
<1>5. ASSUME NEW s \in Sockets, ConFree(s) PROVE TypeOK' /\ InOneHand'
  BY <1>5 DEF ConFree, TypeOK, InOneHand, Places
<1>6. ASSUME NEW s \in Sockets, ServerSends(s) \/ ServerCloses(s) PROVE TypeOK' /\ InOneHand'
  BY <1>6, ZenonT(60) DEF ServerSends, ServerCloses, TypeOK, InOneHand
<1>7. ASSUME NEW s \in Sockets, NEW user \in Names, Open(s, user) PROVE TypeOK' /\ InOneHand'
  <2>1. /\ where[s] = "unborn" /\ UNCHANGED users
        /\ \A x \in Sockets : where'[x] = "idle" <=> where[x] = "idle"
        /\ \A x \in Sockets : x # s => owner'[x] = owner[x]
    BY <1>7 DEF Open, TypeOK
  <2>2. \A u \in DOMAIN users : \A x \in Elements(users[u]) : x # s /\ x \in Sockets
    <3> TAKE u \in DOMAIN users
    <3> TAKE x \in Elements(users[u])
    <3>1. x \in Sockets /\ where[x] = "idle"
      BY QueuedIsIdle, Zenon
    <3> QED
      BY <2>1, <3>1
  <2>3. InOneHand'
    BY <2>1, <2>2 DEF InOneHand
  <2> QED
    BY <1>7, <2>3 DEF Open, TypeOK, Places
<1>8. ASSUME NEW user \in Names, NEW phase \in Phases, swap(user, phase)
      PROVE  TypeOK' /\ InOneHand'
  <2> DEFINE name == IF phase = "login" THEN Anonymous ELSE user
             place == IF phase = "login" THEN "login" ELSE "used"
  <2>1. \/ \E n \in get_conns(name) : pool_get(name, n, user, place)
        \/ pool_get_nothing(name)
    BY <1>8 DEF swap
  <2>2. place \in {"login", "used"}
    OBVIOUS
  <2> HIDE DEF name, place
  <2>3. CASE \E n \in get_conns(name) : pool_get(name, n, user, place)
    BY <2>2, <2>3, GetStep
  <2>4. CASE pool_get_nothing(name)
    BY <2>4 DEF pool_get_nothing, TypeOK, InOneHand
  <2> QED
    BY <2>1, <2>3, <2>4
<1>9. ASSUME NEW n \in MinIdles, proxy_pool_set(n) PROVE TypeOK' /\ InOneHand'
  BY <1>9, ConnPoolAssumption DEF proxy_pool_set, TypeOK, InOneHand
<1>10. CASE UNCHANGED vars
  BY <1>10 DEF vars, TypeOK, InOneHand
<1> QED
  BY <1>1, <1>2, <1>3, <1>4, <1>5, <1>6, <1>7, <1>8, <1>9, <1>10 DEF Next

\* The pool of a new backend is empty.
LEMMA InitHand == Init => TypeOK /\ InOneHand
<1> SUFFICES ASSUME Init PROVE TypeOK /\ InOneHand
  OBVIOUS
<1>1. (CHOOSE n \in Names : TRUE) \in Names
  BY ConnPoolAssumption
<1>2. /\ DOMAIN users = {} /\ min_idle \in Nat
      /\ where \in [Sockets -> Places]
      /\ owner \in [Sockets -> Names] /\ client \in [Sockets -> Names]
      /\ handling \in [Sockets -> Handlings]
  BY <1>1 DEF Init, Places, Handlings
<1>3. /\ armed \in [Sockets -> BOOLEAN] /\ missed \in BOOLEAN
      /\ unread \in [Sockets -> BOOLEAN] /\ closed \in [Sockets -> BOOLEAN]
  BY Zenon DEF Init
<1>4. TypeOK
  BY <1>2, <1>3, Zenon DEF TypeOK
<1>5. \A s \in Sockets : where[s] # "idle"
  BY DEF Init
<1>6. InOneHand
  BY <1>2, <1>5 DEF InOneHand
<1> QED
  BY <1>4, <1>6

\* A pooled socket is in one queue, once, and with no client, and a socket that
\* is nowhere in the pool is not idle: with one event thread, for any number of
\* users and sockets, whoever is asked for and whatever min_idle_connections a
\* script sets.
THEOREM SocketsAreInOneHand == ASSUME ~Threaded PROVE Spec => []InOneHand
<1>1. Init => TypeOK /\ InOneHand
  BY InitHand
<1>2. TypeOK /\ InOneHand /\ [Next]_vars => TypeOK' /\ InOneHand'
  BY HandStep
<1> QED
  BY <1>1, <1>2, PTL DEF Spec
-----------------------------------------------------------------------------
\* Only network_connection_pool_lua_swap() takes sockets out of the pool for a
\* client, and from another user only if more than min_idle_connections are idle.
LEMMA SurplusStep == TypeOK /\ InOneHand /\ [Next]_vars => [TakesSurplus]_vars
<1> SUFFICES ASSUME TypeOK, InOneHand, Next, NEW s \in Sockets, where[s] = "idle",
                    where'[s] \in {"login", "used"}, client'[s] # owner[s]
             PROVE  Idle(users', owner[s]) >= min_idle
  BY Zenon DEF TakesSurplus
<1>1. ASSUME NEW x \in Sockets,
             \/ pool_add(x) \/ IdleFires(x) \/ idle_handle(x) \/ Reauth(x) \/ ConFree(x)
             \/ ServerSends(x) \/ ServerCloses(x)
             \/ \E user \in Names : Open(x, user)
      PROVE  where'[s] \notin {"login", "used"}
  BY <1>1, ZenonT(60) DEF pool_add, IdleFires, idle_handle, pool_remove, Reauth, ConFree, ServerSends,
              ServerCloses, Open, TypeOK
<1>2. ASSUME NEW n \in MinIdles, proxy_pool_set(n) PROVE where'[s] = "idle"
  BY <1>2, Zenon DEF proxy_pool_set
<1>3. PICK user \in Names, phase \in Phases : swap(user, phase)
  BY <1>1, <1>2 DEF Next
<1> DEFINE name == IF phase = "login" THEN Anonymous ELSE user
           place == IF phase = "login" THEN "login" ELSE "used"
<1>4. \/ \E n \in get_conns(name) : pool_get(name, n, user, place)
      \/ pool_get_nothing(name)
  BY <1>3 DEF swap
<1>5. place \in {"login", "used"} /\ (name # Anonymous => name = user)
  OBVIOUS
<1> HIDE DEF name, place
<1>6. ~pool_get_nothing(name)
  BY DEF pool_get_nothing
<1>7. PICK n \in get_conns(name) : pool_get(name, n, user, place)
  BY <1>4, <1>6, ZenonT(60)
<1>8. PICK taken \in SUBSET Sockets, gone \in SUBSET Sockets :
         Leaves(taken, gone, n, user, place)
  BY <1>5, <1>7, GetLeaves
<1>9. /\ n \in DOMAIN users
      /\ taken = IF users[n] = <<>> THEN {} ELSE {Head(users[n])}
      /\ taken \subseteq Elements(users[n])
      /\ where'[s] = IF s \in taken THEN place ELSE IF s \in gone THEN "freed" ELSE where[s]
      /\ client'[s] = IF s \in taken THEN user ELSE client[s]
      /\ users[n] # <<>> => Idle(users', n) = Len(users[n]) - 1
  BY <1>8, Zenon DEF Leaves
<1>10. s \in taken /\ users[n] # <<>> /\ owner[s] = n /\ client'[s] = user
  <2>1. s \in taken
    BY <1>5, <1>9
  <2>2. users[n] # <<>> /\ client'[s] = user
    BY <1>9, <2>1
  <2>3. owner[s] = n
    BY <1>9, <2>1, Zenon DEF InOneHand
  <2> QED
    BY <2>1, <2>2, <2>3
<1>11. n \in find_idle_conns
  BY <1>5, <1>10, ZenonT(60) DEF get_conns
<1>12. Len(users[n]) > min_idle /\ Len(users[n]) \in Nat /\ min_idle \in Nat
  <2>1. Len(users[n]) > min_idle
    BY <1>11, Zenon DEF find_idle_conns
  <2>2. users[n] \in Seq(Sockets) /\ min_idle \in Nat
    BY <1>9, Zenon DEF TypeOK
  <2> QED
    BY <2>1, <2>2
<1> QED
  BY <1>9, <1>10, <1>12, SMTT(30)

\* A user's queue keeps min_idle_connections when another user's client takes
\* from it: with one event thread, for any number of users and sockets.
THEOREM MinimumIsKept == ASSUME ~Threaded PROVE Spec => MinIdleKept
<1>1. Init => TypeOK /\ InOneHand
  BY InitHand
<1>2. TypeOK /\ InOneHand /\ [Next]_vars => TypeOK' /\ InOneHand'
  BY HandStep, ZenonT(60)
<1> QED
  BY <1>1, <1>2, SurplusStep, PTL DEF Spec, MinIdleKept
-----------------------------------------------------------------------------
\* Idle events wait for sockets of the pool, and one whose handler has started
\* does not wait any more: what HandledIsIdle needs to be inductive.
Watched ==
    /\ \A s \in Sockets : armed[s] => where[s] = "idle"
    /\ \A s \in Sockets : handling[s] # "no" => where[s] = "idle" /\ ~armed[s]

\* With one event thread nothing uses the pool between the start of the idle
\* handler and its effect.
LEMMA WatchedStep ==
    ASSUME ~Threaded, TypeOK, InOneHand, Watched, [Next]_vars PROVE Watched'
<1> USE DEF TypeOK, Watched
<1>1. ASSUME NEW s \in Sockets, pool_add(s) PROVE Watched'
  BY <1>1 DEF pool_add, NoHandler
<1>2. ASSUME NEW s \in Sockets, IdleFires(s) PROVE Watched'
  BY <1>2 DEF IdleFires, NoHandler
<1>3. ASSUME NEW s \in Sockets, idle_handle(s) PROVE Watched'
  BY <1>3 DEF idle_handle, pool_remove
<1>4. ASSUME NEW s \in Sockets, Reauth(s) \/ ConFree(s) \/ \E user \in Names : Open(s, user)
      PROVE  Watched'
  BY <1>4 DEF Reauth, ConFree, Open
<1>5. ASSUME NEW s \in Sockets, ServerSends(s) \/ ServerCloses(s) PROVE Watched'
  BY <1>5, ZenonT(60) DEF ServerSends, ServerCloses
<1>6. ASSUME NEW user \in Names, NEW phase \in Phases, swap(user, phase) PROVE Watched'
  <2> DEFINE name == IF phase = "login" THEN Anonymous ELSE user
             place == IF phase = "login" THEN "login" ELSE "used"
  <2>1. \/ \E n \in get_conns(name) : pool_get(name, n, user, place)
        \/ pool_get_nothing(name)
    BY <1>6 DEF swap
  <2>2. place \in {"login", "used"}
    OBVIOUS
  <2>3. \A s \in Sockets : handling[s] = "no"
    BY <1>6 DEF swap, NoHandler
  <2> HIDE DEF name, place
  <2>4. CASE pool_get_nothing(name)
    BY <2>4 DEF pool_get_nothing
  <2>5. ASSUME NEW n \in get_conns(name), pool_get(name, n, user, place) PROVE Watched'
    <3>1. PICK taken \in SUBSET Sockets, gone \in SUBSET Sockets :
             Leaves(taken, gone, n, user, place)
      BY <2>2, <2>5, GetLeaves
    <3>2. /\ \A s \in Sockets : where'[s] = IF s \in taken THEN place
                                            ELSE IF s \in gone THEN "freed" ELSE where[s]
          /\ \A s \in Sockets : armed'[s] = (armed[s] /\ s \notin taken \cup gone)
      BY <3>1, Zenon DEF Leaves
    <3>3. \A s \in Sockets : handling'[s] = "no"
      BY <2>3, <2>5 DEF pool_get
    <3> QED
      BY <2>3, <3>2, <3>3, Zenon
  <2> QED
    BY <2>1, <2>4, <2>5, Zenon
<1>7. ASSUME NEW n \in MinIdles, proxy_pool_set(n) PROVE Watched'
  BY <1>7 DEF proxy_pool_set
<1>8. CASE UNCHANGED vars
  BY <1>8 DEF vars
<1> QED
  BY <1>1, <1>2, <1>3, <1>4, <1>5, <1>6, <1>7, <1>8, ZenonT(60) DEF Next

\* With one event thread the idle handler finds the pool entry it was started
\* for; with several it may not, because it does not take the Lua mutex.
THEOREM HandlersFindTheirEntry == ASSUME ~Threaded PROVE Spec => []HandledIsIdle
<1>1. Init => TypeOK /\ InOneHand /\ Watched
  <2>1. Init => Watched
    BY DEF Init, Watched
  <2> QED
    BY <2>1, InitHand
<1>2. TypeOK /\ InOneHand /\ Watched /\ [Next]_vars => TypeOK' /\ InOneHand' /\ Watched'
  BY HandStep, WatchedStep
<1>3. Watched => HandledIsIdle
  BY DEF Watched, HandledIsIdle
<1> QED
  BY <1>1, <1>2, <1>3, PTL DEF Spec
=============================================================================
