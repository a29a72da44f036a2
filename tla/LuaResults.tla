-------------------------------- MODULE LuaResults --------------------------------
(***************************************************************************)
(* The answer a script puts into proxy.response, as packets to the client  *)
(* (src/network-mysqld-lua.c, network_mysqld_con_send_resultset() and its  *)
(* neighbours in src/network-mysqld.c), and the result-set of a server as  *)
(* a script sees it (src/network-injection-lua.c).                         *)
(*                                                                         *)
(* A Lua table is a record that lacks the fields that are nil.             *)
(***************************************************************************)
EXTENDS LuaProto

\* ER_UNKNOWN_ERROR, and two fixed texts.
UnknownError == <<81, 4>>
NoFieldName == <<110, 45, 102>>
ErrmsgIsNil == <<40, 108, 41>>

InTable(t, f, default) == IF f \in DOMAIN t THEN t[f] ELSE default

\* g_strdup() of a string of Lua, which may have a NUL in it.
CString(s) ==
    LET nul == {i \in DOMAIN s : s[i] = 0} IN IF nul = {} THEN s ELSE SubSeq(s, 1, Min(nul) - 1)

send_ok_full(affected_rows, insert_id, status, warnings) ==
    <<append_ok_packet([affected_rows |-> affected_rows, insert_id |-> insert_id,
                        server_status |-> status, warnings |-> warnings])>>

send_error_full(errmsg, errcode, sqlstate) ==
    <<append_err_packet([version |-> "41", errcode |-> errcode, sqlstate |-> sqlstate,
                         errmsg |-> errmsg])>>

EofPayload == <<254, 0, 0, 2, 0>>

FieldPayload(f) ==
    LET text(s) == append_lenenc_string(IF s = NIL THEN <<>> ELSE s)
    IN  append_lenenc_string(<<100, 101, 102>>) \o text(f.db) \o text(f.table) \o text(f.org_table)
          \o text(f.name) \o text(f.org_name) \o <<12>> \o append_int16(<<8>>)
          \o append_int32(f.length) \o append_int8(f.type) \o append_int16(f.flags) \o <<0, 0, 0>>

RowPayload(row) == FoldLeft(LAMBDA s, cell : s \o append_lenenc_string(cell), <<>>, row)

\* The payloads of a result-set; fields may not be empty (an assertion).
send_resultset(fields, rows) ==
    <<append_lenenc_int(Num(Len(fields)))>>
      \o [i \in DOMAIN fields |-> FieldPayload(fields[i])] \o <<EofPayload>>
      \o [i \in DOMAIN rows |-> RowPayload(rows[i])] \o <<EofPayload>>

ResponseField(f) ==
    [fielddef_new EXCEPT !.name = IF "name" \in DOMAIN f THEN CString(f.name) ELSE NoFieldName,
                         !.type = InTable(f, "type", <<TYPE_STRING>>),
                         !.flags = <<2>>, !.length = <<32>>]

\* A row gets as many cells as there are fields: nil is NULL, and so is what is missing.
ResponseRow(row, n) ==
    [j \in 1..n |-> IF j > Len(row) \/ row[j] = NIL THEN NIL ELSE CString(row[j])]

OkResponse(r) ==
    LET fields == [i \in DOMAIN r.resultset.fields |-> ResponseField(r.resultset.fields[i])]
        rows   == [i \in DOMAIN r.resultset.rows |-> ResponseRow(r.resultset.rows[i], Len(fields))]
    IN  IF "resultset" \in DOMAIN r THEN send_resultset(fields, rows)
        ELSE send_ok_full(InTable(r, "affected_rows", <<>>), InTable(r, "insert_id", <<>>),
                          <<2>>, <<>>)

ErrResponse(r) ==
    IF "errmsg" \in DOMAIN r
    THEN send_error_full(r.errmsg, InTable(r, "errcode", UnknownError), InTable(r, "sqlstate", <<>>))
    ELSE send_error_full(ErrmsgIsNil, UnknownError, UnknownSqlstate)

\* What is sent for proxy.response; failed if it has not the form the function expects.
handle_proxy_response(r) ==
    LET type == InTable(r, "type", "nil")
        sent(payloads) == [failed |-> FALSE, packets |-> payloads]
    IN  CASE type = "OK"  -> sent(OkResponse(r))
          [] type = "ERR" -> sent(ErrResponse(r))
          [] type = "RAW" /\ "packets" \in DOMAIN r -> sent(r.packets)
          [] OTHER -> [failed |-> TRUE, packets |-> <<>>]

\* The payloads as packets of the server, numbered from 1.
Chunks(payloads) == [i \in DOMAIN payloads |-> packet_header(Len(payloads[i]), i) \o payloads[i]]

-----------------------------------------------------------------------------
(***************************************************************************)
(* inj.resultset of a script that asked for resultset_is_needed.           *)
(***************************************************************************)
\* One cell: NULL, or a string that has to lie within the packet.
get_cell(c, i) ==
    IF c.err THEN c
    ELSE CASE peek_lenenc_type(c) = "NULL" -> AddValue(skip(c, 1), NIL)
           [] peek_lenenc_type(c) = "INT"  -> Then(get_lenenc_gstring(c, "cell"),
                                                   LAMBDA d : AddValue(d, d.got.cell))
           [] OTHER -> Fail(c)

\* What a call of the iterator over the rows gives: a row, or that there is none (the EOF
\* packet, an ERR packet in its place, or a broken row).
resultset_rows_iter(chunk, fields) ==
    LET cells(c) == IF peek_lenenc_type(c) \in {"NONE", "ERR", "EOF"} THEN Fail(c)
                    ELSE FoldLeft(get_cell, c, Indices(fields))
        given(c) == [more |-> ~c.err, row |-> IF c.err THEN <<>> ELSE c.got.row]
    IN  given(Then(skip_network_header(Cursor(chunk, resultset_row_new)), cells))

parse_resultset_fields(chunks) == get_fielddefs(chunks, fielddef_new)

resultset_field_get(f) ==
    LET all == [type |-> f.type, name |-> f.name, org_name |-> f.org_name,
                org_table |-> f.org_table, table |-> f.table]
    IN  [k \in {k \in DOMAIN all : all[k] # NIL} |-> all[k]]

\* All the rows: the iterator is called until it gives none.
resultset_rows(chunks, fields) ==
    LET upto(calls)  == SubSeq(calls, 1, Min({Len(calls) + 1} \cup {i \in DOMAIN calls : ~calls[i].more}) - 1)
        rows(calls)  == [i \in DOMAIN calls |-> calls[i].row]
    IN  rows(upto([i \in 1..(Len(chunks) - fields - 2) |->
                     resultset_rows_iter(chunks[fields + 2 + i], fields)]))

resultset_get(chunks) ==
    LET table(defs) == [fields |-> [i \in DOMAIN defs |-> resultset_field_get(defs[i])],
                        rows   |-> resultset_rows(chunks, Len(defs))]
        given(parsed) == [ok |-> parsed.ok, left |-> 0,
                          table |-> IF parsed.ok THEN table(parsed.defs) ELSE <<>>]
    IN  given(parse_resultset_fields(chunks))
=============================================================================
