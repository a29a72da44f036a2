---------------------------------- MODULE Codecs ----------------------------------
(***************************************************************************)
(* What is written can be read: a packet is written by the proxy itself or *)
(* by the client or server at the other end, may be cut short on the way,  *)
(* and is read.  The encodings of the other end are external: they follow  *)
(* what the readers in src/ take for granted.                              *)
(***************************************************************************)
EXTENDS LuaResults, BinlogFiles, Spnego

CONSTANTS Numbers,      \* 64-bit numbers: affected_rows, insert_id
          Statuses,     \* 16-bit numbers
          Texts,        \* texts without a NUL, some longer than 250 bytes
          Versions,     \* server_version of a challenge, as a natural number
          CapSets,      \* sets of capability bits
          Params,       \* sequences of values of COM_STMT_EXECUTE and of rows
          Answers,      \* tables a script leaves in proxy.response
          Oids,         \* object identifiers
          States,       \* negState of a server's token, 0 to 3
          Files         \* binlog files: the events and the kind of checksum

VARIABLES kind,         \* what is on the wire ("none" before it is written)
          table,        \* what was written
          packet,       \* the bytes
          cut,          \* some of them did not arrive
          answer        \* what reading them gave

vars == <<kind, table, packet, cut, answer>>

UNREAD == [ok |-> FALSE, left |-> -1, table |-> <<>>]

Init == kind = "none" /\ table = <<>> /\ packet = <<>> /\ cut = FALSE /\ answer = UNREAD

CapsOf(bits) ==
    Digits([i \in 1..4 |-> MapThenSumSet(LAMBDA b : 2 ^ (b - 8 * (i - 1)),
                                         {b \in bits : b \in (8 * (i - 1))..(8 * i - 1)})])

-----------------------------------------------------------------------------
(***************************************************************************)
(* The other end.                                                          *)
(***************************************************************************)
BitBytes(set, shift, n) ==
    [i \in 1..n |-> MapThenSumSet(LAMBDA b : 2 ^ ((b - 1 + shift) % 8),
                                  {b \in set : (b - 1 + shift) \div 8 = i - 1})]

\* The numbers of a date or time up to the last length that holds all that are not 0.
Shortest(d, layout, counts) ==
    LET fits == {n \in DOMAIN counts : \A i \in DOMAIN d : i > counts[n] => d[i] = <<>>}
        len  == Min(fits)
    IN  FoldLeft(LAMBDA s, i : s \o append_int_len(d[i], layout[i].n), <<len>>, Indices(counts[len]))

PeerValue(v) ==
    CASE v.type \in IntTypes       -> append_int_len(v.data, IntWidth(v.type))
      [] v.type \in DateTypes      -> Shortest(v.data, DateFields,
                                               (0 :> 0) @@ (4 :> 3) @@ (7 :> 6) @@ (11 :> 7))
      [] v.type = TIME             -> Shortest(v.data, TimeFields, (0 :> 0) @@ (8 :> 5) @@ (12 :> 6))
      [] v.type \in {FLOAT, DOUBLE} -> v.data
      [] OTHER                     -> append_lenenc_string(v.data)

PeerValues(values) ==
    FoldLeft(LAMBDA s, v : IF v.is_null THEN s ELSE s \o PeerValue(v), <<>>, values)

Nulls(values) == {i \in DOMAIN values : values[i].is_null}

ClientExecute(t) ==
    <<COM_STMT_EXECUTE>> \o append_int32(t.stmt_id) \o append_int8(t.flags)
      \o append_int32(t.iteration_count)
      \o (IF t.values = <<>> THEN <<>>
          ELSE BitBytes(Nulls(t.values), 0, (Len(t.values) + 7) \div 8)
                 \o (IF t.bound
                     THEN <<1>>
                       \o FoldLeft(LAMBDA s, v : s \o <<v.type, IF v.is_unsigned THEN 128 ELSE 0>>,
                                   <<>>, t.values)
                       \o PeerValues(t.values)
                     ELSE <<0>>))

ServerRow(values) ==
    packet_header(0, 0) \o <<0>> \o BitBytes(Nulls(values), 2, (Len(values) + 9) \div 8)
      \o PeerValues(values)

ServerField41(f) ==
    FoldLeft(LAMBDA s, n : s \o append_lenenc_string(f[n]), packet_header(0, 0),
             <<"catalog", "db", "table", "org_table", "name", "org_name">>)
      \o <<12>> \o append_int16(f.charsetnr) \o append_int32(f.length) \o append_int8(f.type)
      \o append_int16(f.flags) \o append_int8(f.decimals) \o <<0, 0>>

ServerFields(fields) ==
    <<packet_header(0, 0) \o append_lenenc_int(Num(Len(fields)))>>
      \o [i \in DOMAIN fields |-> ServerField41(fields[i])]
      \o <<packet_header(0, 0) \o append_eof_packet(eof_packet_new)>>

ServerField40(f, long) ==
    append_lenenc_string(f.table) \o append_lenenc_string(f.name)
      \o <<3>> \o append_int24(f.length) \o <<1>> \o append_int8(f.type)
      \o (IF long THEN <<3>> \o append_int16(f.flags) ELSE <<2>> \o append_int8(f.flags))
      \o append_int8(f.decimals)

\* DER: a tag around bytes, with the shortest form of their length.
Der(klass, value, bytes) ==
    LET n == Len(bytes)
    IN  <<klass * 64 + (IF klass = UNIVERSAL /\ value # SEQUENCE THEN 0 ELSE 32) + value>>
          \o (IF n < 128 THEN <<n>> ELSE <<128 + Len(Num(n))>> \o Reverse(Num(n))) \o bytes

DerOid(oid) ==
    LET septets(n) == IF n < 128 THEN <<n>>
                      ELSE IF n < 16384 THEN <<128 + n \div 128, n % 128>>
                      ELSE <<128 + n \div 16384, 128 + ((n \div 128) % 128), n % 128>>
    IN  Der(UNIVERSAL, OID, FoldLeft(LAMBDA s, n : s \o septets(n), <<oid[1] * 40 + oid[2]>>,
                                     SubSeq(oid, 3, Len(oid))))

DerFields(n, fields) ==
    Der(CONTEXT_SPECIFIC, n, Der(UNIVERSAL, SEQUENCE,
        FoldLeft(LAMBDA s, f : s \o Der(CONTEXT_SPECIFIC, f.value, f.bytes), <<>>, fields)))

ClientToken(t) ==
    Der(APPLICATION, 0, DerOid(t.oid) \o DerFields(0,
        <<[value |-> 0, bytes |-> Der(UNIVERSAL, SEQUENCE,
                                      FoldLeft(LAMBDA s, o : s \o DerOid(o), <<>>, t.mechTypes))],
          [value |-> 2, bytes |-> Der(UNIVERSAL, OCTET_STREAM, t.mechToken)]>>))

\* Optional fields are left out when they are empty.
ServerToken(t) ==
    DerFields(1, SelectSeq(
        <<[value |-> 0, bytes |-> Der(UNIVERSAL, ENUMERATED, <<t.state>>)],
          [value |-> 1, bytes |-> IF t.supportedMech = <<>> THEN <<>> ELSE DerOid(t.supportedMech)],
          [value |-> 2, bytes |-> IF t.responseToken = <<>> THEN <<>>
                                  ELSE Der(UNIVERSAL, OCTET_STREAM, t.responseToken)],
          [value |-> 3, bytes |-> IF t.mechListMIC = <<>> THEN <<>>
                                  ELSE Der(UNIVERSAL, OCTET_STREAM, t.mechListMIC)]>>,
        LAMBDA f : f.bytes # <<>>))

-----------------------------------------------------------------------------
(***************************************************************************)
(* Writing.                                                                *)
(***************************************************************************)
Write(k, t, bytes) ==
    /\ kind' = k /\ table' = t /\ packet' = bytes
    /\ UNCHANGED <<cut, answer>>

Only(t, fields) == [f \in fields |-> t[f]]

WriteOk ==
    \E t \in [affected_rows : Numbers, insert_id : Numbers, server_status : Statuses,
              warnings : Statuses], given \in SUBSET DOMAIN OkFields :
        Write("ok", Only(t, given), to_ok_packet(Only(t, given)))

WriteErr ==
    \E t \in [errcode : Statuses, sqlstate : {<<>>, UnknownSqlstate, Chars(1, 5)}, errmsg : Texts],
       given \in SUBSET DOMAIN ErrFields :
        Write("err", Only(t, given), to_err_packet(Only(t, given)))

WriteErr40 ==
    \E code \in Statuses, text \in Texts :
        LET e == [err_packet_new("pre41") EXCEPT !.errcode = code, !.errmsg = text]
        IN  Write("err40", e, append_err_packet(e))

WriteEof ==
    \E t \in [server_status : Statuses, warnings : Statuses], given \in SUBSET DOMAIN EofFields :
        Write("eof", Only(t, given), to_eof_packet(Only(t, given)))

\* The scramble of a challenge is absent or has 20 bytes, as set_challenge() makes it; the
\* one of a server with plugins has a NUL behind it.
WriteChallenge ==
    \E caps \in CapSets, version \in Versions, status \in Statuses,
       scramble \in {<<>>, Chars(3, 22), Append(Chars(3, 22), 0)} :
        LET t == [capabilities |-> CapsOf(caps), server_version |-> version, charset |-> <<8>>,
                  thread_id |-> status, server_status |-> status, challenge |-> scramble]
        IN  /\ CLIENT_PLUGIN_AUTH \in caps => scramble # <<>>
            /\ CLIENT_PLUGIN_AUTH \notin caps => Len(scramble) # 21
            /\ Write("challenge", t, to_challenge_packet(t))

\* A client names a database if and only if it announces that it does.
WriteResponse ==
    \E client \in CapSets, server \in CapSets, user \in {<<>>, Chars(5, 8)}, data \in {<<>>, Chars(3, 22)},
       given \in SUBSET {"auth_plugin_name", "max_packet_size", "username"} :
        LET t == [capabilities |-> CapsOf(client), charset |-> <<8>>, response |-> data,
                  max_packet_size |-> <<0, 0, 1>>, username |-> user,
                  auth_plugin_name |-> Chars(1, 3),
                  database |-> IF CLIENT_CONNECT_WITH_DB \in client THEN Chars(4, 6) ELSE <<>>]
            s == Only(t, given \cup {"capabilities", "charset", "response", "database"})
                   @@ ("server_capabilities" :> CapsOf(server))
        IN  Write("response", s, to_response_packet(s))

WriteMasterinfo ==
    \E lines \in {<<14>>, <<15>>}, pos \in Numbers, text \in Texts, cert \in {<<>>, <<1>>} :
        LET t == [f \in Range(MasterLines) |->
                    CASE f = "master_lines" -> lines
                      [] f = "master_log_pos" -> pos
                      [] f = "master_ssl_verify_server_cert" -> cert
                      [] f = "master_ssl_ca" -> <<>>
                      [] f \in MasterInts -> <<17>>
                      [] OTHER -> text]
        IN  Len(pos) <= 3 /\ Len(text) <= 8 /\ Write("masterinfo", t, to_masterinfo_string(t))

WritePrepare ==
    \E text \in Texts : Write("prepare", [stmt_text |-> text],
                              append_stmt_prepare_packet([stmt_text |-> text]))

WritePrepareOk ==
    \E t \in [stmt_id : Statuses, num_columns : Statuses, num_params : Statuses, warnings : Statuses] :
        Write("prepare_ok", t, append_stmt_prepare_ok_packet(t))

WriteClose == \E id \in Statuses : Write("close", [stmt_id |-> id],
                                         append_stmt_close_packet([stmt_id |-> id]))

WriteExecute ==
    \E values \in Params, bound \in BOOLEAN, k \in {"execute", "execute_id"} :
        LET t == [stmt_id |-> <<0, 1>>, flags |-> <<>>, iteration_count |-> <<1>>,
                  values |-> values, bound |-> bound]
        IN  (k = "execute_id" => Len(values) <= 1) /\ Write(k, t, ClientExecute(t))

WriteRow == \E values \in Params : Write("row", values, ServerRow(values))

Field(flags, text) ==
    [catalog |-> Chars(1, 3), db |-> Chars(7, 8), table |-> text, org_table |-> Chars(5, 5),
     name |-> text, org_name |-> Chars(6, 6), charsetnr |-> <<33>>, length |-> <<0, 0, 1>>,
     type |-> <<253>>, flags |-> flags, decimals |-> <<31>>]

WriteFields ==
    \E n \in 1..2, flags \in Statuses, text \in Texts \ {<<>>} :
        LET fields == [i \in 1..n |-> Field(flags, text)]
        IN  Write("fields", fields, ServerFields(fields))

WriteField40 ==
    \E long \in BOOLEAN, flags \in Statuses, text \in Texts \ {<<>>} :
        /\ long \/ Len(flags) <= 1
        /\ LET f == [fielddef_new EXCEPT !.table = text, !.name = text, !.charsetnr = <<8>>,
                        !.length = <<0, 0, 1>>, !.type = <<253>>, !.flags = flags]
           IN  Write("field40", f, ServerField40(f, long))

WriteClientToken ==
    \E t \in [oid : Oids, mechTypes : {<<>>} \cup (Oids \X Oids), mechToken : Texts] :
        Write("client_token", t, ClientToken(t))

WriteServerToken ==
    \E t \in [state : States, supportedMech : Oids \cup {<<>>}, responseToken : Texts,
              mechListMIC : {<<>>, Chars(1, 16)}] :
        Write("server_token", t, ServerToken(t))

\* What is sent for proxy.response; "raw" packets are read by nobody here.
AnswerKind(r) == CASE r.type = "OK" /\ "resultset" \in DOMAIN r -> "answer_rows"
                   [] r.type = "OK" -> "answer_ok" [] r.type = "ERR" -> "answer_err"

WriteAnswer ==
    \E r \in Answers : Write(AnswerKind(r), r, Chunks(handle_proxy_response(r).packets))

\* A dump starts at the beginning, at an event or next to one.  The kind of checksum is
\* told by the first event only: with checksums a dump has to start there.
Starts(f) ==
    {0} \cup (IF f.checksum = CRC32 THEN {4}
             ELSE {StartOf(f.events, k, f.checksum) + d : k \in DOMAIN f.events, d \in -1..1})

WriteBinlog ==
    \E f \in Files : \E startpos \in Starts(f), find \in BOOLEAN,
                       stoppos \in {0, StartOf(f.events, 3, f.checksum)} :
        Write("binlog", f @@ [startpos |-> startpos, find |-> find, stoppos |-> stoppos],
              MasterFile(f.events, f.checksum))

WriteBinlogForPlugin ==
    \E f \in Files : Write("replicant", f @@ [startpos |-> 0, find |-> FALSE, stoppos |-> 0],
                          MasterFile(f.events, f.checksum))

-----------------------------------------------------------------------------
(***************************************************************************)
(* On the way, and reading.                                                *)
(***************************************************************************)
Cut ==
    /\ kind \notin {"none", "fields", "answer_ok", "answer_err", "answer_rows"} /\ ~cut /\ answer = UNREAD
    /\ kind = "binlog" => table.startpos = 0 /\ table.stoppos = 0   \* to keep the runs short
    /\ \E n \in 0..(Len(packet) - 1) : packet' = SubSeq(packet, 1, n)
    /\ cut' = TRUE
    /\ UNCHANGED <<kind, table, answer>>

Types(values) == [i \in DOMAIN values |-> values[i].type]

ReadRow(s, types) ==
    Answer(get_next_binary_row(Cursor(s, resultset_row_new), types), LAMBDA got : got.row)

ReadFields(chunks) ==
    LET given(r) == [ok |-> r.ok, left |-> 0, table |-> r.defs]
    IN  given(get_fielddefs(chunks, fielddef_new))

ReadField40(s) ==
    Answer(get_fielddef(Cursor(s, fielddef_new), <<>>), LAMBDA got : Only(got, DOMAIN fielddef_new))

Payload(chunk) == SubSeq(chunk, 5, Len(chunk))

ReadBinlog(d) == [ok |-> d.status = "done", left |-> 0,
                  table |-> [out |-> d.out, status |-> d.status]]

Read ==
    /\ kind # "none" /\ answer = UNREAD
    /\ answer' = CASE kind = "ok"         -> from_ok_packet(packet)
                   [] kind \in {"err", "err40"} -> from_err_packet(packet)
                   [] kind = "eof"        -> from_eof_packet(packet)
                   [] kind = "challenge"  -> from_challenge_packet(packet)
                   [] kind = "response"   -> from_response_packet(packet, table.server_capabilities)
                   [] kind = "masterinfo" -> from_masterinfo_string(packet)
                   [] kind = "prepare"    -> from_stmt_prepare_packet(packet)
                   [] kind = "prepare_ok" -> from_stmt_prepare_ok_packet(packet)
                   [] kind = "close"      -> from_stmt_close_packet(packet)
                   [] kind = "execute"    -> from_stmt_execute_packet(packet, Len(table.values))
                   [] kind = "execute_id" -> stmt_id_from_stmt_execute_packet(packet)
                   [] kind = "row"        -> ReadRow(packet, Types(table))
                   [] kind = "fields"     -> ReadFields(packet)
                   [] kind = "field40"    -> ReadField40(packet)
                   [] kind = "client_token" -> from_gssapi_message(packet)
                   [] kind = "server_token" -> from_auth_continuation(packet)
                   [] kind = "answer_ok"  -> from_ok_packet(Payload(packet[1]))
                   [] kind = "answer_err" -> from_err_packet(Payload(packet[1]))
                   [] kind = "answer_rows" -> resultset_get(packet)
                   [] kind = "binlog"     -> ReadBinlog(replicate_binlog_dump_file(packet,
                                               table.startpos, table.find, table.stoppos))
                   [] kind = "replicant"  -> ReadBinlog(replicant_dump_file(packet))
    /\ UNCHANGED <<kind, table, packet, cut>>

Forget ==
    /\ answer # UNREAD
    /\ kind' = "none" /\ table' = <<>> /\ packet' = <<>> /\ cut' = FALSE /\ answer' = UNREAD

WriteAny ==
    /\ kind = "none"
    /\ \/ WriteOk \/ WriteErr \/ WriteErr40 \/ WriteEof \/ WriteChallenge \/ WriteResponse
       \/ WriteMasterinfo \/ WritePrepare \/ WritePrepareOk \/ WriteClose \/ WriteExecute
       \/ WriteRow \/ WriteFields \/ WriteField40 \/ WriteClientToken \/ WriteServerToken
       \/ WriteAnswer \/ WriteBinlog \/ WriteBinlogForPlugin

Next == \/ WriteAny \/ Cut \/ Read \/ Forget

Spec == Init /\ [][Next]_vars

-----------------------------------------------------------------------------
(***************************************************************************)
(* What has to come out, stated without the encodings.                     *)
(***************************************************************************)
NonEmpty(t, strings) == Only(t, {f \in DOMAIN t : f \notin strings \/ t[f] # <<>>})
Numbered(t, fields) == [f \in fields |-> InTable(t, f, <<>>)]

ErrOf(t) ==
    LET state == InTable(t, "sqlstate", <<>>)
        text  == InTable(t, "errmsg", <<>>)
    IN  NonEmpty([errcode |-> InTable(t, "errcode", <<>>),
                  sqlstate |-> IF state = <<>> THEN UnknownSqlstate ELSE state,
                  errmsg |-> SubSeq(text, 1, Min({Len(text), 512}))], {"errmsg"})

ChallengeOf(t) ==
    [f \in DOMAIN t \cup {"protocol_version"} |->
       CASE f = "protocol_version" -> <<>>
         [] f = "server_version" -> IF t[f] \in 30001..99999 THEN t[f] ELSE 50099
         [] f = "challenge" -> LET data == IF t[f] = <<>> THEN Chars(1, 20) ELSE t[f]
                               IN  IF \/ Bit(t.capabilities, CLIENT_PLUGIN_AUTH)
                                      \/ Bit(t.capabilities, CLIENT_SECURE_CONNECTION)
                                   THEN data ELSE SubSeq(data, 1, 8)
         [] OTHER -> t[f]]

ResponseOf(t) ==
    LET both(b) == Bit(t.capabilities, b) /\ Bit(t.server_capabilities, b)
        all     == [server_capabilities |-> t.server_capabilities,
                    max_packet_size |-> InTable(t, "max_packet_size", <<>>),
                    username |-> InTable(t, "username", <<>>), response |-> t.response]
    IN  NonEmpty(IF Bit(t.capabilities, CLIENT_PROTOCOL_41)
                 THEN all @@ [capabilities |-> t.capabilities, charset |-> t.charset,
                              database |-> IF both(CLIENT_CONNECT_WITH_DB) THEN t.database ELSE <<>>,
                              auth_plugin_name |-> IF both(CLIENT_PLUGIN_AUTH)
                                                   THEN InTable(t, "auth_plugin_name", <<>>) ELSE <<>>]
                 ELSE all @@ [capabilities |-> Slice(t.capabilities, 0, 2), charset |-> <<>>],
                 {"username", "response", "database", "auth_plugin_name"})

MasterinfoOf(t) ==
    Only(NonEmpty(t, DOMAIN t \ MasterInts),
         {f \in DOMAIN NonEmpty(t, DOMAIN t \ MasterInts) :
            f = "master_ssl_verify_server_cert" => t.master_lines # <<14>>})

ExecuteOf(t) ==
    LET bound == t.bound /\ t.values # <<>>
        head  == [stmt_id |-> t.stmt_id, flags |-> t.flags, iteration_count |-> t.iteration_count,
                  new_params_bound |-> bound]
        value(v) == IF v.is_null THEN [type |-> v.type]
                    ELSE [type |-> v.type,
                          value |-> IF v.type = DATE THEN SubSeq(v.data, 1, 3) ELSE v.data]
    IN  IF bound THEN head @@ ("params" :> [i \in DOMAIN t.values |-> value(t.values[i])]) ELSE head

\* A result-set: each row with a cell for every field, a text up to its first NUL.
ResultsetOf(r) ==
    LET field(f) == [type |-> InTable(f, "type", <<254>>)]
                      @@ (IF InTable(f, "name", NoFieldName) = <<>> THEN <<>>
                          ELSE [name |-> InTable(f, "name", NoFieldName)])
        cell(c)  == IF c # NIL /\ 0 \in Range(c)
                    THEN CHOOSE p \in {SubSeq(c, 1, i) : i \in 0..Len(c)} :
                           c[Len(p) + 1] = 0 /\ 0 \notin Range(p)
                    ELSE c
        row(x)   == [j \in DOMAIN r.fields |-> IF j \in DOMAIN x THEN cell(x[j]) ELSE NIL]
    IN  [fields |-> [i \in DOMAIN r.fields |-> field(r.fields[i])],
         rows   |-> [i \in DOMAIN r.rows |-> row(r.rows[i])]]

Expected ==
    CASE kind = "ok"         -> Numbered(table, DOMAIN OkFields)
      [] kind = "eof"        -> Numbered(table, DOMAIN EofFields)
      [] kind = "err"        -> ErrOf(table)
      [] kind = "challenge"  -> ChallengeOf(table)
      [] kind = "response"   -> ResponseOf(table)
      [] kind = "masterinfo" -> MasterinfoOf(table)
      [] kind = "answer_ok"  -> [Numbered(table, DOMAIN OkFields) EXCEPT !.server_status = <<2>>]
      [] kind = "answer_err" -> ErrOf(IF "errmsg" \in DOMAIN table
                                      THEN [errcode |-> InTable(table, "errcode", UnknownError)]
                                             @@ table
                                      ELSE [errcode |-> UnknownError, errmsg |-> ErrmsgIsNil])
      [] kind = "answer_rows" -> ResultsetOf(table.resultset)
      [] kind = "client_token" -> Only(table, {"oid", "mechTypes"})
      [] kind = "server_token" -> [f \in {"negState"} \cup (DOMAIN table \ {"state"}) |->
                                     IF f = "negState" THEN NegStates[table.state + 1] ELSE table[f]]
      [] kind = "prepare"    -> NonEmpty(table, {"stmt_text"})
      [] kind = "execute"    -> ExecuteOf(table)
      [] kind = "execute_id" -> table.stmt_id
      [] kind = "row"        -> [i \in DOMAIN table |-> [table[i] EXCEPT !.is_unsigned = FALSE]]
      [] OTHER               -> table

\* Which values a script is given, and which ones the reader of rows knows.
Given(v) ==
    v.is_null \/ /\ v.type \notin {INT24, TINY_BLOB, NEWDECIMAL}
                 /\ v.type \in DateTypes => /\ Length(v.data[2]) <= 12 /\ Length(v.data[3]) <= 31
                                            /\ v.type # DATE => Length(v.data[4]) <= 24
Known(v) == v.type # BIT /\ (v.is_null \/ v.type \notin {VARCHAR, NULL})

Readable ==
    CASE kind = "err40"   -> FALSE
      [] kind = "execute" -> table.bound => \A i \in DOMAIN table.values :
                                              Known(table.values[i]) /\ Given(table.values[i])
      [] kind = "row"     -> \A i \in DOMAIN table : Known(table[i])
      [] OTHER            -> TRUE

Dumps == {"binlog", "replicant"}

\* A number of 2^31 or more whose lower half has its top bit set: the lenenc reader widens that
\* half as a negative int.
Widened(n) == Len(n) >= 4 /\ n[4] >= 128

ReadBack ==
    IF kind \notin {"ok", "answer_ok"} THEN answer.table = Expected
    ELSE /\ DOMAIN answer.table = DOMAIN Expected
         /\ \A f \in DOMAIN Expected : Widened(Expected[f]) \/ answer.table[f] = Expected[f]

\* What was written is read back, field by field, to the last byte, but for the numbers
\* that network_mysqld_proto_get_lenenc_int() widens; what has no reading is refused: an
\* ERR packet without a sqlstate, a value of a type the readers do not know, a date out of
\* range (the to_ and from_ functions of lib/mysql-proto.c over the readers and writers of
\* src/network-mysqld-packet.c; a result-set of proxy.response and the iterator over rows
\* of src/network-injection-lua.c; the tokens of a login with
\* authentication_windows_client, of which the mechToken is skipped).
RoundTrip ==
    answer # UNREAD /\ ~cut /\ kind \notin Dumps =>
        /\ answer.ok = Readable
        /\ Readable => ReadBack /\ (kind # "execute_id" => answer.left = 0)

\* The same with no exception for numbers.
EveryNumberReadBack ==
    answer # UNREAD /\ ~cut /\ kind \notin Dumps /\ Readable => answer.table = Expected

\* Only these can lose their end without a trace: the last field reaches to the end of
\* the packet.
OpenEnd == CASE kind = "err" -> "errmsg" [] kind = "prepare" -> "stmt_text"
             [] kind = "response" -> "response" [] OTHER -> "none"

\* A packet cut short is refused, or only the field that reaches to its end is shorter:
\* no reader takes bytes beyond the end, nor one field for another.
CutShort ==
    answer # UNREAD /\ cut /\ kind \notin Dumps =>
        /\ answer.left >= 0
        /\ answer.ok =>
             IF OpenEnd = "none" \/ Bit(InTable(table, "capabilities", <<>>), CLIENT_PROTOCOL_41)
             THEN answer.table = Expected
             ELSE \A f \in DOMAIN Expected :
                    IF f = OpenEnd THEN IsPrefix(InTable(answer.table, f, <<>>), Expected[f])
                                   ELSE answer.table[f] = Expected[f]

\* What the decoders of events lose: the description of a server that may write checksums
\* and does not, whose last four bytes are not read (network_mysqld_proto_get_binlog_event()
\* refuses it), and the lower byte of the length of a CHAR of more than 255 bytes
\* (network_mysqld_binlog_event_tablemap_get() never looks at it).
Undescribed == table.checksum = OFF /\ HasChecksum(VersionParts(table.events[1].says[2]))

UpperLength(f) == IF f.type = TYPE_STRING /\ f.max_length > 255
                  THEN [f EXCEPT !.max_length = 256] ELSE f

Spared(line) ==
    CASE line.type = FORMAT_DESCRIPTION_EVENT /\ Undescribed -> [line EXCEPT !.says = <<>>]
      [] kind = "binlog" /\ line.type = TABLE_MAP_EVENT /\ line.says # <<>> ->
           [line EXCEPT !.says.fields = [i \in DOMAIN @ |-> UpperLength(@[i])]]
      [] OTHER -> line

\* A dump tells the events of the file one by one, from where it starts to where it stops,
\* each at its position and with what the master wrote into it, rows by the last map of
\* their own table, but for what Spared leaves out; events it does not know and an end
\* that is missing do not change what it tells of the others, and an event torn off in the
\* middle is never told (replicate_binlog_dump_file() of src/mysql-binlog-dump.c and of the
\* replicant plugin).
DumpTellsAll ==
    answer # UNREAD /\ kind \in Dumps =>
        LET d == DumpOf(table, Len(packet), kind = "replicant")
            spared(out) == [i \in DOMAIN out |-> Spared(out[i])]
        IN  /\ answer.table.status = d.status
            /\ spared(answer.table.out) = spared(d.out)

\* The same with nothing left out.
DumpTellsEverything ==
    answer # UNREAD /\ kind \in Dumps =>
        answer.table.out = DumpOf(table, Len(packet), kind = "replicant").out
=============================================================================
