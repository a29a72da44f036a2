--------------------------------- MODULE Packets ---------------------------------
(***************************************************************************)
(* The packets src/network-mysqld-packet.c reads and writes.  An append    *)
(* operator gives the bytes of a struct, a get operator the cursor after   *)
(* reading them, whose got holds the fields of the struct (and the local   *)
(* variables of the function).  Capabilities are numbers, tested by bit.   *)
(***************************************************************************)
EXTENDS Proto, FiniteSets

CLIENT_CONNECT_WITH_DB == 3
CLIENT_PROTOCOL_41 == 9
CLIENT_SECURE_CONNECTION == 15
CLIENT_PLUGIN_AUTH == 19

COM_STMT_PREPARE == 22
COM_STMT_EXECUTE == 23
COM_STMT_CLOSE == 25

Zeros(n) == [i \in 1..n |-> 0]
\* The characters '0', '1', ... from the m-th to the n-th, wrapping after '9'.
Chars(m, n) == [i \in 1..(n - m + 1) |-> 48 + ((m + i - 2) % 10)]

-----------------------------------------------------------------------------
(***************************************************************************)
(* OK, ERR and EOF.                                                        *)
(***************************************************************************)
ok_packet_new ==
    [affected_rows |-> <<>>, insert_id |-> <<>>, server_status |-> <<>>, warnings |-> <<>>]

append_ok_packet(ok) ==
    append_int8(<<>>) \o append_lenenc_int(ok.affected_rows) \o append_lenenc_int(ok.insert_id)
      \o append_int16(ok.server_status) \o append_int16(ok.warnings)

get_ok_packet(c) ==
    GetAll(c, <<Fixed(1, "field_count"), Is("field_count", 0),
                Lenenc("affected_rows"), Lenenc("insert_id"),
                Fixed(2, "server_status"), Fixed(2, "warnings")>>)

err_packet_new(version) ==
    [version |-> version, errcode |-> <<>>, sqlstate |-> <<>>, errmsg |-> <<>>]

\* "07000"
UnknownSqlstate == <<48, 55, 48, 48, 48>>
LongestErrmsg == 512

append_err_packet(e) ==
    append_int8(<<255>>) \o append_int16(e.errcode)
      \o (IF e.version = "41"
          THEN <<35>> \o (IF e.sqlstate # <<>> THEN SubSeq(e.sqlstate, 1, 5) ELSE UnknownSqlstate)
          ELSE <<>>)
      \o SubSeq(e.errmsg, 1, Min({Len(e.errmsg), LongestErrmsg}))

\* Mutant: the marker before the sqlstate is not looked at.
ErrWithoutMarker(c) ==
    GetAll(c, <<Fixed(1, "field_count"), Is("field_count", 255), Fixed(2, "errcode"),
                Skip(1), String(5, "sqlstate"), Rest("errmsg")>>)

get_err_packet(c) ==
    GetAll(c, <<Fixed(1, "field_count"), Is("field_count", 255), Fixed(2, "errcode"),
                Fixed(1, "marker"), Is("marker", 35), String(5, "sqlstate"), Rest("errmsg")>>)

eof_packet_new == [server_status |-> <<>>, warnings |-> <<>>]

append_eof_packet(e) ==
    append_int8(<<254>>) \o append_int16(e.warnings) \o append_int16(e.server_status)

get_eof_packet(c) ==
    GetAll(c, <<Fixed(1, "field_count"), Is("field_count", 254),
                Fixed(2, "warnings"), Fixed(2, "server_status")>>)

-----------------------------------------------------------------------------
(***************************************************************************)
(* The handshake of the server.                                            *)
(***************************************************************************)
auth_challenge_new ==
    [protocol_version |-> <<>>, server_version_str |-> NIL, server_version |-> 0,
     thread_id |-> <<>>, auth_plugin_data |-> <<>>, auth_plugin_name |-> <<>>,
     capabilities |-> <<0, 130>>, charset |-> <<>>, server_status |-> <<>>]

\* "%d.%02d.%02d" of a version number, and sscanf("%d.%d.%d%*s") of the text.
TwoDigits(n) == <<48 + n \div 10, 48 + (n % 10)>>
VersionText(v) ==
    (IF v < 100000 THEN <<48 + v \div 10000>> ELSE TwoDigits(v \div 10000))
      \o <<46>> \o TwoDigits((v % 10000) \div 100) \o <<46>> \o TwoDigits(v % 100)

Decimal(s) == FoldLeft(LAMBDA a, b : 10 * a + b - 48, 0, s)

\* The three numbers of a version text; <<>> when it has not that form.
VersionParts(s) ==
    LET digit(i) == i \in DOMAIN s /\ s[i] \in 48..57
        end(i)  == Min({j \in i..(Len(s) + 1) : ~digit(j)})
        numbers(parts) ==
          IF \E i \in 1..3 : parts[i] = <<>> \/ \E j \in DOMAIN parts[i] : parts[i][j] \notin 48..57
          THEN <<>> ELSE [i \in 1..3 |-> Decimal(parts[i])]
        split(i, j) == numbers(<<SubSeq(s, 1, i - 1), SubSeq(s, i + 1, j - 1),
                                 SubSeq(s, j + 1, end(j + 1) - 1)>>)
        at(dots) == IF Cardinality(dots) < 2 THEN <<>>
                    ELSE split(Min(dots), Min(dots \ {Min(dots)}))
    IN  at({i \in DOMAIN s : s[i] = 46})

\* The version number of a text; -1 when it does not parse or is out of range.
ServerVersion(s) ==
    LET number(v) == IF v = <<>> \/ v[1] > 10 \/ v[2] > 100 \/ v[3] > 100 THEN -1
                     ELSE v[1] * 10000 + v[2] * 100 + v[3]
    IN  number(VersionParts(s))

\* "5.0.99"
AnyVersion == <<53, 46, 48, 46, 57, 57>>

append_auth_challenge(shake) ==
    LET data   == shake.auth_plugin_data
        plugin == Bit(shake.capabilities, CLIENT_PLUGIN_AUTH)
        later  == SubSeq(data, 9, Len(data))
    IN  append_int8(<<10>>)
          \o (IF shake.server_version_str # NIL THEN shake.server_version_str
              ELSE IF shake.server_version \in 30001..99999 THEN VersionText(shake.server_version)
              ELSE AnyVersion)
          \o <<0>>
          \o append_int32(shake.thread_id)
          \o (IF data # <<>> THEN SubSeq(data, 1, 8) ELSE Chars(1, 8))
          \o <<0>>
          \o append_int16(Slice(shake.capabilities, 0, 2))
          \o append_int8(shake.charset)
          \o append_int16(shake.server_status)
          \o append_int16(Slice(shake.capabilities, 2, 4))
          \o (IF plugin THEN append_int8(Num(Len(data))) ELSE <<0>>)
          \o Zeros(10)
          \o (IF plugin
              THEN later \o shake.auth_plugin_name
                     \o (IF shake.server_version \in 50510..50599 \/ shake.server_version >= 50602
                         THEN <<0>> ELSE <<>>)
              ELSE IF Bit(shake.capabilities, CLIENT_SECURE_CONNECTION)
              THEN (IF data # <<>> THEN later ELSE Chars(9, 20)) \o <<0>>
              ELSE <<>>)

\* Without a NUL at its end the plugin name is the rest of the packet.
get_plugin_name(c) ==
    LET rest(d) == IF d.err THEN GetAll(c, <<Rest("auth_plugin_name")>>) ELSE d
    IN  IF c.err THEN c ELSE rest(get_gstring(c, "auth_plugin_name"))

\* The second part of the scramble, by the capabilities read before.
get_data_2(c, caps, len2) ==
    IF Bit(caps, CLIENT_PLUGIN_AUTH)
    THEN get_plugin_name(GetAll(c, <<String(len2, "data_2"), Skip(12 - Min({12, len2}))>>))
    ELSE GetIf(c, Bit(caps, CLIENT_SECURE_CONNECTION), <<String(12, "data_2"), Skip(1)>>)

\* The scramble of the kind the capabilities announce.
PluginData(got, caps, len) ==
    IF Bit(caps, CLIENT_PLUGIN_AUTH)
    THEN SubSeq(got.data_1, 1, Min({8, len})) \o (IF len > 8 THEN got.data_2 ELSE <<>>)
    ELSE got.data_1 \o (IF Bit(caps, CLIENT_SECURE_CONNECTION) THEN got.data_2 ELSE <<>>)

StoreChallenge(c, caps, len, version) ==
    IF version = -1 THEN Fail(c)
    ELSE Store(Store(Store(c, "capabilities", caps), "server_version", version),
               "auth_plugin_data", PluginData(c.got, caps, len))

get_auth_challenge(c) ==
    LET caps(got)  == Digits(append_int16(got.capabilities1) \o append_int16(got.capabilities2))
        len(got)   == Length(got.data_len)
        named(d)   == IF d.got.server_version_str = NIL THEN Fail(d) ELSE d
        fixed(d)   == GetAll(d, <<Fixed(4, "thread_id"), String(8, "data_1"), Skip(1),
                                  Fixed(2, "capabilities1"), Fixed(1, "charset"),
                                  Fixed(2, "server_status"), Fixed(2, "capabilities2"),
                                  Fixed(1, "data_len"), Skip(10)>>)
        data_2(d)  == get_data_2(d, caps(d.got), Max({len(d.got) - 8, 0}))
        version(d) == StoreChallenge(d, caps(d.got), len(d.got),
                                     ServerVersion(d.got.server_version_str))
    IN  Then(Then(Then(Then(GetAll(c, <<Fixed(1, "status"), Is("status", 10),
                                        NulString("server_version_str")>>),
                            named), fixed), data_2), version)
-----------------------------------------------------------------------------
(***************************************************************************)
(* The answer of the client.                                               *)
(***************************************************************************)
auth_response_new(server_capabilities) ==
    [client_capabilities |-> <<0, 130>>, server_capabilities |-> server_capabilities,
     max_packet_size |-> <<>>, charset |-> <<>>, username |-> <<>>,
     auth_plugin_data |-> <<>>, auth_plugin_name |-> <<>>, database |-> <<>>]

Both(auth, bit) == Bit(auth.server_capabilities, bit) /\ Bit(auth.client_capabilities, bit)

append_auth_response(auth) ==
    LET data == auth.auth_plugin_data
    IN  IF ~Bit(auth.client_capabilities, CLIENT_PROTOCOL_41)
        THEN append_int16(auth.client_capabilities) \o append_int24(auth.max_packet_size)
               \o auth.username \o <<0>> \o data
        ELSE append_int32(auth.client_capabilities) \o append_int32(auth.max_packet_size)
               \o append_int8(auth.charset) \o Zeros(23) \o auth.username \o <<0>>
               \o (IF Bit(auth.server_capabilities, CLIENT_SECURE_CONNECTION)
                   THEN append_int8(Num(Len(data))) \o SubSeq(data, 1, Len(data) % 256)
                   ELSE data \o <<0>>)
               \o (IF /\ Bit(auth.server_capabilities, CLIENT_CONNECT_WITH_DB)
                      /\ auth.database # <<>>
                   THEN auth.database \o <<0>> ELSE <<>>)
               \o (IF Both(auth, CLIENT_PLUGIN_AUTH) THEN auth.auth_plugin_name \o <<0>> ELSE <<>>)

\* The 16 bits before a 4.0 answer are local: they reach client_capabilities at the end.
get_auth_response_40(c) ==
    LET data(d) == GetIf(d, Left(d) # 0, <<Rest("auth_plugin_data")>>)
        caps(d) == Store(d, "client_capabilities", d.got.l_cap)
    IN  Then(Then(GetAll(c, <<Fixed(2, "l_cap"), Fixed(3, "max_packet_size"),
                              NulGString("username")>>), data), caps)

get_auth_response_41(c) ==
    LET len(d)  == GetAll(d, <<GString(Length(d.got.len), "auth_plugin_data")>>)
        data(d) == IF Bit(c.got.server_capabilities, CLIENT_SECURE_CONNECTION)
                   THEN Then(GetAll(d, <<Fixed(1, "len")>>), len)
                   ELSE GetAll(d, <<NulGString("auth_plugin_data")>>)
        db(d)   == GetIf(d, Both(d.got, CLIENT_CONNECT_WITH_DB), <<NulGString("database")>>)
        name(d) == GetIf(d, Both(d.got, CLIENT_PLUGIN_AUTH), <<NulGString("auth_plugin_name")>>)
    IN  Then(Then(Then(GetAll(c, <<Fixed(4, "client_capabilities"), Fixed(4, "max_packet_size"),
                                   Fixed(1, "charset"), Skip(23), NulGString("username")>>),
                       data), db), name)

get_auth_response(c) ==
    Then(peek_int_len(c, 2, "l_cap"),
         LAMBDA p : IF Bit(p.got.l_cap, CLIENT_PROTOCOL_41) THEN get_auth_response_41(c)
                    ELSE get_auth_response_40(c))

-----------------------------------------------------------------------------
(***************************************************************************)
(* Prepared statements.                                                    *)
(***************************************************************************)
stmt_prepare_packet_new == [stmt_text |-> <<>>]

append_stmt_prepare_packet(p) == append_int8(<<COM_STMT_PREPARE>>) \o p.stmt_text

get_stmt_prepare_packet(c) ==
    GetAll(c, <<Fixed(1, "packet_type"), Is("packet_type", COM_STMT_PREPARE), Rest("stmt_text")>>)

stmt_prepare_ok_packet_new ==
    [stmt_id |-> <<>>, num_columns |-> <<>>, num_params |-> <<>>, warnings |-> <<>>]

append_stmt_prepare_ok_packet(p) ==
    append_int8(<<>>) \o append_int32(p.stmt_id) \o append_int16(p.num_columns)
      \o append_int16(p.num_params) \o append_int8(<<>>) \o append_int16(p.warnings)

get_stmt_prepare_ok_packet(c) ==
    GetAll(c, <<Fixed(1, "packet_type"), Is("packet_type", 0), Fixed(4, "stmt_id"),
                Fixed(2, "num_columns"), Fixed(2, "num_params"), Skip(1), Fixed(2, "warnings")>>)

stmt_close_packet_new == [stmt_id |-> <<>>]

append_stmt_close_packet(p) == append_int8(<<COM_STMT_CLOSE>>) \o append_int32(p.stmt_id)

get_stmt_close_packet(c) ==
    GetAll(c, <<Fixed(1, "packet_type"), Is("packet_type", COM_STMT_CLOSE), Fixed(4, "stmt_id")>>)

-----------------------------------------------------------------------------
(***************************************************************************)
(* Column definitions.                                                     *)
(***************************************************************************)
fielddef_new ==
    [catalog |-> NIL, db |-> NIL, table |-> NIL, org_table |-> NIL, name |-> NIL,
     org_name |-> NIL, charsetnr |-> <<>>, length |-> <<>>, type |-> <<>>, flags |-> <<>>,
     decimals |-> <<>>]

get_fielddef_41(c) ==
    GetAll(c, <<LenencString("catalog"), LenencString("db"), LenencString("table"),
                LenencString("org_table"), LenencString("name"), LenencString("org_name"),
                Skip(1), Fixed(2, "charsetnr"), Fixed(4, "length"), Fixed(1, "type"),
                Fixed(2, "flags"), Fixed(1, "decimals"), Skip(2)>>)

\* A byte of 3 before the flags is CLIENT_LONG_FLAG, 2 is the shorter form.
get_fielddef_40(c) ==
    LET flags(d) == IF d.got.len \notin {<<2>>, <<3>>} THEN Fail(d)
                    ELSE GetAll(d, <<Fixed(Length(d.got.len) - 1, "flags"), Fixed(1, "decimals")>>)
    IN  Then(Then(GetAll(c, <<LenencString("table"), LenencString("name"),
                              Fixed(1, "len"), Is("len", 3), Fixed(3, "length"),
                              Fixed(1, "len"), Is("len", 1), Fixed(1, "type"), Fixed(1, "len")>>),
                  flags), LAMBDA d : Store(d, "charsetnr", <<8>>))

get_fielddef(c, capabilities) ==
    IF Bit(capabilities, CLIENT_PROTOCOL_41) THEN get_fielddef_41(c) ELSE get_fielddef_40(c)

\* The list of packets before the rows: the number of columns, one definition each, and
\* an EOF.  The chunks are those packets with their headers; a list that ends too early
\* fails an assertion.
get_fielddefs(chunks, zeroed) ==
    LET open(i)   == skip_network_header(Cursor(chunks[i], zeroed))
        int(d)    == IF peek_lenenc_type(d) # "INT" THEN Fail(d)
                     ELSE get_lenenc_int(d, "field_count")
        eof(d)    == IF peek_lenenc_type(d) # "EOF" THEN Fail(d) ELSE d
        all(defs) == IF \/ \E i \in DOMAIN defs : defs[i].err
                        \/ Len(chunks) < Len(defs) + 2
                        \/ Then(open(Len(defs) + 2), eof).err
                     THEN [ok |-> FALSE, defs |-> <<>>]
                     ELSE [ok |-> TRUE, defs |-> [i \in DOMAIN defs |-> defs[i].got]]
        parse(d)  == IF d.err \/ Length(d.got.field_count) = 0 THEN [ok |-> FALSE, defs |-> <<>>]
                     ELSE all([i \in 1..Length(d.got.field_count) |->
                                 get_fielddef(open(i + 1), <<0, 2>>)])
    IN  parse(Then(open(1), int))

-----------------------------------------------------------------------------
(***************************************************************************)
(* The master.info file: a line per field, numbers in decimal.             *)
(***************************************************************************)
NEWLINE == 10
DecimalText(n) ==
    LET k == Min({j \in 1..9 : n < 10 ^ j}) IN [i \in 1..k |-> 48 + ((n \div 10 ^ (k - i)) % 10)]

MasterInts == {"master_lines", "master_log_pos", "master_port", "master_connect_retry",
               "master_ssl", "master_ssl_verify_server_cert"}
MasterLines == <<"master_lines", "master_log_file", "master_log_pos", "master_host",
                 "master_user", "master_password", "master_port", "master_connect_retry",
                 "master_ssl", "master_ssl_ca", "master_ssl_capath", "master_ssl_cert",
                 "master_ssl_cipher", "master_ssl_key", "master_ssl_verify_server_cert">>

masterinfo_new == [f \in Range(MasterLines) |-> <<>>]

\* The last line is there if the first says that there are 15 or more.
LinesOf(master_lines) ==
    IF Length(master_lines) >= 15 THEN MasterLines ELSE SubSeq(MasterLines, 1, 14)

masterinfo_append(info) ==
    FoldLeft(LAMBDA text, f :
               text \o (IF f \in MasterInts THEN DecimalText(Length(info[f])) ELSE info[f])
                 \o <<NEWLINE>>,
             <<>>, LinesOf(info.master_lines))

\* strtoul() of a decimal number; an empty line is 0 and anything else is refused.
get_line(c, f) ==
    LET store(d, line) == IF f \notin MasterInts THEN Store(d, f, line)
                          ELSE IF Range(line) \subseteq 48..57 THEN Store(d, f, Num(Decimal(line)))
                          ELSE Fail(d)
        upto(n) == IF n = 0 THEN Fail(c) ELSE store([c EXCEPT !.offset = @ + n], Ahead(c, n - 1))
    IN  IF c.err THEN c ELSE upto(find_int8(c, NEWLINE))

\* Mutant: the number of lines in the file is not looked at.
FourteenLines(c) == FoldLeft(get_line, c, SubSeq(MasterLines, 1, 14))

masterinfo_get(c) ==
    Then(FoldLeft(get_line, c, SubSeq(MasterLines, 1, 14)),
         LAMBDA d : IF Length(d.got.master_lines) >= 15
                    THEN get_line(d, "master_ssl_verify_server_cert") ELSE d)

=============================================================================
