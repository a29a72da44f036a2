-------------------------------- MODULE MCCodecs --------------------------------
\* Values for TLC: the bounds of every encoding, and values on both sides of them.
EXTENDS Codecs

MCNumbers == {<<>>, <<250>>, <<251>>, <<255, 255>>, <<0, 0, 1>>, <<255, 255, 255>>,
              <<0, 0, 0, 127, 1>>, <<0, 0, 0, 128>>}
MCStatuses == {<<>>, <<254, 255>>}
MCTexts == {<<>>, Chars(1, 1), Chars(1, 8), Chars(1, 520)}
MCVersions == {0, 50099, 50511, 50614, 100000}
MCCapSets == {{CLIENT_PROTOCOL_41} \cup s :
                 s \in SUBSET {CLIENT_CONNECT_WITH_DB, CLIENT_SECURE_CONNECTION, CLIENT_PLUGIN_AUTH}}
               \cup {{}, {CLIENT_SECURE_CONNECTION}}

Value(type, data) == [type |-> type, is_null |-> FALSE, is_unsigned |-> FALSE, data |-> data]
NullOf(type) == [Value(type, NODATA) EXCEPT !.is_null = TRUE]
DateOf(m, d, h, ns) == <<<<218, 7>>, m, d, h, <<>>, <<>>, ns>>

MCValues == {Value(TINY, <<255>>), [Value(SHORT, <<1, 255>>) EXCEPT !.is_unsigned = TRUE],
             Value(LONG, <<>>), Value(LONGLONG, <<0, 0, 0, 0, 1>>), Value(INT24, <<7>>),
             Value(DOUBLE, Chars(1, 8)), Value(FLOAT, Chars(1, 4)),
             Value(DATE, DateOf(<<12>>, <<31>>, <<>>, <<>>)),
             Value(DATE, DateOf(<<12>>, <<32>>, <<>>, <<>>)),
             Value(DATE, DateOf(<<1>>, <<1>>, <<25>>, <<>>)),
             Value(DATETIME, DateOf(<<1>>, <<1>>, <<24>>, <<>>)),
             Value(DATETIME, DateOf(<<1>>, <<1>>, <<25>>, <<>>)),
             Value(TIMESTAMP, DateOf(<<1>>, <<1>>, <<1>>, <<0, 1>>)),
             Value(DATETIME, [i \in 1..7 |-> <<>>]),
             Value(TIME, [i \in 1..6 |-> <<>>]), Value(TIME, <<<<1>>, <<2>>, <<3>>, <<>>, <<>>, <<9>>>>),
             Value(VAR_STRING, <<>>), Value(BLOB, Chars(1, 251)), Value(VARCHAR, <<65>>),
             Value(BIT, <<1>>), Value(NEWDECIMAL, <<49>>), NullOf(BLOB), NullOf(TINY),
             NullOf(VARCHAR), NullOf(NULL), NullOf(BIT)}

\* Six, seven and nine parameters: the NULL bits fill a byte of a row, or of a statement.
MCParams == {<<>>} \cup {<<v>> : v \in MCValues}
            \cup {<<v, w>> : v \in {Value(SHORT, <<0, 1>>), NullOf(BLOB)}, w \in MCValues}
            \cup {<<v, Value(VAR_STRING, <<65, 66>>)>> : v \in MCValues}
            \cup {[i \in 1..n |-> IF i = k THEN NullOf(BLOB) ELSE Value(TINY, <<i>>)] :
                    n \in {6, 7, 9}, k \in 1..9}

\* A script's answers: rows that are too short, too long, NULL, empty, with a NUL inside.
MCAnswers ==
    LET cells == {NIL, <<>>, <<65>>, <<65, 0, 66>>, Chars(1, 251), <<254>>}
        rows  == {<<>>} \cup {<<c>> : c \in cells} \cup {<<c, d>> : c, d \in cells}
        names == {<<>>, [name |-> <<97>>, type |-> <<3>>], [name |-> <<>>]}
        resultset(f, r) == [type |-> "OK", resultset |-> [fields |-> f, rows |-> r]]
    IN  {resultset(<<f>>, <<r>>) : f \in names, r \in rows}
          \cup {resultset(<<f, g>>, <<r, <<NIL, <<66>>>>>>) : f, g \in names, r \in rows}
          \cup {resultset(<<f>>, <<>>) : f \in names}
          \cup {[type |-> "OK"]} \cup {[type |-> "OK", affected_rows |-> n, insert_id |-> m] : n, m \in MCNumbers}
          \cup {[type |-> "ERR"], [type |-> "ERR", errmsg |-> Chars(1, 3)],
                [type |-> "ERR", errmsg |-> Chars(1, 520), errcode |-> <<1, 2>>, sqlstate |-> Chars(1, 5)]}

MCOids == {<<1, 3, 6, 1, 5, 5, 2>>, <<1, 3, 6, 1, 4, 1, 311, 2, 2, 10>>, <<1, 2, 840, 113554, 1, 2, 2>>}

Column(type, meta, real, max, dec, bytes, value) ==
    [type |-> type, meta |-> meta, field |-> [type |-> real, max_length |-> max, decimals |-> dec],
     bytes |-> bytes, value |-> value]
Plain(type, width) == Column(type, <<>>, type, 0, 0, append_int_len(<<type>>, width), <<type>>)

Wide == <<Plain(LONG, 4),
          Column(VARCHAR, <<44, 1>>, VARCHAR, 300, 0, <<2, 0, 65, 66>>, <<65, 66>>),
          Column(VAR_STRING, <<9, 0>>, VAR_STRING, 9, 0, <<1, 67>>, <<67>>),
          Column(TYPE_STRING, <<222, 253>>, TYPE_STRING, 765, 0, <<1, 0, 68>>, <<68>>),
          Column(TYPE_STRING, <<247, 1>>, ENUM, 1, 0, <<3>>, <<3>>),
          Column(BLOB, <<3>>, MEDIUM_BLOB, 3, 0, <<1, 0, 0, 69>>, <<69>>),
          Column(NEWDECIMAL, <<10, 2>>, NEWDECIMAL, 10, 2, <<1, 2, 3, 4, 5>>, NIL),
          Column(BIT, <<1, 1>>, BIT, 2, 0, <<1, 2>>, <<1, 2>>),
          Column(DOUBLE, <<8>>, DOUBLE, 8, 0, Chars(1, 8), Chars(1, 8)),
          Column(FLOAT, <<4>>, FLOAT, 4, 0, Chars(1, 4), Chars(1, 4)),
          Column(GEOMETRY, <<4>>, GEOMETRY, 4, 0, <<1, 0, 0, 0, 70>>, <<70>>)>>
Small == <<Plain(DATETIME, 8), Plain(INT24, 3), Plain(YEAR, 1), Plain(SHORT, 2), Plain(TIMESTAMP, 4),
           Plain(TINY, 1)>>
Chars255 == <<Column(TYPE_STRING, <<254, 255>>, TYPE_STRING, 255, 0, <<2, 65, 66>>, <<65, 66>>),
              Plain(LONGLONG, 8)>>
Chars256 == <<Plain(TINY, 1), Column(TYPE_STRING, <<238, 0>>, TYPE_STRING, 256, 0, <<1, 0, 67>>, <<67>>),
              Plain(DATE, 3)>>

\* "5.1.40-log" and "5.6.2"
Old == <<53, 46, 49, 46, 52, 48, 45, 108, 111, 103>>
New == <<53, 46, 54, 46, 50>>

MCFiles ==
    LET Table(id, name, cols) == [id |-> id, name |-> name, cols |-> cols]
        file(version, checksum, events) ==
            [events |-> <<FormatEvent(version, checksum)>> \o events, checksum |-> checksum]
        others == <<QueryEvent(<<100>>, Chars(1, 5)), IntvarEvent, UserVarEvent, UnknownEvent,
                    XidEvent(<<0, 9>>), RowsQueryEvent(Chars(1, 3)), RotateEvent(Chars(1, 6))>>
        wide(t) == <<TableMapEvent(Table(<<7>>, <<116>>, Wide)),
                     RowsEvent(t, Table(<<7>>, <<116>>, Wide), 1..11, {1, 4, 9, 11}, {1, 2, 7, 11}),
                     StopEvent>>
        small   == <<TableMapEvent(Table(<<7>>, <<116>>, Small)),
                     RowsEvent(WRITE_ROWS_EVENT, Table(<<7>>, <<116>>, Small), {2, 3, 5, 6}, {}, {5}),
                     XidEvent(<<1>>)>>
        \* Two tables, whose ids share their lower bytes; then the first id stands for a third.
        one   == Table(<<7>>, <<116>>, Chars255)
        two   == Table(<<7, 0, 0, 0, 1>>, <<117, 117>>, Chars256)
        three == Table(<<7>>, <<118>>, Chars256)
        tables == <<TableMapEvent(one), TableMapEvent(two),
                    RowsEvent(WRITE_ROWS_EVENT, one, {1, 2}, {}, {1}),
                    RowsEvent(DELETE_ROWS_EVENT, two, {1, 2, 3}, {}, {2}),
                    TableMapEvent(three), RowsEvent(UPDATE_ROWS_EVENT, three, {1}, {2, 3}, {}),
                    RowsEvent(WRITE_ROWS_EVENT, two, {2}, {}, {})>>
    IN  {file(Old, OFF, tables), file(Old, OFF, others), file(New, CRC32, others), file(New, OFF, small),
         file(Old, OFF, small), file(New, CRC32, wide(UPDATE_ROWS_EVENT)),
         file(Old, OFF, wide(DELETE_ROWS_EVENT))}
=============================================================================
