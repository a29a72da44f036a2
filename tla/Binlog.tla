---------------------------------- MODULE Binlog ----------------------------------
(***************************************************************************)
(* Binlog events (src/network-mysqld-binlog.c), the rows in them and the   *)
(* programs that print a binlog file (src/mysql-binlog-dump.c, and the     *)
(* replicant plugin).  got.abort is a failed g_assert() or a g_error().    *)
(***************************************************************************)
EXTENDS BinaryRows

QUERY_EVENT == 2
STOP_EVENT == 3
ROTATE_EVENT == 4
INTVAR_EVENT == 5
USER_VAR_EVENT == 14
FORMAT_DESCRIPTION_EVENT == 15
XID_EVENT == 16
TABLE_MAP_EVENT == 19
WRITE_ROWS_EVENT == 23
UPDATE_ROWS_EVENT == 24
DELETE_ROWS_EVENT == 25
ROWS_QUERY_LOG_EVENT == 29
RowsEvents == {WRITE_ROWS_EVENT, UPDATE_ROWS_EVENT, DELETE_ROWS_EVENT}

\* Types of columns that only binlogs have.
DECIMAL == 0
ENUM == 247
SET_TYPE == 248  \* MYSQL_TYPE_SET
GEOMETRY == 255

CRC32 == <<1>>
OFF == <<>>

Abort(c) == Store(Fail(c), "abort", TRUE)

-----------------------------------------------------------------------------
(***************************************************************************)
(* Events.                                                                 *)
(***************************************************************************)
HEADER_LEN == 19

get_binlog_event_header(c) ==
    GetAll(c, <<Fixed(4, "timestamp"), Fixed(1, "event_type"), Fixed(4, "server_id"),
                Fixed(4, "event_size"), Fixed(4, "log_pos"), Fixed(2, "flags")>>)

query_event(c) ==
    LET text(v) == GetAll(v, <<Skip(Length(v.got.var_size)),
                               String(Length(v.got.db_name_len), "db_name"),
                               Skip(1), RestString("query")>>)
        vars(h) == IF Left(h) = 0 THEN h   \* 4.1 ends here
                   ELSE Then(GetAll(h, <<Fixed(2, "var_size")>>), text)
    IN  Then(GetAll(c, <<Fixed(4, "thread_id"), Fixed(4, "exec_time"), Fixed(1, "db_name_len"),
                         Fixed(2, "error_code")>>), vars)

rotate_event(c) == GetAll(c, <<Fixed(4, "binlog_pos"), Skip(4), RestString("binlog_file")>>)

\* From 5.6.2 on the description ends in the kind of checksum and a checksum of its own.
PERM_EVENTS == 29
HasChecksum(version) == version[1] * 65536 + version[2] * 256 + version[3] >= 329218

Shortened(c) == [c EXCEPT !.data = SubSeq(@, 1, Len(@) - 4)]

format_event(c) ==
    LET done(d) == IF d.got.checksum = CRC32 THEN Shortened(d) ELSE d
        perm(h, version) ==
          IF version = <<>> \/ \E i \in 1..3 : version[i] > 100 THEN Fail(h)
          ELSE IF ~HasChecksum(version) THEN done(GetAll(h, <<RestString("perm_events")>>))
          ELSE IF Left(h) # PERM_EVENTS + 1 + 4 THEN Abort(h)
          ELSE done(GetAll(h, <<String(PERM_EVENTS, "perm_events"), Fixed(1, "checksum")>>))
        head(h) == IF h.err \/ h.got.log_header_len # <<HEADER_LEN>> THEN Abort(h)
                   ELSE perm(h, VersionParts(h.got.master_version))
    IN  head(GetAll(c, <<Fixed(2, "binlog_version"), String(50, "master_version"),
                         Fixed(4, "created_ts"), Fixed(1, "log_header_len")>>))

user_var_event(c) ==
    LET name(d)  == GetAll(d, <<String(Length(d.got.name_len), "name"), Fixed(1, "is_null"),
                                Fixed(1, "type"), Fixed(4, "charset"), Fixed(4, "value_len")>>)
        value(d) == GetAll(d, <<String(Length(d.got.value_len), "value")>>)
    IN  Then(Then(GetAll(c, <<Fixed(4, "name_len")>>), name), value)

\* A length and as many bytes.
LengthString(c, len, f) ==
    Then(GetAll(c, <<len>>), LAMBDA l : get_string_len(l, Length(l.got[len.f]), f))

table_map_event(c) ==
    LET db(d)    == LengthString(GetAll(d, <<Fixed(6, "table_id"), Fixed(2, "flags")>>),
                                 Fixed(1, "db_name_len"), "db_name")
        table(d) == LengthString(GetAll(d, <<Skip(1)>>), Fixed(1, "table_name_len"), "table_name")
        cols(d)  == LengthString(GetAll(d, <<Skip(1)>>), Lenenc("columns_len"), "columns")
        meta(d)  == LengthString(d, Lenenc("metadata_len"), "metadata")
        bits(d)  == GetAll(d, <<String((Length(d.got.columns_len) + 7) \div 8, "null_bits")>>)
        end(d)   == IF Left(d) # 0 THEN Fail(d) ELSE d
    IN  Then(Then(meta(cols(table(db(c)))), bits), end)

rows_event(c, type) ==
    LET bits(bytes) ==
          <<String(bytes, "used_before")>>
            \o (IF type = UPDATE_ROWS_EVENT THEN <<String(bytes, "used_after")>> ELSE <<>>)
        rows(h) == GetAll(h, bits((Length(h.got.columns_len) + 7) \div 8) \o <<RestString("row")>>)
    IN  Then(GetAll(c, <<Fixed(6, "table_id"), Fixed(2, "flags"), Lenenc("columns_len")>>), rows)

\* As many NULL bits as columns are used.
null_bits_len(used, columns_len) ==
    (Cardinality({i \in 0..(Length(columns_len) - 1) : Bit(used, i)}) + 7) \div 8

event_body(c, type) ==
    CASE type = QUERY_EVENT              -> query_event(c)
      [] type = ROTATE_EVENT             -> rotate_event(c)
      [] type = STOP_EVENT               -> c
      [] type = FORMAT_DESCRIPTION_EVENT -> format_event(c)
      [] type = USER_VAR_EVENT           -> user_var_event(c)
      [] type = TABLE_MAP_EVENT          -> table_map_event(c)
      [] type \in RowsEvents             -> rows_event(c, type)
      [] type = INTVAR_EVENT             -> GetAll(c, <<Fixed(1, "type"), Fixed(8, "value")>>)
      [] type = XID_EVENT                -> GetAll(c, <<Fixed(8, "xid_id")>>)
      [] type = ROWS_QUERY_LOG_EVENT     -> GetAll(c, <<Fixed(1, "query_len"), RestString("query")>>)
      [] OTHER                           -> Fail(c)

binlog_event_new(checksum) ==
    [abort |-> FALSE, checksum |-> checksum, db_name |-> NIL, query |-> NIL]

\* Mutant: the checksum is left in front of the decoders.
ChecksumInBody(data, checksum, type) ==
    Then(event_body([Cursor(data, binlog_event_new(checksum)) EXCEPT !.offset = HEADER_LEN], type),
         LAMBDA b : IF b.offset # Len(b.data) THEN Fail(b) ELSE b)

\* The body after the header.  The decoders see the event without its checksum, which
\* is skipped in the end.
get_binlog_event(data, checksum, type) ==
    LET c == [Cursor(data, binlog_event_new(checksum)) EXCEPT !.offset = HEADER_LEN]
        crc(b) == IF b.got.checksum # CRC32 THEN b
                  ELSE skip([b EXCEPT !.data = SubSeq(data, 1, Len(@) + 4)], 4)
        end(b) == IF b.offset # Len(b.data) THEN Fail(b) ELSE b
    IN  Then(Then(event_body(IF checksum = CRC32 THEN Shortened(c) ELSE c, type), crc), end)

-----------------------------------------------------------------------------
(***************************************************************************)
(* Tables and rows.                                                        *)
(***************************************************************************)
\* How many bytes of metadata a column has.
MetadataLen(type) ==
    CASE type \in {TYPE_STRING, VARCHAR, VAR_STRING, NEWDECIMAL, ENUM, BIT} -> 2
      [] type \in {GEOMETRY, BLOB, DOUBLE, FLOAT} -> 1
      [] OTHER -> 0

ColumnTypes == {TYPE_STRING, VARCHAR, VAR_STRING, NEWDECIMAL, ENUM, BIT, GEOMETRY, BLOB, DOUBLE,
                FLOAT, DECIMAL, DATE, DATETIME, TIME, TIMESTAMP, YEAR, TINY, SHORT, INT24, LONG,
                LONGLONG}

BlobOfLen(n) == CASE n = 1 -> TINY_BLOB [] n = 3 -> MEDIUM_BLOB [] n = 4 -> LONG_BLOB
                  [] OTHER -> BLOB

\* Bits 4 and 5 of the first byte of a CHAR are, inverted, the upper bits of its length.
UpperBits(b) == 3 - ((b \div 16) % 4)

ColumnField(type, m) ==
    CASE type = TYPE_STRING /\ UpperBits(m[1]) # 0 ->
           [type |-> m[1] + 16 * UpperBits(m[1]), max_length |-> 256 * UpperBits(m[1]), decimals |-> 0]
      [] type \in {TYPE_STRING, ENUM} -> [type |-> m[1], max_length |-> m[2], decimals |-> 0]
      [] type \in {VARCHAR, VAR_STRING} ->
           [type |-> type, max_length |-> m[1] + 256 * m[2], decimals |-> 0]
      [] type = BLOB -> [type |-> BlobOfLen(m[1]), max_length |-> m[1], decimals |-> 0]
      [] type \in {GEOMETRY, DOUBLE, FLOAT} -> [type |-> type, max_length |-> m[1], decimals |-> 0]
      [] type = NEWDECIMAL -> [type |-> type, max_length |-> m[1], decimals |-> m[2]]
      [] type = BIT -> [type |-> type, max_length |-> m[2] + (IF m[1] = 0 THEN 0 ELSE 1), decimals |-> 0]
      [] OTHER -> [type |-> type, max_length |-> 0, decimals |-> 0]

\* A column whose metadata is missing has only the type that does not depend on it.
BareField(type) ==
    [type |-> IF MetadataLen(type) = 0 \/ type \in {NEWDECIMAL, BIT} THEN type ELSE 0,
     max_length |-> 0, decimals |-> 0]

\* The fields of a table; a cursor over the metadata, with the fields in got.fields.
tablemap_get(e) ==
    LET known(m, type) == IF m.err THEN BareField(type) ELSE ColumnField(type, m.got.meta)
        add(m, f, i) == [m EXCEPT !.got.fields =
                           Append(@, f @@ ("not_null" :> ~Bit(e.null_bits, i - 1)))]
        check(m, type) == IF ~m.err /\ \/ type = BLOB /\ m.got.meta[1] \notin 1..4
                                       \/ type = GEOMETRY /\ m.got.meta[1] # 4
                          THEN Fail(m) ELSE m
        field(m, type, i) == check(add(m, known(m, type), i), type)
        next(c, i) ==
          IF c.got.abort \/ e.columns[i] \notin ColumnTypes THEN Abort(c)
          ELSE field(Then(c, LAMBDA d : get_gstring_len(d, MetadataLen(e.columns[i]), "meta")),
                     e.columns[i], i)
        end(c) == IF Left(c) # 0 THEN Fail(c) ELSE c
    IN  end(FoldLeft(next, Cursor(IF e.metadata = NIL THEN <<>> ELSE e.metadata,
                                  [fields |-> <<>>, abort |-> FALSE]),
                     Indices(Length(e.columns_len))))

\* The bytes of a DECIMAL: nine digits in four bytes, fewer digits in fewer bytes.
DigitBytes == (0 :> 0) @@ <<1, 1, 2, 2, 3, 3, 4, 4, 4>>
DecimalLen(digits) == (digits \div 9) * 4 + DigitBytes[digits % 9]

\* One value of a row, into got.value.  The digits of a decimal are skipped.
field_get(c, f) ==
    CASE f.type = BIT                               -> get_string_len(c, f.max_length, "value")
      [] f.type = FLOAT                             -> get_gstring_len(c, 4, "value")
      [] f.type = DOUBLE                            -> get_gstring_len(c, 8, "value")
      [] f.type \in {TIMESTAMP, LONG}               -> get_int_len(c, 4, "value")
      [] f.type \in {DATETIME, LONGLONG}            -> get_int_len(c, 8, "value")
      [] f.type \in {INT24, DATE, TIME}             -> get_int_len(c, 3, "value")
      [] f.type = SHORT                             -> get_int_len(c, 2, "value")
      [] f.type \in {YEAR, TINY}                    -> get_int_len(c, 1, "value")
      [] f.type \in {SET_TYPE, ENUM}                -> IF f.max_length \in 1..2
                                                       THEN get_int_len(c, f.max_length, "value")
                                                       ELSE Abort(c)
      [] f.type \in {GEOMETRY, TINY_BLOB, BLOB, MEDIUM_BLOB, LONG_BLOB} ->
           IF f.max_length \in 1..4 THEN LengthString(c, Fixed(f.max_length, "len"), "value")
                                    ELSE Abort(c)
      [] f.type \in {VARCHAR, VAR_STRING, TYPE_STRING} ->
           LengthString(c, Fixed(IF f.max_length < 256 THEN 1 ELSE 2, "len"), "value")
      [] f.type = NEWDECIMAL -> skip(Store(c, "value", NIL),
                                     DecimalLen(f.max_length - f.decimals) + DecimalLen(f.decimals))
      [] OTHER -> Abort(c)

NULLVALUE == <<-4>>

UsedColumns(fields, used) == SelectSeq(Indices(Len(fields)), LAMBDA i : Bit(used, i - 1))

\* The values of these columns, into got.values.
UsedFields(c, fields, columns) ==
    LET add(d, v)   == [d EXCEPT !.got.values = Append(@, v)]
        get(d, col) == IF col.null THEN add(d, NULLVALUE)
                       ELSE Then(field_get(d, fields[col.col]), LAMBDA g : add(g, g.got.value))
    IN  IF \E k \in DOMAIN columns : columns[k].null /\ fields[columns[k].col].not_null THEN Fail(c)
        ELSE Each(Store(c, "values", <<>>), Len(columns), LAMBDA d, k : get(d, columns[k]))

\* Mutant: the NULL bits are counted like the columns of the table.
NullBitPerColumn(c, fields, used, bits) ==
    UsedFields(c, fields, [k \in DOMAIN UsedColumns(fields, used) |->
                             [col  |-> UsedColumns(fields, used)[k],
                              null |-> Bit(bits, UsedColumns(fields, used)[k] - 1)]])

\* The columns a row event has: there is a NULL bit for each of these columns, and a
\* value for each that is not NULL.
fields_get(c, fields, used, bits) ==
    UsedFields(c, fields, [k \in DOMAIN UsedColumns(fields, used) |->
                             [col  |-> UsedColumns(fields, used)[k],
                              null |-> Bit(bits, k - 1)]])

\* An image of a row: NULL bits and values.
Image(c, fields, used, columns_len) ==
    Then(Then(c, LAMBDA d : get_string_len(d, null_bits_len(used, columns_len), "bits")),
         LAMBDA d : fields_get(d, fields, used, d.got.bits))

\* The rows of an event, up to the first that cannot be read: got.rows.  Every row takes
\* at least a byte, and one is tried even if there are none.
RowsOf(e, type, fields) ==
    LET add(c, row) == [c EXCEPT !.got.rows = Append(@, row)]
        post(pre) == IF type # UPDATE_ROWS_EVENT THEN add(pre, <<pre.got.values>>)
                     ELSE Then(Image(pre, fields, e.used_after, e.columns_len),
                               LAMBDA d : add(d, <<pre.got.values, d.got.values>>))
        row(c, n) == IF n > 1 /\ Left(c) = 0 THEN c
                     ELSE Then(Image(c, fields, e.used_before, e.columns_len), post)
        all(data) == Each(Cursor(data, [rows |-> <<>>, abort |-> FALSE]), Len(data) + 1, row)
    IN  all(IF e.row = NIL THEN <<>> ELSE e.row)

-----------------------------------------------------------------------------
(***************************************************************************)
(* Printing a binlog file.  d is the state of the loop: the position in    *)
(* the file, the network_mysqld_binlog (checksum, tables by their id), the *)
(* events printed and the status.                                          *)
(***************************************************************************)
FileHeader == <<254, 98, 105, 110>>

binlog_new == [checksum |-> OFF, tables |-> << >>]

\* What is printed of an event, and the tables known after it.
event_print(binlog, type, e) ==
    LET says(x) == [says |-> x, abort |-> FALSE, tables |-> binlog.tables]
        add(table, abort) == [says |-> table, abort |-> abort,
                              tables |-> (e.table_id :> table) @@ binlog.tables]
        map(m) == add([db |-> e.db_name, name |-> e.table_name, fields |-> m.got.fields],
                      m.got.abort)
        known == e.table_id \in DOMAIN binlog.tables
        t     == binlog.tables[e.table_id]
        rows(r) == [says(<<t.db, t.name, r.got.rows>>) EXCEPT !.abort = r.got.abort]
    IN  CASE type = QUERY_EVENT     -> says(<<e.db_name, e.query>>)
          [] type = TABLE_MAP_EVENT -> map(tablemap_get(e))
          [] type = FORMAT_DESCRIPTION_EVENT ->
               says(<<e.binlog_version, e.master_version, e.created_ts, e.perm_events>>)
          [] type = XID_EVENT       -> says(<<e.xid_id>>)
          [] type = ROTATE_EVENT    -> says(<<e.binlog_file, e.binlog_pos>>)
          [] type \in RowsEvents /\ known -> rows(RowsOf(e, type, t.fields))
          [] type = ROWS_QUERY_LOG_EVENT -> says(<<e.query>>)
          [] OTHER                  -> says(<<>>)

FileCursor(d) == [Cursor(d.file, <<>>) EXCEPT !.offset = d.pos]
HeaderAt(d) == get_binlog_event_header(Cursor(Ahead(FileCursor(d), HEADER_LEN), <<>>)).got
Remaining(d) == Len(d.file) - d.pos

\* Does an event start here, as far as its header tells?
HeaderFits(d) ==
    LET fits(size, log_pos) == size >= HEADER_LEN /\ d.binlog_pos + size = log_pos
        header(h) == fits(Length(h.event_size), Length(h.log_pos))
    IN  header(HeaderAt(d))

\* --binlog-find-start-pos: byte by byte to the next header that fits.
find_startpos(d) ==
    LET at(i) == [d EXCEPT !.pos = @ + i, !.binlog_pos = @ + i]
        first(hits) == IF hits # {} THEN at(Min(hits)) ELSE [d EXCEPT !.pos = Max({@, Len(d.file)})]
    IN  first({i \in 0..(Remaining(d) - HEADER_LEN) : HeaderFits(at(i))})

\* The replicant plugin (--replicant-read-binlogs) prints less of an event, keeps no
\* tables and does not compare positions.
replicant_print(binlog, type, e) ==
    [says   |-> CASE type = QUERY_EVENT     -> <<e.db_name, e.query>>
                  [] type = TABLE_MAP_EVENT -> <<e.table_id, e.flags, e.db_name, e.table_name>>
                  [] OTHER                  -> <<>>,
     abort  |-> FALSE,
     tables |-> binlog.tables]

\* One turn of a loop over the events, of mysql-binlog-dump or of the replicant plugin.
NextEvent(d, replicant) ==
    LET line(type, x) == Append(d.out, [at |-> d.binlog_pos, type |-> type, says |-> x])
        aborted(type) == [d EXCEPT !.status = "aborted", !.out = line(type, <<>>)]
        next(size, e) == [d EXCEPT !.pos = @ + size, !.binlog_pos = @ + size,
                                   !.binlog.checksum = e.got.checksum]
        printed(n, type, p) == [n EXCEPT !.out = line(type, p.says), !.binlog.tables = p.tables,
                                         !.status = IF p.abort THEN "aborted" ELSE @]
        event(size, type, e) ==
          IF e.got.abort THEN aborted(type)
          ELSE IF e.err THEN [next(size, e) EXCEPT !.out = line(type, <<>>)]
          ELSE printed(next(size, e), type, IF replicant THEN replicant_print(d.binlog, type, e.got)
                                           ELSE event_print(d.binlog, type, e.got))
        read(size, type) ==
          IF Remaining(d) < size THEN aborted(type)
          ELSE event(size, type, get_binlog_event(Ahead(FileCursor(d), size), d.binlog.checksum, type))
        header(h) == read(Length(h.event_size), Length(h.event_type))
    IN  IF Remaining(d) < HEADER_LEN THEN [d EXCEPT !.status = "done"]
        ELSE IF replicant /\ Length(HeaderAt(d).event_size) < HEADER_LEN
             THEN [d EXCEPT !.status = "aborted"]
        ELSE IF ~replicant /\ ~HeaderFits(d) THEN [d EXCEPT !.status = "failed"]
        ELSE header(HeaderAt(d))

dump_event(d, stoppos) ==
    IF stoppos > 0 /\ d.binlog_pos >= stoppos
    THEN [d EXCEPT !.status = "done"]
    ELSE NextEvent(d, FALSE)

\* A file that has just been opened: it has to start with the magic number.
FileAt(file, start) ==
    [file |-> file, pos |-> start, binlog_pos |-> start, binlog |-> binlog_new, out |-> <<>>,
     status |-> IF Len(file) < 4 \/ SubSeq(file, 1, 4) # FileHeader THEN "failed" ELSE "reading"]

\* The loops over the events: each turn ends the reading or moves past a header.
RECURSIVE dump_events(_, _)
dump_events(d, stoppos) ==
    IF d.status = "reading" THEN dump_events(dump_event(d, stoppos), stoppos) ELSE d

RECURSIVE replicant_dump_events(_)
replicant_dump_events(d) ==
    IF d.status = "reading" THEN replicant_dump_events(NextEvent(d, TRUE)) ELSE d

replicate_binlog_dump_file(file, startpos, find, stoppos) ==
    LET from(d) == IF find /\ d.status = "reading" THEN find_startpos(d) ELSE d
    IN  dump_events(from(FileAt(file, IF startpos > 0 THEN startpos ELSE 4)), stoppos)

replicant_dump_file(file) == replicant_dump_events(FileAt(file, 4))
=============================================================================
