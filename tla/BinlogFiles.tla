------------------------------- MODULE BinlogFiles -------------------------------
(***************************************************************************)
(* Binlog files as a master writes them (external), and what a dump of one *)
(* has to tell.  An event is a record of its type, its body, what the body *)
(* says and the id of the table it is about; a table has an id, a name and *)
(* columns; a column is a record of its type and metadata in the table     *)
(* map, the field they stand for, and a value with its encoding.           *)
(***************************************************************************)
EXTENDS Binlog

Event(type, body, says) == [type |-> type, body |-> body, says |-> says, table_id |-> NIL]

\* A server from 5.6.2 on ends the description in a checksum, even if no other event has one.
FormatEvent(version, checksum) ==
    LET padded == version \o Zeros(50 - Len(version))
        new    == HasChecksum(VersionParts(version))
    IN  Event(FORMAT_DESCRIPTION_EVENT,
              <<4, 0>> \o padded \o append_int32(<<1>>) \o <<HEADER_LEN>> \o Chars(1, 29)
                \o (IF new THEN append_int8(checksum) ELSE <<>>)
                \o (IF new /\ checksum = OFF THEN Zeros(4) ELSE <<>>),
              <<<<4>>, padded, <<1>>, Chars(1, 29)>>)

QueryEvent(db, query) ==
    Event(QUERY_EVENT,
          append_int32(<<1>>) \o append_int32(<<>>) \o <<Len(db), 0, 0, 2, 0, 7, 7>>
            \o db \o <<0>> \o query,
          <<db, query>>)

XidEvent(id) == Event(XID_EVENT, append_int64(id), <<id>>)
RotateEvent(file) == Event(ROTATE_EVENT, append_int32(<<4>>) \o Zeros(4) \o file, <<file, <<4>>>>)
IntvarEvent == Event(INTVAR_EVENT, <<1>> \o append_int64(<<9>>), <<>>)
StopEvent == Event(STOP_EVENT, <<>>, <<>>)
UserVarEvent == Event(USER_VAR_EVENT, append_int32(<<1>>) \o <<65, 0, 0>> \o append_int32(<<8>>)
                                        \o append_int32(<<2>>) \o <<66, 67>>, <<>>)
RowsQueryEvent(text) == Event(ROWS_QUERY_LOG_EVENT, <<Len(text)>> \o text, <<text>>)
UnknownEvent == Event(26, <<1, 2, 3>>, <<>>)

MasterBits(set, n) ==
    [i \in 1..((n + 7) \div 8) |-> MapThenSumSet(LAMBDA b : 2 ^ ((b - 1) % 8),
                                                 {b \in set : (b - 1) \div 8 = i - 1})]

Joined(seqs) == FoldLeft(LAMBDA s, x : s \o x, <<>>, seqs)

\* Two of three columns may be NULL.
Nullable(i) == i % 3 # 0

TableMapEvent(t) ==
    LET cols == t.cols
        n    == Len(cols)
        meta == Joined([i \in 1..n |-> cols[i].meta])
        bits == MasterBits({i \in 1..n : Nullable(i)}, n)
    IN  [Event(TABLE_MAP_EVENT,
              append_int_len(t.id, 6) \o <<1, 0, 1, 100, 0, Len(t.name)>> \o t.name \o <<0>>
                \o append_lenenc_int(Num(n)) \o [i \in 1..n |-> cols[i].type]
                \o append_lenenc_int(Num(Len(meta))) \o meta \o bits,
              [db |-> <<100>>, name |-> t.name,
               fields |-> [i \in 1..n |-> cols[i].field @@ ("not_null" :> ~Nullable(i))]])
         EXCEPT !.table_id = t.id]

\* The columns in used of a row; those in nulls are NULL.
RowImage(cols, used, nulls) ==
    LET of == SelectSeq(Indices(Len(cols)), LAMBDA i : i \in used)
        null(k) == of[k] \in nulls /\ Nullable(of[k])
    IN  [bytes  |-> MasterBits({k \in DOMAIN of : null(k)}, Len(of))
                      \o Joined([k \in DOMAIN of |-> IF null(k) THEN <<>> ELSE cols[of[k]].bytes]),
         values |-> [k \in DOMAIN of |-> IF null(k) THEN NULLVALUE ELSE cols[of[k]].value]]

\* Two rows, the second without NULLs; an update has the columns of after as well.
RowsEvent(type, t, used, after, nulls) ==
    LET n == Len(t.cols)
        images(u) == [r \in 1..2 |-> RowImage(t.cols, u, IF r = 1 THEN nulls ELSE {})]
        update == type = UPDATE_ROWS_EVENT
    IN  [Event(type,
              append_int_len(t.id, 6) \o <<0, 0>> \o append_lenenc_int(Num(n)) \o MasterBits(used, n)
                \o (IF update THEN MasterBits(after, n) ELSE <<>>)
                \o Joined([r \in 1..2 |-> images(used)[r].bytes
                                            \o (IF update THEN images(after)[r].bytes ELSE <<>>)]),
              <<<<100>>, t.name,
                [r \in 1..2 |-> <<images(used)[r].values>>
                                  \o (IF update THEN <<images(after)[r].values>> ELSE <<>>)]>>)
         EXCEPT !.table_id = t.id]

-----------------------------------------------------------------------------
EventSize(e, checksum) == HEADER_LEN + Len(e.body) + (IF checksum = CRC32 THEN 4 ELSE 0)

\* Where event k of a file starts.
StartOf(events, k, checksum) ==
    FoldLeft(LAMBDA at, i : at + EventSize(events[i], checksum), 4, Indices(k - 1))

MasterEvent(e, at, checksum) ==
    append_int32(<<1>>) \o <<e.type>> \o append_int32(<<1>>)
      \o append_int32(Num(EventSize(e, checksum))) \o append_int32(Num(at + EventSize(e, checksum)))
      \o <<0, 0>> \o e.body \o (IF checksum = CRC32 THEN <<1, 2, 3, 4>> ELSE <<>>)

MasterFile(events, checksum) ==
    FileHeader \o Joined([k \in DOMAIN events |->
                            MasterEvent(events[k], StartOf(events, k, checksum), checksum)])

-----------------------------------------------------------------------------
(***************************************************************************)
(* What a dump has to tell of file f when only its first len bytes exist:  *)
(* all of an event, or what the replicant plugin tells of it, queries and  *)
(* names of tables.                                                        *)
(***************************************************************************)
\* The rows of a table whose map was not read cannot be told.
MapRead(f, from, k) ==
    \E i \in from..k : /\ f.events[i].type = TABLE_MAP_EVENT
                       /\ f.events[i].table_id = f.events[k].table_id

Brief(e) == CASE e.type = QUERY_EVENT     -> e.says
              [] e.type = TABLE_MAP_EVENT -> <<e.table_id, <<1>>, e.says.db, e.says.name>>
              [] OTHER                    -> <<>>

DumpOf(f, len, replicant) ==
    LET n        == Len(f.events)
        start(k) == StartOf(f.events, k, f.checksum)
        first    == IF f.startpos = 0 THEN 4 ELSE f.startpos
        on       == {k \in 1..n : IF f.find THEN start(k) >= first ELSE start(k) = first}
        from     == Min(on)
        wanted   == {k \in from..n : f.stoppos = 0 \/ start(k) < f.stoppos}
        whole    == {k \in wanted : start(k + 1) <= len}
        torn     == {k \in wanted : start(k) + HEADER_LEN <= len /\ len < start(k + 1)}
        says(k)  == IF k \in torn \/ (f.events[k].type \in RowsEvents /\ ~MapRead(f, from, k))
                    THEN <<>>
                    ELSE IF replicant THEN Brief(f.events[k]) ELSE f.events[k].says
        shown    == [i \in 1..Cardinality(whole \cup torn) |-> from + i - 1]
    IN  IF len < 4 THEN [out |-> <<>>, status |-> "failed"]
        ELSE IF on = {}
        THEN [out    |-> <<>>,
              status |-> IF \/ f.find \/ len - first < HEADER_LEN
                            \/ f.stoppos > 0 /\ first >= f.stoppos
                         THEN "done" ELSE "failed"]
        ELSE [out |-> [i \in DOMAIN shown |-> [at |-> start(shown[i]), type |-> f.events[shown[i]].type,
                                               says |-> says(shown[i])]],
              status |-> IF torn # {} THEN "aborted" ELSE "done"]
=============================================================================
