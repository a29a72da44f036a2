-------------------------------- MODULE BinaryRows --------------------------------
(***************************************************************************)
(* Typed values (src/network_mysqld_type.c) and their binary encoding in   *)
(* the parameters of COM_STMT_EXECUTE and in the rows it returns           *)
(* (src/network_mysqld_proto_binary.c, src/network-mysqld-packet.c).       *)
(*                                                                         *)
(* A value is a record of its type, the two flags and its data: a number,  *)
(* a string, or the tuple of the numbers of a date or a time.  NODATA is   *)
(* the data pointer of a value nothing was assigned to; UNREADABLE is what *)
(* a getter that fails gives.                                              *)
(***************************************************************************)
EXTENDS Packets

TINY == 1
SHORT == 2
LONG == 3
FLOAT == 4
DOUBLE == 5
NULL == 6
TIMESTAMP == 7
LONGLONG == 8
INT24 == 9
DATE == 10
TIME == 11
DATETIME == 12
YEAR == 13
VARCHAR == 15
BIT == 16
NEWDECIMAL == 246
TINY_BLOB == 249
MEDIUM_BLOB == 250
LONG_BLOB == 251
BLOB == 252
VAR_STRING == 253
TYPE_STRING == 254  \* MYSQL_TYPE_STRING

IntTypes == {TINY, SHORT, LONG, INT24, LONGLONG}
DateTypes == {DATE, DATETIME, TIMESTAMP}
BlobTypes == {NEWDECIMAL, BLOB, TINY_BLOB, MEDIUM_BLOB, LONG_BLOB, TYPE_STRING, VAR_STRING}

\* The types a value can be created for. The binary protocol reads others: a
\* VARCHAR can be created and not read, a BIT read and not created.
NewTypes == IntTypes \cup DateTypes \cup BlobTypes \cup {FLOAT, DOUBLE, TIME, VARCHAR, NULL}

NODATA == <<-3>>
UNREADABLE == <<-2>>

type_new(type) == [type |-> type, is_null |-> FALSE, is_unsigned |-> FALSE, data |-> NODATA]

\* The one kind of getter and setter a type is created with.
Accessor(type) ==
    CASE type \in IntTypes                -> "int"
      [] type \in {FLOAT, DOUBLE}         -> "double"
      [] type \in DateTypes               -> "date"
      [] type = TIME                      -> "time"
      [] type \in BlobTypes \cup {VARCHAR} -> "string"
      [] OTHER                            -> "none"

Take(v, kind) == IF Accessor(v.type) # kind \/ v.data = NODATA THEN UNREADABLE ELSE v.data

get_int(v) == Take(v, "int")
get_double(v) == Take(v, "double")
get_string_const(v) == Take(v, "string")

-----------------------------------------------------------------------------
(***************************************************************************)
(* Reading one value.  Every reader leaves the data in got.data, and the   *)
(* value with the data assigned to it in got.value.                        *)
(***************************************************************************)
Assign(c, v, kind) ==
    IF c.err \/ Accessor(v.type) # kind THEN Fail(c)
    ELSE Store(c, "value", [v EXCEPT !.data = c.got.data])

set_int(c, v) == Assign(c, v, "int")
set_double(c, v) == Assign(c, v, "double")
set_string(c, v) == Assign(c, v, "string")
set_date(c, v) == Assign(c, v, "date")
set_time(c, v) == Assign(c, v, "time")

IntWidth(type) == CASE type = TINY -> 1 [] type = SHORT -> 2 [] type = LONGLONG -> 8
                    [] OTHER -> 4

\* Numbers are not widened with their sign: a TINY of -1 is 255.
get_int_type(c, v) == set_int(get_int_len(c, IntWidth(v.type), "data"), v)

\* The bytes of a float or a double are its value.
get_double_type(c, v) == set_double(get_gstring_len(c, 8, "data"), v)
get_float_type(c, v) == set_double(get_gstring_len(c, 4, "data"), v)

get_string_type(c, v) == set_string(get_lenenc_gstring(c, "data"), v)

\* A length byte tells how many of the fields follow, the others are 0.
FieldsAfter(c, counts, layout) ==
    LET zero(d) == [d EXCEPT !.got = [f \in {layout[i].f : i \in DOMAIN layout} |-> <<>>] @@ @]
        read(d, len) == IF len \notin DOMAIN counts THEN Fail(d)
                        ELSE GetAll(zero(d), SubSeq(layout, 1, counts[len]))
    IN  Then(Then(get_int_len(c, 1, "len"), LAMBDA d : read(d, Length(d.got.len))),
             LAMBDA d : Store(d, "data", [i \in DOMAIN layout |-> d.got[layout[i].f]]))

DateFields == <<Fixed(2, "year"), Fixed(1, "month"), Fixed(1, "day"),
                Fixed(1, "hour"), Fixed(1, "min"), Fixed(1, "sec"), Fixed(4, "nsec")>>
TimeFields == <<Fixed(1, "sign"), Fixed(4, "days"),
                Fixed(1, "hour"), Fixed(1, "min"), Fixed(1, "sec"), Fixed(4, "nsec")>>

\* Mutant: a date of seven bytes is taken for a date without its time.
ShortDate(c, v) ==
    set_date(FieldsAfter(c, (0 :> 0) @@ (4 :> 3) @@ (7 :> 3) @@ (11 :> 7), DateFields), v)

get_date_type(c, v) ==
    set_date(FieldsAfter(c, (0 :> 0) @@ (4 :> 3) @@ (7 :> 6) @@ (11 :> 7), DateFields), v)

get_time_type(c, v) ==
    set_time(FieldsAfter(c, (0 :> 0) @@ (8 :> 5) @@ (12 :> 6), TimeFields), v)

binary_get_type(c, v) ==
    IF c.err THEN c
    ELSE CASE v.type \in IntTypes             -> get_int_type(c, v)
           [] v.type \in DateTypes            -> get_date_type(c, v)
           [] v.type = TIME                   -> get_time_type(c, v)
           [] v.type = FLOAT                  -> get_float_type(c, v)
           [] v.type = DOUBLE                 -> get_double_type(c, v)
           [] v.type \in BlobTypes \cup {BIT} -> get_string_type(c, v)
           [] OTHER                           -> Fail(c)

-----------------------------------------------------------------------------
(***************************************************************************)
(* Parameters and rows.                                                    *)
(***************************************************************************)
NulBit(bits, i) == Bit(bits, i)
AddValue(c, v) == [c EXCEPT !.got.row = Append(@, v)]

stmt_execute_packet_new ==
    [stmt_id |-> <<>>, flags |-> <<>>, iteration_count |-> <<>>, new_params_bound |-> <<>>,
     row |-> <<>>]

get_stmt_execute_packet_stmt_id(c) ==
    GetAll(c, <<Fixed(1, "packet_type"), Is("packet_type", COM_STMT_EXECUTE), Fixed(4, "stmt_id")>>)

\* First the types of all the parameters ...
get_param_type(c, i) ==
    LET add(t, type) ==
          IF type \notin NewTypes THEN Fail(t)
          ELSE AddValue(t, [type_new(type) EXCEPT !.is_null = NulBit(t.got.nul_bits, i - 1),
                                                  !.is_unsigned = Bit(t.got.param_type, 15)])
    IN  Then(GetAll(c, <<Fixed(2, "param_type")>>),
             LAMBDA t : add(t, Length(Slice(t.got.param_type, 0, 1))))

\* ... then the values of those that are not NULL.
get_param_value(c, i) ==
    IF c.err \/ c.got.row[i].is_null THEN c
    ELSE Then(binary_get_type(c, c.got.row[i]), LAMBDA v : [v EXCEPT !.got.row[i] = v.got.value])

Indices(n) == [i \in 1..n |-> i]

\* Read(c, 1) to Read(c, n), up to the first error.
Each(c, n, Read(_, _)) ==
    LET RECURSIVE from(_, _)
        from(d, i) == IF d.err \/ i > n THEN d ELSE from(Read(d, i), i + 1)
    IN  from(c, 1)

get_stmt_execute_packet(c, param_count) ==
    LET values(d) == IF d.got.new_params_bound = <<>> THEN d
                     ELSE Each(Each(d, param_count, get_param_type), param_count, get_param_value)
        params(d) == IF param_count = 0 THEN d
                     ELSE Then(GetAll(d, <<GString((param_count + 7) \div 8, "nul_bits"),
                                           Fixed(1, "new_params_bound")>>), values)
    IN  Then(GetAll(get_stmt_execute_packet_stmt_id(c),
                    <<Fixed(1, "flags"), Fixed(4, "iteration_count")>>), params)

\* Mutant: the two reserved bits before the NULL bits of a row are forgotten.
BitsFromZero(c, coldefs, i) ==
    IF c.err \/ coldefs[i] \notin NewTypes THEN Fail(c)
    ELSE IF NulBit(c.got.nul_bytes, i - 1)
    THEN AddValue(c, [type_new(coldefs[i]) EXCEPT !.is_null = TRUE])
    ELSE Then(binary_get_type(c, type_new(coldefs[i])), LAMBDA v : AddValue(v, v.got.value))

\* One column of a row.  The type of a column comes from its definition.
get_column(c, coldefs, i) ==
    IF c.err \/ coldefs[i] \notin NewTypes THEN Fail(c)
    ELSE IF NulBit(c.got.nul_bytes, i - 1 + 2)
    THEN AddValue(c, [type_new(coldefs[i]) EXCEPT !.is_null = TRUE])
    ELSE Then(binary_get_type(c, type_new(coldefs[i])), LAMBDA v : AddValue(v, v.got.value))

resultset_row_new == [row |-> <<>>]

get_binary_row(c, coldefs) ==
    Each(GetAll(c, <<Fixed(1, "ok"), Is("ok", 0),
                     GString((Len(coldefs) + 7 + 2) \div 8, "nul_bytes")>>),
         Len(coldefs), LAMBDA d, i : get_column(d, coldefs, i))

\* The packet after the header: "EOF" ends the rows, and so does a broken row.
get_next_binary_row(c, coldefs) ==
    LET row(h) == CASE peek_lenenc_type(h) = "NONE" -> Fail(h)
                    [] peek_lenenc_type(h) = "EOF"  -> Store(h, "eof", TRUE)
                    [] OTHER                        -> get_binary_row(h, coldefs)
    IN  Then(skip_network_header(c), row)

-----------------------------------------------------------------------------
(***************************************************************************)
(* Taking the data out of a value again, as a script sees it.  The text of *)
(* a date or a time is the tuple of the numbers printed in it.             *)
(***************************************************************************)
AtMost(d, n) == Len(d) <= 3 /\ Length(d) <= n

time_is_valid(d) ==
    \* nsec < 10^9, which is 3B 9A CA 00
    /\ \/ Len(d[7]) < 4
       \/ Len(d[7]) = 4 /\
          (d[7][4] < 59 \/ (d[7][4] = 59 /\ Length(SubSeq(d[7], 1, 3)) < 10144256))
    /\ AtMost(d[6], 99) /\ AtMost(d[5], 60) /\ AtMost(d[4], 24)

date_is_valid(d) == AtMost(d[3], 31) /\ AtMost(d[2], 12) /\ AtMost(d[1], 9999)

date_get_string(v) ==
    LET text(d) == IF \/ d = UNREADABLE \/ ~date_is_valid(d)
                      \/ v.type # DATE /\ ~time_is_valid(d)
                   THEN UNREADABLE
                   ELSE IF v.type = DATE THEN SubSeq(d, 1, 3) ELSE d
    IN  text(Take(v, "date"))

time_get_string(v) == Take(v, "time")

\* Mutant: a date is printed like a timestamp, its time of day included.
DateAsDatetime(v) ==
    CASE v.type \in {BLOB, MEDIUM_BLOB, LONG_BLOB, TYPE_STRING, VARCHAR, VAR_STRING}
                                                -> get_string_const(v)
      [] v.type \in {TINY, SHORT, LONG, LONGLONG} -> get_int(v)
      [] v.type \in {FLOAT, DOUBLE}             -> get_double(v)
      [] v.type \in DateTypes                   -> date_get_string([v EXCEPT !.type = DATETIME])
      [] v.type = TIME                          -> time_get_string(v)
      [] OTHER                                  -> UNREADABLE

\* The types a script can be given; INT24, TINY_BLOB, NEWDECIMAL and NULL are refused.
param_value(v) ==
    CASE v.type \in {BLOB, MEDIUM_BLOB, LONG_BLOB, TYPE_STRING, VARCHAR, VAR_STRING}
                                                -> get_string_const(v)
      [] v.type \in {TINY, SHORT, LONG, LONGLONG} -> get_int(v)
      [] v.type \in {FLOAT, DOUBLE}             -> get_double(v)
      [] v.type \in DateTypes                   -> date_get_string(v)
      [] v.type = TIME                          -> time_get_string(v)
      [] OTHER                                  -> UNREADABLE
=============================================================================
