---------------------------------- MODULE Proto ----------------------------------
(***************************************************************************)
(* The cursor primitives of src/network-mysqld-proto.c: the integers and   *)
(* strings MySQL packets are made of.                                      *)
(*                                                                         *)
(* A number is the sequence of its base-256 digits, the least significant  *)
(* first and without zeros at the end, so that 64-bit values stay exact:   *)
(* <<>> is 0, <<0, 1>> is 256.  A string is the sequence of its bytes.     *)
(*                                                                         *)
(* A cursor is a network_packet (data, offset) together with the err of    *)
(* the chain of `err = err || get(...)' that reads from it and got, the    *)
(* fields read so far.  A decoder is a sequence of items, one per call in  *)
(* such a chain, folded over the cursor by GetAll: nothing moves after the *)
(* first item that fails.                                                  *)
(***************************************************************************)
EXTENDS Integers, Sequences, SequencesExt, FiniteSetsExt, TLC

\* A C string pointer that is NULL; no string has such a byte.
NIL == <<-1>>

Digits(bytes) == SubSeq(bytes, 1, Max({0} \cup {i \in DOMAIN bytes : bytes[i] # 0}))

\* The digits of a natural below 2^31.
Num(n) == Digits(<<n % 256, (n \div 256) % 256, (n \div 65536) % 256, n \div 16777216>>)

\* A number used as a length.  No packet of the models is as long as LongestPacket,
\* so every larger number is as good as this one.
LongestPacket == 16777216
Length(d) == IF Len(d) > 3 THEN LongestPacket
             ELSE FoldLeft(LAMBDA a, i : a + d[i] * 256 ^ (i - 1), 0, [i \in 1..Len(d) |-> i])

\* Bit b of a number, counted from 0.
Bit(d, b) == b \div 8 < Len(d) /\ (d[b \div 8 + 1] \div 2 ^ (b % 8)) % 2 = 1

\* Bytes m to n - 1 of a number, as (v >> 8 * m) & mask takes them.
Slice(d, m, n) == Digits([i \in 1..(n - m) |-> IF m + i <= Len(d) THEN d[m + i] ELSE 0])

-----------------------------------------------------------------------------
(***************************************************************************)
(* Writing.                                                                *)
(***************************************************************************)
append_int_len(d, n) == [i \in 1..n |-> IF i <= Len(d) THEN d[i] ELSE 0]

append_int8(d) == append_int_len(d, 1)
append_int16(d) == append_int_len(d, 2)
append_int24(d) == append_int_len(d, 3)
append_int32(d) == append_int_len(d, 4)
append_int48(d) == append_int_len(d, 6)
append_int64(d) == append_int_len(d, 8)

\* Mutant: 251 written in one byte, where it reads back as NULL.
LenencOffByOne(d) ==
    IF Len(d) = 0 \/ (Len(d) = 1 /\ d[1] <= 251) THEN append_int8(d)
    ELSE IF Len(d) <= 2 THEN <<252>> \o append_int16(d)
    ELSE IF Len(d) = 3 THEN <<253>> \o append_int24(d)
    ELSE <<254>> \o append_int64(d)

append_lenenc_int(d) ==
    IF Len(d) = 0 \/ (Len(d) = 1 /\ d[1] < 251) THEN append_int8(d)
    ELSE IF Len(d) <= 2 THEN <<252>> \o append_int16(d)
    ELSE IF Len(d) = 3 THEN <<253>> \o append_int24(d)
    ELSE <<254>> \o append_int64(d)

append_lenenc_string(s) ==
    IF s = NIL THEN <<251>> ELSE append_lenenc_int(Num(Len(s))) \o s

\* The four bytes before every packet.
packet_header(len, id) == append_int24(Num(len)) \o append_int8(Num(id))
get_packet_len(header) == Digits(SubSeq(header, 1, 3))
get_packet_id(header) == Digits(SubSeq(header, 4, 4))

-----------------------------------------------------------------------------
(***************************************************************************)
(* Reading.                                                                *)
(***************************************************************************)
Cursor(data, zeroed) == [data |-> data, offset |-> 0, err |-> FALSE, got |-> zeroed]

Fail(c) == [c EXCEPT !.err = TRUE]

\* err = err || read(c): nothing is read after an error.
Then(c, Read(_)) == IF c.err THEN c ELSE Read(c)

Left(c) == Len(c.data) - c.offset
Ahead(c, n) == SubSeq(c.data, c.offset + 1, c.offset + n)
Store(c, f, v) == [c EXCEPT !.got = (f :> v) @@ @]

\* Mutant: one byte too many may be skipped.
SkipPastEnd(c, n) == IF n > Left(c) + 1 THEN Fail(c) ELSE [c EXCEPT !.offset = @ + n]

skip(c, n) == IF n > Left(c) THEN Fail(c) ELSE [c EXCEPT !.offset = @ + n]

skip_network_header(c) == skip(c, 4)

peek_int_len(c, n, f) == IF n > Left(c) THEN Fail(c) ELSE Store(c, f, Digits(Ahead(c, n)))

\* Mutant: the cursor stays before the number.
GetIsPeek(c, n, f) == peek_int_len(c, n, f)

get_int_len(c, n, f) ==
    Then(peek_int_len(c, n, f), LAMBDA p : [p EXCEPT !.offset = @ + n])

\* What a lenenc value starts with: a number, NULL, or an EOF or ERR packet.
peek_lenenc_type(c) ==
    LET b == c.data[c.offset + 1]
    IN  IF Left(c) < 1 THEN "NONE"
        ELSE IF b = 251 THEN "NULL"
        ELSE IF b = 255 THEN "ERR"
        ELSE IF b = 254 /\ c.offset = 4 /\ Left(c) < 8 THEN "EOF"
        ELSE "INT"

\* The eight bytes of the long form, put together from two ints: the lower one is
\* negative when its top bit is set, and widening it sets all the upper bits.
FromTwoInts(b) == Digits(IF b[4] >= 128 THEN SubSeq(b, 1, 4) \o <<255, 255, 255, 255>> ELSE b)

\* The bytes after the first one, b, of a lenenc number.
LenencSize(b) == CASE b < 251 -> 0 [] b = 252 -> 2 [] b = 253 -> 3 [] b = 254 -> 8
                   [] OTHER -> LongestPacket

LenencNumber(b) == CASE b[1] < 251 -> Num(b[1])
                     [] b[1] = 254 -> FromTwoInts(Tail(b))
                     [] OTHER      -> Digits(Tail(b))

LenencAhead(c, n, f) ==
    IF n > Left(c) THEN Fail(c)
    ELSE [Store(c, f, LenencNumber(Ahead(c, n))) EXCEPT !.offset = @ + n]

get_lenenc_int(c, f) ==
    IF Left(c) < 1 THEN Fail(c)
    ELSE LenencAhead(c, 1 + LenencSize(c.data[c.offset + 1]), f)

\* A string of n bytes into a GString, where it may be empty ...
get_gstring_len(c, n, f) ==
    IF n > Left(c) THEN Fail(c) ELSE [Store(c, f, Ahead(c, n)) EXCEPT !.offset = @ + n]

\* ... or into a char pointer, where the empty string is NULL.
get_string_len(c, n, f) ==
    IF n = 0 THEN Store(c, f, NIL) ELSE get_gstring_len(c, n, f)

get_lenenc_gstring(c, f) ==
    Then(get_lenenc_int(c, f), LAMBDA l : get_gstring_len(l, Length(l.got[f]), f))

get_lenenc_string(c, f) ==
    Then(get_lenenc_int(c, f), LAMBDA l : get_string_len(l, Length(l.got[f]), f))

\* A string up to its NUL, which is skipped.  An empty one leaves the field as it was,
\* and without a NUL the field of a char pointer has been set all the same.
UpToNul(c) == Min({i \in 0..Left(c) : i = Left(c) \/ c.data[c.offset + i + 1] = 0})

get_gstring(c, f) ==
    LET n == UpToNul(c)
    IN  IF n = Left(c) THEN Fail(c)
        ELSE skip(IF n > 0 THEN get_gstring_len(c, n, f) ELSE c, 1)

get_string(c, f) ==
    LET n == UpToNul(c)
    IN  skip(IF n > 0 THEN get_string_len(c, n, f) ELSE c, 1)

\* Offset, counted from 1, of the first byte b at or after the cursor; 0 without one.
find_int8(c, b) ==
    LET at == {i \in 1..Left(c) : c.data[c.offset + i] = b}
    IN  IF at = {} THEN 0 ELSE Min(at)

-----------------------------------------------------------------------------
(***************************************************************************)
(* Decoders as sequences of items.                                         *)
(***************************************************************************)
Item(kind, n, f) == [kind |-> kind, n |-> n, f |-> f]

Fixed(n, f) == Item("int", n, f)
Lenenc(f) == Item("lenenc", 0, f)
LenencString(f) == Item("lenenc_string", 0, f)
LenencGString(f) == Item("lenenc_gstring", 0, f)
NulString(f) == Item("string", 0, f)
NulGString(f) == Item("gstring", 0, f)
String(n, f) == Item("string_len", n, f)
GString(n, f) == Item("gstring_len", n, f)
Rest(f) == Item("rest", 0, f)
RestString(f) == Item("rest_string", 0, f)
Skip(n) == Item("skip", n, "")
\* The field read just before has to have this value.
Is(f, n) == Item("is", n, f)

Get(c, item) ==
    IF c.err THEN c
    ELSE CASE item.kind = "int"            -> get_int_len(c, item.n, item.f)
           [] item.kind = "lenenc"         -> get_lenenc_int(c, item.f)
           [] item.kind = "lenenc_string"  -> get_lenenc_string(c, item.f)
           [] item.kind = "lenenc_gstring" -> get_lenenc_gstring(c, item.f)
           [] item.kind = "string"         -> get_string(c, item.f)
           [] item.kind = "gstring"        -> get_gstring(c, item.f)
           [] item.kind = "string_len"     -> get_string_len(c, item.n, item.f)
           [] item.kind = "gstring_len"    -> get_gstring_len(c, item.n, item.f)
           [] item.kind = "rest"           -> get_gstring_len(c, Left(c), item.f)
           [] item.kind = "rest_string"    -> get_string_len(c, Left(c), item.f)
           [] item.kind = "skip"           -> skip(c, item.n)
           [] item.kind = "is"             -> IF c.got[item.f] = Num(item.n) THEN c ELSE Fail(c)

GetAll(c, layout) == IF c.err THEN c ELSE FoldLeft(Get, c, layout)

\* Read more only if what was read so far asks for it.
GetIf(c, cond, layout) == IF cond THEN GetAll(c, layout) ELSE c
=============================================================================
