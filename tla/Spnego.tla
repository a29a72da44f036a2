---------------------------------- MODULE Spnego ----------------------------------
(***************************************************************************)
(* The tokens of authentication_windows_client: ASN.1 in DER               *)
(* (src/network-asn1.c), and the SPNEGO and GSS-API messages made of it    *)
(* (src/network-spnego.c).                                                 *)
(*                                                                         *)
(* A tag is its klass, its value and the length of what it holds; an OID   *)
(* is the sequence of its numbers, none above four septets.                *)
(***************************************************************************)
EXTENDS LuaProto

UNIVERSAL == 0
APPLICATION == 1
CONTEXT_SPECIFIC == 2

OCTET_STREAM == 4
OID == 6
ENUMERATED == 10
SEQUENCE == 16

\* g_assert(): the program ends.
AssertFails(c) == [Fail(c) EXCEPT !.got = ("aborted" :> TRUE) @@ @]

\* The next byte and what is read with it.
Byte(c, Use(_, _)) ==
    IF Left(c) < 1 THEN Fail(c) ELSE Use([c EXCEPT !.offset = @ + 1], c.data[c.offset + 1])

-----------------------------------------------------------------------------
asn1_get_id(c) ==
    LET tag(s) == IF s.got.tag.value = 31 THEN Fail(s) ELSE s
    IN  Then(Byte(c, LAMBDA s, b : Store(s, "tag", [klass |-> b \div 64, value |-> b % 32, len |-> 0])),
             tag)

\* The digits of a long length come with the most significant first.
asn1_get_length(c) ==
    LET is(s, l)   == [s EXCEPT !.got.tag.len = l]
        long(s, n) ==
          IF n = 0 \/ n > 8 THEN Fail(s)
          ELSE IF n = 8 THEN AssertFails(s)        \* g_assert_cmpint(len_len, <, 8)
          ELSE IF n > Left(s) THEN Fail(s)
          ELSE [is(s, Length(Digits(Reverse(Ahead(s, n))))) EXCEPT !.offset = @ + n]
    IN  Byte(c, LAMBDA s, b : IF b < 128 THEN is(s, b) ELSE long(s, b - 128))

asn1_get_header(c) == Then(Then(c, asn1_get_id), asn1_get_length)

RECURSIVE oid_number(_, _, _)
oid_number(c, n, rounds) ==
    Byte(c, LAMBDA s, b : IF b < 128 THEN [s EXCEPT !.got.oid = Append(@, n * 128 + b)]
                          ELSE IF rounds > 9 THEN Fail(s)
                          ELSE oid_number(s, n * 128 + b - 128, rounds + 1))

\* The first byte holds two numbers.
oid_first(c) ==
    Byte(c, LAMBDA s, b : Store(s, "oid", <<b \div 40, b % 40>>))

RECURSIVE oid_rest(_, _)
oid_rest(c, end) ==
    IF c.err \/ c.offset >= end THEN c ELSE oid_rest(oid_number(c, 0, 0), end)

asn1_get_oid(c, len) ==
    IF len = 0 THEN Store(c, "oid", <<>>) ELSE oid_rest(oid_first(c), c.offset + len)

\* A tag that holds other tags: a SEQUENCE any number, the others one.
HoldsTags(tag) == tag.klass \in {APPLICATION, CONTEXT_SPECIFIC}
                    \/ (tag.klass = UNIVERSAL /\ tag.value = SEQUENCE)

RECURSIVE asn1_is_valid(_), valid_content(_, _, _)

asn1_is_valid(c) ==
    LET content(h, tag) == IF tag.len > Left(h) THEN Fail(h)
                           ELSE IF HoldsTags(tag) THEN valid_content(h, tag, tag.len)
                           ELSE skip(h, tag.len)
    IN  Then(asn1_get_header(c), LAMBDA h : content(h, h.got.tag))

valid_content(c, tag, len) ==
    LET after(sub) == IF sub.err THEN [c EXCEPT !.err = TRUE, !.got = sub.got @@ @]
                      ELSE IF tag.klass # UNIVERSAL /\ sub.offset # len THEN Fail(c)
                      ELSE valid_content(skip(c, sub.offset), tag, len - sub.offset)
    IN  IF len = 0 THEN c ELSE after(asn1_is_valid(Cursor(Ahead(c, len), [tag |-> tag])))

-----------------------------------------------------------------------------
\* A header with this tag, or an error.
expect(c, klass, value) ==
    Then(asn1_get_header(c),
         LAMBDA h : IF h.got.tag.klass = klass /\ h.got.tag.value = value THEN h ELSE Fail(h))

field_header(c) ==
    Then(asn1_get_header(c),
         LAMBDA h : IF h.got.tag.klass = CONTEXT_SPECIFIC THEN h ELSE Fail(h))

\* Read fields up to the end of a SEQUENCE.
Items(c, Field(_)) ==
    LET end == c.offset + c.got.tag.len
        RECURSIVE loop(_)
        loop(s) == IF s.err \/ s.offset >= end THEN s ELSE loop(Field(s))
    IN  loop(c)

mech_type(c) ==
    Then(Then(expect(c, UNIVERSAL, OID), LAMBDA h : asn1_get_oid(h, h.got.tag.len)),
         LAMBDA o : [o EXCEPT !.got.mechTypes = Append(@, o.got.oid)])

\* The mechToken is skipped.
init_field(c) ==
    LET content(a) ==
          CASE a.got.tag.value = 0 -> Then(expect(a, UNIVERSAL, SEQUENCE),
                                           LAMBDA s : Items(s, mech_type))
            [] a.got.tag.value = 2 -> Then(expect(a, UNIVERSAL, OCTET_STREAM),
                                           LAMBDA s : skip(s, s.got.tag.len))
            [] OTHER -> Fail(a)
    IN  Then(field_header(c), content)

spnego_get_init_token(c) ==
    Then(Then(expect(c, CONTEXT_SPECIFIC, 0), LAMBDA s : expect(s, UNIVERSAL, SEQUENCE)),
         LAMBDA s : Items(s, init_field))

NegStates == <<"ACCEPT_COMPLETED", "ACCEPT_INCOMPLETE", "REJECTED", "MICSOMETHING">>

\* All but the first are taken for "go on".
neg_state(c) ==
    Byte(c, LAMBDA s, b : IF b > 3 THEN Fail(s)
                          ELSE Store(s, "negState", NegStates[IF b = 0 THEN 1 ELSE 2]))

response_field(c) ==
    LET string(a, f) == Then(expect(a, UNIVERSAL, OCTET_STREAM),
                             LAMBDA s : get_gstring_len(s, s.got.tag.len, f))
        content(a) ==
          CASE a.got.tag.value = 0 -> Then(expect(a, UNIVERSAL, ENUMERATED), neg_state)
            [] a.got.tag.value = 1 -> Then(Then(expect(a, UNIVERSAL, OID),
                                                LAMBDA s : asn1_get_oid(s, s.got.tag.len)),
                                           LAMBDA s : Store(s, "supportedMech", s.got.oid))
            [] a.got.tag.value = 2 -> string(a, "responseToken")
            [] a.got.tag.value = 3 -> string(a, "mechListMIC")
            [] OTHER -> Fail(a)
    IN  Then(field_header(c), content)

spnego_get_response_token(c) ==
    Then(Then(expect(c, CONTEXT_SPECIFIC, 1), LAMBDA s : expect(s, UNIVERSAL, SEQUENCE)),
         LAMBDA s : Items(s, response_field))

\* The first header and the one of the OID are asserted to be what they should be.
asserted(c, klass, value) ==
    Then(asn1_get_header(c),
         LAMBDA h : IF h.got.tag.klass = klass /\ h.got.tag.value = value THEN h ELSE AssertFails(h))

gssapi_get_message_header(c) ==
    Then(Then(Then(asserted(c, APPLICATION, 0),
                   LAMBDA s : IF s.got.tag.len > Left(s) THEN Fail(s) ELSE s),
              LAMBDA s : asserted(s, UNIVERSAL, OID)),
         LAMBDA s : asn1_get_oid(s, s.got.tag.len))

-----------------------------------------------------------------------------
init_token_new == [mechTypes |-> <<>>]
response_token_new == [supportedMech |-> <<>>, responseToken |-> <<>>, mechListMIC |-> <<>>]

\* A client's first message: its header, then the token.
from_gssapi_message(data) ==
    LET token(h) == spnego_get_init_token(Store(h, "header_oid", h.got.oid))
    IN  Answer(Then(gssapi_get_message_header(Cursor(data, init_token_new)), token),
               LAMBDA got : [oid |-> got.header_oid, mechTypes |-> got.mechTypes])

\* The packet of the server after the 0x01: valid ASN.1, then a response token.
from_auth_continuation(data) ==
    LET c == Cursor(data, response_token_new)
    IN  Answer(Then(asn1_is_valid(c), LAMBDA v : spnego_get_response_token(c)),
               LAMBDA got : [f \in {"negState"} \cup DOMAIN response_token_new |-> got[f]])
=============================================================================
