------------------------------ MODULE Framing -------------------------------
(***************************************************************************)
(* response/framing.rs, coding.rs and reuse.rs: where a response's body    *)
(* ends, and whether its connection may carry another exchange, from the   *)
(* status line and the headers [name, value] of its head.                  *)
(***************************************************************************)
EXTENDS ResponseHead

CONSTANT U64_MAX        \* the largest Content-Length

ASSUME FramingAssumption == U64_MAX \in Nat

Ok(value) == [ok |-> TRUE, value |-> value]

Named(headers, name) == SelectSeq(headers, LAMBDA h : h.name = <<name>>)

\* Variant: the last line stands for all.
CodingsOfTheLast(headers) ==
    LET pieces == Split(Last(Named(headers, "TE")).value, ",")
    IN SelectSeq([i \in DOMAIN pieces |-> TrimOws(pieces[i])], LAMBDA c : c # <<>>)

\* The non-empty codings of every Transfer-Encoding line, in order.
Codings(headers) ==
    LET lines == Named(headers, "TE")
        pieces == FlattenSeq([i \in DOMAIN lines |-> Split(lines[i].value, ",")])
    IN SelectSeq([i \in DOMAIN pieces |-> TrimOws(pieces[i])], LAMBDA c : c # <<>>)

\* TransferCodings::parse, for the codings of at least one line.
FinalCoding(codings) ==
    LET chunked == {i \in DOMAIN codings : codings[i] = <<"chunked">>}
    IN IF ~chunked \subseteq {Len(codings)} THEN Bad("InvalidTransferEncoding")
       ELSE IF \E i \in DOMAIN codings \ chunked : codings[i] # <<"identity">>
            THEN Bad("UnsupportedTransferCoding")
       ELSE Ok(IF chunked = {} THEN "Identity" ELSE "Chunked")

TransferCoding(headers) ==
    IF Named(headers, "TE") = <<>> THEN Ok("Absent") ELSE FinalCoding(Codings(headers))

\* Method::response_can_have_content
ResponseCanHaveContent(method, status) ==
    method # "HEAD" /\ (method = "CONNECT" => status \notin Success)

Length(n) == [kind |-> "ContentLength", length |-> n]
Unsized(kind) == [kind |-> kind, length |-> 0]

\* The Content-Length lines: one number, however often it is repeated.
CommonLength(lengths) ==
    IF lengths = {} THEN Ok(Unsized("UntilClose"))
    ELSE IF -1 \in lengths \/ \E m, n \in lengths : m # n THEN Bad("InvalidContentLength")
    ELSE Ok(Length(CHOOSE n \in lengths : TRUE))

ContentLength(headers) ==
    CommonLength({ParseNumber(h.value, U64_MAX) : h \in ToSet(Named(headers, "CL"))})

\* BodyFraming::from_response
FramedBy(coding, headers) ==
    IF ~coding.ok THEN coding
    ELSE IF coding.value = "Chunked" THEN Ok(Unsized("Chunked"))
    ELSE IF coding.value = "Identity" THEN Ok(Unsized("UntilClose"))
    ELSE ContentLength(headers)

FromResponse(status, method, headers) ==
    IF status \in Informational \cup {"204", "304"} \/ ~ResponseCanHaveContent(method, status)
    THEN Ok(Unsized("None")) ELSE FramedBy(TransferCoding(headers), headers)

\* HeadSurvey::of
Announced(headers, token) ==
    LET lines == Named(headers, "Connection")
    IN \E i \in DOMAIN lines : ContainsToken(lines[i].value, token)

\* Variant: the version does not count.
IsAmbiguousOnAny(version, headers) == Named(headers, "TE") # <<>> /\ Named(headers, "CL") # <<>>

\* FramingHeaders::is_ambiguous
IsAmbiguous(version, headers) ==
    /\ Named(headers, "TE") # <<>>
    /\ Named(headers, "CL") # <<>> \/ version = "HTTP/1.0"

\* ConnectionReuse::evaluate and is_keep
Keeps(version, status, requestCloses, headers) ==
    /\ ~requestCloses
    /\ status # "101"
    /\ ~Announced(headers, "close") /\ ~IsAmbiguous(version, headers)
    /\ version = "HTTP/1.1" \/ Announced(headers, "keep-alive")
=============================================================================
