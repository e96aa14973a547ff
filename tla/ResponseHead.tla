---------------------------- MODULE ResponseHead ----------------------------
(***************************************************************************)
(* response/head.rs and response/ranges.rs of xibalba-proto: the parser of *)
(* a status line and its headers, and the positions it records for them.   *)
(* The version and the status code are one symbol each.                    *)
(***************************************************************************)
EXTENDS ByteSlices

CONSTANT MAX_HEADERS

ASSUME HeadersAssumption == MAX_HEADERS \in Nat

\* Version::try_from
Version == {"HTTP/1.1", "HTTP/1.0"}

\* StatusCode::try_from: "404" is any code without a rule of its own.
StatusCode == {"100", "101", "200", "204", "304", "404"}

\* StatusCode::is_informational, is_success
Informational == {"100", "101"}
Success == {"200", "204"}

\* What may not appear in a value or a reason; everything else may.
Control == {"cr", "lf", "ctl"}

\* Tchar::is_valid, over the symbols that are no part of a token.
IsTchar(b) == b \notin Control \cup {"sp", ":", ",", "(", "/", "?", "@", "[", "]"}

\* Variant: the white space after a value is kept.
HeaderValueUntrimmed(s, pos, colon, start, crlf) ==
    IF crlf = 0 THEN Bad("Incomplete")
    ELSE IF s[crlf] # "cr" THEN Bad("InvalidHeaderValue")
    ELSE IF crlf = Len(s) \/ s[crlf + 1] # "lf" THEN Bad("Incomplete")
    ELSE [ok |-> TRUE, next |-> crlf + 2,
          range |-> [name |-> pos, nameLen |-> colon - pos, value |-> start,
                     valueLen |-> crlf - start]]

\* The value that starts at `start`, up to the control byte at `crlf`: the white
\* space before that is not part of it.
HeaderValue(s, pos, colon, start, crlf) ==
    LET last == SelectLastInSubSeq(s, start, crlf - 1, LAMBDA b : b # "sp")
    IN IF crlf = 0 THEN Bad("Incomplete")
       ELSE IF s[crlf] # "cr" THEN Bad("InvalidHeaderValue")
       ELSE IF crlf = Len(s) \/ s[crlf + 1] # "lf" THEN Bad("Incomplete")
       ELSE [ok |-> TRUE, next |-> crlf + 2,
             range |-> [name |-> pos, nameLen |-> colon - pos, value |-> start,
                        valueLen |-> IF last = 0 THEN 0 ELSE last - start + 1]]

HeaderValueFrom(s, pos, colon, start) ==
    HeaderValue(s, pos, colon, start,
                SelectInSubSeq(s, start, Len(s), LAMBDA b : b \in Control))

\* parse_header_line at position `pos`: the name up to the colon, the value
\* after the white space, as positions in the buffer.
HeaderAt(s, pos, colon) ==
    LET ink == SelectInSubSeq(s, colon + 1, Len(s), LAMBDA b : b # "sp")
    IN IF colon = 0 THEN Bad("Incomplete")
       ELSE IF s[colon] # ":" \/ colon = pos THEN Bad("InvalidHeaderName")
       ELSE HeaderValueFrom(s, pos, colon, IF ink = 0 THEN Len(s) + 1 ELSE ink)

ParseHeaderLine(s, pos) ==
    HeaderAt(s, pos, SelectInSubSeq(s, pos, Len(s), LAMBDA b : ~IsTchar(b)))

\* The loop over the header lines: the ranges of HeaderRange::build_ranges, and
\* the position after the empty line.
RECURSIVE ParseHeaders(_, _, _)
ParseHeaders(s, pos, ranges) ==
    LET line == ParseHeaderLine(s, pos)
    IN IF pos > Len(s) \/ (s[pos] = "cr" /\ pos = Len(s)) THEN Bad("Incomplete")
       ELSE IF s[pos] = "cr" /\ s[pos + 1] = "lf"
            THEN [ok |-> TRUE, ranges |-> ranges, end |-> pos + 2]
       ELSE IF ~line.ok THEN line
       ELSE IF Len(ranges) >= MAX_HEADERS THEN Bad("TooManyHeaders")
       ELSE ParseHeaders(s, line.next, Append(ranges, line.range))

\* ResponseHead::parse, for a status line and the headers after it.
ParseStatusLine(line, headers) ==
    IF Len(line) < 3 \/ line[1] \notin Version \/ line[2] # "sp" THEN Bad("InvalidVersion")
    ELSE IF line[3] \notin StatusCode \/ (Len(line) > 3 /\ line[4] # "sp")
         THEN Bad("InvalidStatusCode")
    ELSE IF \E i \in 5 .. Len(line) : line[i] \in Control THEN Bad("InvalidReasonPhrase")
    ELSE IF ~headers.ok THEN headers
    ELSE [ok |-> TRUE, version |-> line[1], status |-> line[3],
          ranges |-> headers.ranges, consumed |-> headers.end - 1]

Parse(s) ==
    LET end == FindCrlf(s)
    IN IF end = 0 THEN Bad("Incomplete")
       ELSE ParseStatusLine(First(s, end - 1), ParseHeaders(s, end + 2, <<>>))

\* HeadData::range_within, for a buffer of n bytes.
RangeWithin(range, n) ==
    /\ range.nameLen > 0
    /\ range.name + range.nameLen - 1 <= n /\ range.value + range.valueLen - 1 <= n

\* HeadData::headers: the names and values the ranges stand for.
HeadersIn(buf, ranges) ==
    [i \in DOMAIN ranges |->
        LET r == ranges[i]
        IN [name |-> SubSeq(buf, r.name, r.name + r.nameLen - 1),
            value |-> SubSeq(buf, r.value, r.value + r.valueLen - 1)]]
=============================================================================
