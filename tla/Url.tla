-------------------------------- MODULE Url ---------------------------------
(***************************************************************************)
(* url.rs, scheme.rs and origin.rs: parsing an absolute URL, and the       *)
(* origin it names.  Bytes are the classes the conditions tell apart; a    *)
(* scheme is one symbol.  The widths and counts are parameters (8 groups   *)
(* of 4 digits, 4 octets, 65535, 80 and 443 in the code).                  *)
(***************************************************************************)
EXTENDS ByteSlices

CONSTANTS
    GROUPS,             \* of an IPv6 address
    GROUP_DIGITS,       \* the most digits in one
    OCTETS,             \* of an IPv4 address
    U16_MAX,            \* the largest port
    HTTP_PORT, HTTPS_PORT

ASSUME UrlAssumption ==
    /\ GROUPS \in Nat \ {0, 1} /\ GROUP_DIGITS \in Nat \ {0} /\ OCTETS \in Nat \ {0}
    /\ U16_MAX \in Nat /\ {HTTP_PORT, HTTPS_PORT} \subseteq 0 .. U16_MAX

\* "a" is a hexadecimal letter, "g" any other letter but "v", "." the dot, "!"
\* a byte of sub-delims; "sp" is no part of a URL.
HexDigits == Digit \cup {"a"}
Alnum == HexDigits \cup {"g", "v"}

\* is_zone_id_byte, is_reg_name_byte, is_future_byte, is_host_byte
ZoneIdByte == Alnum \cup {"."}
RegNameByte == ZoneIdByte \cup {"!"}
FutureByte == RegNameByte \cup {":"}
HostByte == FutureByte \cup {"%", "[", "]"}

Scheme == {"http", "https"}
DefaultPort(scheme) == IF scheme = "http" THEN HTTP_PORT ELSE HTTPS_PORT

NONE == -1
\* validate_pct_encoded_unreserved
RECURSIVE PctEncoded(_, _)
PctEncoded(s, plain) ==
    \/ s = <<>>
    \/ s[1] \in plain \ {"%"} /\ PctEncoded(Tail(s), plain)
    \/ s[1] = "%" /\ Len(s) > 2 /\ {s[2], s[3]} \subseteq HexDigits /\ PctEncoded(From(s, 4), plain)

\* is_ipv4_address
IsIpv4Address(s) ==
    LET octets == Split(s, ".")
    IN /\ Len(octets) = OCTETS
       /\ \A i \in DOMAIN octets :
              LET octet == octets[i]
              IN /\ octet # <<>> /\ Len(octet) <= 3 /\ Over(octet, Digit)
                 /\ Len(octet) = 1 \/ octet[1] # "0"
                 /\ ParseNumber(octet, 255) # NONE

\* h16_groups: the weight of a run of groups, an embedded IPv4 address counting
\* for two, or NONE.
Weight(groups, v4) ==
    IF \E i \in DOMAIN groups :
          ~(groups[i] # <<>> /\ Len(groups[i]) <= GROUP_DIGITS /\ Over(groups[i], HexDigits))
    THEN NONE ELSE Len(groups) + (IF v4 THEN 2 ELSE 0)

H16Groups(s, allowV4) ==
    LET groups == Split(s, ":")
    IN IF s = <<>> THEN 0
       ELSE IF allowV4 /\ IsIpv4Address(Last(groups)) THEN Weight(Front(groups), TRUE)
       ELSE Weight(groups, FALSE)

Elision == <<":", ":">>

\* Variant: an elision may stand for no group at all.
ElisionFitsWide(left, right) == left # NONE /\ right # NONE /\ left + right <= GROUPS

\* An elision stands for a group at least.
ElisionFits(left, right) == left # NONE /\ right # NONE /\ left + right < GROUPS

\* validate_ipv6_address
ValidIpv6Address(s) ==
    LET at == FindFrom(s, Elision, 1)
    IN /\ s # <<>>
       /\ IF at = 0 THEN H16Groups(s, TRUE) = GROUPS
          ELSE /\ FindFrom(s, Elision, at + 2) = 0
               /\ ElisionFits(H16Groups(First(s, at - 1), FALSE), H16Groups(From(s, at + 2), TRUE))

\* validate_ipvfuture
ValidIpvFuture(s) ==
    LET dot == SelectInSeq(s, LAMBDA b : b = ".")
    IN /\ dot > 2 /\ Over(SubSeq(s, 2, dot - 1), HexDigits)
       /\ dot < Len(s) /\ Over(From(s, dot + 1), FutureByte)

\* validate_ip_literal
ValidIpLiteral(s) ==
    LET zone == FindFrom(s, <<"%", "2", "5">>, 1)
    IN /\ s # <<>>
       /\ IF s[1] = "v" THEN ValidIpvFuture(s)
          ELSE /\ ValidIpv6Address(IF zone = 0 THEN s ELSE First(s, zone - 1))
               /\ zone # 0 => zone + 2 < Len(s) /\ PctEncoded(From(s, zone + 3), ZoneIdByte)

\* parse_port: the port, or NONE where it is refused.
ParsePort(s) == IF Over(s, Digit) THEN ParseNumber(s, U16_MAX) ELSE NONE

\* parse_authority: the host, with its brackets, and the port if there is one.
HostAndPort(s, colon) ==
    LET port == ParsePort(From(s, colon + 1))
    IN IF colon = 0 THEN [ok |-> TRUE, host |-> s, port |-> NONE]
       ELSE IF s[colon] # ":" THEN Bad("InvalidByte")
       ELSE IF port = NONE THEN Bad("InvalidPort")
       ELSE [ok |-> TRUE, host |-> First(s, colon - 1), port |-> port]

LiteralAuthority(s, close) ==
    IF close = 0 \/ ~ValidIpLiteral(SubSeq(s, 2, close - 1)) THEN Bad("InvalidByte")
    ELSE HostAndPort(s, IF close < Len(s) THEN close + 1 ELSE 0)

NamedAuthority(s, colon) ==
    IF ~PctEncoded(IF colon = 0 THEN s ELSE First(s, colon - 1), RegNameByte)
    THEN Bad("InvalidByte") ELSE HostAndPort(s, colon)

ParseAuthority(s) ==
    IF "@" \in ToSet(s) THEN Bad("InvalidByte")
    ELSE IF s # <<>> /\ s[1] = "[" THEN LiteralAuthority(s, SelectInSeq(s, LAMBDA b : b = "]"))
    ELSE NamedAuthority(s, SelectLastInSeq(s, LAMBDA b : b = ":"))

\* What is before the first of some bytes, and what is after it if there is one.
Before(s, stop) ==
    LET at == SelectInSeq(s, LAMBDA b : b \in stop) IN IF at = 0 THEN s ELSE First(s, at - 1)
After(s, mark) ==
    LET at == SelectInSeq(s, LAMBDA b : b = mark) IN IF at = 0 THEN {} ELSE {From(s, at + 1)}

\* Url::parse, with parse_path_query_fragment; an absent query or fragment is
\* the empty set.
UrlOf(scheme, named, after) ==
    IF ~named.ok THEN named
    ELSE IF named.host = <<>> THEN Bad("MissingHost")
    ELSE IF ~Over(named.host, HostByte) THEN Bad("InvalidByte")
    ELSE [ok |-> TRUE, scheme |-> scheme, host |-> named.host, port |-> named.port,
          path |-> Before(after, {"?", "#"}), query |-> After(Before(after, {"#"}), "?"),
          fragment |-> After(after, "#")]

AfterScheme(scheme, rest) ==
    LET authority == Before(rest, {"/", "?", "#"})
    IN UrlOf(scheme, ParseAuthority(authority), From(rest, Len(authority) + 1))

ParseUrl(s) ==
    IF FindFrom(s, <<":", "/", "/">>, 1) # 2 \/ s[1] \notin Scheme THEN Bad("InvalidScheme")
    ELSE AfterScheme(s[1], From(s, 5))

\* Origin::from_url, with Url::effective_port; Origin::covers is equality.
OriginOf(url) ==
    [scheme |-> url.scheme, host |-> url.host,
     port |-> IF url.port = NONE THEN DefaultPort(url.scheme) ELSE url.port]

\* u16::to_string
RECURSIVE Decimal(_)
Decimal(n) ==
    LET digit == CHOOSE d \in Digit : ValueOf[d] = n % 10
    IN (IF n < 10 THEN <<>> ELSE Decimal(n \div 10)) \o <<digit>>

\* Variant: the port is never named.
HostHeaderValueBare(origin) == origin.host

\* Origin::host_header_value
HostHeaderValue(origin) ==
    origin.host \o (IF origin.port = DefaultPort(origin.scheme) THEN <<>>
                    ELSE <<":">> \o Decimal(origin.port))

\* Url::connection_host
ConnectionHost(host) ==
    IF host[1] = "[" /\ Last(host) = "]" THEN SubSeq(host, 2, Len(host) - 1) ELSE host
=============================================================================
