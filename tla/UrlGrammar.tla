----------------------------- MODULE UrlGrammar -----------------------------
(***************************************************************************)
(* What an http or https URL is (RFC 3986, section 3, and RFC 6874), as a  *)
(* definition to compare Url::parse with.  Userinfo and an empty port are  *)
(* left out, as in the code.                                               *)
(***************************************************************************)
EXTENDS Url

H16(s) == Len(s) \in 1 .. GROUP_DIGITS /\ Over(s, HexDigits)

DecOctet == {Decimal(n) : n \in 0 .. 255}

\* n items satisfying Item, with the mark between them.
Run(s, n, mark, Item(_)) ==
    LET items == Split(s, mark)
    IN IF n = 0 THEN s = <<>> ELSE Len(items) = n /\ \A i \in DOMAIN items : Item(items[i])

IPv4address(s) == Run(s, OCTETS, ".", LAMBDA o : o \in DecOctet)

\* Groups of total weight n, the last two of which may be an IPv4 address.
RunTo32(s, n) ==
    \/ Run(s, n, ":", H16)
    \/ n = 2 /\ IPv4address(s)
    \/ n > 2 /\ \E i \in DOMAIN s :
           s[i] = ":" /\ Run(First(s, i - 1), n - 2, ":", H16) /\ IPv4address(From(s, i + 1))

IPv6address(s) ==
    \/ RunTo32(s, GROUPS)
    \/ \E i \in 1 .. Len(s) - 1, l, r \in 0 .. GROUPS - 1 :
           /\ SubSeq(s, i, i + 1) = Elision /\ l + r < GROUPS
           /\ Run(First(s, i - 1), l, ":", H16) /\ RunTo32(From(s, i + 2), r)

\* *( plain / pct-encoded )
Encoded(s, plain) ==
    \A i \in DOMAIN s :
        \/ s[i] \in plain
        \/ s[i] = "%" /\ i + 2 <= Len(s) /\ {s[i + 1], s[i + 2]} \subseteq HexDigits

ZoneID(s) == s # <<>> /\ Encoded(s, ZoneIdByte)

IPvFuture(s) ==
    \E i \in 3 .. Len(s) - 1 :
        /\ s[1] = "v" /\ s[i] = "."
        /\ Over(SubSeq(s, 2, i - 1), HexDigits) /\ Over(From(s, i + 1), FutureByte)

IPLiteral(s) ==
    \/ IPv6address(s) \/ IPvFuture(s)
    \/ \E i \in 1 .. Len(s) - 2 : /\ SubSeq(s, i, i + 2) = <<"%", "2", "5">>
                           /\ IPv6address(First(s, i - 1)) /\ ZoneID(From(s, i + 3))

HostName(s) ==
    \/ s # <<>> /\ Encoded(s, RegNameByte)
    \/ Len(s) > 2 /\ s[1] = "[" /\ Last(s) = "]" /\ IPLiteral(SubSeq(s, 2, Len(s) - 1))

\* Digits whose number is at most U16_MAX, leading zeros included.
RECURSIVE PortValue(_)
PortValue(s) == IF s = <<>> THEN 0 ELSE PortValue(Front(s)) * 10 + ValueOf[Last(s)]

\* host [ ":" port ]
Authorities(s) ==
    {[host |-> s, port |-> NONE] : x \in {y \in {s} : HostName(y)}}
    \cup {[host |-> First(s, i - 1), port |-> PortValue(From(s, i + 1))] :
             i \in {j \in 1 .. Len(s) - 1 :
                       /\ s[j] = ":" /\ HostName(First(s, j - 1))
                       /\ Over(From(s, j + 1), Digit) /\ PortValue(From(s, j + 1)) <= U16_MAX}}

\* path-abempty [ "?" query ] [ "#" fragment ]: each way to cut it.  The bytes
\* of a part are not looked at until it is written.
Targets(s) ==
    LET Cuts == {c \in (0 .. Len(s)) \X (0 .. Len(s)) :
                    /\ c[1] <= c[2]
                    /\ c[1] > 0 => s[1] = "/" /\ "?" \notin ToSet(First(s, c[1]))
                    /\ c[1] < c[2] => s[c[1] + 1] = "?"
                    /\ "#" \notin ToSet(First(s, c[2]))
                    /\ c[2] < Len(s) => s[c[2] + 1] = "#"}
        Part(from, to) == IF from > to THEN {} ELSE {SubSeq(s, from + 1, to)}
    IN {[path |-> First(s, c[1]), query |-> Part(c[1] + 1, c[2]),
         fragment |-> Part(c[2] + 1, Len(s))] : c \in Cuts}

\* The URLs that s is: one, or none.
Urls(s) ==
    UNION {{[ok |-> TRUE, scheme |-> s[1], host |-> a.host, port |-> a.port, path |-> t.path,
             query |-> t.query, fragment |-> t.fragment] :
                a \in Authorities(SubSeq(s, 5, i)), t \in Targets(From(s, i + 1))} :
           i \in {j \in 4 .. Len(s) : s[1] \in Scheme /\ SubSeq(s, 2, 4) = <<":", "/", "/">>}}
=============================================================================
