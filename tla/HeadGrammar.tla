---------------------------- MODULE HeadGrammar -----------------------------
(***************************************************************************)
(* What a response head is (RFC 9112, sections 4 and 5) and what its       *)
(* headers say about the body and the connection, as definitions to        *)
(* compare the parser and the decisions taken from it with.                *)
(***************************************************************************)
EXTENDS Framing

\* HTTP-version SP status-code [ SP reason-phrase ]
StatusLines(s) ==
    IF /\ Len(s) >= 3 /\ s[1] \in Version /\ s[2] = "sp" /\ s[3] \in StatusCode
       /\ Len(s) > 3 => s[4] = "sp"
       /\ \A i \in DOMAIN s : s[i] \notin Control
    THEN {[version |-> s[1], status |-> s[3]]} ELSE {}

\* field-name ":" OWS field-value OWS: the value is what is left between the
\* blanks.
Fields(s) ==
    {[name |-> First(s, n - 1), value |-> TrimOws(From(s, n + 1))] :
        n \in {i \in 2 .. Len(s) : /\ s[i] = ":" /\ \A k \in 1 .. i - 1 : IsTchar(s[k])
                                   /\ \A k \in i .. Len(s) : s[k] \notin Control}}

\* *( field-line CRLF ) CRLF at the start of s: each list of fields there is,
\* with what it takes.
RECURSIVE Sections(_)
Sections(s) ==
    IF IsPrefix(CRLF, s) THEN {[fields |-> <<>>, length |-> 2]}
    ELSE UNION {{[fields |-> <<f>> \o rest.fields, length |-> e + 1 + rest.length] :
                    f \in Fields(First(s, e - 1)), rest \in Sections(From(s, e + 2))} :
                    e \in {i \in 1 .. Len(s) - 1 : SubSeq(s, i, i + 1) = CRLF}}

\* The heads that s begins with: one, or none.
Heads(s) ==
    UNION {{[version |-> line.version, status |-> line.status, headers |-> section.fields,
             consumed |-> e + 1 + section.length] :
                line \in StatusLines(First(s, e - 1)),
                section \in {c \in Sections(From(s, e + 2)) : Len(c.fields) <= MAX_HEADERS}} :
                e \in {i \in 1 .. Len(s) - 1 : SubSeq(s, i, i + 1) = CRLF}}

\* What the parser takes a text for, read back through its ranges.
Parsed(s) ==
    {[version |-> head.version, status |-> head.status,
      headers |-> HeadersIn(First(s, head.consumed), head.ranges),
      consumed |-> head.consumed] : head \in {h \in {Parse(s)} : h.ok}}

\* The head with each list-valued header on one line, joined by commas where
\* its first line stood (RFC 9110, section 5.3).
Combined(headers) ==
    LET FirstOf(name) == SelectInSeq(headers, LAMBDA h : h.name = <<name>>)
        Join(name) ==
            LET lines == Named(headers, name)
            IN FoldLeft(LAMBDA v, h : IF v = <<>> THEN h.value ELSE v \o <<",">> \o h.value,
                        <<>>, lines)
        Kept == SelectSeq([i \in DOMAIN headers |-> i],
                          LAMBDA i : headers[i].name \in {<<"TE">>, <<"Connection">>}
                                         => i = FirstOf(headers[i].name[1]))
    IN [k \in DOMAIN Kept |->
           LET h == headers[Kept[k]]
           IN IF h.name \in {<<"TE">>, <<"Connection">>}
              THEN [name |-> h.name, value |-> Join(h.name[1])] ELSE h]

\* The boundary found by a recipient that knows no transfer coding.
ByLength(head, method) ==
    FromResponse(head.status, method, SelectSeq(head.headers, LAMBDA h : h.name # <<"TE">>))
=============================================================================
