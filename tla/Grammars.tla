------------------------------ MODULE Grammars ------------------------------
(***************************************************************************)
(* The bounded inputs of the parsers and writers.  A context is a fixed    *)
(* beginning, up to `room` parts of an alphabet, and a fixed ending; its   *)
(* kind says which grammar it belongs to.  Every filling of every context  *)
(* is reached a part at a time, and each one is an input on which the code *)
(* is compared with the grammar that defines what it should do.            *)
(***************************************************************************)
EXTENDS ChunkedGrammar, HeadGrammar, LocationGrammar, RequestHead

CONSTANT Contexts       \* records [kind, pre, parts, post, room]

ASSUME ContextBounds == \A c \in Contexts : c.room \in Nat /\ c.parts # {}

VARIABLES
    context,
    fill,       \* the parts so far, concatenated
    room        \* how many more there may be

vars == <<context, fill, room>>

Init == context \in Contexts /\ fill = <<>> /\ room = context.room

Extend ==
    /\ room > 0 /\ room' = room - 1
    /\ \E part \in context.parts : fill' = fill \o part
    /\ UNCHANGED context

\* The context is full.
Full == room = 0 /\ UNCHANGED vars

Next == Extend \/ Full

Spec == Init /\ [][Next]_vars

Text == context.pre \o fill \o context.post

\* The chunked decoder accepts the encodings of the reference and no other
\* string, and decodes each one to its body: digits, overflow, the phases of an
\* extension, quoting, trailers and every budget at its limit.
DecodesTheLanguage ==
    context.kind = "chunked" => Decoded(Text) = Bodies(Text)

\* ResponseHead::parse accepts the heads of the grammar and nothing else, up to
\* MAX_HEADERS; the ranges it records lie in the bytes it consumed, and give
\* back every header, empty and padded values included.
ParsesTheHead ==
    context.kind = "head" => Parsed(Text) = Heads(Text)

Methods == {"GET", "HEAD", "CONNECT"}

\* A list split over several lines means what it means on one, wherever the
\* lines stand: neither the framing of from_response nor the verdict of
\* ConnectionReuse::evaluate depends on how a server folds its headers.
LinesMeanTheirList ==
    context.kind = "fields" => \A head \in Parsed(Text), method \in Methods :
        /\ FromResponse(head.status, method, head.headers)
              = FromResponse(head.status, method, Combined(head.headers))
        /\ Keeps(head.version, head.status, FALSE, head.headers)
              = Keeps(head.version, head.status, FALSE, Combined(head.headers))

\* A connection is kept only if every recipient on the way agrees where the
\* body ends: one that goes by the length alone finds no other boundary than
\* from_response does, and on HTTP/1.0, where codings do not exist, the same.
KeptMeansAgreed ==
    context.kind = "fields" => \A head \in Parsed(Text), method \in Methods :
        LET ours == FromResponse(head.status, method, head.headers)
            theirs == ByLength(head, method)
        IN (Keeps(head.version, head.status, FALSE, head.headers) /\ ours.ok) =>
              \/ theirs = ours
              \/ head.version = "HTTP/1.1" /\ theirs.ok /\ theirs.value.kind = "UntilClose"

\* Url::parse accepts the URLs of the grammar and nothing else, and splits them
\* as the grammar does: the count of groups around an elision, an embedded IPv4
\* address, zones, escapes, the last colon and the port at its limit.
ParsesTheUrl ==
    context.kind = "url" =>
        {url \in {ParseUrl(Text)} : url.ok} = Urls(Text)

\* The Host header an origin is named by leads back to that origin: a server
\* that reads host_header_value under the connection's scheme finds the host
\* and the port the connection was opened to, default ports included.
HostNamesTheOrigin ==
    context.kind = "url" =>
        \A origin \in {OriginOf(url) : url \in {u \in {ParseUrl(Text)} : u.ok}} :
            \E back \in {ParseUrl(<<origin.scheme, ":", "/", "/">> \o HostHeaderValue(origin))} :
                back.ok /\ OriginOf(back) = origin

\* The requests a Location may answer, and the connections it may come from.
Bases ==
    [path : {<<"/">>, <<"/", "g", "/", "a">>}, query : {{}, {<<"a">>}}]
Froms == [scheme : Scheme, host : {<<"g">>}, port : {HTTP_PORT, HTTPS_PORT}]

\* A Location leads where RFC 3986 says, or is refused where there is nowhere
\* this client may go: apply_location tells schemes from paths that contain a
\* colon, and resolves dot segments, as section 5.2 does for every path without
\* an empty segment; and whatever the path, what is requested next is rooted
\* and has no dot segment left in it.
ResolvesAsRfc ==
    context.kind = "location" => \A req \in Bases, from \in Froms :
        \E hops \in {{hop \in {ApplyLocation(req, from, Text)} : hop.ok}} :
            /\ FindFrom(Components(Text).path, <<"/", "/">>, 1) = 0 =>
                   hops = Resolved(req, from, Text)
            /\ \A hop \in hops : hop.path[1] = "/" /\ RemoveDots(hop.path, <<>>) = hop.path

\* method SP request-target SP HTTP-version CRLF, the fields, and nothing more:
\* the requests a server can read in s.
RequestsIn(s) ==
    LET line == First(s, FindCrlf(s) - 1)
        Cuts == {c \in DOMAIN line : line[c] = "sp"}
    IN UNION {{[method |-> First(line, i - 1), target |-> SubSeq(line, i + 1, j - 1),
                version |-> From(line, j + 1), headers |-> section.fields] :
                   section \in {x \in Sections(From(s, FindCrlf(s) + 2)) :
                                   FindCrlf(s) + 1 + x.length = Len(s)}} :
              <<i, j>> \in {c \in Cuts \X Cuts : c[1] < c[2]}}

\* The requests of a caller: those of a "target" context have its text as their
\* path, those of a "request" context its headers.
Requests ==
    IF context.kind = "target"
    THEN [method : {"GET", "POST"}, path : {Text}, query : {{}, {<<"g">>}, {Text}},
          body : {NONE}, headers : {<<>>}]
    ELSE [method : {"GET", "POST"}, path : {<<"/">>}, query : {{}}, body : {NONE, 0, 12},
          headers : {Text}]

\* Whatever the caller passes, what reaches the wire is one request, read back
\* as the one that was meant: the same method and target, one Host naming the
\* connection's origin, the caller's headers with their values trimmed, one
\* Content-Length exactly where there is a body to count, and no byte beyond.
\* The buffer form writes the same bytes, if it has serialized_len of room.
WrittenIsRead ==
    context.kind \in {"target", "request"} => \A req \in Requests, origin \in Froms :
        LET written == Written(req, origin)
            headers == WireHeaders(req, origin)
        IN written.ok =>
              /\ RequestsIn(written.bytes) =
                    {[method |-> <<req.method>>, target |-> Target(req.path, req.query),
                      version |-> <<"HTTP/1.1">>,
                      headers |-> [i \in DOMAIN headers |->
                                      [headers[i] EXCEPT !.value = TrimOws(@)]]]}
              /\ \A name \in ToSet([i \in DOMAIN headers |-> headers[i].name]) \ Repeatable :
                    Len(SelectSeq(headers, LAMBDA h : h.name = name)) = 1
              /\ (Named(headers, "CL") # <<>>) = (req.body # NONE \/ req.method = "POST")
              /\ \A spare \in {-1, 0, 1} :
                    LET n == SerializedLen(req, headers)
                    IN SerializeToBuf(req, headers, n + spare) =
                          (IF spare < 0 THEN Bad("BufferTooSmall") ELSE written)
=============================================================================
