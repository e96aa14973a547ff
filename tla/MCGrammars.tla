----------------------------- MODULE MCGrammars -----------------------------
(***************************************************************************)
(* The contexts of the instance, each with the symbols that matter in its  *)
(* place: the lines of a chunked body, the lines of a head, the headers    *)
(* that decide the framing, the parts of a URL and of a Location, and what *)
(* a caller may put in a request.                                          *)
(***************************************************************************)
EXTENDS Grammars

Singles(symbols) == {<<b>> : b \in symbols}

LastChunk == <<"0">> \o CRLF \o CRLF
OneByte == CRLF \o <<"(">> \o CRLF \o LastChunk

ChunkedContext(pre, symbols, post) ==
    [kind |-> "chunked", pre |-> pre, parts |-> Singles(symbols), post |-> post, room |-> 6]

ChunkedContexts ==
    {ChunkedContext(<<>>, {"0", "1", "x", "sp", "cr", "lf"}, LastChunk),
     ChunkedContext(<<"1">>, {"1", "x", ";", "=", "dquote", "bslash", "sp"}, OneByte),
     ChunkedContext(<<"1", ";", "x", "=">>, {"x", "(", "dquote", "bslash", "sp", "ctl"}, OneByte),
     ChunkedContext(<<"0">> \o CRLF, {"x", ":", "(", "sp", "cr", "lf"}, CRLF)}

StatusContext ==
    [kind |-> "head", pre |-> <<>>, room |-> 5,
     parts |-> Singles({"HTTP/1.1", "HTTP/1.0", "sp", "200", "x", "ctl", "cr", "lf"}),
     post |-> CRLF \o CRLF]

HeaderContext ==
    [kind |-> "head", pre |-> <<"HTTP/1.1", "sp", "200">> \o CRLF, room |-> 6,
     parts |-> Singles({"x", ":", "sp", "(", "cr", "lf", "ctl"}), post |-> CRLF]

ManyContext ==
    [kind |-> "head", pre |-> <<"HTTP/1.1", "sp", "200", "sp">> \o CRLF, room |-> 4,
     parts |-> {<<"x", ":">> \o CRLF, <<"x", "x", ":", "sp", "x">> \o CRLF, CRLF}, post |-> CRLF]

Line(name, value) == <<name, ":">> \o value \o CRLF

FieldLines ==
    {Line("TE", v) : v \in {<<>>, <<"chunked">>, <<"identity">>, <<"gzip">>, <<",", "sp", "chunked">>,
                            <<"identity", ",", "chunked">>}}
    \cup {Line("CL", v) : v \in {<<"0">>, <<"1">>, <<"1", "2">>, <<"x">>}}
    \cup {Line("Connection", v) : v \in {<<"close">>, <<"keep-alive">>, <<"x", "sp", ",", "close">>}}
    \cup {Line("x", <<"x">>)}

FieldContext(version, status) ==
    [kind |-> "fields", pre |-> <<version, "sp", status>> \o CRLF, room |-> 3,
     parts |-> FieldLines, post |-> CRLF]

UrlPrefix == <<"http", ":", "/", "/">>

UrlContext(pre, parts, post, n) ==
    [kind |-> "url", pre |-> UrlPrefix \o pre, parts |-> parts, post |-> post, room |-> n]

UrlContexts ==
    {UrlContext(<<>>, Singles({"a", "g", "1", "2", "%", ":", "@", "!"}), <<>>, 5),
     UrlContext(<<>>, Singles({"g", "/", "?", "#", "[", "]", ":", "1"}), <<>>, 5),
     UrlContext(<<"[">>, Singles({"a", "1", ":", "."}), <<"]">>, 8),
     UrlContext(<<"[", ":", ":">>, Singles({"0", "2", "5", "6", "."}), <<"]">>, 7),
     UrlContext(<<"[">>, {<<":", ":">>, <<"%", "2", "5">>} \cup Singles({"a", "g", "v", ".", "!", "%"}),
                <<"]", ":", "1">>, 5),
     [kind |-> "url", pre |-> <<>>, room |-> 6, post |-> <<"g">>,
      parts |-> Singles({"http", "https", "g", ":", "/"})]}

LocationContexts ==
    {[kind |-> "location", pre |-> <<>>, room |-> 8, post |-> <<>>,
      parts |-> Singles({"g", ".", "/"})],
     [kind |-> "location", pre |-> <<>>, room |-> 4, post |-> <<>>,
      parts |-> {<<"http", ":", "/", "/">>, <<"https">>}
                 \cup Singles({"g", "1", ".", "/", ":", "?", "#"})]}

RequestContexts ==
    {[kind |-> "target", pre |-> <<>>, room |-> 3, post |-> <<>>,
      parts |-> Singles({"/", "g", "?", "sp", "cr", "lf", "ctl"})],
     [kind |-> "request", pre |-> <<>>, room |-> 2, post |-> <<>>,
      parts |-> Singles([name : {<<"x">>, <<"Host">>, <<"CL">>, <<"Cookie">>, <<"x", "(">>, <<>>,
                                 <<"x", ":">>},
                         value : {<<>>, <<"x">>, <<"sp", "x", "sp">>, <<"ctl">>,
                                  CRLF \o <<"x", ":">>}])]}

MCContexts ==
    ChunkedContexts \cup RequestContexts \cup UrlContexts \cup LocationContexts
    \cup {StatusContext, HeaderContext, ManyContext}
    \cup {FieldContext(v, s) : v \in Version, s \in {"101", "200", "304", "404"}}
=============================================================================
