-------------------------- MODULE LocationGrammar ---------------------------
(***************************************************************************)
(* How a reference is resolved (RFC 3986, section 5.2), as a definition to *)
(* compare the handling of a Location with.                                *)
(***************************************************************************)
EXTENDS Location, UrlGrammar

\* Section 5.2.4: the input buffer and the output buffer.
RECURSIVE RemoveDots(_, _)
RemoveDots(in, out) ==
    LET Starts(prefix) == IsPrefix(prefix, in)
        cut == SelectLastInSeq(out, LAMBDA b : b = "/")
        shorter == IF cut = 0 THEN <<>> ELSE First(out, cut - 1)
        slash == SelectInSubSeq(in, 2, Len(in), LAMBDA b : b = "/")
        next == IF slash = 0 THEN Len(in) ELSE slash - 1
    IN IF in = <<>> THEN out
       ELSE IF Starts(<<".", ".", "/">>) THEN RemoveDots(From(in, 4), out)
       ELSE IF Starts(<<".", "/">>) THEN RemoveDots(From(in, 3), out)
       ELSE IF Starts(<<"/", ".", "/">>) THEN RemoveDots(From(in, 3), out)
       ELSE IF in = <<"/", ".">> THEN RemoveDots(<<"/">>, out)
       ELSE IF Starts(<<"/", ".", ".", "/">>) THEN RemoveDots(From(in, 4), shorter)
       ELSE IF in = <<"/", ".", ".">> THEN RemoveDots(<<"/">>, shorter)
       ELSE IF in \in {<<".">>, <<".", ".">>} THEN out
       ELSE RemoveDots(From(in, next + 1), out \o First(in, next))

\* A reference by its components; a scheme or an authority it does not have is
\* the empty set.
Components(s) ==
    LET start == Before(s, {"/", "?", "#"})
        named == ":" \in ToSet(start) /\ IsSchemeToken(Before(start, {":"}))
        rest == IF named THEN From(s, SelectInSeq(s, LAMBDA b : b = ":") + 1) ELSE s
        network == IsPrefix(<<"/", "/">>, rest)
        authority == Before(From(rest, 3), {"/", "?", "#"})
        tail == IF network THEN From(rest, Len(authority) + 3) ELSE rest
    IN [scheme |-> IF named THEN {Before(start, {":"})} ELSE {},
        authority |-> IF network THEN {authority} ELSE {},
        path |-> Before(tail, {"?", "#"}),
        query |-> After(Before(tail, {"#"}), "?")]

\* Section 5.2.3: all but the last segment of the base, then the reference.
MergePaths(base, path) ==
    LET kept == Front(Split(base, "/"))
    IN FlattenSeq([i \in DOMAIN kept |-> Append(kept[i], "/")]) \o path

\* Section 5.2.2, for a base of origin `from`; with an authority the empty path
\* is requested as "/".
Transform(req, from, r) ==
    LET Rooted(p) == IF p = <<>> THEN <<"/">> ELSE p
        scheme == IF r.scheme = {} THEN <<from.scheme>> ELSE CHOOSE x \in r.scheme : TRUE
        merged == IF r.path # <<>> /\ r.path[1] = "/" THEN r.path
                  ELSE MergePaths(req.path, r.path)
    IN IF r.authority # {}
       THEN {Hop(OriginOf([scheme |-> scheme[1], host |-> a.host, port |-> a.port]),
                 Rooted(RemoveDots(r.path, <<>>)), r.query) :
                a \in UNION {Authorities(x) : x \in IF scheme[1] \in Scheme /\ Len(scheme) = 1
                                                    THEN r.authority ELSE {}}}
       ELSE IF r.scheme # {} THEN {}
       ELSE IF r.path = <<>> THEN {Hop(from, req.path, IF r.query = {} THEN req.query ELSE r.query)}
       ELSE {Hop(from, RemoveDots(merged, <<>>), r.query)}

\* The target of a Location: one, or none when it is not a target this client
\* may follow.
Resolved(req, from, s) ==
    {hop \in Transform(req, from, Components(s)) :
        from.scheme = "https" => hop.origin.scheme = "https"}
=============================================================================
