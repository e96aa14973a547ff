------------------------------ MODULE Location ------------------------------
(***************************************************************************)
(* redirect.rs and reference.rs: what a Location makes of the request it   *)
(* answers, byte by byte.  A request is its path and its query; `from` is  *)
(* the origin of the connection it was sent on.                            *)
(***************************************************************************)
EXTENDS Url

\* UriReference::remove_dot_segments: the segments in order, with what the last
\* one left behind.
RemoveDotSegments(path) ==
    LET segments == Split(path, "/")
        Step(acc, segment) ==
            IF segment = <<".", ".">>
            THEN [out |-> IF acc.out = <<>> THEN <<>> ELSE Front(acc.out), slash |-> TRUE]
            ELSE IF segment \in {<<".">>, <<>>} THEN [acc EXCEPT !.slash = TRUE]
            ELSE [out |-> Append(acc.out, segment), slash |-> FALSE]
        end == FoldLeft(Step, [out |-> <<>>, slash |-> FALSE], segments)
        joined == FlattenSeq([i \in DOMAIN end.out |-> <<"/">> \o end.out[i]])
        resolved == IF end.slash \/ joined = <<>> THEN joined \o <<"/">> ELSE joined
    IN IF path # <<>> /\ path[1] = "/" THEN resolved ELSE Tail(resolved)

\* Variant: the reference is appended to the whole of the base.
MergeWhole(base, reference) == base \o <<"/">> \o reference

\* UriReference::merge
Merge(base, reference) ==
    LET slash == SelectLastInSeq(base, LAMBDA b : b = "/")
    IN (IF slash = 0 THEN <<"/">> ELSE First(base, slash)) \o reference

\* is_scheme_token
IsSchemeToken(s) ==
    s # <<>> /\ s[1] \in (Alnum \ Digit) \cup Scheme /\ Over(s, Alnum \cup Scheme \cup {"."})

\* has_absolute_scheme: the first colon follows http or https and precedes "//".
HasAbsoluteScheme(s) ==
    LET colon == SelectInSeq(s, LAMBDA b : b = ":")
    IN colon = 2 /\ s[1] \in Scheme /\ IsPrefix(<<":", "/", "/">>, From(s, 2))

\* has_named_scheme
HasNamedScheme(s) ==
    LET start == Before(s, {"/", "?"})
    IN ":" \in ToSet(start) /\ IsSchemeToken(Before(start, {":"}))

\* The request afterwards, and the origin it goes to.
Hop(origin, path, query) == [ok |-> TRUE, origin |-> origin, path |-> path, query |-> query]

\* apply_absolute_location
HopTo(from, url) ==
    IF ~url.ok THEN url
    ELSE IF from.scheme = "https" /\ url.scheme = "http" THEN Bad("InsecureRedirect")
    ELSE Hop(OriginOf(url),
             IF url.path = <<>> THEN <<"/">> ELSE RemoveDotSegments(url.path), url.query)

ApplyAbsoluteLocation(from, location) == HopTo(from, ParseUrl(location))

\* apply_location
ApplyLocation(req, from, location) ==
    LET reference == Before(location, {"#"})
        path == Before(reference, {"?"})
        query == After(reference, "?")
    IN IF HasAbsoluteScheme(reference) THEN ApplyAbsoluteLocation(from, reference)
       ELSE IF HasNamedScheme(reference) THEN Bad("UnsupportedRedirectScheme")
       ELSE IF IsPrefix(<<"/", "/">>, reference)
            THEN ApplyAbsoluteLocation(from, <<from.scheme, ":">> \o reference)
       ELSE IF path = <<>> THEN Hop(from, req.path, IF query = {} THEN req.query ELSE query)
       ELSE Hop(from, RemoveDotSegments(IF path[1] = "/" THEN path ELSE Merge(req.path, path)),
                query)
=============================================================================
