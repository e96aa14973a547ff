------------------------------ MODULE Redirect ------------------------------
(***************************************************************************)
(* redirect.rs: what following one Location does to a request, and what it *)
(* asks of the connection.  A request keeps its method, whether it carries *)
(* a body, credentials and representation headers, and its replay policy.  *)
(* An origin is opaque apart from its scheme.                              *)
(***************************************************************************)
CONSTANTS
    Origins,    \* scheme, host and port
    Secure      \* those with scheme https

ASSUME RedirectAssumption == Secure \subseteq Origins

Method == {"GET", "HEAD", "POST", "PUT", "CONNECT"}

RequestType ==
    [method : Method, body : BOOLEAN, creds : BOOLEAN, repr : BOOLEAN, replay : BOOLEAN]

\* A status with a Location that is followed, by what it does to the method:
\* 301 and 302, 303, 307 and 308; every other response is final.
Status == {"final", "moved", "see_other", "preserve"}

\* What a Location names: an absolute or network-path reference, a relative
\* one, or one that is refused (another scheme, a malformed URL).
Location == [kind : {"absolute", "relative", "refused"}, to : Origins]

\* Variant: the headers describing the dropped body stay.
ApplyMethodRedirectKeepingHeaders(req, status) ==
    IF \/ status = "see_other" /\ req.method # "HEAD"
       \/ status = "moved" /\ req.method = "POST"
    THEN [req EXCEPT !.method = "GET", !.body = FALSE]
    ELSE req

\* apply_method_redirect, with strip_representation_headers.
ApplyMethodRedirect(req, status) ==
    IF \/ status = "see_other" /\ req.method # "HEAD"
       \/ status = "moved" /\ req.method = "POST"
    THEN [req EXCEPT !.method = "GET", !.body = FALSE, !.repr = FALSE]
    ELSE req

\* Origin::downgrades_to
Downgrades(from, to) == from \in Secure /\ to \notin Secure

\* What apply_location and apply_absolute_location return as an error.
Refused(from, location) ==
    \/ location.kind = "refused"
    \/ location.kind = "absolute" /\ Downgrades(from, location.to)

\* Hop::Reconnect, as opposed to Hop::SameOrigin.
LeavesOrigin(from, location) == location.kind = "absolute" /\ location.to # from

\* Variant: credentials follow the request wherever it goes.
AdvanceWithCredentials(req, from, status, location) ==
    ApplyMethodRedirect(req, status)

\* advance, when it is not refused: apply_location strips the credentials of a
\* request that leaves its origin.
Advance(req, from, status, location) ==
    LET next == ApplyMethodRedirect(req, status)
    IN IF LeavesOrigin(from, location) THEN [next EXCEPT !.creds = FALSE] ELSE next
=============================================================================
