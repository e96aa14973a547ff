---------------------------- MODULE RequestHead -----------------------------
(***************************************************************************)
(* params.rs, request.rs and the start of send_head_once: how a request is *)
(* checked, completed with the headers the client manages, and written.  A *)
(* request is [method, path, query, body, headers]: an absent query is the *)
(* empty set, an absent body is NONE and a present one its length, and     *)
(* `headers` are the caller's own, in order.                               *)
(***************************************************************************)
EXTENDS Url, ResponseHead

Managed == {<<"Host">>, <<"CL">>, <<"TE">>}
Repeatable == {<<"Cookie">>}

\* Variant: only the headers the client writes are looked at.
ValidExtraHeadersManaged(headers) == \A i \in DOMAIN headers : headers[i].name \notin Managed

\* validate_extra_headers
ValidExtraHeaders(headers) ==
    \A i \in DOMAIN headers :
        /\ headers[i].name \notin Managed
        /\ headers[i].name \in Repeatable
              \/ \A j \in DOMAIN headers \ {i} : headers[j].name # headers[i].name

\* Request::is_target_byte
IsTargetByte(b) == b \notin Control \cup {"sp"}

ValidTarget(path, query) ==
    path # <<>> /\ \A part \in {path} \cup query : \A i \in DOMAIN part : IsTargetByte(part[i])
ValidHeaders(headers) ==
    \A i \in DOMAIN headers :
        /\ headers[i].name # <<>> /\ \A k \in DOMAIN headers[i].name : IsTchar(headers[i].name[k])
        /\ \A k \in DOMAIN headers[i].value : headers[i].value[k] \notin Control

\* Request::validate, before anything is written.
Validate(req, headers) ==
    IF ~ValidTarget(req.path, req.query) THEN Bad("InvalidPath")
    ELSE IF ~ValidHeaders(headers) THEN Bad("InvalidHeader")
    ELSE [ok |-> TRUE, bytes |-> <<>>]

\* The headers of send_head_once: Host from the connection's origin, the
\* caller's, and the length of a body or of the empty one of some methods.
WireHeaders(req, origin) ==
    LET length == IF req.body # NONE THEN req.body
                  ELSE IF req.method \in {"POST", "PUT", "PATCH"} THEN 0 ELSE NONE
    IN <<[name |-> <<"Host">>, value |-> HostHeaderValue(origin)]>> \o req.headers
       \o (IF length = NONE THEN <<>> ELSE <<[name |-> <<"CL">>, value |-> Decimal(length)]>>)

Target(path, query) ==
    path \o (IF query = {} THEN <<>> ELSE <<"?">> \o CHOOSE q \in query : TRUE)

\* The pieces Request writes, in order, to a writer or to a buffer.
WritePieces(req, headers) ==
    <<<<req.method>>, <<"sp">>, Target(req.path, req.query), <<"sp">>, <<"HTTP/1.1">>, CRLF>>
    \o FlattenSeq([i \in DOMAIN headers |->
                      <<headers[i].name, <<":", "sp">>, headers[i].value, CRLF>>])
    \o <<CRLF>>

\* serialize_to_writer
SerializeToWriter(req, headers) ==
    IF Validate(req, headers).ok
    THEN [ok |-> TRUE, bytes |-> FlattenSeq(WritePieces(req, headers))] ELSE Bad("InvalidInput")

\* BufWriter: what does not fit is not written, and ends the writing.
WriteBytes(w, piece, capacity) ==
    IF ~w.ok THEN w
    ELSE IF Len(w.bytes) + Len(piece) > capacity THEN Bad("BufferTooSmall")
    ELSE [w EXCEPT !.bytes = @ \o piece]

\* serialize_to_buf
SerializeToBuf(req, headers, capacity) ==
    LET Step(w, piece) == WriteBytes(w, piece, capacity)
    IN FoldLeft(Step, Validate(req, headers), WritePieces(req, headers))

\* serialized_len, the method and the version counting as one
SerializedLen(req, headers) ==
    LET query == IF req.query = {} THEN 0 ELSE 1 + Len(CHOOSE q \in req.query : TRUE)
        Lines(n, h) == n + Len(h.name) + 2 + Len(h.value) + 2
    IN FoldLeft(Lines, 1 + 1 + Len(req.path) + query + 1 + 1 + 2, headers) + 2

\* A request as the client takes it: into_params, then send_head_once.
Written(req, origin) ==
    IF ~ValidExtraHeaders(req.headers) THEN Bad("DuplicateHeader")
    ELSE SerializeToWriter(req, WireHeaders(req, origin))
=============================================================================
