---------------------------- MODULE ResponseBody ----------------------------
(***************************************************************************)
(* The body of one response and the connection it leaves behind: streamed  *)
(* to a consumer (stream_success, execute_streaming) or collected          *)
(* (drain_error_body, send_one).  Either way the flag that makes the next  *)
(* request reconnect was set before.                                       *)
(***************************************************************************)
EXTENDS StreamingBody, BodyCollector

VARIABLE reader    \* "stream" or "collect"

vars == <<reader, responseVars, streamVars, collectorVars>>

Init ==
    /\ reader \in {"stream", "collect"}
    /\ ResponseInit
    /\ StreamInit
    /\ CollectorInit
    /\ dirty = (reader = "stream" => StreamDirty)

\* A body collected whole settles the flag, any other outcome leaves it set.
Settle == dirty' = IF result' = "ok" THEN ~reusable' \/ ~keep ELSE dirty

Stream ==
    /\ reader = "stream"
    /\ Streaming
    /\ UNCHANGED <<reader, collectorVars>>

Collect ==
    /\ reader = "collect"
    /\ Collecting
    /\ Settle
    /\ UNCHANGED <<reader, streamVars>>

Next == Stream \/ Collect

Spec == Init /\ [][Next]_vars

(***************************************************************************)
(* Properties                                                              *)
(***************************************************************************)

\* Whichever reader takes the body and however the connection splits it: the
\* bytes given are those of the body, in order, none lost, repeated or invented,
\* and a body returned whole is whole and within max_response_body.
BodyIsTheMessages == DeliversTheBody /\ ReturnsTheBody

\* A connection is handed back for another request only when this response was
\* consumed to its end, nothing past it was pulled off and lost with a buffer,
\* and the head allowed it, whichever reader took the body and however the
\* connection split it.
CleanMeansExact ==
    ~dirty => /\ keep
              /\ pulled = LastUnit
              /\ IF reader = "stream" THEN done ELSE result = "ok"
=============================================================================
