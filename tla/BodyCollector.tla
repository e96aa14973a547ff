--------------------------- MODULE BodyCollector ----------------------------
(***************************************************************************)
(* body/collect.rs: the buffered body reader of the blocking client and of *)
(* the async error bodies.  It takes the tail of the head read, then reads *)
(* the connection until the framing says the body is over, the limit is    *)
(* passed or a read fails.                                                 *)
(***************************************************************************)
EXTENDS BodyFraming

CONSTANT MaxBodies  \* the values of Config::max_response_body tried

ASSUME CollectorAssumption == MaxBodies \subseteq Nat

VARIABLES
    max_body,
    result,     \* "new", "reading", "ok", "error"
    input,      \* units pulled off the connection and not decoded
    body,       \* what is returned
    reusable    \* is_reusable

collectorVars == <<max_body, result, input, body, reusable>>

CollectorInit ==
    /\ max_body \in MaxBodies
    /\ input = Units(1, pulled)
    /\ result = "new" /\ body = <<>> /\ reusable = TRUE

\* read_content_length up to its first read: the limit, then the tail.
StartLength ==
    /\ framing = "ContentLength"
    /\ \/ BodyLen > max_body /\ result' = "error" /\ UNCHANGED <<input, taken, body, reusable>>
       \/ /\ BodyLen <= max_body
          /\ LET n == IF Len(input) < BodyLen THEN Len(input) ELSE BodyLen
             IN body' = SubSeq(input, 1, n) /\ taken' = n
          /\ result' = IF Len(input) < BodyLen THEN "reading" ELSE "ok"
          /\ input' = <<>> /\ reusable' = (Len(input) <= BodyLen)

\* read, and the tail of each framing.
Start ==
    /\ result = "new"
    /\ \/ /\ framing = "None"
          /\ result' = "ok" /\ reusable' = (input = <<>>)
          /\ UNCHANGED <<input, taken, body>>
       \/ StartLength
       \/ /\ framing = "Chunked" /\ result' = "reading"
          /\ UNCHANGED <<input, taken, body, reusable>>
       \/ /\ framing = "UntilClose" /\ reusable' = FALSE
          /\ result' = IF Len(input) > max_body THEN "error" ELSE "reading"
          /\ body' = input /\ taken' = Len(input) /\ input' = <<>>
    /\ UNCHANGED <<framing, max_body, pulled, keep>>

\* What one read may ask for: read_exact fills the rest of the declared body,
\* the others a scratch buffer.
ReadSize == IF framing = "ContentLength" THEN BodyLen - taken ELSE HEAD_BUF_SIZE

\* A read through the silence budget: data, the end of the connection, an error.
ReadMore ==
    /\ result = "reading" /\ input = <<>>
    /\ \/ \E n \in 1 .. ReadSize :
              /\ pulled + n <= WireLen
              /\ pulled' = pulled + n
              /\ LET got == Units(pulled + 1, pulled + n)
                 IN IF framing = "Chunked"
                    THEN input' = got /\ UNCHANGED <<taken, body, result>>
                    ELSE /\ body' = body \o got /\ taken' = taken + n
                         /\ result' =
                              CASE framing = "ContentLength" /\ taken' = BodyLen -> "ok"
                                [] framing = "UntilClose" /\ Len(body') > max_body -> "error"
                                [] OTHER -> "reading"
                         /\ UNCHANGED input
       \/ /\ result' = IF framing = "UntilClose" THEN "ok" ELSE "error"
          /\ UNCHANGED <<input, taken, pulled, body>>
       \/ result' = "error" /\ UNCHANGED <<input, taken, pulled, body>>
    /\ UNCHANGED <<framing, max_body, keep, reusable>>

\* read_chunked taking one unit of its input.
DecodeUnit ==
    /\ taken' = taken + 1 /\ input' = Tail(input)
    /\ body' = IF IsData(taken') THEN Append(body, Head(input)) ELSE body
    /\ result' = CASE Len(body') > max_body -> "error"
                   [] Len(body') <= max_body /\ taken' = LastUnit -> "ok"
                   [] OTHER -> "reading"
    /\ reusable' = IF result' = "ok" THEN input' = <<>> ELSE reusable

\* A unit that delimits chunks may be malformed, which ends the body.
Decode ==
    /\ result = "reading" /\ input # <<>>
    /\ \/ DecodeUnit
       \/ /\ ~IsData(taken + 1)
          /\ result' = "error"
          /\ UNCHANGED <<taken, input, body, reusable>>
    /\ UNCHANGED <<framing, max_body, pulled, keep>>

Collecting == Start \/ ReadMore \/ Decode

(***************************************************************************)
(* Properties                                                              *)
(***************************************************************************)

\* A body that is returned is the body that was sent: all of a delimited one,
\* in order, however the connection split it, and never above max_response_body.
ReturnsTheBody ==
    result = "ok" =>
        /\ \A i \in 1 .. Len(body) : body[i] = DataUnit(i)
        /\ framing \in {"ContentLength", "Chunked"} => Len(body) = BodyLen
        /\ Len(body) <= max_body
=============================================================================
