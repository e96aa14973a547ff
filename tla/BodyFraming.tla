---------------------------- MODULE BodyFraming -----------------------------
(***************************************************************************)
(* framing.rs and what a body looks like on the connection.  A response is *)
(* a row of units numbered from 1; some carry body data and some only      *)
(* delimit it (chunk sizes, terminators, trailers).  Units past the last   *)
(* one belong to something else.                                           *)
(***************************************************************************)
EXTENDS Integers, Sequences

CONSTANTS
    BodyLen,    \* units of body data of a delimited response
    Surplus,    \* units the peer sends past the end of the response
    HEAD_BUF_SIZE

ASSUME FramingAssumption ==
    BodyLen \in Nat \ {0} /\ Surplus \in Nat /\ HEAD_BUF_SIZE \in Nat \ {0}

VARIABLES
    framing,    \* of the response
    taken,      \* units its reader has decoded
    pulled,     \* units taken off the connection
    keep,       \* the head permits reuse: ConnectionReuse::is_keep
    dirty       \* Client::dirty

responseVars == <<framing, taken, pulled, keep, dirty>>

\* BodyFraming; a Content-Length of zero is handled as None.
Framing == {"None", "ContentLength", "Chunked", "UntilClose"}

\* A byte that never was on the connection.
FILL == 0

\* The last unit of the response.  Each chunk is a size line followed by one
\* unit of data, and the last chunk ends the body.
LastUnit ==
    CASE framing = "None" -> 0
      [] framing \in {"ContentLength", "UntilClose"} -> BodyLen
      [] framing = "Chunked" -> 2 * BodyLen + 1

\* Whether the n-th unit the decoder takes is body data.
IsData(n) == framing = "Chunked" => n % 2 = 0

\* The unit that carries the i-th byte of the body.
DataUnit(i) == IF framing = "Chunked" THEN 2 * i ELSE i

\* What the peer sends before it stops: a close-delimited response ends with
\* the connection and has no surplus.
WireLen ==
    LastUnit + (IF framing = "UntilClose" THEN 0 ELSE Surplus)

\* A head was read.  The tail of that read, of HEAD_BUF_SIZE at most with the
\* last byte of the head in it, already holds some of the response.
ResponseInit ==
    /\ framing \in Framing
    /\ pulled \in 0 .. HEAD_BUF_SIZE - 1 /\ pulled <= WireLen
    /\ taken = 0 /\ keep \in BOOLEAN

Units(from, to) == [i \in 1 .. to - from + 1 |-> from + i - 1]
=============================================================================
