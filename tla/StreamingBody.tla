--------------------------- MODULE StreamingBody ----------------------------
(***************************************************************************)
(* body/streaming.rs: the incremental body reader.  The buffer is grown    *)
(* before the socket is read into it and cut back to what arrived only     *)
(* after a read that succeeds.                                             *)
(***************************************************************************)
EXTENDS BodyFraming

CONSTANT Retries    \* whether the consumer reads again after an error

ASSUME StreamingAssumption == Retries \in BOOLEAN

VARIABLES
    done,       \* StreamState::Done
    raw,        \* the raw buffer
    rawPos,     \* raw_pos
    failed,     \* the last read returned an error
    delivered   \* body bytes handed to the consumer

streamVars == <<done, raw, rawPos, failed, delivered>>

\* Variant: surplus bytes in the buffer do not count against reuse.
FinishIgnoringSurplus(pos, buf) == dirty' = ~keep

\* finish: reuse also needs an empty buffer.
Finish(pos, buf) == dirty' = (~keep \/ pos # Len(buf))

\* new: the tail of the head read is the first content of the buffer.
StreamInit ==
    /\ raw = Units(1, pulled) /\ rawPos = 0
    /\ done = (framing = "None")
    /\ failed = FALSE /\ delivered = <<>>

\* The flag as new leaves it: set by the caller, cleared for an empty body.
StreamDirty == framing # "None" \/ ~keep \/ pulled # 0

\* The body is read again: a reader that stops at an error never comes back.
Reading == ~done /\ (Retries \/ ~failed)

\* raw.resize(HEAD_BUF_SIZE, 0)
Resized == raw \o [i \in 1 .. HEAD_BUF_SIZE - Len(raw) |-> FILL]

\* Variant: a short read does not cut the buffer back.
RefillUntruncated ==
    /\ Reading /\ rawPos = Len(raw)
    /\ pulled < WireLen
    /\ raw' = <<pulled + 1>> \o [i \in 1 .. HEAD_BUF_SIZE - 1 |-> FILL]
    /\ rawPos' = 0 /\ pulled' = pulled + 1
    /\ failed' = FALSE
    /\ UNCHANGED <<framing, done, taken, keep, dirty, delivered>>

\* refill, with an empty buffer: data, the end of the connection, or an error
\* the silence budget does not absorb.
Refill ==
    /\ Reading /\ rawPos = Len(raw)
    /\ \/ \E n \in 1 .. HEAD_BUF_SIZE :
              /\ pulled + n <= WireLen
              /\ raw' = Units(pulled + 1, pulled + n) /\ rawPos' = 0
              /\ pulled' = pulled + n
              /\ failed' = FALSE /\ UNCHANGED done
       \/ /\ raw' = <<>> /\ rawPos' = 0          \* Ok(0): the peer closed
          /\ done' = (framing = "UntilClose")
          /\ failed' = ~done'
          /\ UNCHANGED pulled
       \/ /\ raw' = Resized /\ failed' = TRUE    \* Err
          /\ UNCHANGED <<rawPos, pulled, done>>
    /\ UNCHANGED <<framing, taken, keep, dirty, delivered>>

\* One unit decoded from the buffer.  Data is copied whatever it is; a fill
\* byte where a chunk-size line should be is a parse error.
Take ==
    /\ Reading /\ rawPos < Len(raw)
    /\ LET unit == raw[rawPos + 1]
           data == IsData(taken + 1)
           last == framing # "UntilClose" /\ taken + 1 = LastUnit
       IN \/ /\ ~data /\ unit = FILL
             /\ failed' = TRUE
             /\ UNCHANGED <<done, taken, rawPos, dirty, delivered>>
          \/ /\ data \/ unit # FILL
             /\ delivered' = IF data THEN Append(delivered, unit) ELSE delivered
             /\ rawPos' = rawPos + 1 /\ taken' = taken + 1
             /\ done' = last /\ failed' = FALSE
             /\ IF last THEN Finish(rawPos', raw) ELSE UNCHANGED dirty
    /\ UNCHANGED <<framing, raw, pulled, keep>>

Streaming == Refill \/ Take

(***************************************************************************)
(* Properties                                                              *)
(***************************************************************************)

\* However the connection splits the response, the consumer receives the bytes
\* of the body, in order, none lost, none repeated and none invented.
DeliversTheBody ==
    \A i \in 1 .. Len(delivered) : delivered[i] = DataUnit(i)

(***************************************************************************)
(* What the documentation says and the code does not do                    *)
(***************************************************************************)

\* "Raw bytes already pulled off the socket but not yet decoded": the consumer
\* is never given a byte that was not pulled off the socket.
OnlySocketBytes == \A i \in 1 .. Len(delivered) : delivered[i] # FILL
=============================================================================
