--------------------------- MODULE ChunkedStream ----------------------------
(***************************************************************************)
(* A chunked body read off a socket: the reads cut the stream anywhere,    *)
(* the caller's output buffer has any size, and the decoder is called on   *)
(* what is left of a read until it is used up.  Beside it the same bytes   *)
(* are decoded whole, as they arrive.  The stream is not bounded.          *)
(***************************************************************************)
EXTENDS ChunkedDecoder

CONSTANTS
    Reads,          \* what one socket read may return
    Outputs,        \* sizes of the output buffer
    MaxRetries      \* calls made after an error

ASSUME StreamBounds ==
    /\ Reads \subseteq Seq(Byte) \ {<<>>}
    /\ Outputs \subseteq Nat \ {0} /\ MaxRetries \in Nat

VARIABLES
    decoder,    \* the decoder under test
    window,     \* bytes read and not used yet
    result,     \* what the last call returned
    whole,      \* what the bytes read so far decode to, taken whole
    owed,       \* data decoded whole and not delivered yet
    extra,      \* data delivered that is not in the body
    gap,        \* bytes used since the last byte of data, at most MaxGap + 1
    retries     \* calls made after an error

vars == <<decoder, window, result, whole, owed, extra, gap, retries>>

\* What the budgets leave of a stream without data: the CRLF of the last chunk,
\* a size line with its CRLF, the trailer lines with one LF to three charged
\* bytes each, and the CRLF that ends them.
MaxGap ==
    2 + MAX_CHUNK_SIZE_DIGITS + MAX_CHUNK_EXTENSION + 2
      + MAX_TRAILER_SECTION + MAX_TRAILER_SECTION \div 3 + 2

Init ==
    /\ decoder = NewDecoder /\ window = <<>> /\ result = "NeedMore"
    /\ whole = NewDecoder /\ owed = <<>> /\ extra = <<>> /\ gap = 0 /\ retries = 0

\* The window is used up and the body has not ended: another read.
Refill ==
    /\ window = <<>> /\ result \in {"NeedMore", "Data"} /\ decoder.state # "Done"
    /\ \E read \in Reads :
          LET decoded == DecodeWhole(whole, read)
          IN window' = read /\ whole' = decoded.d /\ owed' = owed \o decoded.out
    /\ UNCHANGED <<decoder, result, extra, gap, retries>>

\* One call of decode.
CallDecode ==
    /\ window # <<>> /\ result # "Done" /\ retries < MaxRetries
    /\ \E cap \in Outputs :
          LET call == Decode(decoder, window, cap)
              matched == IF IsPrefix(call.out, owed) THEN Len(call.out) ELSE 0
              used == IF call.out = <<>> THEN gap + call.used ELSE 0
          IN /\ decoder' = call.d /\ result' = call.result
             /\ window' = SubSeq(window, call.used + 1, Len(window))
             /\ owed' = SubSeq(owed, matched + 1, Len(owed))
             /\ extra' = SubSeq(call.out, matched + 1, Len(call.out))
             /\ gap' = IF used > MaxGap THEN MaxGap + 1 ELSE used
             /\ retries' = IF result = "Error" THEN retries + 1 ELSE retries
    /\ UNCHANGED whole

\* The body has ended, or its last error was seen.
Ended ==
    /\ \/ result = "Done" \/ retries = MaxRetries
       \/ window = <<>> /\ decoder.state = "Done"
    /\ UNCHANGED vars

Next == Refill \/ CallDecode \/ Ended

Spec == Init /\ [][Next]_vars

(***************************************************************************)
(* Properties                                                              *)
(***************************************************************************)

\* Where the reads break the stream and how large the output buffer is changes
\* nothing: no byte is delivered that the stream taken whole does not hold, when
\* a read is used up or a verdict returned nothing is still owed, and Done or an
\* error are returned exactly when the whole has ended or was refused, however
\* late, an error staying one when the refused byte is offered again.
SplitsDoNotShow ==
    /\ extra = <<>>
    /\ window = <<>> \/ result \in {"Done", "Error"} => owed = <<>>
    /\ result = "Done" => whole.state = "Done"
    /\ result = "Error" => whole.state = "Failed"
    /\ window = <<>> => (whole.state = "Done") = (decoder.state = "Done") /\ whole.state # "Failed"

\* A call on bytes makes progress: a result that asks for more has used them
\* all, and one that reports data holds some.
EveryCallProgresses ==
    [][CallDecode => \/ result' = "NeedMore" /\ window' = <<>>
                     \/ result' = "Data" /\ (owed' # owed \/ extra' # <<>>)
                     \/ result' \in {"Done", "Error"}]_vars

\* The metadata budgets bound what a peer can send between two bytes of data,
\* over all the size lines, extensions and trailers in between.
MetadataIsBounded == gap <= MaxGap
=============================================================================
