--------------------------- MODULE ChunkedDecoder ---------------------------
(***************************************************************************)
(* response/chunked.rs: the decoder of the chunked transfer coding, as     *)
(* operators on its state.  Bytes are the classes its conditions tell      *)
(* apart; the radix, the largest size and the three metadata budgets are   *)
(* parameters (16, 2^64 - 1, 1024, 4096 and 8192 in the code).             *)
(***************************************************************************)
EXTENDS Integers, Sequences, SequencesExt, TLC

CONSTANTS
    Radix,                  \* of the chunk size
    SIZE_MAX,               \* the largest chunk size
    MAX_CHUNK_SIZE_DIGITS,
    MAX_CHUNK_EXTENSION,
    MAX_TRAILER_SECTION

ASSUME DecoderBounds ==
    /\ Radix \in Nat \ {0, 1} /\ SIZE_MAX \in Nat
    /\ MAX_CHUNK_SIZE_DIGITS \in Nat \ {0}
    /\ MAX_CHUNK_EXTENSION \in Nat /\ MAX_TRAILER_SECTION \in Nat

\* "x" is any token byte that is no digit, "(" any other printable byte.
Byte == {"0", "1", "x", "(", ";", "=", ":", "dquote", "bslash", "sp", "cr", "lf", "ctl"}

\* HexDigit::decode
HexDigit == {"0", "1"}
DigitValue(b) == IF b = "0" THEN 0 ELSE 1

\* Tchar::is_valid
Tchar == HexDigit \cup {"x"}

\* is_metadata_byte
MetadataByte == Byte \ {"cr", "lf", "ctl"}

SizeState == {"Size", "Extension", "SizeLf"}
TerminatorState == {"DataCr", "DataLf"}
TrailerState == {"Trailer", "TrailerLf"}
ChunkedState ==
    SizeState \cup {"Data"} \cup TerminatorState \cup TrailerState \cup {"Done", "Failed"}

ExtPhase ==
    {"BeforeName", "Name", "AfterName", "BeforeValue", "ValueToken", "ValueQuoted",
     "ValueQuotedEscaped", "AfterValue"}

\* ChunkedDecoder::new
NewDecoder ==
    [state |-> "Size", size |-> 0, sawDigit |-> FALSE, remaining |-> 0, lineEmpty |-> TRUE,
     digits |-> 0, ext |-> 0, trailer |-> 0, phase |-> "BeforeName",
     afterColon |-> FALSE, nameLen |-> 0]

\* What one byte does: the decoder afterwards, whether the byte was refused
\* (and is then not consumed), and the data it produced.
Accept(d) == [d |-> d, refused |-> FALSE, data |-> <<>>]
Refuse(d) == [d |-> d, refused |-> TRUE, data |-> <<>>]

Between == {"Name", "AfterName", "ValueToken", "AfterValue"}

\* step_extension: the phase after one byte of an extension.
NextPhase(p, b) ==
    CASE b = "sp" /\ p \in {"BeforeName", "BeforeValue"}         -> p
      [] b = "sp" /\ p \in {"Name", "AfterName"}                 -> "AfterName"
      [] b = "sp" /\ p \in {"ValueToken", "AfterValue"}          -> "AfterValue"
      [] b \in Tchar /\ p \in {"BeforeName", "Name"}             -> "Name"
      [] b = "=" /\ p \in {"Name", "AfterName"}                  -> "BeforeValue"
      [] b = ";" /\ p \in Between                                -> "BeforeName"
      [] b = "cr" /\ p \in Between                               -> "EndOfLine"
      [] b = "dquote" /\ p = "BeforeValue"                       -> "ValueQuoted"
      [] b \in Tchar /\ p \in {"BeforeValue", "ValueToken"}      -> "ValueToken"
      [] b = "bslash" /\ p = "ValueQuoted"                       -> "ValueQuotedEscaped"
      [] b = "dquote" /\ p = "ValueQuoted"                       -> "AfterValue"
      [] b \in MetadataByte \ {"bslash", "dquote"} /\ p = "ValueQuoted" -> "ValueQuoted"
      [] b \in MetadataByte /\ p = "ValueQuotedEscaped"          -> "ValueQuoted"
      [] OTHER                                                   -> "Invalid"

\* advance_extension: the CR that ends the line is not charged.
AdvanceExtension(d, b) ==
    LET p == NextPhase(d.phase, b) IN
    CASE p = "Invalid"   -> Refuse(d)
      [] p = "EndOfLine" -> Accept([d EXCEPT !.remaining = d.size, !.state = "SizeLf"])
      [] OTHER ->
            LET charged == [d EXCEPT !.phase = p, !.ext = @ + 1]
            IN IF charged.ext <= MAX_CHUNK_EXTENSION THEN Accept(charged) ELSE Refuse(charged)

\* Variant: the size is reduced to its width instead of refused.
SizeDigitWrapping(d, b) ==
    LET charged == [d EXCEPT !.digits = @ + 1]
        size == d.size * Radix + DigitValue(b)
    IN IF charged.digits > MAX_CHUNK_SIZE_DIGITS
       THEN Refuse(charged)
       ELSE Accept([charged EXCEPT !.sawDigit = TRUE, !.size = size % (SIZE_MAX + 1)])

\* A digit of the size: charged, then multiplied in with the overflow checked.
SizeDigit(d, b) ==
    LET charged == [d EXCEPT !.digits = @ + 1]
        size == d.size * Radix + DigitValue(b)
        seen == [charged EXCEPT !.sawDigit = TRUE]
    IN IF charged.digits > MAX_CHUNK_SIZE_DIGITS THEN Refuse(charged)
       ELSE IF size > SIZE_MAX THEN Refuse(seen)
       ELSE Accept([seen EXCEPT !.size = size])

\* read_size_line.  The zero chunk returns its extension budget.
SizeLineByte(d, b) ==
    CASE d.state = "Size" /\ b \in HexDigit -> SizeDigit(d, b)
      [] d.state = "Size" /\ b = "cr" /\ d.sawDigit ->
            Accept([d EXCEPT !.remaining = d.size, !.state = "SizeLf"])
      [] d.state = "Size" /\ b \in {";", "sp"} /\ d.sawDigit ->
            AdvanceExtension([d EXCEPT !.state = "Extension", !.phase = "AfterValue"], b)
      [] d.state = "Extension" -> AdvanceExtension(d, b)
      [] d.state = "SizeLf" /\ b = "lf" /\ d.size = 0 ->
            Accept([d EXCEPT !.state = "Trailer", !.lineEmpty = TRUE, !.ext = 0])
      [] d.state = "SizeLf" /\ b = "lf" /\ d.size # 0 -> Accept([d EXCEPT !.state = "Data"])
      [] OTHER -> Refuse(d)

\* read_data, one byte of it.
DataByte(d, b) ==
    LET left == d.remaining - 1 IN
    [d |-> [d EXCEPT !.remaining = left, !.state = IF left = 0 THEN "DataCr" ELSE "Data"],
     refused |-> FALSE, data |-> <<b>>]

\* read_data_terminator
TerminatorByte(d, b) ==
    CASE d.state = "DataCr" /\ b = "cr" -> Accept([d EXCEPT !.state = "DataLf"])
      [] d.state = "DataLf" /\ b = "lf" ->
            Accept([d EXCEPT !.size = 0, !.sawDigit = FALSE, !.ext = 0, !.digits = 0,
                             !.phase = "BeforeName", !.state = "Size"])
      [] OTHER -> Refuse(d)

\* Variant: the budget is given back with every trailer line.
TrailerLineResetting(d) ==
    IF d.lineEmpty
    THEN [d EXCEPT !.state = "Done"]
    ELSE [d EXCEPT !.state = "Trailer", !.lineEmpty = TRUE, !.afterColon = FALSE,
                   !.nameLen = 0, !.trailer = 0]

\* The LF of a trailer line: an empty line ends the body.
TrailerLine(d) ==
    IF d.lineEmpty
    THEN [d EXCEPT !.state = "Done"]
    ELSE [d EXCEPT !.state = "Trailer", !.lineEmpty = TRUE, !.afterColon = FALSE, !.nameLen = 0]

\* A byte of a trailer line, once charged.
TrailerField(d, b) ==
    LET line == [d EXCEPT !.lineEmpty = FALSE] IN
    CASE ~d.afterColon /\ b = ":" /\ d.nameLen > 0 -> Accept([line EXCEPT !.afterColon = TRUE])
      [] ~d.afterColon /\ b \in Tchar              -> Accept([line EXCEPT !.nameLen = @ + 1])
      [] d.afterColon /\ b \in MetadataByte        -> Accept(line)
      [] d.afterColon /\ b = "cr"                  -> Accept([line EXCEPT !.state = "TrailerLf"])
      [] OTHER                                     -> Refuse(line)

\* read_trailer
TrailerByte(d, b) ==
    CASE d.state = "TrailerLf" -> IF b = "lf" THEN Accept(TrailerLine(d)) ELSE Refuse(d)
      [] d.state = "Trailer" /\ b = "cr" /\ ~d.afterColon /\ d.nameLen = 0 ->
            Accept([d EXCEPT !.state = "TrailerLf"])
      [] OTHER ->
            LET charged == [d EXCEPT !.trailer = @ + 1]
            IN IF charged.trailer <= MAX_TRAILER_SECTION THEN TrailerField(charged, b)
               ELSE Refuse(charged)

\* The dispatch of decode.
OnByte(d, b) ==
    CASE d.state \in SizeState       -> SizeLineByte(d, b)
      [] d.state = "Data"            -> DataByte(d, b)
      [] d.state \in TerminatorState -> TerminatorByte(d, b)
      [] d.state \in TrailerState    -> TrailerByte(d, b)

\* Variant: an error discards what was decoded before it.
DeliverError(d, out) ==
    [d |-> d, out |-> <<>>, result |-> "Error"]

\* deliver, for an error: data decoded before it goes first, and the verdict is
\* held for the next call.
Deliver(d, out) ==
    IF out # <<>>
    THEN [d |-> [d EXCEPT !.state = "Failed"], out |-> out, result |-> "Data"]
    ELSE [d |-> d, out |-> out, result |-> "Error"]

\* Variant: the buffer is taken for full one byte early.
TurnEarly(cap, acc, b) ==
    LET step == OnByte(acc.d, b)
    IN CASE acc.result # "" \/ acc.d.state = "Done" -> acc
         [] acc.result = "" /\ acc.d.state = "Data" /\ Len(acc.out) + 1 >= cap ->
                [acc EXCEPT !.result = "Data"]
         [] OTHER ->
                IF step.refused
                THEN [used |-> acc.used] @@ Deliver(step.d, acc.out)
                ELSE [d |-> step.d, used |-> acc.used + 1, out |-> acc.out \o step.data,
                      result |-> ""]

\* One turn of decode's loop; "" is a loop that goes on.
Turn(cap, acc, b) ==
    LET step == OnByte(acc.d, b)
        entered == acc.d.state = "SizeLf" /\ step.d.state = "Data"
    IN CASE acc.result # "" \/ acc.d.state = "Done" -> acc
         [] acc.result = "" /\ acc.d.state = "Data" /\ Len(acc.out) = cap ->
                [acc EXCEPT !.result = "Data"]
         [] OTHER ->
                IF step.refused
                THEN [used |-> acc.used] @@ Deliver(step.d, acc.out)
                ELSE [d |-> step.d, used |-> acc.used + 1, out |-> acc.out \o step.data,
                      result |-> IF entered /\ acc.out # <<>> THEN "Data" ELSE ""]

\* How decode ends when the input runs out: data first, then the verdict.
Conclude(acc) ==
    IF acc.result # "" THEN acc
    ELSE [acc EXCEPT !.result = CASE acc.out # <<>> -> "Data"
                                  [] acc.out = <<>> /\ acc.d.state = "Done" -> "Done"
                                  [] OTHER -> "NeedMore"]

\* decode, with an output buffer of cap bytes: the decoder afterwards, the bytes
\* of the input it used, the data and the result it returned.
Decode(d, input, cap) ==
    IF d.state = "Failed"
    THEN [d |-> d, used |-> 0, out |-> <<>>, result |-> "Error"]
    ELSE LET after[i \in 0 .. Len(input)] ==
                 IF i = 0 THEN [d |-> d, used |-> 0, out |-> <<>>, result |-> ""]
                 ELSE Turn(cap, after[i - 1], input[i])
         IN Conclude(after[Len(input)])

\* The bytes decoded whole: they go in one at a time until a verdict.
WholeByte(acc, b) ==
    LET step == OnByte(acc.d, b)
    IN CASE acc.d.state \in {"Done", "Failed"} -> acc
         [] OTHER -> IF step.refused
                     THEN [acc EXCEPT !.d = [step.d EXCEPT !.state = "Failed"]]
                     ELSE [d |-> step.d, used |-> acc.used + 1, out |-> acc.out \o step.data]

DecodeWhole(d, bytes) ==
    LET after[i \in 0 .. Len(bytes)] ==
            IF i = 0 THEN [d |-> d, used |-> 0, out |-> <<>>]
            ELSE WholeByte(after[i - 1], bytes[i])
    IN after[Len(bytes)]
=============================================================================
