----------------------------- MODULE HeadReader -----------------------------
(***************************************************************************)
(* response/head.rs of xibalba-client: HeadData::read_response taking a    *)
(* response head off a socket whose reads stop anywhere, past interim      *)
(* responses, up to the final head and the body bytes that came with it.   *)
(***************************************************************************)
EXTENDS HeadGrammar

CONSTANTS
    Streams,                \* bound: what the peer sends before it closes
    RequestMethods,         \* bound: the methods of the request answered
    HEAD_BUF_SIZE,          \* the largest read
    MAX_HEAD_SIZE,
    MAX_INTERIM_RESPONSES

ASSUME ReaderAssumption ==
    /\ HEAD_BUF_SIZE \in Nat \ {0} /\ MAX_HEAD_SIZE \in Nat /\ MAX_INTERIM_RESPONSES \in Nat
    /\ RequestMethods # {}

VARIABLES
    stream,         \* everything the peer sends, fixed
    method,         \* of the request, fixed
    taken,          \* bytes read off the socket
    acc,            \* head_acc
    scanned,        \* bytes of it already searched
    interims,       \* interim_seen
    pc,
    outcome         \* what read_response returned

vars == <<stream, method, taken, acc, scanned, interims, pc, outcome>>

HeadEnd == CRLF \o CRLF

\* An outcome without a head, and one with it.
Plain(what) == [is |-> what]
Final(head, headers, framing, body) ==
    [is |-> "head", version |-> head.version, status |-> head.status, headers |-> headers,
     framing |-> framing, body |-> body]

IsInterim(status) == status \in Informational /\ status # "101"

Init ==
    /\ stream \in Streams /\ method \in RequestMethods
    /\ taken = 0 /\ acc = <<>> /\ scanned = 0 /\ interims = 0
    /\ pc = "scan" /\ outcome = Plain("none")

Finish(what) == pc' = "done" /\ outcome' = what

\* Variant: the search resumes where the last one ended.
ScanFromTheEnd == scanned + 1

\* Where the search resumes: the terminator may straddle two reads.
ScanFrom == IF scanned < 3 THEN 1 ELSE scanned - 2

\* The offset read_until_head_end returns, or 0 when there is none yet.
FoundEnd ==
    LET at == FindFrom(acc, HeadEnd, ScanFrom)
    IN IF at = 0 THEN 0 ELSE at + 3

\* No terminator yet: more is read, unless the limit is passed.
ScanMore ==
    /\ pc = "scan" /\ FoundEnd = 0
    /\ \/ Len(acc) > MAX_HEAD_SIZE /\ Finish(Plain("rejected")) /\ UNCHANGED scanned
       \/ Len(acc) <= MAX_HEAD_SIZE /\ scanned' = Len(acc) /\ pc' = "read" /\ UNCHANGED outcome
    /\ UNCHANGED <<stream, method, taken, acc, interims>>

\* What is made of the head that ends at `end`: refused, skipped as a 1xx
\* other than 101, or returned as a copy of its bytes with the ranges into it,
\* the framing, and what follows it left for the body.
Framed(head, buf, framing, rest) ==
    IF ~framing.ok THEN Plain("rejected")
    ELSE IF \E i \in DOMAIN head.ranges : ~RangeWithin(head.ranges[i], Len(buf))
         THEN Plain("HeaderNotInBuffer")
    ELSE Final(head, HeadersIn(buf, head.ranges), framing.value, rest)

JudgedAs(head, buf, rest) ==
    IF Len(buf) > MAX_HEAD_SIZE \/ ~head.ok THEN Plain("rejected")
    ELSE IF IsInterim(head.status)
         THEN Plain(IF interims < MAX_INTERIM_RESPONSES THEN "interim" ELSE "rejected")
    ELSE Framed(head, buf, FromResponse(head.status, method, HeadersIn(buf, head.ranges)), rest)

Judged(end) ==
    JudgedAs(Parse(First(acc, end)), First(acc, end),
             From(acc, end + 1) \o From(stream, taken + 1))

\* An interim head is dropped from the buffer, and the search starts again.
SkipInterim ==
    /\ pc = "scan" /\ FoundEnd # 0 /\ Judged(FoundEnd).is = "interim"
    /\ interims' = interims + 1
    /\ acc' = From(acc, FoundEnd + 1)
    /\ scanned' = 0
    /\ UNCHANGED <<stream, method, taken, pc, outcome>>

Return ==
    /\ pc = "scan" /\ FoundEnd # 0
    /\ \E what \in {Judged(FoundEnd)} : what.is # "interim" /\ Finish(what)
    /\ UNCHANGED <<stream, method, taken, acc, scanned, interims>>

\* One read of the budget: any part of what is there, the end, or an error.
Read ==
    /\ pc = "read"
    /\ \/ \E n \in 1 .. HEAD_BUF_SIZE :
             /\ taken + n <= Len(stream) /\ taken' = taken + n
             /\ acc' = acc \o SubSeq(stream, taken + 1, taken + n)
             /\ pc' = "scan" /\ UNCHANGED outcome
       \/ taken = Len(stream) /\ Finish(Plain("ConnectionClosed")) /\ UNCHANGED <<taken, acc>>
       \/ Finish(Plain("io")) /\ UNCHANGED <<taken, acc>>
    /\ UNCHANGED <<stream, method, scanned, interims>>

Returned == pc = "done" /\ UNCHANGED vars

Next == ScanMore \/ SkipInterim \/ Return \/ Read \/ Returned

Spec == Init /\ [][Next]_vars

(***************************************************************************)
(* Properties                                                              *)
(***************************************************************************)

\* What a stream means when it is looked at as a whole: the first head that is
\* no interim one, with everything after it, if each head fits the limit and
\* there are not too many; `left` is how many more interim heads there may be.
RECURSIVE Meaning(_, _)
Meaning(s, left) ==
    LET heads == Heads(s)
        head == CHOOSE h \in heads : TRUE
        rest == From(s, head.consumed + 1)
        framing == FromResponse(head.status, method, head.headers)
        complete == \E i \in 1 .. Len(s) - 3 : SubSeq(s, i, i + 3) = HeadEnd
    IN IF ~complete /\ Len(s) <= MAX_HEAD_SIZE THEN Plain("ConnectionClosed")
       ELSE IF heads = {} \/ head.consumed > MAX_HEAD_SIZE THEN Plain("rejected")
       ELSE IF IsInterim(head.status)
            THEN IF left = 0 THEN Plain("rejected") ELSE Meaning(rest, left - 1)
       ELSE IF ~framing.ok THEN Plain("rejected")
       ELSE Final(head, head.headers, framing.value, rest)

\* However the socket cuts the stream into reads, read_response returns what
\* the stream means as a whole: the same final head past the same interim ones,
\* its headers from the ranges, and a body that starts at the byte after it;
\* and it reports a close, which a caller may answer with a replay, only when
\* no head had ended.
HeadIsTheStreams ==
    outcome.is \notin {"none", "io"} => outcome = Meaning(stream, MAX_INTERIM_RESPONSES)
=============================================================================
