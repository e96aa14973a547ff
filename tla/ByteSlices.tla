----------------------------- MODULE ByteSlices -----------------------------
(***************************************************************************)
(* bytes.rs: the operations on byte slices that the parsers share.  A      *)
(* slice is a sequence of symbols; a symbol is a byte, or a word the       *)
(* parsers only ever compare as a whole (a header name, a coding, a        *)
(* status code), and stands for its spellings in either case.  "sp" is SP  *)
(* or HTAB, which every condition treats alike outside URLs, but for the   *)
(* status line: its parts are separated by SP, and there "sp" is SP.       *)
(***************************************************************************)
EXTENDS Integers, Sequences, SequencesExt

\* Err(error), where a success is a record with ok |-> TRUE.
Bad(error) == [ok |-> FALSE, error |-> error]

First(s, n) == SubSeq(s, 1, n)
From(s, n) == SubSeq(s, n, Len(s))
Over(s, symbols) == \A i \in DOMAIN s : s[i] \in symbols

Digit == {"0", "1", "2", "3", "4", "5", "6", "7", "8", "9"}
ValueOf ==
    [d \in Digit |-> CHOOSE n \in 0 .. 9 :
        d = <<"0", "1", "2", "3", "4", "5", "6", "7", "8", "9">>[n + 1]]

\* trim_ows
TrimOws(s) ==
    LET ink == {i \in DOMAIN s : s[i] # "sp"}
    IN IF ink = {} THEN <<>> ELSE SubSeq(s, Min(ink), Max(ink))

\* parse_u64, where `max` is the largest value its width holds: checked
\* multiplication and addition, digit by digit.  The value, or -1 for None.
ParseNumber(s, max) ==
    LET digits == TrimOws(s)
        Step(n, d) == IF n = -1 \/ n * 10 + ValueOf[d] > max THEN -1 ELSE n * 10 + ValueOf[d]
    IN IF digits = <<>> \/ ~Over(digits, Digit) THEN -1 ELSE FoldLeft(Step, 0, digits)

\* slice::split: the pieces between the separators, empty ones included.
Split(s, separator) ==
    LET Step(pieces, b) ==
            IF b = separator THEN Append(pieces, <<>>)
            ELSE [pieces EXCEPT ![Len(pieces)] = Append(@, b)]
    IN FoldLeft(Step, <<<<>>>>, s)

\* contains_token_ignore_case
ContainsToken(s, token) ==
    \E i \in DOMAIN Split(s, ",") : TrimOws(Split(s, ",")[i]) = <<token>>

\* find_subsequence, in s from position `from` on: a position, or 0 for None.
FindFrom(s, needle, from) ==
    LET at == {i \in from .. Len(s) - Len(needle) + 1 :
                  SubSeq(s, i, i + Len(needle) - 1) = needle}
    IN IF at = {} THEN 0 ELSE Min(at)

CRLF == <<"cr", "lf">>

\* find_crlf
FindCrlf(s) == FindFrom(s, CRLF, 1)
=============================================================================
