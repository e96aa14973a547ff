--------------------------- MODULE ChunkedGrammar ---------------------------
(***************************************************************************)
(* The language the chunked decoder accepts: a reference definition of a   *)
(* chunked body (RFC 9112, section 7.1, with the decoder's limits), and    *)
(* what the decoder makes of the same string.                              *)
(***************************************************************************)
EXTENDS ChunkedDecoder, ByteSlices

Bws(s) == Over(s, {"sp"})
Token(s) == s # <<>> /\ Over(s, Tchar)

\* DQUOTE *( qdtext / quoted-pair ) DQUOTE: a quote or a backslash inside is
\* the second half of a pair.
RECURSIVE QuotedText(_)
QuotedText(s) ==
    \/ s = <<>>
    \/ s[1] \in MetadataByte \ {"dquote", "bslash"} /\ QuotedText(Tail(s))
    \/ s[1] = "bslash" /\ Len(s) > 1 /\ s[2] \in MetadataByte /\ QuotedText(From(s, 3))

QuotedString(s) ==
    Len(s) > 1 /\ s[1] = "dquote" /\ s[Len(s)] = "dquote" /\ QuotedText(SubSeq(s, 2, Len(s) - 1))

\* s is a part satisfying P followed by a part satisfying Q.
Cut(s, P(_), Q(_)) == \E n \in 0 .. Len(s) : P(First(s, n)) /\ Q(From(s, n + 1))

\* BWS c BWS
Delimiter(s, c) ==
    \E n \in DOMAIN s : s[n] = c /\ Bws(First(s, n - 1)) /\ Bws(From(s, n + 1))

\* BWS "=" BWS chunk-ext-val
Assignment(s) ==
    Cut(s, LAMBDA p : Delimiter(p, "="), LAMBDA p : Token(p) \/ QuotedString(p))

\* BWS ";" BWS chunk-ext-name [ BWS "=" BWS chunk-ext-val ]
OneExtension(s) ==
    Cut(s, LAMBDA p : Delimiter(p, ";"),
           LAMBDA p : Token(p) \/ Cut(p, Token, Assignment))

RECURSIVE ChunkExt(_)
ChunkExt(s) ==
    \/ s = <<>>
    \/ \E n \in DOMAIN s : OneExtension(First(s, n)) /\ ChunkExt(From(s, n + 1))

\* Extensions, and the white space the decoder also lets end the line.
ExtensionPart(s) == Cut(s, ChunkExt, Bws)

RECURSIVE SizeOf(_)
SizeOf(s) == IF s = <<>> THEN 0 ELSE SizeOf(Front(s)) * Radix + DigitValue(Last(s))

\* chunk-size [ chunk-ext ], with n digits
SizeLine(s, n) ==
    /\ n <= MAX_CHUNK_SIZE_DIGITS /\ Over(First(s, n), HexDigit)
    /\ SizeOf(First(s, n)) <= SIZE_MAX
    /\ Len(s) - n <= MAX_CHUNK_EXTENSION /\ ExtensionPart(From(s, n + 1))

\* field-name ":" OWS field-value OWS
FieldLine(s) ==
    \E n \in DOMAIN s : s[n] = ":" /\ Token(First(s, n - 1)) /\ Over(From(s, n + 1), MetadataByte)

\* The places of a CR that ends a line.
LineEnds(s) == {i \in 1 .. Len(s) - 1 : s[i] = "cr" /\ s[i + 1] = "lf"}

\* *( field-line CRLF ) CRLF, where the budget pays for a line and its CR.
RECURSIVE Trailers(_, _)
Trailers(s, budget) ==
    \/ s = <<"cr", "lf">>
    \/ \E e \in LineEnds(s) :
          e <= budget /\ FieldLine(First(s, e - 1)) /\ Trailers(From(s, e + 2), budget - e)

\* The bodies that s is a chunked encoding of: one, or none.
RECURSIVE Bodies(_)
Bodies(s) ==
    LET Chunk(e, n) ==
            LET size == SizeOf(First(s, n))
                rest == From(s, e + 2)
            IN CASE size = 0 /\ Trailers(rest, MAX_TRAILER_SECTION) -> {<<>>}
                 [] size # 0 /\ size + 1 \in LineEnds(rest) ->
                        {First(rest, size) \o b : b \in Bodies(From(rest, size + 3))}
                 [] OTHER -> {}
    IN UNION {UNION {Chunk(e, n) : n \in {m \in 1 .. e - 1 : SizeLine(First(s, e - 1), m)}} :
                 e \in LineEnds(s)}

\* The bodies the decoder takes a string for: it must end with the last byte.
Decoded(s) ==
    LET run == DecodeWhole(NewDecoder, s)
    IN IF run.d.state = "Done" /\ run.used = Len(s) THEN {run.out} ELSE {}
=============================================================================
