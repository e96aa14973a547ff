-------------------------- MODULE MCChunkedStream ---------------------------
(***************************************************************************)
(* The reads of the instance: every one or two bytes, and every stretch of *)
(* three streams, so that one read may hold the end of a chunk, the next   *)
(* one, the trailers, the end of the body and what follows it.             *)
(***************************************************************************)
EXTENDS ChunkedStream

CRLF == <<"cr", "lf">>

TwoChunks ==
    <<"1">> \o CRLF \o <<"(">> \o CRLF \o <<"1", "0">> \o CRLF \o <<"0", "lf">> \o CRLF
      \o <<"0">> \o CRLF \o CRLF \o <<"x">>

WithTrailer == <<"1">> \o CRLF \o <<"x">> \o CRLF \o <<"0">> \o CRLF \o <<"x", ":">> \o CRLF \o CRLF

BadSecond == <<"1">> \o CRLF \o <<"x">> \o CRLF \o <<"1", ";", "=">>

Stretches(s) == {SubSeq(s, i, j) : i, j \in DOMAIN s} \ {<<>>}

MCReads ==
    [1 .. 1 -> Byte] \cup [1 .. 2 -> Byte]
      \cup Stretches(TwoChunks) \cup Stretches(WithTrailer) \cup Stretches(BadSecond)
=============================================================================
