---------------------------- MODULE MCHeadReader ----------------------------
(***************************************************************************)
(* The streams of the instance: every run of up to three of the pieces     *)
(* below, so that heads follow interim ones, bodies follow heads, and the  *)
(* lengths fall below, at and above the limit.                             *)
(***************************************************************************)
EXTENDS HeadReader

HeadOf(status, lines) == <<"HTTP/1.1", "sp", status>> \o CRLF \o lines \o CRLF

Pieces ==
    {HeadOf("100", <<>>), HeadOf("101", <<>>),
     HeadOf("200", <<"CL", ":", "1">> \o CRLF),
     HeadOf("200", <<"TE", ":", "chunked">> \o CRLF \o <<"x", ":", "sp">> \o CRLF),
     HeadOf("200", <<"CL", ":", "x">> \o CRLF),
     HeadOf("404", <<"x", "cr", ":">> \o CRLF),
     <<"x">>, <<"cr">>, CRLF}

MCStreams == {FlattenSeq(pieces) : pieces \in BoundedSeq(Pieces, 3)}
=============================================================================
