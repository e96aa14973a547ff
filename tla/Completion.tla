----------------------------- MODULE Completion -----------------------------
(***************************************************************************)
(* driver.rs's complete thread: it reaps completions, matches the bytes of *)
(* each connection with the requests whose sends completed, and pushes the *)
(* results to the caller.  State is kept per connection id.                *)
(***************************************************************************)
EXTENDS Uring

CONSTANTS
    ResponseCap,    \* capacity of the response ring, 128 in Pool::new
    RearmCap        \* capacity of the rearm ring, 32

ASSUME CapBounds == {ResponseCap, RearmCap} \subseteq Nat \ {0}

VARIABLES
    ticketRing,    \* tickets on their way from the caller
    tickets,       \* tickets of sends that have not completed
    cdata,         \* ConnData of every connection id
    tpc,           \* where the complete thread is
    tconn,         \* connection whose bytes it is parsing
    tfeed,         \* bytes drain_recv_buf has not fed to the parser yet
    trearm,        \* RearmMsg to send once they are parsed, if any
    responses,     \* the response ring
    rearms         \* the rearm ring

threadVars == <<tpc, tconn, tfeed, trearm>>
completionVars == <<ticketRing, tickets, cdata, threadVars, responses, rearms>>

NO_PARTIAL == [kind |-> "none", from |-> {}]

\* ConnData::new
EmptyConn == [pending |-> <<>>, held |-> <<>>, accum |-> <<>>, partial |-> NO_PARTIAL]

\* ConnResult.  `from` names the requests whose bytes a response holds.
Response(i, from) == [kind |-> "response", id |-> i, conn |-> 0, from |-> from]
Failure(i, c) == [kind |-> "error", id |-> i, conn |-> c, from |-> {}]
Timeout == [kind |-> "timeout", id |-> 0, conn |-> 0, from |-> {}]

Result ==
    [kind : {"response", "error", "timeout"}, id : 0 .. MaxRequests, conn : ConnId, from : SUBSET Id]

CompletionInit ==
    /\ ticketRing = <<>>
    /\ tickets = {}
    /\ cdata = [c \in ConnId |-> EmptyConn]
    /\ tpc = "reap"
    /\ tconn = 0
    /\ tfeed = <<>>
    /\ trearm = <<>>
    /\ responses = <<>>
    /\ rearms = <<>>

Origins(units) == {units[k].req : k \in DOMAIN units}

\* pop_pending_id().unwrap_or(0)
FrontId(conn) == IF conn.pending = <<>> THEN 0 ELSE Head(conn.pending)
Popped(conn) == IF conn.pending = <<>> THEN <<>> ELSE Tail(conn.pending)

(***************************************************************************)
(* ResponseParser::feed: what the parser becomes and what it returns.      *)
(***************************************************************************)

More(conn) == [conn |-> conn, out |-> "more", from |-> {}]
Complete(conn, from) == [conn |-> conn, out |-> "response", from |-> from]

\* A body in progress takes what its framing asks for; what follows it is
\* kept for the next head.
FeedPartial(conn, data) ==
    CASE conn.partial.kind = "open" ->
           More([conn EXCEPT !.partial.from = @ \cup Origins(data)])
      [] conn.partial.kind = "length" /\ data = <<>> -> More(conn)
      [] OTHER ->
           Complete([conn EXCEPT !.accum = Tail(data), !.partial = NO_PARTIAL],
                    conn.partial.from \cup {Head(data).req})

\* parse_head_and_maybe_finish: bytes that begin with no head are waited on
\* until a blank line shows that they are not one.
FeedHead(conn) ==
    LET first == Head(conn.accum) IN
    CASE \A k \in DOMAIN conn.accum : conn.accum[k].part = "rest" -> More(conn)
      [] OTHER ->
           CASE first.part \in {"rest", "bad"} -> [conn |-> conn, out |-> "error", from |-> {}]
             [] first.part = "open" ->
                  More([conn EXCEPT !.accum = <<>>,
                                    !.partial = [kind |-> "open", from |-> Origins(conn.accum)]])
             [] first.part = "head" /\ Len(conn.accum) = 1 ->
                  More([conn EXCEPT !.accum = <<>>,
                                    !.partial = [kind |-> "length", from |-> {first.req}]])
             [] OTHER ->
                  Complete([conn EXCEPT !.accum = SubSeq(@, 3, Len(@))],
                           Origins(SubSeq(conn.accum, 1, 2)))

Feed(conn, data) ==
    IF conn.partial # NO_PARTIAL THEN FeedPartial(conn, data)
    ELSE FeedHead([conn EXCEPT !.accum = @ \o data])

(***************************************************************************)
(* complete_loop                                                           *)
(***************************************************************************)

ResponseRoom == Len(responses) < ResponseCap

Reaping(ops) ==
    /\ tpc = "reap"
    /\ cq # <<>>
    /\ Head(cq).op \in ops
    /\ cq' = Tail(cq)
    /\ UNCHANGED <<world, sq, sends, armed, timers, elapsed, fds, made, peer>>

\* Whatever its result, the timeout's completion wakes the caller.
ReapTimeout ==
    /\ Reaping({"timeout"})
    /\ ResponseRoom
    /\ responses' = Append(responses, Timeout)
    /\ UNCHANGED <<ticketRing, tickets, cdata, threadVars, rearms>>

ReapShutdown ==
    /\ Reaping({"shutdown"})
    /\ tpc' = "exited"
    /\ UNCHANGED <<ticketRing, tickets, cdata, tconn, tfeed, trearm, responses, rearms>>

\* on_send_complete, for a send that succeeded.
OnSendComplete(c, i) ==
    /\ cdata' = [cdata EXCEPT ![c].pending = Append(@, i), ![c].held = <<>>]
    /\ IF cdata[c].held = <<>> THEN UNCHANGED threadVars
       ELSE /\ tpc' = "drain"
            /\ tconn' = c
            /\ tfeed' = cdata[c].held
            /\ trearm' = <<>>

\* A send's completion redeems its ticket; one that has none is skipped, and
\* a failed send leaves no trace.
ReapSend ==
    /\ Reaping({"send"})
    /\ LET known == tickets \cup Range(ticketRing)
           mine  == {t \in known : t.id = Head(cq).id}
       IN  /\ tickets' = known \ mine
           /\ IF Head(cq).ok /\ mine # {}
              THEN \E t \in mine : OnSendComplete(t.conn, t.id)
              ELSE UNCHANGED <<cdata, threadVars>>
    /\ ticketRing' = <<>>
    /\ UNCHANGED <<responses, rearms>>

\* Variant: the request the end of the connection answers stays pending.
EndConnectionKeeping(c, result) ==
    /\ responses' = Append(responses, result)
    /\ cdata' = [cdata EXCEPT ![c] = [EmptyConn EXCEPT !.pending = cdata[c].pending]]

\* Clear the parser and what it was to be fed, and report one request.
EndConnection(c, result) ==
    /\ responses' = Append(responses, result)
    /\ cdata' = [cdata EXCEPT ![c] = [EmptyConn EXCEPT !.pending = Popped(cdata[c])]]

\* A negative result, or finish_until_close.
ReapEnd ==
    /\ Reaping({"error", "eof"})
    /\ ResponseRoom
    /\ LET c == Head(cq).conn
           i == FrontId(cdata[c])
       IN  EndConnection(c, IF Head(cq).op = "eof" /\ cdata[c].partial.kind = "open"
                            THEN Response(i, cdata[c].partial.from)
                            ELSE Failure(i, c))
    /\ UNCHANGED <<ticketRing, tickets, threadVars, rearms>>

\* Bytes that no completed send accounts for yet are held.
ReapData ==
    /\ Reaping({"data"})
    /\ LET e == Head(cq)
           hold == cdata[e.conn].pending = <<>>
       IN  /\ cdata' = IF hold THEN [cdata EXCEPT ![e.conn].held = @ \o e.units] ELSE cdata
           /\ tconn' = IF hold THEN 0 ELSE e.conn
           /\ tfeed' = IF hold THEN <<>> ELSE e.units
           /\ trearm' = IF e.more THEN <<>> ELSE << [fd |-> e.fd, conn |-> e.conn] >>
           /\ tpc' = IF ~hold THEN "drain" ELSE IF e.more THEN "reap" ELSE "rearm"
    /\ UNCHANGED <<ticketRing, tickets, responses, rearms>>

\* Back to complete_loop, which asks for a new recv when this one ended.
Drained ==
    /\ tpc' = IF trearm = <<>> THEN "reap" ELSE "rearm"
    /\ tconn' = 0

\* Variant: the answered request stays at the front of the queue.
DrainRecvBufKeeping ==
    /\ tpc = "drain"
    /\ LET c   == tconn
           fed == Feed(cdata[c], tfeed)
       IN  IF cdata[c].pending = <<>> \/ fed.out # "response"
           THEN cdata' = (IF cdata[c].pending = <<>> THEN cdata ELSE [cdata EXCEPT ![c] = fed.conn])
                /\ Drained /\ UNCHANGED responses
           ELSE /\ ResponseRoom
                /\ cdata' = [cdata EXCEPT ![c] = fed.conn]
                /\ responses' = Append(responses, Response(FrontId(cdata[c]), fed.from))
                /\ UNCHANGED <<tpc, tconn>>
    /\ tfeed' = <<>>
    /\ UNCHANGED <<uringVars, ticketRing, tickets, trearm, rearms>>

\* One pass of drain_recv_buf's loop: the bytes are fed on the first pass
\* only, and the loop goes on while the parser completes responses.
DrainRecvBuf ==
    /\ tpc = "drain"
    /\ LET c   == tconn
           fed == Feed(cdata[c], tfeed)
           i   == FrontId(cdata[c])
       IN  CASE cdata[c].pending = <<>> ->
                  Drained /\ UNCHANGED <<cdata, responses>>
             [] cdata[c].pending # <<>> /\ fed.out = "more" ->
                  /\ cdata' = [cdata EXCEPT ![c] = fed.conn]
                  /\ Drained
                  /\ UNCHANGED responses
             [] cdata[c].pending # <<>> /\ fed.out = "response" ->
                  /\ ResponseRoom
                  /\ cdata' = [cdata EXCEPT ![c] = [fed.conn EXCEPT !.pending = Tail(@)]]
                  /\ responses' = Append(responses, Response(i, fed.from))
                  /\ UNCHANGED <<tpc, tconn>>
             [] OTHER ->
                  /\ ResponseRoom
                  /\ EndConnection(c, Failure(i, c))
                  /\ Drained
    /\ tfeed' = <<>>
    /\ UNCHANGED <<uringVars, ticketRing, tickets, trearm, rearms>>

PushRearm ==
    /\ tpc = "rearm"
    /\ Len(rearms) < RearmCap
    /\ rearms' = rearms \o trearm
    /\ trearm' = <<>>
    /\ tpc' = "reap"
    /\ UNCHANGED <<uringVars, ticketRing, tickets, cdata, tconn, tfeed, responses>>

CompleteThread ==
    \/ ReapTimeout \/ ReapShutdown \/ ReapSend \/ ReapEnd \/ ReapData
    \/ DrainRecvBuf \/ PushRearm

=============================================================================
