-------------------------------- MODULE Pool --------------------------------
(***************************************************************************)
(* driver.rs's Pool, on the caller's thread, composed with the complete    *)
(* thread and the ring between them.  The caller is inside at most one     *)
(* method; cpc says where.  Of the arguments of a request only the         *)
(* connection matters.                                                     *)
(***************************************************************************)
EXTENDS Completion, FiniteSets

VARIABLES
    conns,            \* CallerConn of every connection id in use
    freeIds,          \* free_ids
    nextConn,         \* next_conn_id
    nextReq,          \* next_request_id
    stash,            \* results that arrived while another was awaited
    pendingRearms,    \* rearms that did not fit in the submission queue
    cpc,              \* where the caller is
    after,            \* where submit() returns to
    sending,          \* connection and id of the request being made
    want,             \* id recv or recv_timeout waits for
    calls,            \* number of recv_timeout calls made
    asked,            \* requests made: their ids, each with its connection
    got,              \* results returned for each id
    early             \* whether recv_timeout gave up before its time

callerVars == <<conns, freeIds, nextConn, nextReq, stash, pendingRearms, cpc, after,
                sending, want, calls>>
seenVars == <<asked, got, early>>
vars == <<uringVars, completionVars, callerVars, seenVars>>

NO_CONN == [fd |-> NO_FD, armed |-> FALSE, reconnect |-> FALSE, live |-> FALSE]
CallerConn == [fd : Fd \cup {NO_FD}, armed : BOOLEAN, reconnect : BOOLEAN, live : BOOLEAN]
NO_REQUEST == [conn |-> 0, id |-> 0]
CallerPc == {"idle", "dial", "ticket", "enter", "poll", "recv", "timed", "cancel", "join", "gone"}

Init ==
    /\ UringInit
    /\ CompletionInit
    /\ conns = [c \in ConnId |-> NO_CONN]
    /\ freeIds = {}
    /\ nextConn = 0
    /\ nextReq = 1
    /\ stash = [i \in 0 .. MaxRequests |-> {}]
    /\ pendingRearms = <<>>
    /\ cpc = "idle"
    /\ after = "idle"
    /\ sending = NO_REQUEST
    /\ want = 0
    /\ calls = 0
    /\ asked = {}
    /\ got = [i \in Id |-> {}]
    /\ early = FALSE

\* submit(): the caller is in the kernel until the queue is empty.
Submit(pc) ==
    /\ cpc' = "enter"
    /\ after' = pc

Submitting ==
    /\ cpc = "enter"
    /\ IF sq = <<>>
       THEN /\ cpc' = after
            /\ after' = "idle"
            /\ UNCHANGED uringVars
       ELSE /\ TakeSqe
            /\ UNCHANGED <<cpc, after>>
    /\ UNCHANGED <<completionVars, conns, freeIds, nextConn, nextReq, stash, pendingRearms,
                   sending, want, calls, seenVars>>

\* blocking_connect: a new socket under the lowest free descriptor.
NewSocket ==
    /\ made < world.sockets
    /\ made' = made + 1
    /\ fds' = [fds EXCEPT ![LowestFd] = made + 1]
    /\ UNCHANGED <<world, sq, cq, sends, armed, timers, elapsed, peer>>

(***************************************************************************)
(* connect and disconnect                                                  *)
(***************************************************************************)

Connect ==
    /\ cpc = "idle"
    /\ NewSocket
    /\ \E c \in ConnId :
          /\ IF freeIds # {}
             THEN /\ c \in freeIds
                  /\ \A d \in freeIds : c <= d
                  /\ freeIds' = freeIds \ {c}
                  /\ UNCHANGED nextConn
             ELSE /\ c = nextConn
                  /\ nextConn < world.conns
                  /\ nextConn' = nextConn + 1
                  /\ UNCHANGED freeIds
          /\ conns' = [conns EXCEPT ![c] =
                [fd |-> LowestFd, armed |-> FALSE, reconnect |-> FALSE, live |-> TRUE]]
    /\ UNCHANGED <<completionVars, nextReq, stash, pendingRearms, cpc, after, sending,
                   want, calls, seenVars>>

Close(f) ==
    /\ fds' = [fds EXCEPT ![f] = NO_SOCKET]
    /\ UNCHANGED <<world, sq, cq, sends, armed, timers, elapsed, made, peer>>

\* The descriptor is closed already when the connection awaits a reconnect.
Disconnect ==
    /\ "disconnect" \in world.methods
    /\ cpc = "idle"
    /\ \E c \in ConnId :
          /\ conns[c].live
          /\ IF conns[c].reconnect THEN UNCHANGED uringVars ELSE Close(conns[c].fd)
          /\ conns' = [conns EXCEPT ![c] = NO_CONN]
          /\ freeIds' = freeIds \cup {c}
    /\ UNCHANGED <<completionVars, nextConn, nextReq, stash, pendingRearms, cpc, after,
                   sending, want, calls, seenVars>>

(***************************************************************************)
(* request                                                                 *)
(***************************************************************************)

Unanswered(c) == {a \in asked : a.conn = c /\ got[a.id] = {}}

\* drain_rearms, then on to the connection.  The rearms that fit are pushed
\* and their connections marked armed; submit is called if some are left.
RequestStart ==
    /\ cpc = "idle"
    /\ nextReq <= world.requests
    /\ \E c \in ConnId :
          /\ conns[c].live
          /\ world.pipelined \/ Unanswered(c) = {}
          /\ sending' = [conn |-> c, id |-> 0]
    /\ LET all  == pendingRearms \o rearms
           fit  == IF Len(all) < RING - Len(sq) THEN Len(all) ELSE RING - Len(sq)
           push == SubSeq(all, 1, fit)
       IN  /\ sq' = sq \o [k \in 1 .. fit |-> RecvSqe(all[k].fd, all[k].conn)]
           /\ pendingRearms' = SubSeq(all, fit + 1, Len(all))
           /\ conns' = [c \in ConnId |->
                  IF conns[c].live /\ \E k \in 1 .. fit : push[k].conn = c
                  THEN [conns[c] EXCEPT !.armed = TRUE] ELSE conns[c]]
           /\ IF fit < Len(all) THEN Submit("dial") ELSE cpc' = "dial" /\ UNCHANGED after
    /\ rearms' = <<>>
    /\ UNCHANGED <<world, cq, sends, armed, timers, elapsed, fds, made, peer, ticketRing,
                   tickets, cdata, threadVars, responses, freeIds, nextConn, nextReq, stash, want,
                   calls, seenVars>>

\* The lazy reconnect of a connection that failed.
Reconnect ==
    /\ cpc = "dial"
    /\ conns[sending.conn].reconnect
    /\ NewSocket
    /\ conns' = [conns EXCEPT ![sending.conn] =
                    [@ EXCEPT !.fd = LowestFd, !.armed = FALSE, !.reconnect = FALSE]]
    /\ UNCHANGED <<completionVars, freeIds, nextConn, nextReq, stash, pendingRearms, cpc,
                   after, sending, want, calls, seenVars>>

RequestFails ==
    /\ cpc' = "idle"
    /\ sending' = NO_REQUEST

\* The reconnect fails or the request exceeds MAX_REQ.  The request of an
\* unknown connection ends like this too, with its rearms drained.
RequestRefused ==
    /\ cpc = "dial"
    /\ RequestFails
    /\ UNCHANGED <<uringVars, completionVars, conns, freeIds, nextConn, nextReq, stash,
                   pendingRearms, after, want, calls, seenVars>>

\* Variant: the send is submitted before its ticket is queued.
PushSendSubmitted ==
    /\ cpc = "dial"
    /\ ~conns[sending.conn].reconnect
    /\ nextReq' = nextReq + 1
    /\ IF SqHasRoom
       THEN /\ sq' = Append(sq, SendSqe(conns[sending.conn].fd, nextReq))
            /\ sending' = [sending EXCEPT !.id = nextReq]
            /\ Submit("ticket")
       ELSE RequestFails /\ UNCHANGED <<sq, after>>
    /\ UNCHANGED <<world, cq, sends, armed, timers, elapsed, fds, made, peer,
                   completionVars, conns, freeIds, nextConn, stash, pendingRearms, want, calls, seenVars>>

\* An id is taken and the send pushed, or the queue is full and the id lost.
PushSend ==
    /\ cpc = "dial"
    /\ ~conns[sending.conn].reconnect
    /\ nextReq' = nextReq + 1
    /\ IF SqHasRoom
       THEN /\ sq' = Append(sq, SendSqe(conns[sending.conn].fd, nextReq))
            /\ sending' = [sending EXCEPT !.id = nextReq]
            /\ cpc' = "ticket"
       ELSE RequestFails /\ UNCHANGED sq
    /\ UNCHANGED <<world, cq, sends, armed, timers, elapsed, fds, made, peer,
                   completionVars, conns, freeIds, nextConn, stash, pendingRearms, after, want, calls, seenVars>>

\* ticket_tx.push_block; then the recv, unless one is armed, and submit.
PushTicket ==
    /\ cpc = "ticket"
    /\ Len(ticketRing) < RING
    /\ ticketRing' = Append(ticketRing, sending)
    /\ LET c == sending.conn IN
       IF conns[c].armed \/ SqHasRoom
       THEN /\ sq' = IF conns[c].armed THEN sq ELSE Append(sq, RecvSqe(conns[c].fd, c))
            /\ conns' = [conns EXCEPT ![c].armed = TRUE]
            /\ asked' = asked \cup {sending}
            /\ sending' = NO_REQUEST
            /\ Submit("idle")
       ELSE /\ RequestFails
            /\ UNCHANGED <<sq, conns, asked, after>>
    /\ UNCHANGED <<world, cq, sends, armed, timers, elapsed, fds, made, peer, tickets,
                   cdata, threadVars, responses, rearms, freeIds, nextConn, nextReq, stash,
                   pendingRearms, want, calls, got, early>>

(***************************************************************************)
(* poll, recv and recv_timeout                                             *)
(***************************************************************************)

\* Variant: a connection that awaits a reconnect is closed once more.
MarkForReconnectAgain(r) ==
    IF r.kind = "error" /\ conns[r.conn].live
    THEN /\ Close(conns[r.conn].fd)
         /\ conns' = [conns EXCEPT ![r.conn] = [@ EXCEPT !.armed = FALSE, !.reconnect = TRUE]]
    ELSE UNCHANGED <<uringVars, conns>>

\* handle_error and handle_protocol_error: whatever socket the result is
\* about, the connection's current descriptor is closed.
MarkForReconnect(r) ==
    IF r.kind = "error" /\ conns[r.conn].live /\ ~conns[r.conn].reconnect
    THEN /\ Close(conns[r.conn].fd)
         /\ conns' = [conns EXCEPT ![r.conn] =
                         [@ EXCEPT !.fd = NO_FD, !.armed = FALSE, !.reconnect = TRUE]]
    ELSE UNCHANGED <<uringVars, conns>>

\* The method returns r for id i.
Return(i, r) == got' = [got EXCEPT ![i] = @ \cup {r}]

Stash(r) == stash' = [stash EXCEPT ![r.id] = {r}]

\* The caller asks for a request that was made and not answered.
Awaitable == {a.id : a \in {x \in asked : got[x.id] = {}}}

\* recv and recv_timeout look in the stash before they wait.
FromStash(i) ==
    /\ stash[i] # {}
    /\ got' = [got EXCEPT ![i] = @ \cup stash[i]]
    /\ stash' = [stash EXCEPT ![i] = {}]
    /\ UNCHANGED <<uringVars, cpc, after, want, calls>>

RecvStart ==
    /\ "recv" \in world.methods
    /\ cpc = "idle"
    /\ \E i \in Awaitable :
          \/ FromStash(i)
          \/ /\ stash[i] = {}
             /\ cpc' = "recv"
             /\ want' = i
             /\ UNCHANGED <<uringVars, got, stash, after, calls>>
    /\ UNCHANGED <<completionVars, conns, freeIds, nextConn, nextReq, pendingRearms,
                   sending, asked, early>>

\* A recv_timeout that cannot queue its timeout polls instead.
TimedStart ==
    /\ "recv_timeout" \in world.methods
    /\ cpc = "idle"
    /\ calls < world.timeouts
    /\ \E i \in Awaitable :
          \/ FromStash(i)
          \/ /\ stash[i] = {}
             /\ calls' = calls + 1
             /\ want' = i
             /\ IF SqHasRoom
                THEN /\ sq' = Append(sq, [op |-> "timeout", call |-> calls + 1])
                     /\ Submit("timed")
                ELSE /\ cpc' = "poll"
                     /\ UNCHANGED <<sq, after>>
             /\ UNCHANGED <<world, cq, sends, armed, timers, elapsed, fds, made, peer, got,
                            stash>>
    /\ UNCHANGED <<completionVars, conns, freeIds, nextConn, nextReq, pendingRearms,
                   sending, asked, early>>

PollStart ==
    /\ "poll" \in world.methods
    /\ cpc = "idle"
    /\ \E i \in Awaitable : want' = i
    /\ cpc' = "poll"
    /\ UNCHANGED <<uringVars, completionVars, conns, freeIds, nextConn, nextReq, stash,
                   pendingRearms, after, sending, calls, seenVars>>

\* response_rx.pop, handle_error where it applies, and the result is kept.
Pop ==
    /\ responses # <<>>
    /\ responses' = Tail(responses)
    /\ MarkForReconnect(Head(responses))
    /\ UNCHANGED <<ticketRing, tickets, cdata, threadVars, rearms>>

\* poll drains the ring into the stash, then looks there.
PollStep ==
    /\ cpc = "poll"
    /\ \/ /\ Pop
          /\ Stash(Head(responses))
          /\ UNCHANGED <<cpc, want, got>>
       \/ /\ responses = <<>>
          /\ got' = [got EXCEPT ![want] = @ \cup stash[want]]
          /\ stash' = [stash EXCEPT ![want] = {}]
          /\ cpc' = "idle"
          /\ want' = 0
          /\ UNCHANGED <<uringVars, completionVars, conns>>
    /\ UNCHANGED <<freeIds, nextConn, nextReq, pendingRearms, after, sending, calls, asked,
                   early>>

RecvPop ==
    /\ cpc = "recv"
    /\ Pop
    /\ LET r == Head(responses)
       IN  IF r.id = want
           THEN /\ Return(want, r)
                /\ cpc' = "idle"
                /\ want' = 0
                /\ UNCHANGED stash
           ELSE /\ Stash(r)
                /\ UNCHANGED <<cpc, want, got>>
    /\ UNCHANGED <<freeIds, nextConn, nextReq, pendingRearms, after, sending, calls, asked,
                   early>>

\* The result it waits for ends a recv_timeout and cancels its timeout.
TimedResult ==
    /\ cpc = "timed"
    /\ responses # <<>>
    /\ Head(responses).kind # "timeout"
    /\ Pop
    /\ LET r == Head(responses)
       IN  IF r.id = want
           THEN /\ Return(want, r)
                /\ cpc' = "cancel"
                /\ want' = 0
                /\ UNCHANGED stash
           ELSE /\ Stash(r)
                /\ UNCHANGED <<cpc, want, got>>
    /\ UNCHANGED <<freeIds, nextConn, nextReq, pendingRearms, after, sending, calls, asked,
                   early>>

CancelTimeout ==
    /\ cpc = "cancel"
    /\ sq' = IF SqHasRoom THEN Append(sq, [op |-> "remove"]) ELSE sq
    /\ Submit("idle")
    /\ UNCHANGED <<world, cq, sends, armed, timers, elapsed, fds, made, peer,
                   completionVars, conns, freeIds, nextConn, nextReq, stash, pendingRearms, sending, want, calls,
                   seenVars>>

\* Any timeout's completion ends it, whichever call the timeout was for.
TimedOut ==
    /\ cpc = "timed"
    /\ responses # <<>>
    /\ Head(responses).kind = "timeout"
    /\ Pop
    /\ cpc' = "idle"
    /\ want' = 0
    /\ early' = (early \/ calls \notin elapsed)
    /\ UNCHANGED <<freeIds, nextConn, nextReq, stash, pendingRearms, after, sending, calls,
                   asked, got>>

(***************************************************************************)
(* Drop                                                                    *)
(***************************************************************************)

Drop ==
    /\ "drop" \in world.methods
    /\ cpc = "idle"
    /\ sq' = IF SqHasRoom THEN Append(sq, [op |-> "nop"]) ELSE sq
    /\ Submit("join")
    /\ UNCHANGED <<world, cq, sends, armed, timers, elapsed, fds, made, peer,
                   completionVars, conns, freeIds, nextConn, nextReq, stash, pendingRearms, sending, want, calls,
                   seenVars>>

Joined ==
    /\ cpc = "join"
    /\ tpc = "exited"
    /\ cpc' = "gone"
    /\ UNCHANGED <<uringVars, completionVars, conns, freeIds, nextConn, nextReq, stash,
                   pendingRearms, after, sending, want, calls, seenVars>>

Caller ==
    \/ Submitting \/ Connect \/ Disconnect
    \/ RequestStart \/ Reconnect \/ RequestRefused \/ PushSend \/ PushTicket
    \/ RecvStart \/ TimedStart \/ PollStart \/ PollStep \/ RecvPop
    \/ TimedResult \/ CancelTimeout \/ TimedOut
    \/ Drop \/ Joined

\* Between these the caller touches nothing another thread reads but the tail
\* of the completion queue, so its steps there are taken in a row.
CallerAlone == cpc \in {"dial", "enter", "cancel"}

ThreadStep == ~CallerAlone /\ CompleteThread /\ UNCHANGED <<callerVars, seenVars>>

Outside(A) == ~CallerAlone /\ A /\ UNCHANGED <<completionVars, callerVars, seenVars>>

Next == Caller \/ ThreadStep \/ Outside(Kernel) \/ Outside(PeerLeaves)

Spec == Init /\ [][Next]_vars

\* The kernel and the complete thread always run, and the caller finishes the
\* method it is in.
Fairness ==
    /\ WF_vars(ThreadStep)
    /\ WF_vars(Outside(SendCompletes \/ DataArrives \/ EndArrives))
    /\ WF_vars(Submitting \/ PushTicket \/ RecvPop \/ Joined)

FairSpec == Spec /\ Fairness

(***************************************************************************)
(* Properties                                                              *)
(***************************************************************************)

\* The ticket reaches the complete thread no later than it could need it
\* (push_send): from the moment the kernel has a send until its completion is
\* reaped, the ticket that owns its buffer and names its request is there.
SendsHaveTickets ==
    LET owned == {t.id : t \in tickets \cup Range(ticketRing)}
    IN  /\ \A k \in DOMAIN sends : sends[k].id \in owned
        /\ \A k \in DOMAIN cq : cq[k].op = "send" => cq[k].id \in owned

\* Where a result for request i, or the right to one, can be.
Claims(i) ==
    {<<"ticket", t>> : t \in {x \in tickets \cup Range(ticketRing) : x.id = i}}
    \cup {<<"pending", p>> : p \in {q \in ConnId \X Id :
             q[2] \in DOMAIN cdata[q[1]].pending /\ cdata[q[1]].pending[q[2]] = i}}
    \cup {<<"ring", k>> : k \in {j \in DOMAIN responses : responses[j].id = i}}
    \cup {<<"stash", r>> : r \in stash[i]}
    \cup {<<"got", r>> : r \in got[i]}

\* A request is answered at most once: its ticket, its place in a pending
\* queue, and its result in the ring, in the stash or with the caller exclude
\* one another, through errors, reconnects and reused connection ids.
AnsweredOnce == \A i \in Id : Cardinality(Claims(i)) <= 1

\* A connection that is not waiting for a reconnect has an open descriptor,
\* and no two have the same: libc_close never hits another's.
OwnDescriptor ==
    \A c \in ConnId : conns[c].live /\ ~conns[c].reconnect =>
       /\ fds[conns[c].fd] # NO_SOCKET
       /\ \A d \in ConnId \ {c} : conns[d].live => conns[d].fd # conns[c].fd

\* "Block until the response for `id` arrives": what recv, poll or recv_timeout
\* returns for an id as its response holds that response and nothing else.
ResponseIsForId == \A i \in Id : \A r \in got[i] : r.kind = "response" => r.from = {i}

\* As long as servers answer every request in full and connections are kept,
\* recv, poll and recv_timeout return for an id the response to that request
\* and nothing of another's: with requests pipelined, completions in any order
\* and multishot recvs rearmed.
AnsweredInFullIsForId ==
    (world.kinds = {"length"} /\ ~world.closes /\ "disconnect" \notin world.methods)
       => ResponseIsForId

\* A recv returns, with a response or the error that lost it.
RecvReturns == \A i \in Id : (cpc = "recv" /\ want = i) ~> (cpc # "recv")

(***************************************************************************)
(* What the source says of itself and does not do                          *)
(***************************************************************************)

\* Bytes received before the matching send's completion are parsed once
\* pending_ids is populated (ConnData::recv_buf): no whole response waits in
\* the parser for a request that is pending.
HeldIsParsed ==
    tpc = "reap" => \A c \in ConnId :
       ~(/\ cdata[c].pending # <<>>
         /\ cdata[c].partial = NO_PARTIAL
         /\ Feed(cdata[c], <<>>).out = "response")

\* recv_timeout returns None on timeout: when it does, the timeout that call
\* was given has run to its end.
NoneMeansElapsed == ~early

\* push_send blocks only while the complete thread catches up: the caller gets
\* to leave its ticket, received results or not.
TicketIsTaken == (cpc = "ticket") ~> (cpc # "ticket")

=============================================================================
