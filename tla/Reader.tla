------------------------------- MODULE Reader -------------------------------
(***************************************************************************)
(* reader.rs: the thread that owns the connection and serves one request   *)
(* at a time.  The connection itself is kept to what reader.rs decides on: *)
(* the dirty flag, and `unread`, the exchange whose bytes are still on the *)
(* wire (a request cut short, or a response not read to its end).  Every   *)
(* socket call may tick, make progress, succeed or fail.                   *)
(***************************************************************************)
EXTENDS ControlQueue

CONSTANTS
    Replayable,     \* tickets whose method is replay eligible
    MaxBody,        \* bound: Body chunks of one response that are shown
    MaxReads,       \* bound: calls of one stage that progress without ending it
    Silence         \* ticks a silence or write budget absorbs before it expires

ASSUME ReaderAssumption ==
    /\ Replayable \subseteq Ticket
    /\ MaxBody \in Nat /\ MaxReads \in Nat /\ Silence \in Nat

VARIABLES
    started,    \* per request: the flag behind has_started
    attempt,    \* 1, or 2 for the replay after a stale connection
    ticks,      \* consecutive ticks counted by the running budget
    reads,      \* progressing calls of the running stage
    status,     \* of the response; a 2xx body read to its end is "consumed"
    dirty,      \* Client::dirty
    unread,     \* whose bytes are left on the current connection, or NONE
    written,    \* history: last attempt at this request that met the wire
    served      \* history: tickets in the order next_request returned them

exchangeVars == <<started, attempt, ticks, reads, status>>
connVars == <<dirty, unread>>
historyVars == <<written, served>>
wireVars == <<connVars, historyVars>>
callerSide == <<cur, queueVars, outstanding, flagVars, handle, streamVars>>

ReaderInit ==
    /\ started = [t \in Ticket |-> FALSE]
    /\ attempt = 1
    /\ ticks = 0
    /\ reads = 0
    /\ status = "failure"
    /\ dirty = FALSE
    /\ unread = NONE
    /\ written = [t \in Ticket |-> 0]
    /\ served = <<>>

(***************************************************************************)
(* run, serve and dispatch                                                 *)
(***************************************************************************)

\* next_request returned: serve it.
Serve ==
    /\ ResetCancelAny
    /\ served' = Append(served, cur)
    /\ UNCHANGED <<exchangeVars, connVars, written>>

\* reconnect_with_deadline: a fresh stream clears the flag.  It fails with
\* the old stream in place, or with a new one whose timeouts were refused.
Reconnected == dirty' = FALSE /\ unread' = NONE
ReconnectFailed == unread' \in {unread, NONE} /\ UNCHANGED dirty

EnsureClean ==
    /\ rpc = "clean"
    /\ \/ ~dirty /\ Goto("begin") /\ UNCHANGED connVars
       \/ dirty /\ Reconnected /\ Goto("begin")
       \/ dirty /\ ReconnectFailed /\ StartSend("Error")
    /\ UNCHANGED <<callerSide, exchangeVars, historyVars>>

\* Variant: the connection is not poisoned before the first write.
BeginExchangeUnpoisoned ==
    /\ rpc = "begin"
    /\ started' = [started EXCEPT ![cur] = TRUE]
    /\ ticks' = 0
    /\ reads' = 0
    /\ StartSend("Error") \/ StartPoll("write")
    /\ UNCHANGED <<callerSide, attempt, status, connVars, historyVars>>

\* started is published, then send_head_once runs up to its first write: an
\* expired deadline, a CONNECT or a serialisation error leaves the connection
\* as it was, anything later finds it poisoned.
BeginExchange ==
    /\ rpc = "begin"
    /\ started' = [started EXCEPT ![cur] = TRUE]
    /\ ticks' = 0
    /\ reads' = 0
    /\ \/ StartSend("Error") /\ UNCHANGED dirty
       \/ StartPoll("write") /\ dirty' = TRUE
    /\ UNCHANGED <<callerSide, attempt, status, unread, historyVars>>

(***************************************************************************)
(* One socket call of the running stage, allowed by the poll before it     *)
(***************************************************************************)
Io(s) == rpc = "io" /\ site = s

\* Variant: the budget allows one tick too many.
StallOneMore ==
    IF ticks <= Silence
    THEN StartPoll(site) /\ ticks' = ticks + 1
    ELSE StartSend("Error") /\ UNCHANGED ticks

\* Variant: ticks are absorbed without a budget.
StallForever == StartPoll(site) /\ UNCHANGED ticks

\* A timeout tick: absorbed while the budget lasts.
Stall ==
    IF ticks < Silence
    THEN StartPoll(site) /\ ticks' = ticks + 1
    ELSE StartSend("Error") /\ UNCHANGED ticks

\* A stale connection is replayed once; any other failure is final.  Whether
\* the head buffer was still empty is left open.
Broken ==
    /\ \/ attempt = 1 /\ cur \in Replayable /\ StartPoll("retry")
       \/ StartSend("Error")
    /\ UNCHANGED ticks

\* Bytes of cur join whatever the connection already holds.
OnWire ==
    /\ unread' = IF unread = NONE THEN cur ELSE unread
    /\ written' = [written EXCEPT ![cur] = attempt]

\* A call that progresses without ending its stage.  A request, a head with
\* the interim ones before it (max_head, MAX_INTERIM_RESPONSES) and a drained
\* body (max_response_body) are finite.  A 2xx body need not be: its count
\* starts over, and beyond MaxBody chunks such a read stands for one more.
Progress(s) ==
    /\ s = "body" \/ reads < MaxReads
    /\ StartPoll(s)
    /\ ticks' = 0
    /\ reads' = IF reads < MaxReads THEN reads + 1 ELSE 0

\* WriteBudget::write_all_raw and flush.  A call that ticks or fails may have
\* put a prefix out, so every call counts as meeting the wire.
WriteRequest ==
    /\ Io("write")
    /\ OnWire
    /\ \/ Stall /\ UNCHANGED reads
       \/ Progress("write")
       \/ StartPoll("head") /\ ticks' = 0 /\ reads' = 0
       \/ Broken /\ UNCHANGED reads
    /\ UNCHANGED <<callerSide, started, attempt, status, dirty, served>>

\* The head is complete: stream_body poisons the connection again before it
\* offers the head.
OfferHead ==
    /\ StartSend("Head")
    /\ status' \in {"success", "failure"}
    /\ dirty' = TRUE
    /\ ticks' = 0
    /\ reads' = 0

\* read_response up to its end: a partial head and an interim response both
\* read on.
ReadHead ==
    /\ Io("head")
    /\ \/ Stall /\ UNCHANGED <<reads, status, dirty>>
       \/ Progress("head") /\ UNCHANGED <<status, dirty>>
       \/ Broken /\ UNCHANGED <<reads, status, dirty>>
       \/ OfferHead
    /\ UNCHANGED <<callerSide, started, attempt, unread, historyVars>>

\* The interrupt allowed the replay: reconnect and start over.
Redial ==
    /\ rpc = "redial"
    /\ \/ Reconnected /\ Goto("begin") /\ attempt' = 2
       \/ ReconnectFailed /\ StartSend("Error") /\ UNCHANGED attempt
    /\ UNCHANGED <<callerSide, started, ticks, reads, status, historyVars>>

(***************************************************************************)
(* Bodies.  Bytes that came with the head are used without a socket call,  *)
(* and so without a poll.                                                  *)
(***************************************************************************)

\* The last byte was consumed: the connection is reusable only if the framing
\* and the head allow it and nothing follows the body.
BodyConsumed ==
    \E clean \in BOOLEAN :
        /\ dirty' = ~clean
        /\ unread' = IF clean THEN NONE ELSE unread

\* A socket read is needed, or one ended without the data it was for.
BodyWait(s) ==
    \/ rpc = s /\ StartPoll(s) /\ UNCHANGED <<ticks, reads>>
    \/ Io(s) /\ Stall /\ UNCHANGED reads
    \/ Io(s) /\ Progress(s)

\* stream_success: one StreamingBody::read and what the loop does with it.
\* The read that returns the last byte already settles the flag; the one
\* after it reports the end.
StreamSuccess ==
    /\ rpc = "body" \/ Io("body")
    /\ \/ /\ status = "success"
          /\ BodyWait("body")
          /\ UNCHANGED <<status, connVars>>
       \/ /\ status = "success"
          /\ Len(sent[cur]) <= MaxBody
          /\ StartSend("Body")
          /\ \/ UNCHANGED <<status, connVars>>
             \/ status' = "consumed" /\ BodyConsumed
          /\ ticks' = 0
          /\ UNCHANGED reads
       \/ /\ status = "success"
          /\ BodyConsumed
          /\ StartSend("Eof")
          /\ UNCHANGED <<status, ticks, reads>>
       \/ /\ status = "consumed"
          /\ StartSend("Eof")
          /\ UNCHANGED <<status, connVars, ticks, reads>>
       \/ /\ status = "success"
          /\ StartSend("Error")
          /\ UNCHANGED <<status, connVars, ticks, reads>>
    /\ UNCHANGED <<callerSide, started, attempt, historyVars>>

\* drain_error_body: the flag is settled as soon as the body is collected.
DrainErrorBody ==
    /\ rpc = "drain" \/ Io("drain")
    /\ \/ BodyWait("drain") /\ UNCHANGED connVars
       \/ /\ BodyConsumed
          /\ \/ MaxBody > 0 /\ StartSend("Body")
             \/ StartSend("Eof")
          /\ UNCHANGED <<ticks, reads>>
       \/ StartSend("Error") /\ UNCHANGED <<connVars, ticks, reads>>
    /\ UNCHANGED <<callerSide, started, attempt, status, historyVars>>

(***************************************************************************)
(* Delivery and the end of a request                                       *)
(***************************************************************************)

\* Variant: the streaming loop goes on after an error was reported.
DeliverThenReadOn ==
    /\ rpc = "send"
    /\ \/ /\ BlockedReason(cur, out \notin Terminator)
          /\ Goto("finish")
          /\ UNCHANGED sent
       \/ /\ ~BlockedReason(cur, out \notin Terminator)
          /\ HasRoom(cur)
          /\ sent' = Pushed(cur, out)
          /\ CASE out = "Head" -> Goto(IF status = "success" THEN "body" ELSE "drain")
               [] out = "Body" /\ status = "failure" -> StartSend("Eof")
               [] out \in {"Body", "Error"} /\ status # "failure" -> Goto("body")
               [] OTHER -> Goto("finish")
    /\ UNCHANGED <<cur, queueVars, outstanding, flagVars, handle, taken, open,
                   exchangeVars, wireVars>>

\* One pass of send_inner's loop that ends it.  A terminator ignores cancels;
\* a failed Head or Body ends the request without one.
Deliver ==
    /\ rpc = "send"
    /\ \/ /\ BlockedReason(cur, out \notin Terminator)
          /\ Goto("finish")
          /\ UNCHANGED sent
       \/ /\ ~BlockedReason(cur, out \notin Terminator)
          /\ HasRoom(cur)
          /\ sent' = Pushed(cur, out)
          /\ CASE out = "Head" -> Goto(IF status = "success" THEN "body" ELSE "drain")
               [] out = "Body" /\ status = "failure" -> StartSend("Eof")
               [] out = "Body" /\ status # "failure" -> Goto("body")
               [] out \in Terminator -> Goto("finish")
    /\ UNCHANGED <<cur, queueVars, outstanding, flagVars, handle, taken, open,
                   exchangeVars, wireVars>>

\* serve returned: its locals go, and the request is dropped before
\* next_request runs again.
FinishRequest ==
    /\ rpc = "finish"
    /\ DropRequests({cur})
    /\ cur' = NONE
    /\ Goto("next")
    /\ attempt' = 1
    /\ ticks' = 0
    /\ reads' = 0
    /\ status' = "failure"
    /\ UNCHANGED <<queueVars, flagVars, handle, sent, taken, started, wireVars>>

\* The loop ends and the worker is dropped with its pending requests.  Whether
\* the ring drops what it still holds, or keeps it for as long as a producer
\* lives, is the ring's business (external).
ExitReader ==
    /\ rpc = "next"
    /\ shuttingDown
    /\ pending' = <<>>
    /\ \E drained \in BOOLEAN :
        /\ DropRequests(Range(pending)
               \cup {t \in Ticket : drained /\ Request(t) \in Range(ring)})
        /\ ring' = IF drained THEN <<>> ELSE ring
    /\ Goto("exited")
    /\ UNCHANGED <<cur, flagVars, handle, sent, taken, exchangeVars, wireVars>>

ReaderStep ==
    \/ (NextPending \/ PopBlock) /\ UNCHANGED <<exchangeVars, wireVars>>
    \/ (PollCancelMsg \/ PollRequestMsg \/ PollReturn) /\ UNCHANGED <<exchangeVars, wireVars>>
    \/ Serve
    \/ EnsureClean
    \/ BeginExchange
    \/ WriteRequest
    \/ ReadHead
    \/ Redial
    \/ StreamSuccess
    \/ DrainErrorBody
    \/ Deliver
    \/ FinishRequest
    \/ ExitReader
=============================================================================
