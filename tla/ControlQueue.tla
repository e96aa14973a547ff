---------------------------- MODULE ControlQueue ----------------------------
(***************************************************************************)
(* control.rs: the MPSC control ring that carries requests and cancels,    *)
(* and the queue of requests displaced from it by the destructive cancel   *)
(* poll.  The reader's program counter lives here because next_request     *)
(* and poll_cancel are loops whose every pass races the callers.           *)
(***************************************************************************)
EXTENDS Admission, Delivery, FiniteSets, Functions

VARIABLES
    ring,       \* the control ring, oldest message first
    pending,    \* tickets of the requests displaced from the ring
    rpc,        \* where the reader thread is
    site,       \* what the running poll_cancel, or the I/O after it, is for
    hit,        \* poll_cancel's local `cancelled`
    cur,        \* ticket of the request being served
    out         \* chunk the reader is delivering

queueVars == <<ring, pending>>

\* CONTROL_RING_CAP
RingCap == MaxOutstanding * 2

Message ==
    [kind : {"Request"}, ticket : Ticket] \cup [kind : {"Cancel"}, ticket : 0 .. MaxTickets]
Request(t) == [kind |-> "Request", ticket |-> t]
Cancel(t) == [kind |-> "Cancel", ticket |-> t]

Site == {"none", "dispatch", "write", "head", "retry", "body", "drain"}
ReaderPc == {"next", "idle", "reset", "poll", "clean", "begin", "io", "redial",
             "body", "drain", "send", "finish", "exited"}

QueueInit ==
    /\ ring = <<>>
    /\ pending = <<>>
    /\ rpc = "next"
    /\ site = "none"
    /\ hit = FALSE
    /\ cur = NONE
    /\ out = "none"

RingHasRoom == Len(ring) < RingCap

\* A non-blocking push whose refusal the caller ignores.
PushOrLose(message) ==
    ring' = IF RingHasRoom THEN Append(ring, message) ELSE ring

\* Enter poll_cancel(Some(cur)) on behalf of s.
StartPoll(s) ==
    /\ rpc' = "poll"
    /\ site' = s
    /\ hit' = FALSE
    /\ out' = "none"

\* Enter ChunkSink::send or send_terminal with a chunk.
StartSend(chunk) ==
    /\ rpc' = "send"
    /\ out' = chunk
    /\ site' = "none"
    /\ hit' = FALSE

\* Move on; site and out are locals of the poll, the I/O and the delivery.
Goto(pc) ==
    /\ rpc' = pc
    /\ site' = IF pc = "io" THEN site ELSE "none"
    /\ out' = "none"
    /\ UNCHANGED hit

(***************************************************************************)
(* next_request                                                            *)
(***************************************************************************)

\* Variant: the displaced queue is taken from its back.
NextPendingLast ==
    /\ rpc = "next"
    /\ ~shuttingDown
    /\ IF pending # <<>>
       THEN /\ cur' = pending[Len(pending)]
            /\ pending' = SubSeq(pending, 1, Len(pending) - 1)
            /\ Goto("reset")
       ELSE /\ Goto("idle")
            /\ UNCHANGED <<cur, pending>>
    /\ UNCHANGED <<ring, outstanding, flagVars, handle, streamVars>>

\* pending.pop_front() after the shutdown check, or on to the ring.
NextPending ==
    /\ rpc = "next"
    /\ ~shuttingDown
    /\ IF pending # <<>>
       THEN /\ cur' = Head(pending)
            /\ pending' = Tail(pending)
            /\ Goto("reset")
       ELSE /\ Goto("idle")
            /\ UNCHANGED <<cur, pending>>
    /\ UNCHANGED <<ring, outstanding, flagVars, handle, streamVars>>

\* rx.pop_block() returns.  It never reports a closed ring: the client holds
\* a producer until its Drop, which leaves a message behind.
PopBlock ==
    /\ rpc = "idle"
    /\ ring # <<>>
    /\ ring' = Tail(ring)
    /\ IF Head(ring).kind = "Request"
       THEN /\ cur' = Head(ring).ticket
            /\ Goto("reset")
       ELSE /\ Goto("next")
            /\ UNCHANGED cur
    /\ UNCHANGED <<pending, outstanding, flagVars, handle, streamVars>>

\* cancel_any.store(false), next_request's last act; serve and dispatch then
\* start with a poll.
ResetCancelAny ==
    /\ rpc = "reset"
    /\ cancelAny' = FALSE
    /\ StartPoll("dispatch")
    /\ UNCHANGED <<cur, queueVars, outstanding, shuttingDown, cancelled, handle,
                   streamVars>>

(***************************************************************************)
(* poll_cancel, one pass of its loop per step                              *)
(***************************************************************************)

\* pending.remove(i): the entries behind position i close up.
Without(s, i) == SubSeq(s, 1, i - 1) \o SubSeq(s, i + 1, Len(s))

\* The request is dropped: its permit and its chunk producer go with it.
\* Used for the requests that leave the queue unserved.
DropRequests(S) ==
    /\ open' = [t \in Ticket |-> open[t] /\ t \notin S]
    /\ Release(Cardinality(S))

\* Variant: the slot of a request aborted in the queue is not given back.
AbortPendingLeaky(t) ==
    IF \E i \in DOMAIN pending : pending[i] = t
    THEN /\ \E i \in DOMAIN pending :
                /\ pending[i] = t
                /\ pending' = Without(pending, i)
         /\ sent' = IF BlockedReason(t, FALSE) THEN sent ELSE Pushed(t, "Aborted")
         /\ open' = [open EXCEPT ![t] = FALSE]
         /\ UNCHANGED <<outstanding, taken>>
    ELSE UNCHANGED <<pending, outstanding, streamVars>>

\* abort_pending: a request still queued has pushed nothing, so its ring
\* has room and send_terminal never waits.
AbortPending(t) ==
    IF \E i \in DOMAIN pending : pending[i] = t
    THEN /\ \E i \in DOMAIN pending :
                /\ pending[i] = t
                /\ pending' = Without(pending, i)
         /\ sent' = IF BlockedReason(t, FALSE) THEN sent ELSE Pushed(t, "Aborted")
         /\ DropRequests({t})
         /\ UNCHANGED taken
    ELSE UNCHANGED <<pending, outstanding, streamVars>>

\* Variant: any cancel stops the request in flight.
PollCancelMsgUnscoped ==
    /\ rpc = "poll"
    /\ ~shuttingDown
    /\ ring # <<>>
    /\ Head(ring).kind = "Cancel"
    /\ ring' = Tail(ring)
    /\ cancelAny' = (cancelAny \/ Head(ring).ticket = CANCEL_ANY)
    /\ hit' = TRUE
    /\ UNCHANGED <<rpc, site, cur, out, pending, outstanding, streamVars,
                   shuttingDown, cancelled, handle>>

\* Variant: a cancel for another request is dropped even if that one waits.
PollCancelMsgForgetful ==
    /\ rpc = "poll"
    /\ ~shuttingDown
    /\ ring # <<>>
    /\ Head(ring).kind = "Cancel"
    /\ ring' = Tail(ring)
    /\ cancelAny' = (cancelAny \/ Head(ring).ticket = CANCEL_ANY)
    /\ hit' = (hit \/ Head(ring).ticket \in {CANCEL_ANY, cur})
    /\ UNCHANGED <<rpc, site, cur, out, pending, outstanding, streamVars,
                   shuttingDown, cancelled, handle>>

PollCancelMsg ==
    /\ rpc = "poll"
    /\ ~shuttingDown
    /\ ring # <<>>
    /\ Head(ring).kind = "Cancel"
    /\ ring' = Tail(ring)
    /\ LET k == Head(ring).ticket IN
         /\ cancelAny' = (cancelAny \/ k = CANCEL_ANY)
         /\ IF k \in {CANCEL_ANY, cur}
            THEN /\ hit' = TRUE
                 /\ UNCHANGED <<pending, outstanding, streamVars>>
            ELSE /\ AbortPending(k)
                 /\ UNCHANGED hit
    /\ UNCHANGED <<rpc, site, cur, out, shuttingDown, cancelled, handle>>

\* Variant: a displaced request goes to the front of the queue.
PollRequestMsgFront ==
    /\ rpc = "poll"
    /\ ~shuttingDown
    /\ ring # <<>>
    /\ Head(ring).kind = "Request"
    /\ ring' = Tail(ring)
    /\ pending' = <<Head(ring).ticket>> \o pending
    /\ UNCHANGED <<rpc, site, hit, cur, out, outstanding, flagVars, handle, streamVars>>

PollRequestMsg ==
    /\ rpc = "poll"
    /\ ~shuttingDown
    /\ ring # <<>>
    /\ Head(ring).kind = "Request"
    /\ ring' = Tail(ring)
    /\ pending' = Append(pending, Head(ring).ticket)
    /\ UNCHANGED <<rpc, site, hit, cur, out, outstanding, flagVars, handle, streamVars>>

\* What the asker does with the answer.  A cancel surfaces as an error that
\* the latch classifies, and every asker then delivers Aborted.
PollAnswer(cancel) ==
    IF cancel THEN StartSend("Aborted")
    ELSE Goto(CASE site = "dispatch" -> "clean"
                [] site = "retry" -> "redial"
                [] OTHER -> "io")

PollReturn ==
    /\ rpc = "poll"
    /\ \/ shuttingDown /\ PollAnswer(TRUE)
       \/ ~shuttingDown /\ ring = <<>> /\ PollAnswer(hit)
    /\ UNCHANGED <<cur, queueVars, outstanding, flagVars, handle, streamVars>>
=============================================================================
