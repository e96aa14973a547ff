---------------------------- MODULE AsyncClient -----------------------------
(***************************************************************************)
(* async_client.rs: the owner of an AsyncClient, the holders of its stream *)
(* handles, and the reader thread they share a control ring with.          *)
(*                                                                         *)
(* submit, cancel and drop are split where another thread can run between  *)
(* two shared accesses.  A refused admission and a header that fails its   *)
(* validation change nothing, so they are stuttering steps.                *)
(***************************************************************************)
EXTENDS Reader

CONSTANTS
    MaxCancels,     \* bound: calls of either cancel method
    Holders         \* bound: the handles that are ever read, cancelled or dropped

ASSUME AsyncClientAssumption == MaxCancels \in Nat /\ Holders \subseteq Ticket

VARIABLES
    owner,          \* where the owning thread is
    nextTicket,     \* AsyncClient::next_ticket
    cancels,        \* cancel calls so far
    early,          \* history: fate of a cancel made while its request was queued
    targets         \* history: CANCEL_ANY once an untargeted cancel was made,
                    \* with the requests in flight during such a call

ownerVars == <<owner, nextTicket>>
cancelHistory == <<cancels, early, targets>>
readerVars == <<rpc, site, hit, cur, out, exchangeVars, wireVars>>
vars == <<shuttingDown, cancelAny, cancelled, handle, sent, taken, open,
          outstanding, ring, pending, rpc, site, hit, cur, out,
          started, attempt, ticks, reads, status, dirty, unread, written, served,
          owner, nextTicket, cancels, early, targets>>

OwnerState == {"idle", "admitted", "cancelling", "dropping", "joining", "dropped"}

Init ==
    /\ DeliveryInit
    /\ AdmissionInit
    /\ QueueInit
    /\ ReaderInit
    /\ owner = "idle"
    /\ nextTicket = 0
    /\ cancels = 0
    /\ early = [t \in Ticket |-> "no"]
    /\ targets = {}

QueuedTickets == Range(pending) \cup {t \in Ticket : Request(t) \in Range(ring)}

\* The requests a caller may mean by "the request in flight": the one being
\* served, or any that waits while none is.
InFlight == IF cur = NONE THEN QueuedTickets ELSE {cur}

(***************************************************************************)
(* The owner                                                               *)
(***************************************************************************)

\* submit: the permit, then the ticket.
SubmitAdmit ==
    /\ owner = "idle"
    /\ nextTicket < MaxTickets
    /\ TryAdmit
    /\ nextTicket' = nextTicket + 1
    /\ owner' = "admitted"
    /\ UNCHANGED <<flagVars, handle, streamVars, queueVars, readerVars, cancelHistory>>

\* submit: the request enters the ring, or is dropped with its permit.
SubmitPush ==
    /\ owner = "admitted"
    /\ owner' = "idle"
    /\ LET t == nextTicket - 1 IN
         \/ /\ RingHasRoom
            /\ ring' = Append(ring, Request(t))
            /\ handle' = [handle EXCEPT ![t] = "held"]
            /\ open' = [open EXCEPT ![t] = TRUE]
            /\ UNCHANGED outstanding
         \/ /\ ~RingHasRoom
            /\ Release(1)
            /\ UNCHANGED <<ring, handle, open>>
    /\ UNCHANGED <<nextTicket, flagVars, sent, taken, pending, readerVars, cancelHistory>>

\* AsyncClient::cancel: the flag, then the message.
CancelAnyFlag ==
    /\ owner = "idle"
    /\ cancels < MaxCancels
    /\ cancels' = cancels + 1
    /\ cancelAny' = TRUE
    /\ owner' = "cancelling"
    /\ targets' = targets \cup InFlight \cup {CANCEL_ANY}
    /\ UNCHANGED <<nextTicket, shuttingDown, cancelled, handle, streamVars, queueVars,
                   outstanding, readerVars, early>>

CancelAnyPush ==
    /\ owner = "cancelling"
    /\ owner' = "idle"
    /\ PushOrLose(Cancel(CANCEL_ANY))
    /\ targets' = targets \cup InFlight
    /\ UNCHANGED <<nextTicket, flagVars, handle, streamVars, pending, outstanding,
                   readerVars, cancels, early>>

\* Drop: the flag, the wakeup (which waits for room, and gives up once the
\* reader and its end of the ring are gone), the join.
DropFlag ==
    /\ owner = "idle"
    /\ shuttingDown' = TRUE
    /\ owner' = "dropping"
    /\ UNCHANGED <<nextTicket, cancelAny, cancelled, handle, streamVars, queueVars,
                   outstanding, readerVars, cancelHistory>>

\* Variant: the owner relies on its own producer closing the ring.
DropWakeSilent ==
    /\ owner = "dropping"
    /\ owner' = "joining"
    /\ UNCHANGED <<nextTicket, flagVars, handle, streamVars, queueVars, outstanding,
                   readerVars, cancelHistory>>

DropWake ==
    /\ owner = "dropping"
    /\ RingHasRoom \/ rpc = "exited"
    /\ PushOrLose(Cancel(CANCEL_ANY))
    /\ owner' = "joining"
    /\ UNCHANGED <<nextTicket, flagVars, handle, streamVars, pending, outstanding,
                   readerVars, cancelHistory>>

DropJoin ==
    /\ owner = "joining"
    /\ rpc = "exited"
    /\ owner' = "dropped"
    /\ UNCHANGED <<nextTicket, flagVars, handle, streamVars, queueVars, outstanding,
                   readerVars, cancelHistory>>

(***************************************************************************)
(* The holder of one handle                                                *)
(***************************************************************************)

\* StreamHandle::cancel: the request's own flag, then the message.
HandleCancelFlag(t) ==
    /\ handle[t] = "held"
    /\ cancels < MaxCancels
    /\ cancels' = cancels + 1
    /\ cancelled' = [cancelled EXCEPT ![t] = TRUE]
    /\ handle' = [handle EXCEPT ![t] = "cancelling"]
    /\ UNCHANGED <<shuttingDown, cancelAny, streamVars, queueVars, outstanding,
                   readerVars, ownerVars, early, targets>>

HandleCancelPush(t) ==
    /\ handle[t] = "cancelling"
    /\ handle' = [handle EXCEPT ![t] = "held"]
    /\ PushOrLose(Cancel(t))
    /\ early' = IF t \notin QueuedTickets THEN early
                ELSE IF RingHasRoom THEN [early EXCEPT ![t] = "posted"]
                ELSE [early EXCEPT ![t] = IF @ = "no" THEN "lost" ELSE @]
    /\ UNCHANGED <<flagVars, streamVars, pending, outstanding, readerVars, ownerVars,
                   cancels, targets>>

OwnerStep ==
    \/ SubmitAdmit
    \/ SubmitPush
    \/ CancelAnyFlag
    \/ CancelAnyPush
    \/ DropFlag
    \/ DropWake
    \/ DropJoin

HolderStep(t) ==
    \/ HandleCancelFlag(t)
    \/ HandleCancelPush(t)
    \/ /\ HandleRead(t) \/ HandleDrop(t)
       /\ UNCHANGED <<queueVars, outstanding, readerVars, ownerVars, cancelHistory>>

ReaderRuns == ReaderStep /\ UNCHANGED <<ownerVars, cancelHistory>>

Next ==
    \/ OwnerStep
    \/ \E t \in Holders : HolderStep(t)
    \/ ReaderRuns

Spec == Init /\ [][Next]_vars

\* The reader is inside a call that no timeout has to end: Connector::connect,
\* which drop "waits for", or a write, whose timeout may be None.
Unbounded == (rpc = "clean" /\ dirty) \/ rpc = "redial" \/ Io("write")

\* Threads inside a call keep running: the reader's reads return within a
\* timeout tick (validate refuses an infinite read_timeout) and its sleeps end,
\* and a caller inside submit, cancel or drop finishes.  Nobody is obliged to
\* make a call, to read or to drop, and nothing to let the reader connect or
\* write.
Fairness ==
    /\ WF_vars(~Unbounded /\ ReaderRuns)
    /\ WF_vars(SubmitPush \/ CancelAnyPush \/ DropWake \/ DropJoin)
    /\ \A t \in Holders : WF_vars(HandleCancelPush(t))

FairSpec == Spec /\ Fairness

\* The client is never dropped, and the holders read what they are offered.
ReadingSpec ==
    /\ Init /\ [][Next /\ ~shuttingDown']_vars
    /\ Fairness
    /\ \A t \in Holders : WF_vars(HolderStep(t) /\ taken' # taken)

-----------------------------------------------------------------------------

\* The positions of the control ring that hold a request.
RingRequests == {i \in DOMAIN ring : ring[i].kind = "Request"}

\* Requests that own a permit, by where they are.
LiveTickets ==
    QueuedTickets \cup ({cur} \ {NONE})
        \cup (IF owner = "admitted" THEN {nextTicket - 1} ELSE {})

\* Every variable keeps its type.
TypeOK ==
    /\ shuttingDown \in BOOLEAN /\ cancelAny \in BOOLEAN
    /\ cancelled \in [Ticket -> BOOLEAN]
    /\ handle \in [Ticket -> HandleState]
    /\ sent \in [Ticket -> Seq(Chunk)]
    /\ taken \in [Ticket -> Nat]
    /\ open \in [Ticket -> BOOLEAN]
    /\ outstanding \in Int
    /\ ring \in Seq(Message)
    /\ pending \in Seq(Ticket)
    /\ rpc \in ReaderPc /\ site \in Site /\ hit \in BOOLEAN /\ out \in Chunk \cup {"none"}
    /\ cur \in Ticket \cup {NONE}
    /\ started \in [Ticket -> BOOLEAN]
    /\ attempt \in 1 .. 2 /\ ticks \in 0 .. Silence /\ reads \in 0 .. MaxReads
    /\ status \in {"success", "failure", "consumed"}
    /\ dirty \in BOOLEAN /\ unread \in Ticket \cup {NONE}
    /\ written \in [Ticket -> 0 .. 2]
    /\ served \in Seq(Ticket)
    /\ owner \in OwnerState /\ nextTicket \in 0 .. MaxTickets
    /\ cancels \in 0 .. MaxCancels
    /\ early \in [Ticket -> {"no", "posted", "lost"}]
    /\ targets \subseteq 0 .. MaxTickets

\* Whatever the reader parses as the response to a request was sent in that
\* request's own exchange: no path through dispatch, stream_body, the replay
\* or an early return lets a request meet a connection that still carries
\* another exchange (reader.rs: "a permanent, silent desync").
NoDesync ==
    rpc = "io" =>
        /\ unread \in {NONE, cur}
        /\ site # "write" => unread = cur

\* The admission counter is exactly the number of requests somewhere between
\* submit and their end, no request is in two places, and the bound holds:
\* every exit path of the reader, the queue and submit drops one permit.
PermitPerRequest ==
    /\ outstanding = Len(pending) + Cardinality(RingRequests)
                        + (IF cur = NONE THEN 0 ELSE 1)
                        + (IF owner = "admitted" THEN 1 ELSE 0)
    /\ outstanding = Cardinality(LiveTickets)
    /\ outstanding <= MaxOutstanding

\* What a caller is shown of a response: Head first and once, Body and Eof only
\* after it, at most one terminator and nothing beyond it.  A stream that closes
\* without a terminator was cancelled, was abandoned by its holder, or met a
\* shutdown: no other early return skips send_terminal.
StreamShape ==
    \A t \in Ticket :
        /\ \A i \in DOMAIN sent[t] :
              /\ sent[t][i] = "Head" <=> (i = 1 /\ sent[t][1] \notin {"Error", "Aborted"})
              /\ sent[t][i] \in Terminator => i = Len(sent[t])
              /\ sent[t][i] = "Head" => written[t] > 0
        /\ (handle[t] # "none" /\ ~open[t] /\ ~Ended(t)) =>
              \/ cancelled[t] \/ CANCEL_ANY \in targets
              \/ handle[t] = "dropped"
              \/ shuttingDown

\* Aborted is only ever reported for a request whose own handle was cancelled,
\* or for an untargeted cancel, and one untargeted cancel aborts one request: a
\* ticketed cancel that arrives late never aborts a successor (control.rs:
\* "Tickets make a late cancel a no-op"), nor does cancel_any outlive the
\* request it met.
AbortedOnlyIfAsked ==
    LET unasked == {t \in Ticket : "Aborted" \in Range(sent[t]) /\ ~cancelled[t]}
    IN  /\ unasked # {} => CANCEL_ANY \in targets
        /\ Cardinality(unasked) <= cancels

\* A cancel that enters the ring while its request is queued keeps the request
\* off the wire for good, wherever the poll finds the two of them.
PostedCancelStaysOffWire ==
    \A t \in Ticket : early[t] = "posted" => written[t] = 0 /\ ~started[t]

\* Requests are served in submission order and never twice, although the
\* cancel poll keeps moving them from the ring into pending: those served,
\* the one just taken, pending and the ring form one increasing line.  What
\* waits in it has been neither started nor written nor answered, so that
\* abort_pending, which waits for ring capacity, never waits.
OneLine ==
    LET line == served \o (IF rpc = "reset" THEN <<cur>> ELSE <<>>) \o pending
    IN  /\ \A i, j \in DOMAIN line : i < j => line[i] < line[j]
        /\ \A i \in DOMAIN line, j \in RingRequests : line[i] < ring[j].ticket
        /\ \A i, j \in RingRequests : i < j => ring[i].ticket < ring[j].ticket
        /\ \A t \in QueuedTickets :
              open[t] /\ ~started[t] /\ written[t] = 0 /\ sent[t] = <<>>

\* How far each request is, as RequestService sees it.
Life ==
    [t \in Ticket |->
        CASE t >= nextTicket -> "absent"
          [] t < nextTicket /\ t = cur -> "serving"
          [] t < nextTicket /\ t # cur /\ t \in LiveTickets -> "waiting"
          [] OTHER -> "over"]

Service == INSTANCE RequestService WITH life <- Life

\* The client implements RequestService: admission is bounded, service is one
\* at a time and in submission order, and a request ends once, although it
\* travels through a ring, a displaced queue and three threads to do so.
ImplementsService == Service!Spec

\* Unless the reader stays for ever inside one connect or one write, dropping
\* the client returns: from any state of the reader, with any ring full, any
\* handle retained and never read, and a peer that never stops sending.
DropReturns == []<>~Unbounded => (owner = "dropping" ~> owner = "dropped")

\* The peer sends a 2xx body on, which no total bounds (reader.rs, serve).
SendsOn == Io("body") /\ Progress("body")

\* With callers that read, every request is retired, unless the reader stays
\* for ever inside one connect or one write, or some 2xx body never stops
\* coming: a peer that falls silent at any point holds up nobody.
EveryRequestEnds ==
    ([]<>~Unbounded /\ <>[][~SendsOn]_vars) =>
        \A t \in Holders : t \in QueuedTickets ~> t \notin LiveTickets

(***************************************************************************)
(* Statements of the documentation that the code does not keep.            *)
(***************************************************************************)

\* async_client.rs: every response ends with "exactly one terminator", for
\* any stream whose holder still listens to a running client.
ExactlyOneTerminator ==
    \A t \in Ticket :
        (handle[t] = "held" /\ ~open[t] /\ ~shuttingDown) => Ended(t)

\* AsyncClient::cancel "has no effect if no request is in flight or if the
\* current request has already finished": it aborts only a request that was
\* in flight at some moment of the call.
CancelAnyHitsTheCurrent ==
    \A t \in Ticket :
        ("Aborted" \in Range(sent[t]) /\ ~cancelled[t]) => t \in targets

\* CHANGELOG.md: "a queued request can no longer reach the wire after
\* cancellation" and "Cancellation no longer depends on the control queue
\* having room".
QueuedCancelStaysOffWire ==
    \A t \in Ticket : early[t] # "no" => written[t] = 0

\* async_client.rs: the control ring is sized so that "Admission is the only
\* thing that refuses a submission".
AdmissionAloneRefuses == owner = "admitted" => RingHasRoom

\* CHANGELOG.md: "a retained, undrained stream can no longer hold the reader
\* [...] after a cancel": the reader leaves a cancelled request even if its
\* holder never reads, unless it stays inside one connect or one write.
CancelFreesTheReader ==
    []<>~Unbounded => \A t \in Ticket : (cur = t /\ cancelled[t]) ~> cur # t
=============================================================================
