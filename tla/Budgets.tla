------------------------------ MODULE Budgets -------------------------------
(***************************************************************************)
(* silence.rs, write_budget.rs and tick.rs: an exchange on the connection  *)
(* a dial has made, against the same clock.  The request is written and    *)
(* flushed, the head is read, and the body is read, by a collector that    *)
(* answers to the total or as a stream, between whose reads the caller     *)
(* takes its time.  A socket call returns when something happens or after  *)
(* the socket timeout; a stream left in non-blocking mode returns at once. *)
(***************************************************************************)
EXTENDS Dialer, Sequences

CONSTANTS
    SocketTimeouts,     \* read_timeout and a finite write_timeout; 0 is non-blocking
    HeadSilence,        \* head_silence
    StreamSilence,      \* stream_silence
    TICK_MIN,           \* Tick::MIN
    Requests,           \* the buffers of a request: head and body in one, or two
    MaxReads,           \* bound: reads of a response
    MaxPause            \* bound: between the reads of a stream

ASSUME BudgetsAssumption ==
    /\ SocketTimeouts \subseteq Nat /\ HeadSilence \in Nat \ {0} /\ StreamSilence \in Nat \ {0}
    /\ TICK_MIN \in Nat \ {0} /\ MaxReads \in Nat /\ MaxPause \in Nat
    /\ Requests \subseteq Seq(Nat \ {0}) \ {<<>>}

VARIABLES
    total,          \* RequestDeadline: an instant, or NEVER
    streamed,       \* whether the body is read as a stream
    timeout,        \* of the socket
    request,        \* the sizes of the buffers to write
    op,             \* what the client is doing
    clock,          \* the time, once the dial has ended
    began,          \* when the call in progress began
    progress,       \* last_progress of the budget in use
    off,            \* bytes of the current buffer written
    wire,           \* what the peer accepted: pairs of a buffer and a position in it
    inbox,          \* whether bytes wait in the socket
    arrived,        \* when the last byte arrived in it
    reads,          \* reads made
    turn,           \* parity of the retries after a tick
    ended           \* how the exchange ended, and in which operation

exchange == <<total, streamed, timeout, request>>
sent == <<off, wire>>
received == <<inbox, arrived>>
allVars == <<vars, exchange, op, clock, began, progress, sent, received, reads, turn, ended>>

Step == IF timeout < TICK_MIN THEN TICK_MIN ELSE timeout

BudgetsInit ==
    /\ Init
    /\ total \in Totals /\ \E connect \in ConnectTimeouts : expires = Sooner(total, connect)
    /\ streamed \in BOOLEAN /\ timeout \in SocketTimeouts /\ request \in Requests
    /\ op = "dial" /\ clock = 0 /\ began = 0 /\ progress = 0 /\ off = 0 /\ wire = <<>>
    /\ inbox = FALSE /\ arrived = 0 /\ reads = 0 /\ turn = 0 /\ ended = <<"none", "none">>

\* The dial, up to its return.
Dial ==
    /\ op = "dial" /\ (Check \/ Resolve \/ Attempt \/ Exhausted)
    /\ UNCHANGED <<exchange, op, clock, began, progress, sent, received, reads, turn, ended>>

\* Variant: the total ends with the head.
DeadlineOfHead(doing) == IF doing = "body" THEN NEVER ELSE total

\* The total that the operation in progress answers to.
DeadlineOf(doing) == IF doing = "body" /\ streamed THEN NEVER ELSE total

\* RequestDeadline::expired
Overdue(doing, t) == DeadlineOf(doing) # NEVER /\ t >= DeadlineOf(doing)

LimitOf(doing) == IF doing = "body" THEN StreamSilence ELSE HeadSilence

\* The exchange is over.
End(how) == op' = "done" /\ ended' = <<how, op>>

\* The next operation, with a budget of its own from instant t on.
Start(doing, t) == op' = doing /\ began' = t /\ progress' = t /\ UNCHANGED <<turn, ended>>

\* What dial keeps while it runs is gone when it has connected.
Forget == left' = 0 /\ last' = "none" /\ resolved' = 0 /\ expires' = NEVER

\* send_head_once, on a connection just dialled: the total is looked at before
\* the first byte.
Begin ==
    /\ op = "dial" /\ pc = "done"
    /\ clock' = now
    /\ IF outcome # "connected" THEN End(outcome) /\ UNCHANGED <<vars, began, progress, turn>>
       ELSE IF Overdue("write", now) THEN End("deadline") /\ UNCHANGED <<vars, began, progress, turn>>
       ELSE Start("write", now) /\ Forget /\ UNCHANGED <<now, pc, outcome>>
    /\ UNCHANGED <<exchange, sent, received, reads>>

\* A socket call takes no time, or some of the timeout.
Took == 0 .. timeout

\* Bytes of the response may arrive by instant t.
MayArrive(t) ==
    \/ UNCHANGED received
    \/ inbox' = TRUE /\ arrived' = t

\* Variant: a tick is retried at once.
PaceNot == timeout

\* Tick::pace: how long a tick takes, with the pause after one that came early.
Pace == Step

\* The socket timed out: the end of the budget, or another turn of the loop.
Ticked(doing) ==
    IF clock + timeout - progress >= LimitOf(doing)
    THEN clock' = clock + timeout /\ End("silent") /\ UNCHANGED <<received, began, turn>>
    ELSE /\ clock' = clock + Pace /\ turn' = 1 - turn
         /\ IF Pace > timeout THEN MayArrive(clock') ELSE UNCHANGED received
         /\ UNCHANGED <<op, ended, began>>

\* The call failed, found the connection closed, or was cancelled by the
\* interrupt it runs through.
Failed ==
    /\ \E t \in Took : clock' = clock + t
    /\ End("error") /\ UNCHANGED <<received, began, turn>>

\* The byte of the request after byte b, or past its end.
After(b) == IF b[2] = request[b[1]] THEN <<b[1] + 1, 1>> ELSE <<b[1], b[2] + 1>>

\* The buffer of the next byte the peer has not accepted.
Piece == IF wire = <<>> THEN 1 ELSE After(wire[Len(wire)])[1]

\* Variant: what follows a tick starts at the beginning of the buffer.
ResumeAtStart == 0

\* Where the write after a tick resumes: at the offset already accepted.
Resume == off

\* One turn of write_all_raw.  The head and a body that is not inlined are two
\* calls on one budget.
Write ==
    /\ op = "write" /\ ~Overdue("write", clock)
    /\ \/ \E t \in Took, n \in 1 .. request[Piece] - off :
             /\ clock' = clock + t /\ progress' = clock'
             /\ wire' = wire \o [i \in 1 .. n |-> <<Piece, off + i>>]
             /\ IF off + n < request[Piece] THEN off' = off + n /\ UNCHANGED op
                ELSE off' = 0 /\ op' = IF Piece = Len(request) THEN "flush" ELSE "write"
             /\ MayArrive(clock') /\ UNCHANGED <<turn, ended, began>>
       \/ Ticked("write") /\ off' = Resume /\ UNCHANGED <<wire, progress>>
       \/ Failed /\ UNCHANGED <<sent, progress>>
    /\ UNCHANGED <<vars, exchange, reads>>

\* One turn of WriteBudget::flush; the head is then read on a budget of its own.
Flush ==
    /\ op = "flush" /\ ~Overdue("flush", clock)
    /\ \/ \E t \in Took : clock' = clock + t /\ Start("head", clock') /\ MayArrive(clock')
       \/ Ticked("flush") /\ UNCHANGED progress
       \/ Failed /\ UNCHANGED progress
    /\ UNCHANGED <<vars, exchange, sent, reads>>

\* Variant: a read does not count as progress.
NotProgressed(t) == progress

\* last_progress after a read that returned bytes at instant t.
Progressed(t) == t

\* What such a read leads to: more of the head, the body on a budget of its own,
\* more of the body, at once or when the caller comes back, or the end.
ReadOn(doing, t) ==
    \/ doing = "head" /\ Start("body", t)
    \/ /\ reads' < MaxReads /\ progress' = Progressed(t)
       /\ op' = IF doing = "body" /\ streamed THEN "pause" ELSE doing
       /\ UNCHANGED <<turn, ended, began>>
    \/ doing = "body" /\ progress' = Progressed(t) /\ End("complete") /\ UNCHANGED <<turn, began>>

\* One turn of SilenceBudget::read.
Read ==
    /\ op \in {"head", "body"} /\ ~Overdue(op, clock)
    /\ \/ /\ \/ inbox /\ clock' = clock /\ inbox' \in BOOLEAN /\ UNCHANGED arrived
             \/ /\ ~inbox /\ \E t \in Took : clock' = clock + t
                /\ arrived' = clock' /\ inbox' \in BOOLEAN
          /\ reads' = reads + 1 /\ ReadOn(op, clock')
       \/ ~inbox /\ Ticked(op) /\ UNCHANGED <<progress, reads>>
       \/ ~inbox /\ Failed /\ UNCHANGED <<progress, reads>>
    /\ UNCHANGED <<vars, exchange, sent>>

\* The total has passed: no further socket call is made.
Expire ==
    /\ op \in {"write", "flush", "head", "body"} /\ Overdue(op, clock)
    /\ End("deadline")
    /\ UNCHANGED <<vars, exchange, clock, began, progress, sent, received, reads, turn>>

\* The caller comes back for more of the stream.
Pause ==
    /\ op = "pause"
    /\ \E t \in 0 .. MaxPause : clock' = clock + t
    /\ MayArrive(clock') /\ began' = clock' /\ op' = "body"
    /\ UNCHANGED <<vars, exchange, progress, sent, reads, turn, ended>>

Over == op = "done" /\ UNCHANGED allVars

Call == Dial \/ Begin \/ Write \/ Flush \/ Read \/ Expire

BudgetsNext == Call \/ Pause \/ Over

\* The client's thread runs, and a socket call returns by its timeout.
BudgetsSpec == BudgetsInit /\ [][BudgetsNext]_allVars /\ WF_allVars(Call)

(***************************************************************************)
(* Properties                                                              *)
(***************************************************************************)

Busy == op \in {"write", "flush", "head", "body"}

\* One total covers the dial, the write, the head and a collected body: none of
\* them outlives it by more than one socket timeout, however the peer trickles;
\* and without a total, no call goes on for more than its silence limit and one
\* timeout after it began or last made progress.
EndsInTime ==
    /\ total # NEVER /\ (op \in {"write", "flush", "head"} \/ ~streamed) =>
          clock <= total + Step \/ clock = resolved
    /\ Busy => \/ clock <= began + LimitOf(op) + Step
               \/ clock <= progress + LimitOf(op) + Step

\* A silent peer is one that was silent: when SilenceBudget::read gives up,
\* nothing waits in the socket and nothing arrived in it for the whole limit,
\* although the budget goes on counting while the caller of a stream is away.
SilenceIsReal ==
    ended[1] = "silent" /\ ended[2] \in {"head", "body"} =>
        ~inbox /\ clock - arrived >= LimitOf(ended[2])

\* The peer gets the request once, in order and from the start, whatever it
\* accepts at a time and however many ticks come between: write_all_raw resumes
\* at the offset accepted, and nothing is read before all of it was written.
WritesOnce ==
    /\ \A k \in DOMAIN wire :
          /\ wire[k] = IF k = 1 THEN <<1, 1>> ELSE After(wire[k - 1])
          /\ wire[k][1] <= Len(request)
    /\ op \in {"flush", "head", "body", "pause"} =>
          wire # <<>> /\ After(wire[Len(wire)]) = <<Len(request) + 1, 1>>

\* Every call comes back: with finite socket timeouts, and a resolver that
\* answers, a dial, a write, a flush or a read cannot go on for ever, on a
\* stream that never blocks as on one that does: no loop of write_budget.rs or
\* silence.rs retries without time passing.
EveryCallReturns == (Busy \/ op = "dial") ~> ~(Busy \/ op = "dial")
=============================================================================
