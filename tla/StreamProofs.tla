---------------------------- MODULE StreamProofs ----------------------------
(***************************************************************************)
(* Requests and cancels in the line of an AsyncClient, for every value of  *)
(* the constants: a cancel posted while a request waits keeps it off the   *)
(* wire (PostedCancelStaysOffWire), and requests are served in the order of*)
(* the line (OneLine).  Then what a step may do to a stream.               *)
(***************************************************************************)
EXTENDS QueueProofs

\* What the provers may take for a leaf.
USE SMTT(30), ZenonT(30)

(***************************************************************************)
(* A request that waits is untouched, and a cancel posted for it is met    *)
(* before it is served.                                                    *)
(***************************************************************************)

\* The requests nobody has begun to serve.
Waiting == PendingTickets \cup RingTickets \cup (IF rpc = "reset" THEN {cur} ELSE {})

\* Nobody has touched a request that waits, or one not submitted yet.
FreshInv ==
    /\ \A t \in Ticket : t >= Submitted =>
          /\ started[t] = FALSE /\ written[t] = 0 /\ sent[t] = <<>> /\ open[t] = FALSE
          /\ handle[t] = "none" /\ early[t] = "no"
    /\ \A t \in Waiting :
          open[t] = TRUE /\ started[t] = FALSE /\ written[t] = 0 /\ sent[t] = <<>>

-----------------------------------------------------------------------------

\* Only the exchange of the request being served publishes started and meets
\* the wire.
LEMMA ExchangeTouches ==
    ASSUME TypeInv, Next, NEW t \in Ticket
    PROVE  /\ started'[t] = started[t] \/ (t = cur /\ rpc = "begin")
           /\ written'[t] = written[t] \/ (t = cur /\ rpc = "io")
  <1>1. started \in [Ticket -> BOOLEAN] /\ written \in [Ticket -> 0 .. 2]
    BY Zenon DEF TypeInv, TypeOK
  <1>2. CASE OwnerStep \/ \E u \in Holders : HolderStep(u)
    BY <1>2, CallersKeepReader
  <1>3. CASE ReaderStep
    <2>1. started' = started \/ (rpc = "begin" /\ started' = [started EXCEPT ![cur] = TRUE])
      BY <1>3, Zenon DEF ReaderStep, Serve, EnsureClean, BeginExchange, WriteRequest, ReadHead,
         OfferHead, Redial, StreamSuccess, DrainErrorBody, Deliver, FinishRequest, ExitReader,
         exchangeVars
    <2>2. \/ written' = written
          \/ rpc = "io" /\ written' = [written EXCEPT ![cur] = attempt]
      BY <1>3, Zenon DEF ReaderStep, Serve, EnsureClean, BeginExchange, WriteRequest, OnWire,
                  Io, ReadHead, OfferHead, Redial, StreamSuccess, DrainErrorBody, Deliver,
                  FinishRequest, ExitReader, wireVars, historyVars
    <2> QED
      BY <1>1, <2>1, <2>2, Zenon
  <1> QED
    BY <1>2, <1>3, Zenon DEF Next, ReaderRuns

\* A handle appears with the push of its request, and only a waiting request
\* has the fate of its cancel recorded.
LEMMA HoldersTouch ==
    ASSUME TypeInv, Next, NEW t \in Ticket
    PROVE  /\ handle[t] = "none" => handle'[t] = "none" \/ t < Submitted'
           /\ early'[t] = early[t] \/ t \in QueuedTickets
  <1>1. /\ handle \in [Ticket -> HandleState] /\ early \in [Ticket -> {"no", "posted", "lost"}]
        /\ nextTicket \in 0 .. MaxTickets /\ MaxTickets \in Nat
    BY DeliveryAssumption, Zenon DEF TypeInv, TypeOK
  <1>2. CASE SubmitPush
    <2>1. Submitted' = nextTicket /\ UNCHANGED early
      BY <1>2, Zenon DEF SubmitPush, Submitted, cancelHistory
    <2>2. \/ handle' = handle
          \/ handle' = [handle EXCEPT ![nextTicket - 1] = "held"]
      BY <1>2, Zenon DEF SubmitPush
    <2> QED
      BY <1>1, <2>1, <2>2
  <1>3. CASE OwnerStep /\ ~SubmitPush
    BY <1>3 DEF OwnerStep, SubmitAdmit, CancelAnyFlag, CancelAnyPush, DropFlag, DropWake,
                DropJoin, cancelHistory
  <1>4. ASSUME NEW u \in Holders, HolderStep(u)
        PROVE  /\ handle[t] = "none" => handle'[t] = "none"
               /\ early'[t] = early[t] \/ t \in QueuedTickets
    <2>1. u \in Ticket
      BY AsyncClientAssumption, Zenon
    <2>2. handle[u] # "none" /\ (handle' = handle \/ \E x : handle' = [handle EXCEPT ![u] = x])
      BY <1>4, Zenon DEF HolderStep, HandleCancelFlag, HandleCancelPush, HandleRead, HandleDrop
    <2>3. \/ early' = early
          \/ u \in QueuedTickets /\ \E x : early' = [early EXCEPT ![u] = x]
      BY <1>4 DEF HolderStep, HandleCancelFlag, HandleCancelPush, cancelHistory
    <2> QED
      BY <1>1, <2>1, <2>2, <2>3, Zenon
  <1>5. CASE ReaderRuns
    <2>1. handle' = handle
      BY <1>5, ZenonT(30) DEF ReaderRuns, ReaderStep, NextPending, PopBlock, PollCancelMsg,
         PollRequestMsg, PollReturn, Serve, ResetCancelAny, EnsureClean, BeginExchange,
         WriteRequest, ReadHead, OfferHead, Redial, StreamSuccess, DrainErrorBody, Deliver,
         FinishRequest, ExitReader, callerSide
    <2> QED
      BY <1>5, <2>1, Zenon DEF ReaderRuns, cancelHistory
  <1> QED
    BY <1>2, <1>3, <1>4, <1>5 DEF Next

\* A request comes to wait by its push alone, and while it waits no step
\* pushes into its stream or drops it.
LEMMA WaitingKept ==
    ASSUME QueueInv, QueueInv', Move, NEW t \in Waiting'
    PROVE  \/ /\ t \in Waiting /\ open'[t] = open[t] /\ sent'[t] = sent[t]
              /\ t # cur \/ rpc = "reset"
           \/ Push /\ t = Submitted
  <1>1. TypeInv /\ TypeInv' /\ CurInv /\ LineInv /\ BoundInv
    BY DEF QueueInv
  <1> DEFINE P == PendingTickets
             R == RingTickets
  <1>2. /\ ring' = ring => R' = R
        /\ pending' = pending => P' = P
    BY <1>1, RingTicketsMove, PendingTicketsMove, ZenonT(30)
  <1>3. /\ P \cap R = {} /\ cur \notin P \cup R /\ QueuedTickets = P \cup R
        /\ P \subseteq Ticket /\ R \subseteq Ticket
    BY <1>1, OnePlace, PendingTicketsAre, RingTicketsAre
  <1>4. rpc = "reset" => cur \in Ticket
    BY <1>1, QueueTypes, Zenon DEF Serving, ReaderPc
  <1>5. open \in [Ticket -> BOOLEAN] /\ sent \in [Ticket -> Seq(Chunk)]
    BY <1>1, Zenon DEF TypeInv, TypeOK
  <1> HIDE DEF P, R
  <1>6. CASE Still
    <2>1. P' = P /\ R' = R /\ (rpc' = "reset" => rpc = "reset")
      BY <1>2, <1>6 DEF Still
    <2>2. t \in Waiting /\ (t # cur \/ rpc = "reset")
      BY <1>3, <1>6, <2>1, Zenon DEF Still, Waiting, P, R
    <2>3. sent'[t] = sent[t]
      BY <1>3, <1>4, <1>6, <2>2 DEF Still, Waiting, P, R
    <2> QED
      BY <1>6, <2>2, <2>3 DEF Still
  <1>7. CASE Admit \/ Refuse
    BY <1>2, <1>3, <1>7, Zenon DEF Admit, Refuse, Waiting, P, R
  <1>8. CASE Push
    <2>1. P' = P /\ R' = R \cup {Submitted} /\ Submitted \in Ticket
      BY <1>1, <1>2, <1>8, RingTicketsMove, ZenonT(30) DEF Push, R
    <2>2. t = Submitted \/ (t \in Waiting /\ (t # cur \/ rpc = "reset"))
      BY <1>3, <1>8, <2>1 DEF Push, Waiting, P, R
    <2>3. CASE t # Submitted /\ t \in Waiting /\ (t # cur \/ rpc = "reset")
      <3>1. t \in Ticket
        BY <1>3, <1>4, <2>3 DEF Waiting, P, R
      <3>2. open'[t] = open[t]
        BY <1>5, <1>8, <2>3, <3>1 DEF Push
      <3> QED
        BY <1>8, <2>3, <3>2, Zenon DEF Push
    <2> QED
      BY <1>8, <2>2, <2>3
  <1>9. ASSUME NEW k \in 0 .. MaxTickets, Post(k)
        PROVE  /\ t \in Waiting /\ open'[t] = open[t] /\ sent'[t] = sent[t]
               /\ t # cur \/ rpc = "reset"
    <2>1. P' = P /\ R' = R
      BY <1>1, <1>2, <1>9, RingTicketsMove, ZenonT(30) DEF Post, R
    <2> QED
      BY <1>3, <1>9, <2>1 DEF Post, Waiting, P, R
  <1>10. CASE TakePending
    <2>1. cur' \in P /\ P' = P \ {cur'} /\ R' = R
      BY <1>1, <1>2, <1>10, PendingTicketsMove, ZenonT(30) DEF TakePending, P
    <2> QED
      BY <1>3, <1>10, <2>1 DEF TakePending, Waiting, P, R
  <1>11. CASE TakeRing
    <2>1. cur' \in R /\ R' = R \ {cur'} /\ P' = P
      BY <1>1, <1>2, <1>11, RingTicketsMove DEF TakeRing, R
    <2> QED
      BY <1>3, <1>11, <2>1 DEF TakeRing, Waiting, P, R
  <1>12. CASE Skip
    <2>1. P' = P /\ R' = R
      BY <1>1, <1>2, <1>12, RingTicketsMove, ZenonT(30) DEF Skip, R
    <2> QED
      BY <1>3, <1>12, <2>1 DEF Skip, Waiting, P, R
  <1>13. ASSUME NEW i \in DOMAIN pending, Abort(i)
         PROVE  /\ t \in Waiting /\ open'[t] = open[t] /\ sent'[t] = sent[t]
                /\ t # cur \/ rpc = "reset"
    <2>1. pending[i] \in P /\ P' = P \ {pending[i]}
      BY <1>1, <1>13, PendingTicketsMove, ZenonT(30) DEF Abort, P
    <2>2. R' = R
      <3>1. Head(ring).kind = "Cancel"
        BY <1>13 DEF Abort, Cancel
      <3> QED
        BY <1>1, <1>13, <3>1, RingTicketsMove DEF Abort, R
    <2>3. t \in P \cup R /\ t # pending[i] /\ t # cur
      BY <1>3, <1>13, <2>1, <2>2, ZenonT(30) DEF Abort, Waiting, P, R
    <2>4. sent'[t] = sent[t]
      BY <1>3, <1>5, <1>13, <2>3 DEF Abort, Pushed
    <2>5. open'[t] = open[t]
      BY <1>3, <1>5, <1>13, <2>3, ZenonT(30) DEF Abort
    <2> QED
      BY <2>3, <2>4, <2>5 DEF Waiting, P, R
  <1>14. CASE Displace
    <2> DEFINE k == Head(ring).ticket
    <2>1. k \in R /\ R' = R \ {k}
      BY <1>1, <1>14, RingTicketsMove, ZenonT(30) DEF Displace, R
    <2>2. P' = P \cup {k}
      BY <1>1, <1>3, <1>14, <2>1, PendingTicketsMove DEF Displace, P
    <2> HIDE DEF k
    <2> QED
      BY <1>3, <1>14, <2>1, <2>2 DEF Displace, Waiting, P, R
  <1>15. CASE StartServing
    BY <1>2, <1>3, <1>15, ZenonT(30) DEF StartServing, Waiting, P, R
  <1>16. CASE Finish
    <2>1. t \in P \cup R /\ t # cur
      BY <1>2, <1>3, <1>16, Zenon DEF Finish, Waiting, P, R
    <2> QED
      BY <1>3, <1>5, <1>16, <2>1 DEF Finish, Waiting, P, R
  <1>17. CASE Exit
    <2>1. P' = {}
      BY <1>1, <1>17, PendingTicketsMove, ZenonT(30) DEF Exit, P
    <2>2. CASE ring' = ring /\ DropRequests(Range(pending))
      <3>1. t \in R /\ t \notin P /\ t # cur
        BY <1>2, <1>3, <1>17, <2>1, <2>2, ZenonT(30) DEF Exit, Waiting, P, R
      <3> QED
        BY <1>3, <1>5, <1>17, <2>2, <3>1 DEF Exit, DropRequests, Waiting, P, R, PendingTickets
    <2>3. CASE ring' = <<>>
      <3>1. R' = {}
        BY <1>1, <2>3, RingTicketsMove, Zenon DEF R
      <3> QED
        BY <1>17, <2>1, <3>1 DEF Exit, Waiting, P, R
    <2> QED
      BY <1>17, <2>2, <2>3 DEF Exit
  <1> QED
    BY <1>6, <1>7, <1>8, <1>9, <1>10, <1>11, <1>12, <1>13, <1>14, <1>15, <1>16, <1>17 DEF Move

\* No step touches a request before it is served.
LEMMA FreshStep ==
    ASSUME QueueInv, QueueInv', FreshInv, Next
    PROVE  FreshInv'
  <1>1. TypeInv /\ TypeInv' /\ CurInv /\ BoundInv
    BY Zenon DEF QueueInv
  <1>2. Move
    BY <1>1, StepIsMove
  <1>3. /\ Submitted \in Nat /\ Ticket \subseteq Nat
        /\ \A i \in DOMAIN pending : pending[i] \in Ticket
    BY <1>1, QueueTypes, LineTypes, Zenon
  <1>4. Submitted' = Submitted \/ (Submitted' = Submitted + 1 /\ Submitted \in Ticket)
    BY <1>2, Zenon DEF Move, Still, Admit, Push, Refuse, Post, TakePending, TakeRing, Skip, Abort,
                Displace, StartServing, Finish, Exit, KeepSubmit
  <1>5. ASSUME NEW t \in Ticket, t >= Submitted'
        PROVE  /\ started'[t] = FALSE /\ written'[t] = 0 /\ sent'[t] = <<>> /\ open'[t] = FALSE
               /\ handle'[t] = "none" /\ early'[t] = "no"
    <2>1. t \in Nat /\ t >= Submitted /\ ~(t < Submitted') /\ (Push => t # Submitted)
      BY <1>3, <1>4, <1>5 DEF Push
    <2>2. t # cur /\ t \notin QueuedTickets
      <3>1. t # cur
        BY <1>1, <1>3, <2>1, QueueTypes DEF BoundInv, NONE
      <3>2. \A u \in QueuedTickets : u < Submitted
        BY <1>1, PendingTicketsAre, RingTicketsAre DEF BoundInv
      <3> QED
        BY <1>3, <2>1, <3>1, <3>2
    <2>3. /\ started[t] = FALSE /\ written[t] = 0 /\ sent[t] = <<>> /\ open[t] = FALSE
          /\ handle[t] = "none" /\ early[t] = "no"
      BY <2>1, Zenon DEF FreshInv
    <2>4. started'[t] = FALSE /\ written'[t] = 0
      BY <1>1, <2>2, <2>3, ExchangeTouches, ZenonT(30)
    <2>5. handle'[t] = "none" /\ early'[t] = "no"
      BY <1>1, <2>1, <2>2, <2>3, HoldersTouch
    <2>6. \A i \in DOMAIN pending : pending[i] # t
      BY <1>1, <2>2, PendingTicketsAre, ZenonT(30)
    <2>7. sent'[t] = sent[t]
      <3>1. sent \in [Ticket -> Seq(Chunk)]
        BY <1>1, Zenon DEF TypeInv, TypeOK
      <3>2. ASSUME NEW i \in DOMAIN pending, Abort(i) PROVE sent'[t] = sent[t]
        BY <2>6, <3>1, <3>2, Zenon DEF Abort, Pushed
      <3>3. CASE Still
        BY <2>2, <3>3, Zenon DEF Still
      <3> QED
        BY <1>2, <3>2, <3>3 DEF Move, Admit, Push, Refuse, Post, TakePending, TakeRing, Skip,
                                Displace, StartServing, Finish, Exit
    <2>8. open'[t] = FALSE
      <3>1. open \in [Ticket -> BOOLEAN]
        BY <1>1, Zenon DEF TypeInv, TypeOK
      <3>2. CASE UNCHANGED open
        BY <2>3, <3>2
      <3>3. CASE Push
        BY <2>1, <2>3, <3>1, <3>3, Zenon DEF Push
      <3>4. ASSUME NEW S, open' = [u \in Ticket |-> open[u] /\ u \notin S]
            PROVE  open'[t] = FALSE
        BY <2>3, <3>4, Zenon
      <3> QED
        BY <1>2, <3>2, <3>3, <3>4, Zenon DEF Move, Still, Admit, Refuse, Post, TakePending,
           TakeRing,
                                      Skip, Abort, Displace, StartServing, Finish, Exit,
                                      DropRequests
    <2> QED
      BY <2>3, <2>4, <2>5, <2>7, <2>8
  <1>6. ASSUME NEW t \in Waiting'
        PROVE  open'[t] = TRUE /\ started'[t] = FALSE /\ written'[t] = 0 /\ sent'[t] = <<>>
    <2>1. CASE /\ t \in Waiting /\ open'[t] = open[t] /\ sent'[t] = sent[t]
               /\ t # cur \/ rpc = "reset"
      <3>1. open[t] = TRUE /\ started[t] = FALSE /\ written[t] = 0 /\ sent[t] = <<>>
        BY <2>1, Zenon DEF FreshInv
      <3>2. t \in Ticket
        BY <1>1, <2>1, PendingTicketsAre, RingTicketsAre, QueueTypes DEF Waiting, Serving,
                                                                         ReaderPc
      <3> QED
        BY <1>1, <2>1, <3>1, <3>2, ExchangeTouches
    <2>2. CASE Push /\ t = Submitted
      <3>1. t \in Ticket /\ t >= Submitted /\ t # cur
        BY <1>1, <1>3, <2>2, OnePlace DEF Push, QueueInv
      <3>2. started[t] = FALSE /\ written[t] = 0 /\ sent[t] = <<>>
        BY <3>1, Zenon DEF FreshInv
      <3>3. started'[t] = FALSE /\ written'[t] = 0
        BY <1>1, <3>1, <3>2, ExchangeTouches
      <3>4. open'[t] = TRUE /\ sent'[t] = <<>>
        BY <1>1, <2>2, <3>1, <3>2 DEF Push, TypeInv, TypeOK
      <3> QED
        BY <3>3, <3>4, Zenon
    <2> QED
      BY <1>2, <1>6, <2>1, <2>2, WaitingKept, ZenonT(30)
  <1> QED
    BY <1>5, <1>6, Zenon DEF FreshInv

-----------------------------------------------------------------------------

\* A cancel for t is in the ring; and it is there behind t's own request.
CancelPosted(t) == \E j \in DOMAIN ring : ring[j] = Cancel(t)
CancelBehind(t) ==
    \A i \in DOMAIN ring : ring[i] = Request(t) =>
        \E j \in DOMAIN ring : i < j /\ ring[j] = Cancel(t)

\* A request that was taken with its cancel still in the ring, or found by
\* the poll before its first write, is on its way to Aborted.
Doomed(t) ==
    \/ rpc = "reset" /\ CancelPosted(t)
    \/ rpc = "poll" /\ site = "dispatch" /\ (hit = TRUE \/ CancelPosted(t))
    \/ rpc = "send" /\ out = "Aborted"
    \/ rpc = "finish"

\* A cancel posted for a waiting request stays behind it in the ring, or is
\* found by a poll that still comes before the request is begun.
PostedAt(t) ==
    /\ written[t] = 0 /\ started[t] = FALSE
    /\ CancelBehind(t)
    /\ t \in PendingTickets => CancelPosted(t)
    /\ cur = t => Doomed(t)
PostedInv == \A t \in Ticket : early[t] = "posted" => PostedAt(t)

\* A push keeps the cancels of the ring where they are, and a posted cancel
\* is behind everything.
LEMMA PushKeepsCancels ==
    ASSUME ring \in Seq(Message), NEW m \in Message, ring' = Append(ring, m), NEW t \in Ticket
    PROVE  /\ CancelPosted(t) => CancelPosted(t)'
           /\ (CancelBehind(t) /\ m # Request(t)) => CancelBehind(t)'
           /\ m = Cancel(t) => CancelPosted(t)' /\ CancelBehind(t)'
  <1>1. /\ Len(ring) \in Nat /\ DOMAIN ring = 1 .. Len(ring)
        /\ DOMAIN ring' = 1 .. Len(ring) + 1
        /\ \A i \in DOMAIN ring : ring'[i] = ring[i]
        /\ ring'[Len(ring) + 1] = m
    BY RingGrows, Zenon
  <1>2. CancelPosted(t) => CancelPosted(t)'
    BY <1>1 DEF CancelPosted
  <1>3. ASSUME CancelBehind(t), m # Request(t) PROVE CancelBehind(t)'
    <2>1. ASSUME NEW i \in DOMAIN ring', ring'[i] = Request(t)
          PROVE  \E j \in DOMAIN ring' : i < j /\ ring'[j] = Cancel(t)
      <3>1. i \in DOMAIN ring /\ ring[i] = Request(t)
        BY <1>1, <1>3, <2>1
      <3>2. PICK j \in DOMAIN ring : i < j /\ ring[j] = Cancel(t)
        BY <1>3, <3>1 DEF CancelBehind
      <3>3. j \in DOMAIN ring' /\ ring'[j] = Cancel(t)
        BY <1>1, <3>2
      <3> QED
        BY <3>2, <3>3, ZenonT(30)
    <2> QED
      BY <2>1, Zenon DEF CancelBehind
  <1>4. ASSUME m = Cancel(t) PROVE CancelPosted(t)' /\ CancelBehind(t)'
    <2>1. Len(ring) + 1 \in DOMAIN ring' /\ ring'[Len(ring) + 1] = Cancel(t)
      BY <1>1, <1>4
    <2>2. Cancel(t) # Request(t)
      BY Zenon DEF Cancel, Request
    <2>3. \A i \in DOMAIN ring' : ring'[i] = Request(t) => i < Len(ring) + 1
      BY <1>1, <2>1, <2>2
    <2> QED
      BY <2>1, <2>3, Zenon DEF CancelPosted, CancelBehind
  <1> QED
    BY <1>2, <1>3, <1>4

\* A pop takes at most the oldest cancel, and leaves the cancel behind the
\* request it takes.
LEMMA PopKeepsCancels ==
    ASSUME ring \in Seq(Message), ring # <<>>, ring' = Tail(ring), NEW t \in Ticket
    PROVE  /\ (CancelPosted(t) /\ Head(ring) # Cancel(t)) => CancelPosted(t)'
           /\ CancelBehind(t) => CancelBehind(t)'
           /\ (CancelBehind(t) /\ Head(ring) = Request(t)) => CancelPosted(t)'
  <1>1. /\ 1 \in DOMAIN ring /\ Head(ring) = ring[1]
        /\ \A i \in DOMAIN ring' :
              i \in Nat \ {0} /\ i + 1 \in DOMAIN ring /\ ring'[i] = ring[i + 1]
        /\ \A i \in DOMAIN ring : i # 1 => i - 1 \in DOMAIN ring' /\ ring'[i - 1] = ring[i]
    BY RingPops
  <1>2. ASSUME CancelPosted(t), Head(ring) # Cancel(t) PROVE CancelPosted(t)'
    BY <1>1, <1>2, Zenon DEF CancelPosted
  <1>3. DOMAIN ring \subseteq Nat
    BY SeqFacts
  <1>4. ASSUME CancelBehind(t) PROVE CancelBehind(t)'
    <2>1. ASSUME NEW i \in DOMAIN ring', ring'[i] = Request(t)
          PROVE  \E j \in DOMAIN ring' : i < j /\ ring'[j] = Cancel(t)
      <3>1. i \in Nat \ {0} /\ i + 1 \in DOMAIN ring /\ ring[i + 1] = Request(t)
        BY <1>1, <2>1, Zenon
      <3>2. PICK j \in DOMAIN ring : i + 1 < j /\ ring[j] = Cancel(t)
        BY <1>4, <3>1 DEF CancelBehind
      <3>3. j \in Nat /\ j # 1 /\ i < j - 1
        BY <1>3, <3>1, <3>2
      <3>4. j - 1 \in DOMAIN ring' /\ ring'[j - 1] = Cancel(t)
        BY <1>1, <3>2, <3>3, ZenonT(30)
      <3> QED
        BY <3>3, <3>4, Zenon
    <2> QED
      BY <2>1, Zenon DEF CancelBehind
  <1>5. ASSUME CancelBehind(t), Head(ring) = Request(t) PROVE CancelPosted(t)'
    <2>1. PICK j \in DOMAIN ring : 1 < j /\ ring[j] = Cancel(t)
      BY <1>1, <1>5, Zenon DEF CancelBehind
    <2>2. j - 1 \in DOMAIN ring' /\ ring'[j - 1] = Cancel(t)
      BY <1>1, <1>3, <2>1
    <2> QED
      BY <2>2 DEF CancelPosted
  <1> QED
    BY <1>2, <1>4, <1>5, ZenonT(30)

\* What a move does to the cancel posted for a request: it stays in the ring
\* until the request is found with it.
LEMMA CancelsMove ==
    ASSUME QueueInv, Move, NEW t \in Ticket, t < Submitted, PostedAt(t)
    PROVE  /\ CancelBehind(t)'
           /\ t \in PendingTickets' => CancelPosted(t)'
           /\ (CancelPosted(t) /\ cur = t /\ rpc # "poll") => CancelPosted(t)' \/ cur' # t
           /\ (cur # t /\ cur' = t) => rpc' = "reset" /\ CancelPosted(t)'
  <1>1. TypeInv /\ CurInv /\ LineInv /\ BoundInv
    BY Zenon DEF QueueInv
  <1>2. /\ ring \in Seq(Message) /\ pending \in Seq(Ticket) /\ t \in 0 .. MaxTickets
        /\ Submitted \in Nat /\ t \in Nat /\ NONE \notin Ticket
    BY <1>1, QueueTypes, DeliveryAssumption DEF Ticket
  <1>3. /\ \A u, v \in Ticket : Request(u) = Request(v) => u = v
        /\ \A k \in 0 .. MaxTickets : Request(t) # Cancel(k)
        /\ \A u \in Ticket : Request(u) \in Message
        /\ \A k \in 0 .. MaxTickets : Cancel(k) \in Message
        /\ \A k \in 0 .. MaxTickets : Cancel(t) = Cancel(k) => t = k
        /\ \A m \in Message : m.kind = "Request" => m = Request(m.ticket) /\ m.ticket \in Ticket
    BY DEF Request, Cancel, Message
  <1>4. ring' = ring => CancelBehind(t)' = CancelBehind(t) /\ CancelPosted(t)' = CancelPosted(t)
    BY Zenon DEF CancelBehind, CancelPosted
  <1>5. pending' = pending => PendingTickets' = PendingTickets
    BY <1>1, PendingTicketsMove, Zenon
  <1>6. CancelBehind(t) /\ (t \in PendingTickets => CancelPosted(t))
    BY Zenon DEF PostedAt
  <1>7. cur \notin PendingTickets \cup RingTickets
    BY <1>1, OnePlace, Zenon
  <1>8. CASE Still \/ Admit \/ Refuse \/ StartServing \/ Finish
    BY <1>2, <1>4, <1>5, <1>6, <1>8, Zenon DEF Still, Admit, Refuse, StartServing, Finish
  <1>9. CASE Push
    <2>1. Request(Submitted) \in Message /\ Request(Submitted) # Request(t)
      BY <1>2, <1>3, <1>9 DEF Push
    <2>2. CancelBehind(t)' /\ (CancelPosted(t) => CancelPosted(t)')
      BY <1>2, <1>6, <1>9, <2>1, PushKeepsCancels DEF Push
    <2> QED
      BY <1>5, <1>6, <1>9, <2>2, ZenonT(30) DEF Push
  <1>10. ASSUME NEW k \in 0 .. MaxTickets, Post(k)
         PROVE  /\ CancelBehind(t)' /\ (t \in PendingTickets' => CancelPosted(t)')
                /\ CancelPosted(t) => CancelPosted(t)'
                /\ cur' = cur
    <2>1. Cancel(k) \in Message /\ Cancel(k) # Request(t)
      BY <1>3
    <2>2. CancelBehind(t)' /\ (CancelPosted(t) => CancelPosted(t)')
      BY <1>2, <1>6, <1>10, <2>1, PushKeepsCancels DEF Post
    <2> QED
      BY <1>5, <1>6, <1>10, <2>2, ZenonT(30) DEF Post
  <1>11. CASE TakePending
    <2>1. PendingTickets' = PendingTickets \ {Head(pending)} /\ Head(pending) \in PendingTickets
      BY <1>1, <1>11, PendingTicketsMove, ZenonT(30) DEF TakePending
    <2> QED
      BY <1>4, <1>6, <1>11, <2>1 DEF TakePending
  <1>12. CASE TakeRing \/ Skip \/ (\E i \in DOMAIN pending : Abort(i)) \/ Displace
    <2>0. ring # <<>> /\ ring' = Tail(ring)
      BY <1>12, Zenon DEF TakeRing, Skip, Abort, Displace
    <2>1. Head(ring) \in Message
      BY <1>2, <2>0, RingPops, ZenonT(30)
    <2>2. /\ (CancelPosted(t) /\ Head(ring) # Cancel(t)) => CancelPosted(t)'
          /\ CancelBehind(t)'
          /\ Head(ring) = Request(t) => CancelPosted(t)'
      BY <1>2, <1>6, <2>0, PopKeepsCancels
    <2>3. Head(ring).kind = "Request" =>
             /\ Head(ring) = Request(Head(ring).ticket) /\ Head(ring) # Cancel(t)
             /\ Head(ring).ticket \in Ticket
      BY <1>3, <2>1 DEF Cancel
    <2>4. CASE TakeRing
      BY <1>5, <1>6, <2>2, <2>3, <2>4 DEF TakeRing
    <2>5. CASE Skip
      <3>1. PendingTickets' = PendingTickets /\ cur' = cur
        BY <1>5, <2>5 DEF Skip
      <3>2. ASSUME t \in PendingTickets PROVE Head(ring) # Cancel(t)
        <4>1. PICK i \in DOMAIN pending : pending[i] = t
          BY <1>1, <3>2, PendingTicketsAre
        <4>2. rpc # "idle"
          BY <1>1, <4>1 DEF CurInv
        <4> QED
          BY <1>7, <2>5, <3>2, <4>1, <4>2 DEF Skip
      <3>3. cur = t => rpc = "poll"
        BY <1>1, <1>2, <2>5, ZenonT(30) DEF Skip, CurInv, Serving
      <3> QED
        BY <1>6, <2>2, <3>1, <3>2, <3>3, Zenon
    <2>6. ASSUME NEW i \in DOMAIN pending, Abort(i)
          PROVE  t \in PendingTickets' => CancelPosted(t)'
      <3>1. PendingTickets' = PendingTickets \ {pending[i]} /\ pending[i] \in 0 .. MaxTickets
        <4>1. pending' = Without(pending, i) /\ pending[i] \in Ticket
          BY <1>2, <2>6 DEF Abort
        <4> QED
          BY <1>1, <4>1, PendingTicketsMove, DeliveryAssumption DEF Ticket
      <3>2. t # pending[i] => Head(ring) # Cancel(t)
        BY <1>3, <2>6, <3>1, ZenonT(30) DEF Abort
      <3> QED
        BY <1>6, <2>2, <3>1, <3>2
    <2>7. CASE Displace
      <3>1. PendingTickets' = PendingTickets \cup {Head(ring).ticket}
        BY <1>1, <2>3, <2>7, PendingTicketsMove DEF Displace
      <3>2. t \in PendingTickets' => CancelPosted(t)'
        BY <1>6, <2>2, <2>3, <2>7, <3>1 DEF Displace
      <3> QED
        BY <2>2, <2>3, <2>7, <3>2 DEF Displace
    <2>8. ASSUME NEW i \in DOMAIN pending, Abort(i) PROVE cur' = cur /\ rpc = "poll"
      BY <2>8, Zenon DEF Abort
    <2> QED
      BY <1>12, <2>2, <2>4, <2>5, <2>6, <2>7, <2>8
  <1>13. CASE Exit
    <2>1. PendingTickets' = {} /\ cur' = cur /\ cur # t
      BY <1>1, <1>2, <1>13, PendingTicketsMove, ZenonT(30) DEF Exit, CurInv, Serving
    <2>2. ring' = <<>> => CancelBehind(t)'
      BY DEF CancelBehind
    <2> QED
      BY <1>4, <1>6, <1>13, <2>1, <2>2, ZenonT(30) DEF Exit
  <1> QED
    BY <1>8, <1>9, <1>10, <1>11, <1>12, <1>13 DEF Move

\* A request that is on its way to Aborted stays on it: the poll of dispatch
\* cannot miss a cancel that is in the ring, whoever pushes meanwhile.
LEMMA DoomedStep ==
    ASSUME QueueInv, Next, NEW t \in Ticket, t < Submitted, PostedAt(t), cur = t, cur' = t
    PROVE  Doomed(t)'
  <1>1. TypeInv /\ CurInv /\ ring \in Seq(Message) /\ t # NONE
    BY QueueTypes, Zenon DEF QueueInv
  <1>2. Doomed(t)
    BY DEF PostedAt
  <1>3. rpc # "poll" => (CancelPosted(t) => CancelPosted(t)')
    BY <1>1, StepIsMove, CancelsMove, ZenonT(30)
  <1>4. CASE OwnerStep \/ \E u \in Holders : HolderStep(u)
    <2>1. UNCHANGED <<rpc, site, hit, out>>
      BY <1>4, CallersKeepReader, ZenonT(30) DEF OwnerStep, HolderStep, SubmitAdmit, SubmitPush,
            CancelAnyFlag, CancelAnyPush, DropFlag, DropWake, DropJoin, HandleCancelFlag,
            HandleCancelPush, readerVars
    <2>2. CancelPosted(t) => CancelPosted(t)'
      <3>1. \/ ring' = ring
            \/ ring' = Append(ring, Request(Submitted)) /\ Submitted \in Ticket
            \/ \E k \in 0 .. MaxTickets : ring' = Append(ring, Cancel(k))
        BY <1>1, <1>4, CallersMove, Zenon DEF Still, Admit, Push, Refuse, Post
      <3>2. /\ \A u \in Ticket : Request(u) \in Message
            /\ \A k \in 0 .. MaxTickets : Cancel(k) \in Message
        BY Zenon DEF Request, Cancel, Message
      <3>3. ring' = ring => CancelPosted(t)' = CancelPosted(t)
        BY Zenon DEF CancelPosted
      <3> QED
        BY <1>1, <3>1, <3>2, <3>3, PushKeepsCancels, ZenonT(30)
    <2> QED
      BY <1>2, <2>1, <2>2 DEF Doomed
  <1>5. CASE ReaderStep
    <2>1. CASE rpc = "reset"
      <3>1. rpc' = "poll" /\ site' = "dispatch"
        BY <1>5, <2>1, ZenonT(30) DEF ReaderStep, NextPending, PopBlock, PollCancelMsg,
           PollRequestMsg, PollReturn, Serve, ResetCancelAny, StartPoll, EnsureClean,
           BeginExchange, WriteRequest, Io, ReadHead, OfferHead, Redial, StreamSuccess,
           DrainErrorBody, Deliver, FinishRequest, ExitReader
      <3> QED
        BY <1>2, <1>3, <2>1, <3>1, ZenonT(30) DEF Doomed
    <2>2. CASE rpc = "poll"
      <3>1. PollCancelMsg \/ PollRequestMsg \/ PollReturn
        BY <1>5, <2>2 DEF ReaderStep, NextPending, PopBlock, Serve, ResetCancelAny, EnsureClean,
              BeginExchange, WriteRequest, Io, ReadHead, OfferHead, Redial, StreamSuccess,
              DrainErrorBody, Deliver, FinishRequest, ExitReader
      <3>2. site = "dispatch" /\ (hit = TRUE \/ CancelPosted(t))
        BY <1>2, <2>2, ZenonT(30) DEF Doomed
      <3>3. CASE PollCancelMsg
        <4>1. /\ rpc' = "poll" /\ site' = "dispatch" /\ ring # <<>> /\ ring' = Tail(ring)
              /\ hit' = TRUE \/ (hit' = hit /\ Head(ring).ticket # t)
          BY <3>2, <3>3, Zenon DEF PollCancelMsg
        <4>2. Head(ring).ticket # t => Head(ring) # Cancel(t)
          BY DEF Cancel
        <4>3. (Head(ring) # Cancel(t) /\ CancelPosted(t)) => CancelPosted(t)'
          BY <1>1, <4>1, PopKeepsCancels, Zenon
        <4> QED
          BY <3>2, <4>1, <4>2, <4>3 DEF Doomed
      <3>4. CASE PollRequestMsg
        <4>1. /\ rpc' = "poll" /\ site' = "dispatch" /\ ring # <<>> /\ ring' = Tail(ring)
              /\ hit' = hit /\ Head(ring).kind = "Request"
          BY <3>2, <3>4 DEF PollRequestMsg
        <4>2. Head(ring) # Cancel(t)
          BY <4>1 DEF Cancel
        <4>3. CancelPosted(t) => CancelPosted(t)'
          BY <1>1, <4>1, <4>2, PopKeepsCancels, ZenonT(30)
        <4> QED
          BY <3>2, <4>1, <4>3, ZenonT(30) DEF Doomed
      <3>5. CASE PollReturn
        <4>1. shuttingDown \/ hit = TRUE
          <5>1. ring = <<>> => ~CancelPosted(t)
            BY DEF CancelPosted
          <5>2. shuttingDown \/ ring = <<>>
            BY <3>5, Zenon DEF PollReturn
          <5> QED
            BY <3>2, <5>1, <5>2, Zenon
        <4>2. rpc' = "send" /\ out' = "Aborted"
          BY <3>5, <4>1, Zenon DEF PollReturn, PollAnswer, StartSend
        <4> QED
          BY <4>2 DEF Doomed
      <3> QED
        BY <3>1, <3>3, <3>4, <3>5, ZenonT(30)
    <2>3. CASE rpc = "send" /\ out = "Aborted"
      <3>1. Deliver
        BY <1>5, <2>3, ZenonT(30) DEF ReaderStep, NextPending, PopBlock, PollCancelMsg,
           PollRequestMsg, PollReturn, Serve, ResetCancelAny, EnsureClean, BeginExchange,
           WriteRequest, Io, ReadHead, OfferHead, Redial, StreamSuccess, DrainErrorBody,
           FinishRequest, ExitReader
      <3>2. rpc' = "finish"
        BY <2>3, <3>1 DEF Deliver, Goto, Terminator
      <3> QED
        BY <3>2 DEF Doomed
    <2>4. CASE rpc = "finish"
      BY <1>1, <1>5, <2>4 DEF ReaderStep, NextPending, PopBlock, PollCancelMsg, PollRequestMsg,
              PollReturn, Serve, ResetCancelAny, EnsureClean, BeginExchange, WriteRequest, Io,
              ReadHead, OfferHead, Redial, StreamSuccess, DrainErrorBody, Deliver,
              FinishRequest, ExitReader
    <2> QED
      BY <1>2, <2>1, <2>2, <2>3, <2>4, ZenonT(30) DEF Doomed
  <1> QED
    BY <1>4, <1>5, Zenon DEF Next, ReaderRuns

\* A request is recorded as posted only while it waits, by the step that
\* pushes its cancel.
LEMMA PostingStep ==
    ASSUME QueueInv, Next, NEW t \in Ticket, early[t] # "posted", early'[t] = "posted"
    PROVE  t \in QueuedTickets /\ Post(t) /\ UNCHANGED <<started, written>>
  <1>1. early \in [Ticket -> {"no", "posted", "lost"}] /\ TypeInv
    BY ZenonT(30) DEF QueueInv, TypeInv, TypeOK
  <1>2. CASE OwnerStep \/ ReaderRuns
    BY <1>2 DEF OwnerStep, SubmitAdmit, SubmitPush, CancelAnyFlag, CancelAnyPush, DropFlag,
                DropWake, DropJoin, ReaderRuns, cancelHistory
  <1>3. ASSUME NEW u \in Holders, HolderStep(u)
        PROVE  t \in QueuedTickets /\ Post(t)
    <2>1. HandleCancelPush(u)
      BY <1>3 DEF HolderStep, HandleCancelFlag, cancelHistory
    <2>2. u \in QueuedTickets /\ RingHasRoom /\ early' = [early EXCEPT ![u] = "posted"]
      BY <1>1, <2>1, AsyncClientAssumption, Zenon DEF HandleCancelPush
    <2>3. u = t
      BY <1>1, <2>2
    <2>4. Post(t)
      BY <1>3, <2>1, <2>2, <2>3, CallersKeepReader DEF HandleCancelPush, PushOrLose, Post,
            streamVars, ownerVars, KeepSubmit, Submitted, Admitted
    <2> QED
      BY <2>2, <2>3, <2>4, ZenonT(30)
  <1> QED
    BY <1>2, <1>3, CallersKeepReader DEF Next

\* No step breaks the promise of a posted cancel.
LEMMA PostedStep ==
    ASSUME QueueInv, QueueInv', FreshInv, PostedInv, Next
    PROVE  PostedInv'
  <1> SUFFICES ASSUME NEW t \in Ticket, early'[t] = "posted" PROVE PostedAt(t)'
    BY Zenon DEF PostedInv
  <1>1. TypeInv /\ TypeInv' /\ CurInv /\ LineInv /\ BoundInv /\ Move
    BY StepIsMove DEF QueueInv
  <1>2. ring \in Seq(Message) /\ t \in Nat /\ Submitted \in Nat /\ t \in 0 .. MaxTickets
    BY <1>1, QueueTypes, DeliveryAssumption DEF Ticket
  <1>3. CASE early[t] = "posted"
    <2>1. PostedAt(t) /\ t < Submitted
      BY <1>2, <1>3 DEF PostedInv, FreshInv
    <2>2. written'[t] = 0 /\ started'[t] = FALSE
      <3>1. cur = t => rpc # "begin" /\ rpc # "io"
        BY <2>1, Zenon DEF PostedAt, Doomed
      <3> QED
        BY <1>1, <2>1, <3>1, ExchangeTouches DEF PostedAt
    <2>3. CancelBehind(t)' /\ (t \in PendingTickets' => CancelPosted(t)')
      BY <1>1, <2>1, CancelsMove
    <2>4. cur' = t => Doomed(t)'
      <3>1. (cur # t /\ cur' = t) => Doomed(t)'
        BY <1>1, <2>1, CancelsMove DEF Doomed
      <3> QED
        BY <2>1, <3>1, DoomedStep, ZenonT(30)
    <2> QED
      BY <2>2, <2>3, <2>4, ZenonT(30) DEF PostedAt
  <1>4. CASE early[t] # "posted"
    <2>1. t \in QueuedTickets /\ Post(t) /\ UNCHANGED <<started, written>>
      BY <1>4, PostingStep
    <2>2. t \in PendingTickets \cup RingTickets /\ t # cur
      BY <1>1, <2>1, PendingTicketsAre, OnePlace, ZenonT(30)
    <2>3. written[t] = 0 /\ started[t] = FALSE
      BY <2>2 DEF FreshInv, Waiting
    <2>4. Cancel(t) \in Message
      BY <1>2, Zenon DEF Cancel, Message
    <2>5. CancelPosted(t)' /\ CancelBehind(t)'
      BY <1>2, <2>1, <2>4, PushKeepsCancels DEF Post
    <2> QED
      BY <2>1, <2>2, <2>3, <2>5, Zenon DEF Post, PostedAt
  <1> QED
    BY <1>3, <1>4, Zenon

-----------------------------------------------------------------------------

\* The strengthening that makes OneLine and PostedCancelStaysOffWire inductive.
StreamInv == QueueInv /\ FreshInv /\ PostedInv

\* Nothing was submitted and nothing posted.
LEMMA InitStream == Init => StreamInv
  <1> SUFFICES ASSUME Init PROVE FreshInv /\ PostedInv
    BY InitQueue, Zenon DEF StreamInv
  <1>1. /\ ring = <<>> /\ pending = <<>> /\ rpc = "next"
        /\ started = [t \in Ticket |-> FALSE] /\ written = [t \in Ticket |-> 0]
        /\ sent = [t \in Ticket |-> <<>>] /\ open = [t \in Ticket |-> FALSE]
        /\ handle = [t \in Ticket |-> "none"] /\ early = [t \in Ticket |-> "no"]
    BY Zenon DEF Init, DeliveryInit, QueueInit, ReaderInit
  <1>2. Waiting = {}
    BY <1>1 DEF Waiting, PendingTickets, RingTickets, Range
  <1> QED
    BY <1>1, <1>2, Zenon DEF FreshInv, PostedInv

\* No step breaks them together.
LEMMA StreamStep == StreamInv /\ [Next]_vars => StreamInv'
  <1> SUFFICES ASSUME StreamInv, [Next]_vars PROVE StreamInv'
    BY Zenon
  <1>1. QueueInv /\ FreshInv /\ PostedInv /\ QueueInv'
    BY QueueStep DEF StreamInv
  <1>2. CASE Next
    BY <1>1, <1>2, FreshStep, PostedStep DEF StreamInv
  <1>3. CASE UNCHANGED vars
    <2>1. /\ UNCHANGED <<ring, pending, rpc, site, hit, cur, out, owner, nextTicket>>
          /\ UNCHANGED <<started, written, sent, open, handle, early>>
      BY <1>3, ZenonT(30) DEF vars
    <2>2. FreshInv'
      BY <1>1, <2>1 DEF FreshInv, Waiting, PendingTickets, RingTickets, Submitted
    <2>3. PostedInv'
      BY <1>1, <2>1, ZenonT(30) DEF PostedInv, PostedAt, Doomed, CancelPosted, CancelBehind,
         PendingTickets
    <2> QED
      BY <1>1, <2>2, <2>3 DEF StreamInv
  <1> QED
    BY <1>2, <1>3, Zenon

\* The inductive invariant holds in every reachable state.
THEOREM StreamInvariant == Spec => []StreamInv
  BY InitStream, StreamStep, PTL DEF Spec

\* A cancel that enters the ring while its request waits keeps the request off
\* the wire and unstarted for good: poll_cancel finds it with the request in
\* the displaced queue, or at the latest in the poll that opens dispatch.
THEOREM PostedCancelHolds == Spec => []PostedCancelStaysOffWire
  <1>1. StreamInv => PostedCancelStaysOffWire
    BY Zenon DEF StreamInv, PostedInv, PostedAt, PostedCancelStaysOffWire
  <1> QED
    BY <1>1, StreamInvariant, PTL

-----------------------------------------------------------------------------

\* Two increasing sequences, one below the other, make one increasing sequence,
\* below whatever both are below.
LEMMA LinesJoin ==
    ASSUME NEW a \in Seq(Nat), NEW b \in Seq(Nat),
           \A i, j \in DOMAIN a : i < j => a[i] < a[j],
           \A i, j \in DOMAIN b : i < j => b[i] < b[j],
           \A i \in DOMAIN a, j \in DOMAIN b : a[i] < b[j]
    PROVE  /\ a \o b \in Seq(Nat)
           /\ \A i, j \in DOMAIN (a \o b) : i < j => (a \o b)[i] < (a \o b)[j]
           /\ \A i \in DOMAIN (a \o b) :
                 (\E k \in DOMAIN a : (a \o b)[i] = a[k]) \/ (\E k \in DOMAIN b : (a \o b)[i] = b[k])
  <1>1. /\ Len(a) \in Nat /\ DOMAIN a = 1 .. Len(a)
        /\ Len(b) \in Nat /\ DOMAIN b = 1 .. Len(b)
    BY SeqFacts, Zenon
  <1>2. /\ a \o b \in Seq(Nat) /\ Len(a \o b) = Len(a) + Len(b)
        /\ \A i \in 1 .. Len(a) + Len(b) :
              (a \o b)[i] = IF i <= Len(a) THEN a[i] ELSE b[i - Len(a)]
    BY ConcatFacts
  <1>3. DOMAIN (a \o b) = 1 .. Len(a) + Len(b)
    BY <1>2, SeqFacts, Zenon
  <1>4. ASSUME NEW i \in 1 .. Len(a) + Len(b)
        PROVE  \/ i \in DOMAIN a /\ i <= Len(a) /\ (a \o b)[i] = a[i]
               \/ i - Len(a) \in DOMAIN b /\ i > Len(a) /\ (a \o b)[i] = b[i - Len(a)]
    BY <1>1, <1>2
  <1>5. ASSUME NEW i \in 1 .. Len(a) + Len(b), NEW j \in 1 .. Len(a) + Len(b), i < j
        PROVE  (a \o b)[i] < (a \o b)[j]
    <2>1. CASE j <= Len(a)
      <3>1. /\ i \in DOMAIN a /\ (a \o b)[i] = a[i] /\ j \in DOMAIN a /\ (a \o b)[j] = a[j]
        BY <1>1, <1>2, <1>5, <2>1
      <3> QED
        BY <1>5, <3>1, Zenon
    <2>2. CASE i <= Len(a) /\ ~(j <= Len(a))
      <3>1. /\ i \in DOMAIN a /\ (a \o b)[i] = a[i]
            /\ j - Len(a) \in DOMAIN b /\ (a \o b)[j] = b[j - Len(a)]
        BY <1>1, <1>2, <2>2
      <3> QED
        BY <3>1, Zenon
    <2>3. CASE ~(i <= Len(a))
      <3>1. /\ i - Len(a) \in DOMAIN b /\ (a \o b)[i] = b[i - Len(a)]
            /\ j - Len(a) \in DOMAIN b /\ (a \o b)[j] = b[j - Len(a)]
            /\ i - Len(a) < j - Len(a)
        BY <1>1, <1>2, <1>5, <2>3
      <3> QED
        BY <3>1, Zenon
    <2> QED
      BY <2>1, <2>2, <2>3, Zenon
  <1> QED
    BY <1>2, <1>3, <1>4, <1>5, Zenon

\* Requests are served in submission order and never twice, and what waits is
\* open, unstarted, unwritten and unanswered, in every reachable state: the
\* displaced queue keeps the order although every poll moves requests into it.
THEOREM OneLineHolds == Spec => []OneLine
  <1>1. StreamInv => OneLine
    <2> SUFFICES ASSUME StreamInv PROVE OneLine
      BY Zenon
    <2>1. TypeInv /\ CurInv /\ LineInv /\ BoundInv /\ FreshInv
      BY Zenon DEF StreamInv, QueueInv
    <2> DEFINE now == IF rpc = "reset" THEN <<cur>> ELSE <<>>
               line == served \o now \o pending
    <2>2. served \in Seq(Nat) /\ pending \in Seq(Nat) /\ (rpc = "reset" => cur \in Nat)
      BY <2>1, QueueTypes DEF Serving, ReaderPc
    <2>3. /\ now \in Seq(Nat) /\ (DOMAIN now = {} \/ (rpc = "reset" /\ DOMAIN now = {1}))
          /\ \A i \in DOMAIN now : i = 1 /\ rpc = "reset" /\ now[i] = cur
      BY <2>2
    <2> HIDE DEF now
    <2>4. /\ \A i, j \in DOMAIN now : i < j => now[i] < now[j]
          /\ \A i \in DOMAIN served, j \in DOMAIN now : served[i] < now[j]
      BY <2>1, <2>3 DEF LineInv
    <2>5. \A i, j \in DOMAIN served : i < j => served[i] < served[j]
      BY <2>1, Zenon DEF LineInv
    <2> DEFINE sn == served \o now
    <2>6. /\ sn \in Seq(Nat)
          /\ \A i, j \in DOMAIN sn : i < j => sn[i] < sn[j]
          /\ \A i \in DOMAIN sn :
                (\E k \in DOMAIN served : sn[i] = served[k]) \/ (\E k \in DOMAIN now : sn[i] = now[k])
      BY <2>2, <2>3, <2>4, <2>5, LinesJoin, Zenon
    <2>7. line = sn \o pending
      BY Zenon
    <2> HIDE DEF sn, line
    <2>8. /\ \A i, j \in DOMAIN pending : i < j => pending[i] < pending[j]
          /\ \A i \in DOMAIN sn, j \in DOMAIN pending : sn[i] < pending[j]
          /\ \A i \in DOMAIN sn, j \in RingRequests : sn[i] < TicketAt[j]
      BY <2>1, <2>3, <2>6 DEF LineInv
    <2>9. /\ \A i, j \in DOMAIN line : i < j => line[i] < line[j]
          /\ \A i \in DOMAIN line :
                (\E k \in DOMAIN sn : line[i] = sn[k]) \/ (\E k \in DOMAIN pending : line[i] = pending[k])
      <3>1. \A i, j \in DOMAIN sn : i < j => sn[i] < sn[j]
        BY <2>6
      <3>2. /\ \A i, j \in DOMAIN (sn \o pending) : i < j => (sn \o pending)[i] < (sn \o pending)[j]
            /\ \A i \in DOMAIN (sn \o pending) :
                  \/ \E k \in DOMAIN sn : (sn \o pending)[i] = sn[k]
                  \/ \E k \in DOMAIN pending : (sn \o pending)[i] = pending[k]
        BY <2>2, <2>6, <2>8, <3>1, LinesJoin, ZenonT(30)
      <3> QED
        BY <2>7, <3>2, Zenon
    <2>10. \A j \in RingRequests : TicketAt[j] = ring[j].ticket
      BY DEF RingRequests, TicketAt
    <2>11. \A i \in DOMAIN line, j \in RingRequests : line[i] < ring[j].ticket
      BY <2>1, <2>8, <2>9, <2>10 DEF LineInv
    <2>12. \A i, j \in RingRequests : i < j => ring[i].ticket < ring[j].ticket
      BY <2>1, <2>10 DEF LineInv
    <2>13. \A t \in QueuedTickets : open[t] /\ ~started[t] /\ written[t] = 0 /\ sent[t] = <<>>
      BY <2>1, PendingTicketsAre, Zenon DEF FreshInv, Waiting
    <2> QED
      BY <2>9, <2>11, <2>12, <2>13, Zenon DEF OneLine, line, now
  <1> QED
    BY <1>1, StreamInvariant, PTL

-----------------------------------------------------------------------------

\* An untargeted cancel was made, or the client is being dropped, which posts
\* the same message.
AnyAsked == CANCEL_ANY \in targets \/ shuttingDown = TRUE

\* Why a stream may close without a terminator.
Cause(t) == cancelled[t] = TRUE \/ AnyAsked \/ handle[t] = "dropped"

\* The positions of the ring that hold an untargeted cancel.
AnyAt == {j \in DOMAIN ring : ring[j] = Cancel(CANCEL_ANY)}

\* StreamShape, one stream at a time.
Shaped(t) ==
    \A i \in DOMAIN sent[t] :
        /\ sent[t][i] = "Head" <=> (i = 1 /\ sent[t][1] \notin {"Error", "Aborted"})
        /\ sent[t][i] \in Terminator => i = Len(sent[t])
        /\ sent[t][i] = "Head" => written[t] > 0

Aborted(t) == "Aborted" \in Range(sent[t])

\* The flags of a drop and of a cancel are latches: no step takes a reason
\* back.
LEMMA Latches ==
    ASSUME StreamInv, Next
    PROVE  /\ shuttingDown = TRUE => shuttingDown' = TRUE
           /\ targets \subseteq targets'
           /\ AnyAsked => AnyAsked'
           /\ \A t \in Ticket :
                 /\ cancelled[t] = TRUE => cancelled'[t] = TRUE
                 /\ Cause(t) => Cause(t)'
  <1>1. /\ cancelled \in [Ticket -> BOOLEAN] /\ handle \in [Ticket -> HandleState]
        /\ nextTicket \in 0 .. MaxTickets /\ MaxTickets \in Nat
        /\ owner = "admitted" => nextTicket > 0
    BY DeliveryAssumption, ZenonT(30) DEF StreamInv, QueueInv, TypeInv, TypeOK, Control
  <1>2. CASE OwnerStep
    <2>1. /\ shuttingDown' = shuttingDown \/ shuttingDown' = TRUE
          /\ targets \subseteq targets' /\ cancelled' = cancelled
      BY <1>2, Zenon DEF OwnerStep, SubmitAdmit, SubmitPush, CancelAnyFlag, CancelAnyPush,
         DropFlag,
                  DropWake, DropJoin, flagVars, cancelHistory
    <2>2. \A t \in Ticket : handle[t] = "dropped" => handle'[t] = "dropped"
      <3>1. CASE SubmitPush
        <4>1. Submitted = nextTicket - 1 /\ Submitted \in Ticket
          BY <1>1, <3>1 DEF SubmitPush, Submitted, Ticket
        <4>2. handle[Submitted] = "none"
          BY <1>1, <4>1 DEF StreamInv, FreshInv
        <4>3. handle' = handle \/ handle' = [handle EXCEPT ![Submitted] = "held"]
          BY <3>1, <4>1, ZenonT(30) DEF SubmitPush
        <4> QED
          BY <1>1, <4>2, <4>3, Zenon
      <3>2. CASE ~SubmitPush
        BY <1>2, <3>2 DEF OwnerStep, SubmitAdmit, CancelAnyFlag, CancelAnyPush, DropFlag,
                          DropWake, DropJoin
      <3> QED
        BY <3>1, <3>2
    <2> QED
      BY <2>1, <2>2 DEF AnyAsked, Cause
  <1>3. ASSUME NEW u \in Holders, HolderStep(u)
        PROVE  /\ UNCHANGED <<shuttingDown, targets>>
               /\ \A t \in Ticket :
                     /\ cancelled[t] = TRUE => cancelled'[t] = TRUE
                     /\ handle[t] = "dropped" => handle'[t] = "dropped"
    <2>1. UNCHANGED <<shuttingDown, targets>>
      BY <1>3 DEF HolderStep, HandleCancelFlag, HandleCancelPush, HandleRead, HandleDrop,
                  flagVars, cancelHistory
    <2>2. cancelled' = cancelled \/ cancelled' = [cancelled EXCEPT ![u] = TRUE]
      BY <1>3, Zenon DEF HolderStep, HandleCancelFlag, HandleCancelPush, HandleRead, HandleDrop,
                  flagVars
    <2>3. /\ handle[u] # "dropped" \/ handle' = handle
          /\ handle' = handle \/ \E x : handle' = [handle EXCEPT ![u] = x]
      BY <1>3 DEF HolderStep, HandleCancelFlag, HandleCancelPush, HandleRead, HandleDrop
    <2> QED
      BY <1>1, <2>1, <2>2, <2>3
  <1>4. CASE ReaderRuns
    <2>1. UNCHANGED <<shuttingDown, cancelled, handle>>
      BY <1>4, ZenonT(30) DEF ReaderRuns, ReaderStep, NextPending, PopBlock, PollCancelMsg,
         PollRequestMsg, PollReturn, Serve, ResetCancelAny, EnsureClean, BeginExchange,
         WriteRequest, ReadHead, OfferHead, Redial, StreamSuccess, DrainErrorBody, Deliver,
         FinishRequest, ExitReader, callerSide, flagVars
    <2> QED
      BY <1>4, <2>1, Zenon DEF ReaderRuns, cancelHistory, AnyAsked, Cause
  <1> QED
    BY <1>2, <1>3, <1>4, ZenonT(30) DEF Next, AnyAsked, Cause

\* A cancel enters the ring from the call that makes it, and from nowhere
\* else: the reader only takes from it.
LEMMA CancelsAppear ==
    ASSUME QueueInv, Next, NEW k \in 0 .. MaxTickets, \E j \in DOMAIN ring' : ring'[j] = Cancel(k)
    PROVE  \/ \E j \in DOMAIN ring : ring[j] = Cancel(k)
           \/ k = CANCEL_ANY /\ owner \in {"cancelling", "dropping"}
           \/ k \in Ticket /\ handle[k] = "cancelling"
  <1>1. TypeInv /\ ring \in Seq(Message)
    BY QueueTypes DEF QueueInv
  <1>2. /\ \A u \in Ticket : Request(u) \in Message /\ Request(u) # Cancel(k)
        /\ \A i \in 0 .. MaxTickets : Cancel(i) \in Message
        /\ \A i \in 0 .. MaxTickets : Cancel(i) = Cancel(k) => i = k
        /\ CANCEL_ANY \in 0 .. MaxTickets /\ Ticket \subseteq 0 .. MaxTickets
    BY DeliveryAssumption DEF Request, Cancel, Message, CANCEL_ANY, Ticket
  <1> DEFINE had == \E j \in DOMAIN ring : ring[j] = Cancel(k)
  <1>3. ASSUME NEW m \in Message, ring' = Append(ring, m), m # Cancel(k) PROVE had
    <2>1. /\ Len(ring) \in Nat /\ DOMAIN ring = 1 .. Len(ring)
          /\ DOMAIN ring' = 1 .. Len(ring) + 1
          /\ \A i \in DOMAIN ring : ring'[i] = ring[i]
          /\ ring'[Len(ring) + 1] = m
      BY <1>1, <1>3, RingGrows
    <2> QED
      BY <1>3, <2>1
  <1>4. CASE ring' = ring
    BY <1>4
  <1>5. ASSUME ring # <<>>, ring' = Tail(ring) PROVE had
    BY <1>1, <1>5, RingPops
  <1>6. ring' # <<>>
    OBVIOUS
  <1> HIDE DEF had
  <1>7. CASE SubmitPush
    <2>1. nextTicket - 1 \in Ticket
      BY <1>1, <1>7, DeliveryAssumption DEF SubmitPush, TypeInv, TypeOK, Control, Ticket
    <2>2. ring' = ring \/ ring' = Append(ring, Request(nextTicket - 1))
      BY <1>7, Zenon DEF SubmitPush
    <2> QED
      BY <1>2, <1>3, <1>4, <2>1, <2>2, ZenonT(30) DEF had
  <1>8. CASE OwnerStep /\ ~SubmitPush
    <2>1. \/ ring' = ring
          \/ owner \in {"cancelling", "dropping"} /\ ring' = Append(ring, Cancel(CANCEL_ANY))
      BY <1>8 DEF OwnerStep, SubmitAdmit, CancelAnyFlag, CancelAnyPush, DropFlag, DropWake,
                  DropJoin, PushOrLose, queueVars
    <2> QED
      BY <1>2, <1>3, <1>4, <2>1, ZenonT(30) DEF had
  <1>9. ASSUME NEW u \in Holders, HolderStep(u)
        PROVE  had \/ (k \in Ticket /\ handle[k] = "cancelling")
    <2>1. ring' = ring \/ (handle[u] = "cancelling" /\ ring' = Append(ring, Cancel(u)))
      BY <1>9 DEF HolderStep, HandleCancelFlag, HandleCancelPush, PushOrLose, queueVars
    <2>2. u \in Ticket
      BY AsyncClientAssumption, Zenon
    <2> QED
      BY <1>2, <1>3, <1>4, <2>1, <2>2 DEF had
  <1>10. CASE ReaderRuns
    <2>1. ring' = ring \/ ring' = <<>> \/ (ring # <<>> /\ ring' = Tail(ring))
      BY <1>10, Zenon DEF ReaderRuns, ReaderStep, NextPending, PopBlock, PollCancelMsg,
         PollRequestMsg, PollReturn, Serve, ResetCancelAny, EnsureClean, BeginExchange,
         WriteRequest, ReadHead, OfferHead, Redial, StreamSuccess, DrainErrorBody, Deliver,
         FinishRequest, ExitReader, callerSide, queueVars
    <2> QED
      BY <1>4, <1>5, <1>6, <2>1 DEF had
  <1> QED
    BY <1>7, <1>8, <1>9, <1>10 DEF Next, had

\* What a push into a stream shows of it.
LEMMA PushShows ==
    ASSUME sent \in [Ticket -> Seq(Chunk)], NEW t \in Ticket, NEW c \in Chunk,
           sent' = Pushed(t, c)
    PROVE  /\ sent'[t] # <<>>
           /\ Ended(t)' <=> Ended(t) \/ c \in Terminator
           /\ Aborted(t)' <=> Aborted(t) \/ c = "Aborted"
           /\ \A u \in Ticket : u # t => sent'[u] = sent[u]
           /\ (/\ Shaped(t) /\ ~Ended(t)
               /\ written[t] > 0 => written'[t] > 0
               /\ c = "Head" => sent[t] = <<>> /\ written[t] > 0
               /\ c \in {"Body", "Eof"} => sent[t] # <<>>) => Shaped(t)'
  <1> DEFINE s == sent[t]
             n == Len(s) + 1
  <1>1. s \in Seq(Chunk) /\ sent'[t] = Append(s, c)
    BY Zenon DEF Pushed
  <1>2. /\ Append(s, c) \in Seq(Chunk) /\ Len(s) \in Nat /\ DOMAIN s = 1 .. Len(s)
        /\ DOMAIN Append(s, c) = 1 .. n
        /\ \A i \in DOMAIN s : Append(s, c)[i] = s[i]
        /\ Append(s, c)[n] = c
    <2>1. PICK q \in Seq(Chunk) : q = s
      BY <1>1, Zenon
    <2>2. /\ Append(q, c) \in Seq(Chunk) /\ Len(q) \in Nat /\ DOMAIN q = 1 .. Len(q)
          /\ DOMAIN Append(q, c) = 1 .. Len(q) + 1
          /\ \A i \in DOMAIN q : Append(q, c)[i] = q[i]
          /\ Append(q, c)[Len(q) + 1] = c
      BY AppendFacts
    <2> QED
      BY <2>1, <2>2, Zenon
  <1>3. /\ DOMAIN sent'[t] = 1 .. n /\ n \in Nat /\ n > 0
        /\ \A i \in DOMAIN sent[t] : sent'[t][i] = sent[t][i]
        /\ sent'[t][n] = c
        /\ DOMAIN sent[t] = 1 .. n - 1
        /\ Len(sent'[t]) = n
    BY <1>1, <1>2, SeqFacts
  <1> HIDE DEF s, n
  <1>4. \A i \in DOMAIN sent'[t] : i = n \/ (i \in DOMAIN sent[t] /\ i < n)
    BY <1>3
  <1>5. n \in DOMAIN sent'[t] /\ \A i \in DOMAIN sent[t] : i \in DOMAIN sent'[t]
    BY <1>3
  <1>6. Ended(t)' <=> Ended(t) \/ c \in Terminator
    BY <1>3, <1>4, <1>5, ZenonT(30) DEF Ended, Terminator
  <1>7. Aborted(t)' <=> Aborted(t) \/ c = "Aborted"
    BY <1>3, <1>4, <1>5, InRange DEF Aborted
  <1>8. \A u \in Ticket : u # t => sent'[u] = sent[u]
    BY Zenon DEF Pushed
  <1>9. ASSUME Shaped(t), ~Ended(t), written[t] > 0 => written'[t] > 0,
               c = "Head" => sent[t] = <<>> /\ written[t] > 0,
               c \in {"Body", "Eof"} => sent[t] # <<>>,
               NEW i \in DOMAIN sent'[t]
        PROVE  /\ sent'[t][i] = "Head" <=> (i = 1 /\ sent'[t][1] \notin {"Error", "Aborted"})
               /\ sent'[t][i] \in Terminator => i = Len(sent'[t])
               /\ sent'[t][i] = "Head" => written'[t] > 0
    <2>1. sent[t] = <<>> <=> n = 1
      BY <1>2 DEF n, s
    <2>2. CASE i \in DOMAIN sent[t] /\ i < n
      <3>1. n # 1 /\ 1 \in DOMAIN sent[t]
        BY <1>3, <2>2
      <3>2. sent'[t][1] = sent[t][1] /\ sent'[t][i] = sent[t][i]
        BY <1>3, <2>2, <3>1, ZenonT(30)
      <3>3. sent[t][i] \notin Terminator
        BY <1>9, <2>2, ZenonT(30) DEF Ended
      <3> QED
        BY <1>9, <2>2, <3>2, <3>3 DEF Shaped
    <2>3. CASE i = n
      <3>1. sent'[t][i] = c /\ i = Len(sent'[t])
        BY <1>3, <2>3, ZenonT(30)
      <3>2. CASE n = 1
        BY <1>9, <2>1, <2>3, <3>1, <3>2 DEF Chunk, Terminator
      <3>3. CASE n # 1
        BY <1>9, <2>1, <2>3, <3>1, <3>3, ZenonT(30)
      <3> QED
        BY <3>2, <3>3, ZenonT(30)
    <2> QED
      BY <1>4, <2>2, <2>3, Zenon
  <1>10. sent'[t] # <<>>
    BY <1>5
  <1> QED
    BY <1>6, <1>7, <1>8, <1>9, <1>10, ZenonT(30) DEF Shaped

\* A request that met the wire stays one that met it.
LEMMA WrittenLasts ==
    ASSUME TypeInv, Next, NEW t \in Ticket, written[t] > 0
    PROVE  written'[t] > 0
  <1>1. attempt \in 1 .. 2 /\ written \in [Ticket -> 0 .. 2]
    BY ZenonT(30) DEF TypeInv, TypeOK
  <1>2. written' = written \/ written' = [written EXCEPT ![cur] = attempt]
    BY CallersKeepReader, ZenonT(30) DEF Next, ReaderRuns, ReaderStep, Serve, EnsureClean,
       BeginExchange, WriteRequest, OnWire, ReadHead, OfferHead, Redial, StreamSuccess,
       DrainErrorBody, Deliver, FinishRequest, ExitReader, wireVars, historyVars
  <1> QED
    BY <1>1, <1>2

\* A chunk is pushed by the delivery of the request being served, or by the
\* abort of a displaced one.
LEMMA PushesAre ==
    ASSUME TypeInv, Next
    PROVE  \/ sent' = sent
           \/ /\ Deliver /\ rpc = "send" /\ ~BlockedReason(cur, out \notin Terminator)
              /\ sent' = Pushed(cur, out)
           \/ \E i \in DOMAIN pending : /\ Abort(i) /\ ~BlockedReason(pending[i], FALSE)
                                        /\ sent' = Pushed(pending[i], "Aborted")
  <1>1. sent' = sent \/ Deliver \/ PollCancelMsg
    BY ZenonT(30) DEF Next, OwnerStep, SubmitAdmit, SubmitPush, CancelAnyFlag, CancelAnyPush,
       DropFlag, DropWake, DropJoin, HolderStep, HandleCancelFlag, HandleCancelPush, HandleRead,
       HandleDrop, ReaderRuns, ReaderStep, NextPending, PopBlock, PollRequestMsg, PollReturn,
       Serve, ResetCancelAny, EnsureClean, BeginExchange, WriteRequest, ReadHead, OfferHead,
       Redial, StreamSuccess, DrainErrorBody, FinishRequest, ExitReader, callerSide, streamVars
  <1>2. CASE Deliver
    BY <1>2, Zenon DEF Deliver
  <1>3. CASE PollCancelMsg /\ sent' # sent
    <2>1. Move /\ rpc = "poll"
      BY <1>3, StepIsMove DEF PollCancelMsg
    <2>2. \E t \in Ticket : sent'[t] # sent[t]
      <3>1. sent \in [Ticket -> Seq(Chunk)]
        BY DEF TypeInv, TypeOK
      <3>2. \E k : sent' = Pushed(k, "Aborted")
        BY <1>3, Zenon DEF PollCancelMsg, AbortPending, streamVars
      <3> QED
        BY <1>3, <3>1, <3>2, ZenonT(30) DEF Pushed
    <2>3. \E i \in DOMAIN pending : Abort(i)
      BY <2>1, <2>2, ZenonT(30) DEF Move, Still, Admit, Push, Refuse, Post, TakePending,
         TakeRing, Skip,
                        Displace, StartServing, Finish, Exit
    <2> QED
      BY <1>3, <2>3, Zenon DEF Abort
  <1> QED
    BY <1>1, <1>2, <1>3, ZenonT(30)

\* A request is dropped when it is done with, when a cancel finds it in the
\* displaced queue, or when the reader exits.
LEMMA StreamsClose ==
    ASSUME StreamInv, Next, NEW t \in Ticket, open[t] = TRUE, open'[t] = FALSE
    PROVE  \/ t = cur /\ rpc = "finish"
           \/ shuttingDown = TRUE
           \/ \E i \in DOMAIN pending : Abort(i) /\ t = pending[i]
  <1>1. TypeInv /\ Move /\ open \in [Ticket -> BOOLEAN]
    BY StepIsMove, Zenon DEF StreamInv, QueueInv, TypeInv, TypeOK
  <1>2. CASE Exit
    <2>1. ExitReader
      <3>1. rpc = "next" /\ rpc' = "exited"
        BY <1>2 DEF Exit
      <3>2. ReaderStep
        BY <3>1, CallersKeepReader, ZenonT(30) DEF Next, ReaderRuns
      <3> QED
        BY <3>1, <3>2, ZenonT(30) DEF ReaderStep, NextPending, PopBlock, PollCancelMsg,
           PollRequestMsg, PollReturn, Serve, ResetCancelAny, EnsureClean, BeginExchange,
           WriteRequest, Io, ReadHead, OfferHead, Redial, StreamSuccess, DrainErrorBody,
           Deliver, FinishRequest, Goto
    <2>2. shuttingDown
      BY <2>1 DEF ExitReader
    <2> QED
      BY <1>1, <2>2, ZenonT(30) DEF TypeInv, TypeOK
  <1>3. CASE Finish
    BY <1>3, Zenon DEF Finish
  <1>4. ASSUME NEW i \in DOMAIN pending, Abort(i) PROVE t = pending[i]
    BY <1>4, Zenon DEF Abort
  <1>5. CASE Push
    BY <1>1, <1>5, Zenon DEF Push
  <1>6. UNCHANGED open => FALSE
    OBVIOUS
  <1> QED
    BY <1>1, <1>2, <1>3, <1>4, <1>5, <1>6, ZenonT(30) DEF Move, Still, Admit, Refuse, Post,
       TakePending,
          TakeRing, Skip, Displace, StartServing

\* A handle is given out with an open stream.
LEMMA HandleComesOpen ==
    ASSUME StreamInv, Next, NEW t \in Ticket, handle[t] = "none", handle'[t] # "none"
    PROVE  open'[t] = TRUE
  <1>1. /\ handle \in [Ticket -> HandleState] /\ open \in [Ticket -> BOOLEAN]
    BY Zenon DEF StreamInv, QueueInv, TypeInv, TypeOK
  <1>2. CASE SubmitPush
    BY <1>1, <1>2, ZenonT(30) DEF SubmitPush
  <1>3. CASE (OwnerStep /\ ~SubmitPush) \/ ReaderRuns
    BY <1>3, Zenon DEF OwnerStep, SubmitAdmit, CancelAnyFlag, CancelAnyPush, DropFlag, DropWake,
                DropJoin, ReaderRuns, ReaderStep, NextPending, PopBlock, PollCancelMsg,
                PollRequestMsg, PollReturn, Serve, ResetCancelAny, EnsureClean, BeginExchange,
                WriteRequest, ReadHead, OfferHead, Redial, StreamSuccess, DrainErrorBody,
                Deliver, FinishRequest, ExitReader, callerSide
  <1>4. ASSUME NEW u \in Holders, HolderStep(u) PROVE FALSE
    <2>1. handle[u] # "none" /\ (handle' = handle \/ \E x : handle' = [handle EXCEPT ![u] = x])
      <3>1. CASE HandleCancelFlag(u)
        BY <3>1, Zenon DEF HandleCancelFlag
      <3>2. CASE HandleCancelPush(u)
        BY <3>2, Zenon DEF HandleCancelPush
      <3>3. CASE HandleRead(u)
        BY <3>3, Zenon DEF HandleRead
      <3>4. CASE HandleDrop(u)
        BY <3>4, Zenon DEF HandleDrop
      <3> QED
        BY <1>4, <3>1, <3>2, <3>3, <3>4, ZenonT(30) DEF HolderStep
    <2> QED
      BY <1>1, <2>1, Zenon
  <1> QED
    BY <1>2, <1>3, <1>4, ZenonT(30) DEF Next

\* What the head of the ring says of the cancels in it.
LEMMA HeadIsPosted ==
    ASSUME TypeInv, ring # <<>>
    PROVE  /\ Head(ring) \in Message
           /\ \A t : Head(ring) = Cancel(t) => CancelPosted(t)
           /\ Head(ring) = Cancel(CANCEL_ANY) => AnyAt # {}
  <1> DEFINE m == Message
  <1>1. ring \in Seq(m)
    BY QueueTypes
  <1> HIDE DEF m
  <1>2. 1 \in DOMAIN ring /\ Head(ring) = ring[1] /\ Head(ring) \in m
    BY <1>1, TailFacts, ZenonT(30)
  <1> QED
    BY <1>2, Zenon DEF m, CancelPosted, AnyAt

\* The untargeted cancels of the ring, counted.
LEMMA AnyCount ==
    ASSUME TypeInv
    PROVE  /\ IsFiniteSet(AnyAt) /\ Cardinality(AnyAt) \in Nat
           /\ ring' = ring => AnyAt' = AnyAt
           /\ \A m \in Message : ring' = Append(ring, m) =>
                 Cardinality(AnyAt)' =
                     Cardinality(AnyAt) + (IF m = Cancel(CANCEL_ANY) THEN 1 ELSE 0)
           /\ (ring # <<>> /\ ring' = Tail(ring)) =>
                 Cardinality(AnyAt) =
                     Cardinality(AnyAt)' + (IF Head(ring) = Cancel(CANCEL_ANY) THEN 1 ELSE 0)
  <1>1. ring \in Seq(Message) /\ DOMAIN ring = 1 .. Len(ring) /\ Len(ring) \in Nat
    BY QueueTypes, SeqFacts, Zenon
  <1>2. IsFiniteSet(AnyAt) /\ Cardinality(AnyAt) \in Nat
    <2>1. IsFiniteSet(1 .. Len(ring)) /\ AnyAt \subseteq 1 .. Len(ring)
      BY <1>1, FS_Interval DEF AnyAt
    <2> QED
      BY <2>1, FS_Subset, FS_CardinalityType, ZenonT(30)
  <1>3. ring' = ring => AnyAt' = AnyAt
    BY Zenon DEF AnyAt, CANCEL_ANY
  <1> DEFINE c == Cancel(CANCEL_ANY)
  <1>4. \A i : i \in AnyAt <=> i \in DOMAIN ring /\ ring[i] = c
    BY Zenon DEF AnyAt
  <1>5. \A i : i \in AnyAt' <=> i \in DOMAIN ring' /\ ring'[i] = c
    BY Zenon DEF AnyAt, CANCEL_ANY
  <1> HIDE DEF c
  <1>6. ASSUME NEW m \in Message, ring' = Append(ring, m)
        PROVE  Cardinality(AnyAt') = Cardinality(AnyAt) + (IF m = c THEN 1 ELSE 0)
    <2>1. /\ DOMAIN ring' = 1 .. Len(ring) + 1
          /\ \A i \in DOMAIN ring : ring'[i] = ring[i]
          /\ ring'[Len(ring) + 1] = m
      BY <1>1, <1>6, RingGrows, Zenon
    <2>2. Len(ring) + 1 \notin AnyAt
      BY <1>1, <1>4
    <2>3. AnyAt' = IF m = c THEN AnyAt \cup {Len(ring) + 1} ELSE AnyAt
      <3>1. ASSUME NEW i
            PROVE  i \in AnyAt' <=> i \in AnyAt \/ (m = c /\ i = Len(ring) + 1)
        <4>1. i \in DOMAIN ring' <=> i \in DOMAIN ring \/ i = Len(ring) + 1
          BY <1>1, <2>1
        <4> QED
          BY <1>1, <1>4, <1>5, <2>1, <4>1, ZenonT(30)
      <3> QED
        BY <3>1, Zenon
    <2>4. Cardinality(AnyAt \cup {Len(ring) + 1}) = Cardinality(AnyAt) + 1
      BY <1>2, <2>2, FS_AddElement, ZenonT(30)
    <2>5. CASE m = c
      <3>1. AnyAt' = AnyAt \cup {Len(ring) + 1}
        BY <2>3, <2>5, ZenonT(30)
      <3> QED
        BY <2>4, <2>5, <3>1, ZenonT(30)
    <2>6. CASE m # c
      <3>1. AnyAt' = AnyAt
        BY <2>3, <2>6, Zenon
      <3>2. Cardinality(AnyAt) \in Nat
        BY <1>2, FS_CardinalityType, ZenonT(30)
      <3> QED
        BY <2>6, <3>1, <3>2
    <2> QED
      BY <2>5, <2>6, Zenon
  <1>7. ASSUME ring # <<>>, ring' = Tail(ring)
        PROVE  Cardinality(AnyAt) = Cardinality(AnyAt') + (IF Head(ring) = c THEN 1 ELSE 0)
    <2>1. /\ 1 \in DOMAIN ring /\ Head(ring) = ring[1]
          /\ \A i \in DOMAIN ring' :
                i \in Nat \ {0} /\ i + 1 \in DOMAIN ring /\ ring'[i] = ring[i + 1]
          /\ \A i \in DOMAIN ring : i # 1 => i - 1 \in DOMAIN ring' /\ ring'[i - 1] = ring[i]
      BY <1>1, <1>7, RingPops, ZenonT(30)
    <2> DEFINE T == AnyAt \ {1}
               f == [i \in T |-> i - 1]
    <2>2. f \in [T -> AnyAt'] /\ T \subseteq Nat
      BY <1>1, <1>4, <1>5, <2>1
    <2>3. \A i, j \in T : f[i] = f[j] => i = j
      BY <2>2
    <2>4. ASSUME NEW j \in AnyAt' PROVE \E i \in T : f[i] = j
      <3>1. j + 1 \in T /\ j \in Nat
        BY <1>4, <1>5, <2>1
      <3>2. f[j + 1] = j
        BY <3>1
      <3> QED
        BY <3>1, <3>2, ZenonT(30)
    <2>5. IsFiniteSet(T) /\ Cardinality(T) = Cardinality(AnyAt) - (IF 1 \in AnyAt THEN 1 ELSE 0)
      BY <1>2, FS_RemoveElement
    <2>6. 1 \in AnyAt <=> Head(ring) = c
      BY <1>4, <2>1, ZenonT(30)
    <2> HIDE DEF T, f
    <2>7. f \in Bijection(T, AnyAt')
      BY <2>2, <2>3, <2>4, ZenonT(30) DEF Bijection, Injection, Surjection, IsInjective
    <2>8. Cardinality(T) = Cardinality(AnyAt')
      BY <2>5, <2>7, FS_Bijection DEF ExistsBijection
    <2> QED
      BY <1>2, <2>5, <2>6, <2>8
  <1> QED
    BY <1>2, <1>3, <1>6, <1>7 DEF c

=============================================================================
