----------------------------- MODULE QueueProofs ----------------------------
(***************************************************************************)
(* AsyncClient, for every number of requests, ring and admission bound and *)
(* budget: its types (TypeOK), the attribution of the bytes on its         *)
(* connection (NoDesync), and its queue.  Each of its requests holds one   *)
(* permit (PermitPerRequest) and the client implements RequestService      *)
(* (ImplementsService).                                                    *)
(***************************************************************************)
EXTENDS AsyncClient, TLAPS

\* What the provers may take for a leaf.
USE SMTT(30), ZenonT(30)

\* Program counters at which the reader is serving a request.
Serving == ReaderPc \ {"next", "idle", "exited"}

\* What the type of a step depends on beyond the types themselves: a request is
\* served when one is written to, a chunk is offered when one is pushed, and a
\* ticket was taken before its request is pushed.
Control ==
    /\ rpc \in Serving => cur \in Ticket
    /\ rpc = "send" => out \in Chunk
    /\ owner = "admitted" => nextTicket > 0

TypeInv == TypeOK /\ Control

\* TypeOK by the sort of its variables: the provers treat Booleans apart.
TypeB ==
    shuttingDown \in BOOLEAN /\ cancelAny \in BOOLEAN /\ hit \in BOOLEAN /\ dirty \in BOOLEAN
TypeC ==
    /\ cancelled \in [Ticket -> BOOLEAN]
    /\ handle \in [Ticket -> HandleState]
    /\ sent \in [Ticket -> Seq(Chunk)]
    /\ taken \in [Ticket -> Nat]
    /\ open \in [Ticket -> BOOLEAN]
TypeQ ==
    /\ outstanding \in Int
    /\ ring \in Seq(Message)
    /\ pending \in Seq(Ticket)
TypeL ==
    /\ rpc \in ReaderPc /\ site \in Site /\ out \in Chunk \cup {"none"}
    /\ cur \in Ticket \cup {NONE}
    /\ status \in {"success", "failure", "consumed"}
TypeR ==
    /\ started \in [Ticket -> BOOLEAN]
    /\ attempt \in 1 .. 2 /\ ticks \in 0 .. Silence /\ reads \in 0 .. MaxReads
    /\ unread \in Ticket \cup {NONE}
    /\ written \in [Ticket -> 0 .. 2]
    /\ served \in Seq(Ticket)
TypeO ==
    /\ owner \in OwnerState /\ nextTicket \in 0 .. MaxTickets
    /\ cancels \in 0 .. MaxCancels
    /\ early \in [Ticket -> {"no", "posted", "lost"}]
    /\ targets \subseteq 0 .. MaxTickets

\* The parts make up TypeOK.
LEMMA TypeParts == TypeOK <=> TypeB /\ TypeC /\ TypeQ /\ TypeL /\ TypeR /\ TypeO
  BY Zenon DEF TypeOK, TypeB, TypeC, TypeQ, TypeL, TypeR, TypeO

\* What the steps use of the number of permits they give back.
Counting ==
    /\ \A x : Cardinality({x}) = 1
    /\ \A S \in SUBSET Ticket : Cardinality(S) \in Nat

\* Removing an element leaves a sequence over the same set.
LEMMA WithoutType ==
    ASSUME NEW S, NEW s \in Seq(S), NEW i \in DOMAIN s
    PROVE  Without(s, i) \in Seq(S)
  BY DEF Without

\* Pushing a chunk onto one stream leaves every stream a sequence of chunks.
LEMMA PushedType ==
    ASSUME sent \in [Ticket -> Seq(Chunk)], NEW t, NEW c \in Chunk
    PROVE  Pushed(t, c) \in [Ticket -> Seq(Chunk)]
  <1>1. ASSUME NEW u \in Ticket PROVE Append(sent[u], c) \in Seq(Chunk)
    <2>1. sent[u] \in Seq(Chunk)
      BY Zenon
    <2> HIDE DEF Chunk
    <2> QED
      BY <2>1
  <1>2. Pushed(t, c) = [u \in Ticket |-> IF u = t THEN Append(sent[u], c) ELSE sent[u]]
    BY Zenon DEF Pushed
  <1> QED
    BY <1>1, <1>2, Zenon

\* The rest of a queue is a queue.
LEMMA TailType ==
    ASSUME NEW S, NEW s \in Seq(S), s # <<>>
    PROVE  Head(s) \in S /\ Tail(s) \in Seq(S)
  OBVIOUS

\* Every variable starts in its type.
LEMMA InitType == Init => TypeInv
  <1> SUFFICES ASSUME Init PROVE TypeInv
    BY Zenon
  <1>1. TypeB
    BY Zenon DEF Init, DeliveryInit, QueueInit, ReaderInit, TypeB
  <1>2. TypeC
    BY DEF Init, DeliveryInit, HandleState, TypeC
  <1>3. TypeQ
    BY DEF Init, AdmissionInit, QueueInit, TypeQ
  <1>4. TypeL
    BY Zenon DEF Init, QueueInit, ReaderInit, ReaderPc, Site, TypeL
  <1>5. TypeR
    BY ReaderAssumption DEF Init, ReaderInit, TypeR
  <1>6. TypeO
    BY DeliveryAssumption, AsyncClientAssumption DEF Init, OwnerState, TypeO
  <1>7. Control
    BY Zenon DEF Init, QueueInit, Control, Serving
  <1> QED
    BY <1>1, <1>2, <1>3, <1>4, <1>5, <1>6, <1>7, TypeParts, Zenon DEF TypeInv

-----------------------------------------------------------------------------

\* The flags are only ever set, cleared, or settled by the end of a body.
LEMMA NextTypeB == ASSUME TypeB, TypeL, Control, Next PROVE TypeB'
  <1> USE DEF TypeB
  <1>1. CASE OwnerStep
    BY <1>1, Zenon DEF OwnerStep, SubmitAdmit, SubmitPush, CancelAnyFlag, CancelAnyPush, DropFlag,
                DropWake, DropJoin, flagVars, readerVars, wireVars, connVars
  <1>2. CASE \E t \in Holders : HolderStep(t)
    BY <1>2, Zenon DEF HolderStep, HandleCancelFlag, HandleCancelPush, HandleRead, HandleDrop,
                flagVars, readerVars, wireVars, connVars
  <1>3. CASE ReaderRuns
    <2>1. shuttingDown' \in BOOLEAN
      BY <1>3, Zenon DEF ReaderRuns, ReaderStep, NextPending, PopBlock, PollCancelMsg,
                  PollRequestMsg, PollReturn, Serve, ResetCancelAny, EnsureClean, BeginExchange,
                  WriteRequest, ReadHead, OfferHead, Redial, StreamSuccess, DrainErrorBody,
                  Deliver, FinishRequest, ExitReader, callerSide, flagVars
    <2>2. cancelAny' \in BOOLEAN
      BY <1>3, Zenon DEF ReaderRuns, ReaderStep, NextPending, PopBlock, PollCancelMsg,
                  PollRequestMsg, PollReturn, Serve, ResetCancelAny, EnsureClean, BeginExchange,
                  WriteRequest, ReadHead, OfferHead, Redial, StreamSuccess, DrainErrorBody,
                  Deliver, FinishRequest, ExitReader, callerSide, flagVars
    <2>3. hit' \in BOOLEAN
      <3> USE DEF StartPoll, StartSend, Goto
      <3>1. CASE Deliver
        BY <3>1, Zenon DEF Deliver, Control, Chunk, Terminator, TypeL
      <3>2. CASE PollCancelMsg \/ PollRequestMsg \/ NextPending \/ PopBlock \/ Serve
        BY <3>2, Zenon DEF NextPending, PopBlock, PollCancelMsg, PollRequestMsg, Serve,
           ResetCancelAny
      <3>3. CASE PollReturn \/ EnsureClean \/ BeginExchange \/ WriteRequest \/ ReadHead
        BY <3>3, Zenon DEF PollReturn, PollAnswer, EnsureClean, BeginExchange, WriteRequest,
                    ReadHead, OfferHead, Stall, Progress, Broken
      <3>4. CASE Redial \/ StreamSuccess \/ DrainErrorBody \/ FinishRequest \/ ExitReader
        BY <3>4, Zenon DEF Redial, StreamSuccess, DrainErrorBody, FinishRequest, ExitReader,
                    BodyWait, Stall, Progress
      <3> QED
        BY <1>3, <3>1, <3>2, <3>3, <3>4, Zenon DEF ReaderRuns, ReaderStep
    <2>4. dirty' \in BOOLEAN
      BY <1>3, Zenon DEF ReaderRuns, ReaderStep, Serve, EnsureClean, Reconnected,
                  ReconnectFailed, BeginExchange, WriteRequest, ReadHead, OfferHead, Redial,
                  StreamSuccess, BodyConsumed, DrainErrorBody, Deliver, FinishRequest,
                  ExitReader, wireVars, connVars
    <2> QED
      BY <2>1, <2>2, <2>3, <2>4, Zenon
  <1> QED
    BY <1>1, <1>2, <1>3, Zenon DEF Next

\* The streams: the reader pushes chunks and closes rings, the holders pop
\* them, cancel and drop.
LEMMA NextTypeC == ASSUME TypeC, TypeQ, TypeL, Control, Next PROVE TypeC'
  <1> USE DEF TypeC
  <1>1. CASE OwnerStep
    <2>1. CASE SubmitPush
      <3>1. handle' \in [Ticket -> HandleState]
        BY <2>1, Zenon DEF SubmitPush, HandleState
      <3>2. open' \in [Ticket -> BOOLEAN]
        BY <2>1, Zenon DEF SubmitPush
      <3>3. UNCHANGED <<cancelled, sent, taken>>
        BY <2>1, Zenon DEF SubmitPush, flagVars
      <3> QED
        BY <3>1, <3>2, <3>3, Zenon
    <2>2. CASE OwnerStep /\ ~SubmitPush
      BY <2>2, Zenon DEF OwnerStep, SubmitAdmit, CancelAnyFlag, CancelAnyPush, DropFlag, DropWake,
                  DropJoin, flagVars, streamVars
    <2> QED
      BY <1>1, <2>1, <2>2, Zenon
  <1>2. ASSUME NEW t \in Holders, HolderStep(t) PROVE TypeC'
    <2>1. handle' \in [Ticket -> HandleState]
      BY <1>2, Zenon DEF HolderStep, HandleCancelFlag, HandleCancelPush, HandleRead, HandleDrop,
                  HandleState
    <2>2. cancelled' \in [Ticket -> BOOLEAN]
      BY <1>2, Zenon DEF HolderStep, HandleCancelFlag, HandleCancelPush, HandleRead, HandleDrop,
                  flagVars
    <2>3. taken' \in [Ticket -> Nat]
      BY <1>2 DEF HolderStep, HandleCancelFlag, HandleCancelPush, HandleRead, HandleDrop,
                  streamVars
    <2>4. UNCHANGED <<sent, open>>
      BY <1>2, Zenon DEF HolderStep, HandleCancelFlag, HandleCancelPush, HandleRead, HandleDrop,
                  streamVars
    <2> QED
      BY <2>1, <2>2, <2>3, <2>4, Zenon
  <1>3. CASE ReaderStep
    <2>1. UNCHANGED <<cancelled, handle, taken>>
      BY <1>3, Zenon DEF ReaderStep, NextPending, PopBlock, PollCancelMsg, AbortPending,
                  PollRequestMsg, PollReturn, Serve, ResetCancelAny, EnsureClean, BeginExchange,
                  WriteRequest, ReadHead, OfferHead, Redial, StreamSuccess, DrainErrorBody,
                  Deliver, FinishRequest, ExitReader, callerSide, flagVars, streamVars
    <2>2. sent' \in [Ticket -> Seq(Chunk)]
      <3>1. CASE PollCancelMsg
        <4>1. \A k : Pushed(k, "Aborted") \in [Ticket -> Seq(Chunk)]
          BY PushedType, Zenon DEF Chunk
        <4>2. sent' = sent \/ \E k : sent' = Pushed(k, "Aborted")
          BY <3>1, Zenon DEF PollCancelMsg, AbortPending, streamVars
        <4> QED
          BY <4>1, <4>2, Zenon
      <3>2. CASE Deliver
        <4>1. out \in Chunk
          BY <3>2, Zenon DEF Deliver, Control
        <4>2. sent' = sent \/ sent' = Pushed(cur, out)
          BY <3>2, Zenon DEF Deliver
        <4> QED
          BY <4>1, <4>2, PushedType
      <3>3. CASE ReaderStep /\ ~PollCancelMsg /\ ~Deliver
        BY <3>3, Zenon DEF ReaderStep, NextPending, PopBlock, PollRequestMsg, PollReturn, Serve,
                    ResetCancelAny, EnsureClean, BeginExchange, WriteRequest, ReadHead,
                    OfferHead, Redial, StreamSuccess, DrainErrorBody, FinishRequest, ExitReader,
                    callerSide, streamVars
      <3> QED
        BY <1>3, <3>1, <3>2, <3>3, Zenon
    <2>3. open' \in [Ticket -> BOOLEAN]
      <3>1. CASE PollCancelMsg
        BY <3>1, Zenon DEF PollCancelMsg, AbortPending, DropRequests, streamVars
      <3>2. CASE FinishRequest \/ ExitReader
        BY <3>2, Zenon DEF FinishRequest, ExitReader, DropRequests
      <3>3. CASE ReaderStep /\ ~PollCancelMsg /\ ~FinishRequest /\ ~ExitReader
        BY <3>3, Zenon DEF ReaderStep, NextPending, PopBlock, PollRequestMsg, PollReturn, Serve,
                    ResetCancelAny, EnsureClean, BeginExchange, WriteRequest, ReadHead,
                    OfferHead, Redial, StreamSuccess, DrainErrorBody, Deliver, callerSide,
                    streamVars
      <3> QED
        BY <1>3, <3>1, <3>2, <3>3, Zenon
    <2> QED
      BY <2>1, <2>2, <2>3, Zenon
  <1> QED
    BY <1>1, <1>2, <1>3, Zenon DEF Next, ReaderRuns

\* The queues and the admission counter.
LEMMA NextTypeQ ==
    ASSUME TypeQ, TypeL, TypeO, Control, Next, Counting
    PROVE  TypeQ'
  <1> USE DEF TypeQ
  <1>1. ASSUME NEW m \in Message PROVE Append(ring, m) \in Seq(Message)
    BY <1>1
  <1>2. CASE OwnerStep
    <2>1. Request(nextTicket - 1) \in Message \/ owner # "admitted"
      BY DeliveryAssumption DEF Control, TypeO, Request, Message, Ticket
    <2>2. Cancel(CANCEL_ANY) \in Message
      BY DeliveryAssumption DEF Cancel, CANCEL_ANY, Message
    <2> QED
      <3>1. outstanding' \in Int /\ pending' = pending
        BY <1>2 DEF OwnerStep, SubmitAdmit, TryAdmit, SubmitPush, Release, CancelAnyFlag,
                    CancelAnyPush, DropFlag, DropWake, DropJoin, queueVars
      <3>2. \/ ring' = ring
            \/ owner = "admitted" /\ ring' = Append(ring, Request(nextTicket - 1))
            \/ ring' = Append(ring, Cancel(CANCEL_ANY))
        BY <1>2, Zenon DEF OwnerStep, SubmitAdmit, SubmitPush, CancelAnyFlag, CancelAnyPush,
                    DropFlag, DropWake, DropJoin, PushOrLose, queueVars
      <3> QED
        BY <1>1, <2>1, <2>2, <3>1, <3>2, Zenon
  <1>3. ASSUME NEW t \in Holders, HolderStep(t) PROVE TypeQ'
    <2>1. Cancel(t) \in Message
      BY DeliveryAssumption, AsyncClientAssumption DEF Cancel, Message, Ticket
    <2> QED
      BY <1>1, <1>3, <2>1, Zenon DEF HolderStep, HandleCancelFlag, HandleCancelPush, HandleRead,
                         HandleDrop, PushOrLose, queueVars
  <1>4. CASE ReaderStep
    <2>1. CASE NextPending \/ PopBlock
      <3>1. pending' = pending \/ (pending # <<>> /\ pending' = Tail(pending))
        BY <2>1, Zenon DEF NextPending, PopBlock
      <3>2. ring' = ring \/ (ring # <<>> /\ ring' = Tail(ring))
        BY <2>1, Zenon DEF NextPending, PopBlock
      <3>3. outstanding' = outstanding
        BY <2>1, Zenon DEF NextPending, PopBlock
      <3> QED
        BY <3>1, <3>2, <3>3, TailType, Zenon
    <2>2. CASE PollRequestMsg
      <3>1. Head(ring).ticket \in Ticket
        BY <2>2 DEF PollRequestMsg, Message
      <3> QED
        BY <2>2, <3>1 DEF PollRequestMsg
    <2>3. CASE PollCancelMsg
      <3>1. outstanding' = outstanding \/ \E k : outstanding' = outstanding - Cardinality({k})
        BY <2>3, Zenon DEF PollCancelMsg, AbortPending, DropRequests, Release
      <3>2. pending' \in Seq(Ticket)
        BY <2>3, WithoutType, Zenon DEF PollCancelMsg, AbortPending
      <3>3. ring' \in Seq(Message)
        BY <2>3, TailType, Zenon DEF PollCancelMsg
      <3>4. ASSUME NEW k, outstanding' = outstanding - Cardinality({k})
            PROVE  outstanding' \in Int
        <4>1. Cardinality({k}) = 1
          BY Zenon DEF Counting
        <4> QED
          BY <3>4, <4>1
      <3> QED
        BY <3>1, <3>4, <3>2, <3>3, Zenon
    <2>4. CASE FinishRequest
      BY <2>4 DEF Counting, FinishRequest, DropRequests, Release, queueVars
    <2>5. CASE ExitReader
      <3>1. Range(pending) \in SUBSET Ticket
        BY DEF Range
      <3>2. PICK drained \in BOOLEAN :
              /\ outstanding' = outstanding - Cardinality(Range(pending)
                     \cup {t \in Ticket : drained /\ Request(t) \in Range(ring)})
              /\ ring' = IF drained THEN <<>> ELSE ring
        BY <2>5, Zenon DEF ExitReader, DropRequests, Release
      <3>3. Cardinality(Range(pending)
                \cup {t \in Ticket : drained /\ Request(t) \in Range(ring)}) \in Nat
        BY <3>1, Zenon DEF Counting
      <3> QED
        BY <2>5, <3>2, <3>3 DEF ExitReader
    <2>6. CASE PollReturn \/ Serve \/ EnsureClean \/ BeginExchange \/ WriteRequest \/ ReadHead
               \/ Redial \/ StreamSuccess \/ DrainErrorBody \/ Deliver
      BY <2>6, Zenon DEF PollReturn, Serve, ResetCancelAny, EnsureClean, BeginExchange,
                  WriteRequest, ReadHead, OfferHead, Redial, StreamSuccess, DrainErrorBody,
                  Deliver, callerSide, queueVars
    <2> QED
      BY <1>4, <2>1, <2>2, <2>3, <2>4, <2>5, <2>6, Zenon DEF ReaderStep
  <1> QED
    BY <1>2, <1>3, <1>4, Zenon DEF Next, ReaderRuns

\* The callers' steps leave every variable of the reader alone.
LEMMA CallersKeepReader ==
    ASSUME OwnerStep \/ \E t \in Holders : HolderStep(t)
    PROVE  /\ UNCHANGED <<rpc, site, cur, out>>
           /\ UNCHANGED <<status, attempt, ticks, reads>>
           /\ UNCHANGED <<started, unread, written, served>>
  BY Zenon DEF OwnerStep, SubmitAdmit, SubmitPush, CancelAnyFlag, CancelAnyPush, DropFlag,
     DropWake,
         DropJoin, HolderStep, HandleCancelFlag, HandleCancelPush, HandleRead, HandleDrop,
         readerVars, exchangeVars, wireVars, connVars, historyVars

\* The reader's locals.
LEMMA NextTypeL == ASSUME TypeQ, TypeL, Control, Next PROVE TypeL'
  <1> USE DEF TypeL
  <1>1. CASE OwnerStep \/ \E t \in Holders : HolderStep(t)
    BY <1>1, CallersKeepReader, Zenon
  <1>2. CASE ReaderStep
    <2> USE DEF StartPoll, StartSend, Goto, ReaderPc, Site, Chunk
    <2>1. rpc' \in ReaderPc /\ site' \in Site /\ out' \in Chunk \cup {"none"}
      <3>1. CASE NextPending \/ PopBlock \/ PollCancelMsg \/ PollRequestMsg \/ Serve
        BY <3>1, Zenon DEF NextPending, PopBlock, PollCancelMsg, PollRequestMsg, Serve,
           ResetCancelAny
      <3>2. CASE PollReturn \/ EnsureClean \/ BeginExchange
        BY <3>2, Zenon DEF PollReturn, PollAnswer, EnsureClean, BeginExchange
      <3>3. CASE WriteRequest \/ ReadHead \/ Redial
        BY <3>3, Zenon DEF WriteRequest, ReadHead, OfferHead, Redial, Stall, Progress, Broken
      <3>4. CASE StreamSuccess \/ DrainErrorBody
        BY <3>4, Zenon DEF StreamSuccess, DrainErrorBody, BodyWait, Stall, Progress
      <3>5. CASE Deliver
        BY <3>5, Zenon DEF Deliver, Control, Terminator
      <3>6. CASE FinishRequest \/ ExitReader
        BY <3>6, Zenon DEF FinishRequest, ExitReader
      <3> QED
        BY <1>2, <3>1, <3>2, <3>3, <3>4, <3>5, <3>6, Zenon DEF ReaderStep
    <2>2. cur' \in Ticket \cup {NONE}
      <3>1. CASE NextPending
        BY <3>1 DEF NextPending, TypeQ
      <3>2. CASE PopBlock
        BY <3>2 DEF PopBlock, TypeQ, Message
      <3>3. CASE ReaderStep /\ ~NextPending /\ ~PopBlock
        BY <3>3, Zenon DEF ReaderStep, PollCancelMsg, PollRequestMsg, PollReturn, Serve,
                    ResetCancelAny, EnsureClean, BeginExchange, WriteRequest, ReadHead,
                    OfferHead, Redial, StreamSuccess, DrainErrorBody, Deliver, FinishRequest,
                    ExitReader, callerSide
      <3> QED
        BY <1>2, <3>1, <3>2, <3>3, Zenon
    <2>3. status' \in {"success", "failure", "consumed"}
      BY <1>2, Zenon DEF ReaderStep, Serve, EnsureClean, BeginExchange, WriteRequest, ReadHead,
                  OfferHead, Redial, StreamSuccess, DrainErrorBody, Deliver, FinishRequest,
                  ExitReader, exchangeVars
    <2> QED
      BY <2>1, <2>2, <2>3, Zenon
  <1> QED
    BY <1>1, <1>2, Zenon DEF Next, ReaderRuns

\* What the reader keeps of the exchange, the connection and its history.
LEMMA NextTypeR == ASSUME TypeL, TypeR, Control, Next PROVE TypeR'
  <1> USE DEF TypeR
  <1>1. CASE OwnerStep \/ \E t \in Holders : HolderStep(t)
    BY <1>1, CallersKeepReader, Zenon
  <1>2. CASE ReaderStep
    <2>1. started' \in [Ticket -> BOOLEAN]
      BY <1>2, Zenon DEF ReaderStep, Serve, EnsureClean, BeginExchange, WriteRequest, ReadHead,
                  OfferHead, Redial, StreamSuccess, DrainErrorBody, Deliver, FinishRequest,
                  ExitReader, exchangeVars
    <2>2. attempt' \in {attempt, 1, 2}
      BY <1>2, Zenon DEF ReaderStep, Serve, EnsureClean, BeginExchange, WriteRequest, ReadHead,
                  OfferHead, Redial, StreamSuccess, DrainErrorBody, Deliver, FinishRequest,
                  ExitReader, exchangeVars
    <2>3. ticks' \in {ticks, 0} \/ (ticks < Silence /\ ticks' = ticks + 1)
      BY <1>2, Zenon
         DEF ReaderStep, Serve, EnsureClean, BeginExchange, WriteRequest, ReadHead, OfferHead,
             Redial, StreamSuccess, DrainErrorBody, Deliver, FinishRequest, ExitReader,
             BodyWait, Stall, Progress, Broken, exchangeVars
    <2>4. reads' \in {reads, 0} \/ (reads < MaxReads /\ reads' = reads + 1)
      BY <1>2, Zenon
         DEF ReaderStep, Serve, EnsureClean, BeginExchange, WriteRequest, ReadHead, OfferHead,
             Redial, StreamSuccess, DrainErrorBody, Deliver, FinishRequest, ExitReader,
             BodyWait, Progress, exchangeVars
    <2>5. unread' \in Ticket \cup {NONE}
      BY <1>2, Zenon DEF ReaderStep, Serve, EnsureClean, Reconnected, ReconnectFailed,
                  BeginExchange, WriteRequest, OnWire, ReadHead, OfferHead, Redial,
                  StreamSuccess, BodyConsumed, DrainErrorBody, Deliver, FinishRequest,
                  ExitReader, TypeL, wireVars, connVars
    <2>6. written' = written \/ written' = [written EXCEPT ![cur] = attempt]
      BY <1>2, Zenon DEF ReaderStep, Serve, EnsureClean, BeginExchange, WriteRequest, OnWire,
                  ReadHead, OfferHead, Redial, StreamSuccess, DrainErrorBody, Deliver,
                  FinishRequest, ExitReader, wireVars, historyVars
    <2>7. served' \in Seq(Ticket)
      <3>1. CASE Serve
        <4>1. cur \in Ticket
          BY <3>1, Zenon DEF Serve, ResetCancelAny, Control, Serving, ReaderPc
        <4> QED
          BY <3>1, <4>1 DEF Serve
      <3>2. CASE ReaderStep /\ ~Serve
        BY <3>2, Zenon DEF ReaderStep, EnsureClean, BeginExchange, WriteRequest, ReadHead,
                    OfferHead, Redial, StreamSuccess, DrainErrorBody, Deliver, FinishRequest,
                    ExitReader, wireVars, historyVars
      <3> QED
        BY <1>2, <3>1, <3>2, Zenon
    <2> QED
      <3>1. attempt' \in 1 .. 2 /\ ticks' \in 0 .. Silence /\ reads' \in 0 .. MaxReads
        BY <2>2, <2>3, <2>4, ReaderAssumption
      <3>2. written' \in [Ticket -> 0 .. 2]
        BY <2>6
      <3> QED
        BY <2>1, <2>5, <2>7, <3>1, <3>2, Zenon
  <1> QED
    BY <1>1, <1>2, Zenon DEF Next, ReaderRuns

\* The callers' own variables: the owner's counter is bounded by its guard,
\* and the histories only name tickets.
LEMMA NextTypeO == ASSUME TypeQ, TypeL, TypeO, Next PROVE TypeO'
  <1> USE DEF TypeO
  <1>1. CASE OwnerStep
    <2>1. owner' \in OwnerState
      BY <1>1, Zenon DEF OwnerStep, SubmitAdmit, SubmitPush, CancelAnyFlag, CancelAnyPush,
         DropFlag,
                  DropWake, DropJoin, OwnerState
    <2>2. nextTicket' = nextTicket \/ (nextTicket < MaxTickets /\ nextTicket' = nextTicket + 1)
      BY <1>1, Zenon DEF OwnerStep, SubmitAdmit, SubmitPush, CancelAnyFlag, CancelAnyPush,
         DropFlag,
                  DropWake, DropJoin
    <2>3. cancels' = cancels \/ (cancels < MaxCancels /\ cancels' = cancels + 1)
      BY <1>1, Zenon DEF OwnerStep, SubmitAdmit, SubmitPush, CancelAnyFlag, CancelAnyPush,
         DropFlag,
                  DropWake, DropJoin, cancelHistory
    <2>4. early' = early
      BY <1>1, Zenon DEF OwnerStep, SubmitAdmit, SubmitPush, CancelAnyFlag, CancelAnyPush,
         DropFlag,
                  DropWake, DropJoin, cancelHistory
    <2>5. targets' \subseteq targets \cup InFlight \cup {CANCEL_ANY}
      BY <1>1, Zenon DEF OwnerStep, SubmitAdmit, SubmitPush, CancelAnyFlag, CancelAnyPush,
         DropFlag,
                  DropWake, DropJoin, cancelHistory
    <2>6. InFlight \subseteq Ticket
      BY DEF InFlight, QueuedTickets, Range, TypeQ, TypeL
    <2>7. Ticket \cup {CANCEL_ANY} \subseteq 0 .. MaxTickets
      BY DeliveryAssumption DEF Ticket, CANCEL_ANY
    <2>8. nextTicket' \in 0 .. MaxTickets /\ cancels' \in 0 .. MaxCancels
      BY <2>2, <2>3, DeliveryAssumption, AsyncClientAssumption
    <2> QED
      BY <2>1, <2>4, <2>5, <2>6, <2>7, <2>8, Zenon
  <1>2. ASSUME NEW t \in Holders, HolderStep(t) PROVE TypeO'
    <2>1. UNCHANGED <<owner, nextTicket, targets>>
      BY <1>2, Zenon DEF HolderStep, HandleCancelFlag, HandleCancelPush, ownerVars, cancelHistory
    <2>2. cancels' = cancels \/ (cancels < MaxCancels /\ cancels' = cancels + 1)
      BY <1>2, Zenon DEF HolderStep, HandleCancelFlag, HandleCancelPush, cancelHistory
    <2>3. early' \in [Ticket -> {"no", "posted", "lost"}]
      BY <1>2, Zenon DEF HolderStep, HandleCancelFlag, HandleCancelPush, cancelHistory
    <2> QED
      BY <2>1, <2>2, <2>3, AsyncClientAssumption
  <1>3. CASE ReaderRuns
    BY <1>3, Zenon DEF ReaderRuns, ownerVars, cancelHistory
  <1> QED
    BY <1>1, <1>2, <1>3, Zenon DEF Next

\* A request is taken off a queue with its ticket and kept until it is
\* finished; a chunk is chosen in the step that starts its delivery.
LEMMA NextControl == ASSUME TypeQ, TypeL, TypeO, Control, Next PROVE Control'
  <1>1. CASE OwnerStep
    <2>1. owner' = "admitted" => nextTicket' > 0
      BY <1>1 DEF OwnerStep, SubmitAdmit, SubmitPush, CancelAnyFlag, CancelAnyPush, DropFlag,
                  DropWake, DropJoin, TypeO
    <2> QED
      BY <1>1, <2>1, CallersKeepReader, Zenon DEF Control
  <1>2. CASE \E t \in Holders : HolderStep(t)
    <2>1. UNCHANGED <<owner, nextTicket>>
      BY <1>2, Zenon DEF HolderStep, HandleCancelFlag, HandleCancelPush, ownerVars
    <2> QED
      BY <1>2, <2>1, CallersKeepReader, Zenon DEF Control
  <1>3. CASE ReaderRuns
    <2> USE DEF StartPoll, StartSend, Goto
    <2>1. UNCHANGED <<owner, nextTicket>>
      BY <1>3, Zenon DEF ReaderRuns, ownerVars
    <2>2. rpc' = "send" => out' \in Chunk
      <3> USE DEF Chunk
      <3>1. CASE NextPending \/ PopBlock \/ PollCancelMsg \/ PollRequestMsg \/ Serve
        BY <3>1, Zenon DEF NextPending, PopBlock, PollCancelMsg, PollRequestMsg, Serve,
           ResetCancelAny
      <3>2. CASE PollReturn \/ EnsureClean \/ BeginExchange
        BY <3>2, Zenon DEF PollReturn, PollAnswer, EnsureClean, BeginExchange
      <3>3. CASE WriteRequest \/ ReadHead \/ Redial
        BY <3>3, Zenon DEF WriteRequest, ReadHead, OfferHead, Redial, Stall, Progress, Broken
      <3>4. CASE StreamSuccess \/ DrainErrorBody
        BY <3>4, Zenon DEF StreamSuccess, DrainErrorBody, BodyWait, Stall, Progress
      <3>5. CASE Deliver
        BY <3>5, Zenon DEF Deliver, Control, Terminator, TypeL
      <3>6. CASE FinishRequest \/ ExitReader
        BY <3>6, Zenon DEF FinishRequest, ExitReader
      <3> QED
        BY <1>3, <3>1, <3>2, <3>3, <3>4, <3>5, <3>6, Zenon DEF ReaderRuns, ReaderStep
    <2>3. rpc' \in Serving => cur' \in Ticket
      <3>1. CASE NextPending
        BY <3>1 DEF NextPending, TypeQ, Serving
      <3>2. CASE PopBlock
        BY <3>2 DEF PopBlock, TypeQ, Message, Serving
      <3>3. CASE FinishRequest \/ ExitReader
        BY <3>3, Zenon DEF FinishRequest, ExitReader, Serving
      <3>4. CASE PollCancelMsg \/ PollRequestMsg \/ PollReturn \/ Serve \/ EnsureClean
                 \/ BeginExchange \/ WriteRequest \/ ReadHead \/ Redial \/ StreamSuccess
                 \/ DrainErrorBody \/ Deliver
        <4>1. cur' = cur
          BY <3>4, Zenon DEF PollCancelMsg, PollRequestMsg, PollReturn, Serve, ResetCancelAny,
                      EnsureClean, BeginExchange, WriteRequest, ReadHead, OfferHead, Redial,
                      StreamSuccess, DrainErrorBody, Deliver, callerSide
        <4>2. rpc \in {"reset", "poll", "clean", "begin", "io", "redial", "body", "drain",
                       "send"}
          BY <3>4, Zenon DEF PollCancelMsg, PollRequestMsg, PollReturn, Serve, ResetCancelAny,
                      EnsureClean, BeginExchange, WriteRequest, ReadHead, OfferHead, Redial,
                      StreamSuccess, DrainErrorBody, Deliver, Io
        <4> QED
          BY <4>1, <4>2, Zenon DEF Control, Serving, ReaderPc
      <3> QED
        BY <1>3, <3>1, <3>2, <3>3, <3>4, Zenon DEF ReaderRuns, ReaderStep
    <2> QED
      BY <2>1, <2>2, <2>3, Zenon DEF Control
  <1> QED
    BY <1>1, <1>2, <1>3, Zenon DEF Next

(***************************************************************************)
(* NoDesync speaks only of the moment of a socket call; what makes it      *)
(* inductive is where the dirty flag must be set in between.               *)
(***************************************************************************)

\* The exchange is being written, or is about to be replayed.
AtWrite == rpc = "redial" \/ (rpc \in {"poll", "io"} /\ site \in {"write", "retry"})

AtDrain == rpc = "drain" \/ (rpc \in {"poll", "io"} /\ site = "drain")

\* A response is being read, or one of its chunks is offered before its end.
AtRead ==
    \/ AtDrain
    \/ rpc \in {"poll", "io"} /\ site \in {"head", "body"}
    \/ rpc = "body" /\ status # "consumed"
    \/ rpc = "send" /\ (out = "Head" \/ (out = "Body" /\ status = "success"))

\* The dirty flag covers whatever is unread on the connection, an exchange
\* begins on an empty one, and each of its stages finds only its own bytes.
Wire ==
    /\ unread # NONE => dirty
    /\ rpc = "begin" => unread = NONE
    /\ AtWrite => dirty /\ unread \in {NONE, cur}
    /\ AtRead => dirty /\ unread = cur

\* With the reader's locals at each program counter, this is inductive.
WireInv ==
    /\ rpc = "poll" => site \in Site \ {"none"}
    /\ rpc = "io" => site \in {"write", "head", "body", "drain"}
    /\ rpc = "send" => out \in Chunk
    /\ status \in {"success", "failure", "consumed"}
    /\ AtDrain => status # "success"
    /\ Wire

\* The reader starts on a fresh connection with nothing to serve.
LEMMA InitWire == Init => WireInv
  BY Zenon DEF Init, QueueInit, ReaderInit, WireInv, Wire, AtWrite, AtDrain, AtRead, NONE

\* A step of the owner or of a holder leaves the reader and the connection as
\* they are.
LEMMA CallersKeepWire ==
    ASSUME WireInv, OwnerStep \/ (\E t \in Holders : HolderStep(t))
    PROVE  WireInv'
  <1>1. UNCHANGED readerVars
    BY Zenon DEF OwnerStep, HolderStep, SubmitAdmit, SubmitPush, CancelAnyFlag, CancelAnyPush,
           DropFlag, DropWake, DropJoin, HandleCancelFlag, HandleCancelPush
  <1> QED
    BY <1>1 DEF readerVars, exchangeVars, wireVars, connVars, historyVars, WireInv, Wire,
                AtWrite, AtDrain, AtRead

\* next_request and poll_cancel move the reader without touching the
\* connection.
LEMMA QueueKeepsWire ==
    ASSUME WireInv, UNCHANGED <<exchangeVars, wireVars>>,
           NextPending \/ PopBlock \/ PollCancelMsg \/ PollRequestMsg \/ PollReturn
    PROVE  WireInv'
  <1> USE DEF NONE, Site, Chunk, Terminator, exchangeVars, wireVars, connVars, historyVars, WireInv, Wire, AtWrite,
              AtDrain, AtRead, Goto
  <1>1. CASE NextPending
    BY <1>1, Zenon DEF NextPending
  <1>2. CASE PopBlock
    BY <1>2, Zenon DEF PopBlock
  <1>3. CASE PollCancelMsg \/ PollRequestMsg
    BY <1>3, Zenon DEF PollCancelMsg, PollRequestMsg
  <1>4. CASE PollReturn
    BY <1>4, Zenon DEF PollReturn, PollAnswer, StartSend
  <1> QED
    BY <1>1, <1>2, <1>3, <1>4, Zenon

\* Every stage of an exchange hands on what the next one needs.
LEMMA ReaderKeepsWire ==
    ASSUME WireInv, ReaderStep
    PROVE  WireInv'
  <1> USE DEF NONE, Site, Chunk, Terminator, exchangeVars, wireVars, connVars, historyVars, callerSide, WireInv, Wire,
              AtWrite, AtDrain, AtRead, StartPoll, StartSend, Goto
  <1>1. CASE Serve
    BY <1>1, Zenon DEF Serve, ResetCancelAny
  <1>2. CASE EnsureClean
    BY <1>2, Zenon DEF EnsureClean, Reconnected, ReconnectFailed
  <1>3. CASE BeginExchange
    BY <1>3, Zenon DEF BeginExchange
  <1>4. CASE WriteRequest
    BY <1>4, Zenon DEF WriteRequest, Io, OnWire, Stall, Progress, Broken
  <1>5. CASE ReadHead
    BY <1>5, Zenon DEF ReadHead, OfferHead, Io, Stall, Progress, Broken
  <1>6. CASE Redial
    BY <1>6, Zenon DEF Redial, Reconnected, ReconnectFailed
  <1>7. CASE StreamSuccess
    <2>1. CASE BodyWait("body") /\ status = "success" /\ UNCHANGED <<status, connVars>>
      BY <1>7, <2>1, Zenon DEF StreamSuccess, Io, Stall, Progress, BodyWait
    <2>2. CASE StartSend("Body") /\ status = "success" /\ UNCHANGED <<status, connVars>>
      BY <1>7, <2>2, Zenon DEF StreamSuccess, Io
    <2>3. CASE StartSend("Body") /\ status' = "consumed" /\ BodyConsumed
      BY <2>3, Zenon DEF BodyConsumed
    <2>4. CASE StartSend("Eof") /\ BodyConsumed /\ UNCHANGED status
      BY <2>4, Zenon DEF BodyConsumed
    <2>5. CASE (StartSend("Eof") \/ StartSend("Error")) /\ UNCHANGED <<status, connVars>>
      BY <2>5, Zenon
    <2> QED
      BY <1>7, <2>1, <2>2, <2>3, <2>4, <2>5, Zenon DEF StreamSuccess
  <1>8. CASE DrainErrorBody
    <2>1. CASE BodyWait("drain") /\ UNCHANGED connVars
      BY <1>8, <2>1, Zenon DEF DrainErrorBody, Io, Stall, Progress, BodyWait
    <2>2. CASE (StartSend("Body") \/ StartSend("Eof")) /\ BodyConsumed /\ status # "success"
      BY <1>8, <2>2, Zenon DEF DrainErrorBody, BodyConsumed
    <2>3. CASE StartSend("Error") /\ UNCHANGED connVars
      BY <1>8, <2>3, Zenon DEF DrainErrorBody
    <2> QED
      BY <1>8, <2>1, <2>2, <2>3, Zenon DEF DrainErrorBody, Io
  <1>9. CASE Deliver
    <2>1. CASE Goto("finish")
      BY <1>9, <2>1, Zenon DEF Deliver
    <2>2. CASE out = "Head" /\ Goto(IF status = "success" THEN "body" ELSE "drain")
      BY <1>9, <2>2, Zenon DEF Deliver
    <2>3. CASE out = "Body" /\ status = "failure" /\ StartSend("Eof")
      BY <1>9, <2>3, Zenon DEF Deliver
    <2>4. CASE out = "Body" /\ status # "failure" /\ Goto("body")
      BY <1>9, <2>4, Zenon DEF Deliver
    <2> QED
      BY <1>9, <2>1, <2>2, <2>3, <2>4, Zenon DEF Deliver
  <1>10. CASE FinishRequest
    BY <1>10, Zenon DEF FinishRequest
  <1>11. CASE ExitReader
    BY <1>11, Zenon DEF ExitReader
  <1> QED
    BY <1>1, <1>2, <1>3, <1>4, <1>5, <1>6, <1>7, <1>8, <1>9, <1>10, <1>11,
       QueueKeepsWire, Zenon DEF ReaderStep

\* The reader never parses one exchange's bytes as another's: NoDesync holds in
\* every reachable state, whatever cancels, drops, stalls, failures, replays
\* and reconnects the callers and the peer interleave.
THEOREM WireIsAttributed == Spec => []NoDesync
  <1>1. Init => WireInv
    BY InitWire, Zenon
  <1>2. WireInv /\ [Next]_vars => WireInv'
    <2> SUFFICES ASSUME WireInv, [Next]_vars PROVE WireInv'
      BY Zenon
    <2>1. CASE Next
      BY <2>1, CallersKeepWire, ReaderKeepsWire, Zenon DEF Next, ReaderRuns
    <2>2. CASE UNCHANGED vars
      BY <2>2, Zenon DEF vars, WireInv, Wire, AtWrite, AtDrain, AtRead
    <2> QED
      BY <2>1, <2>2, Zenon
  <1>3. WireInv => NoDesync
    BY Zenon DEF WireInv, Wire, AtWrite, AtDrain, AtRead, NoDesync
  <1> QED
    BY <1>1, <1>2, <1>3, PTL DEF Spec

(***************************************************************************)
(* Moves of the queue                                                      *)
(***************************************************************************)

\* A message is known by its kind and its ticket.
LEMMA MessageIs ==
    ASSUME NEW m \in Message
    PROVE  /\ \A t \in Ticket : m = Request(t) <=> m.kind = "Request" /\ m.ticket = t
           /\ \A t \in 0 .. MaxTickets :
                 m = Cancel(t) <=> m.kind # "Request" /\ m.ticket = t
  BY DEF Message, Request, Cancel

\* A sequence by its positions.
LEMMA SeqFacts ==
    ASSUME NEW S, NEW s \in Seq(S)
    PROVE  /\ Len(s) \in Nat /\ DOMAIN s = 1 .. Len(s) /\ (s = <<>> <=> Len(s) = 0)
           /\ \A i \in 1 .. Len(s) : s[i] \in S
  OBVIOUS

\* Concatenation, position by position.
LEMMA ConcatFacts ==
    ASSUME NEW S, NEW s \in Seq(S), NEW t \in Seq(S)
    PROVE  /\ s \o t \in Seq(S) /\ Len(s \o t) = Len(s) + Len(t)
           /\ \A i \in 1 .. Len(s) + Len(t) :
                 (s \o t)[i] = IF i <= Len(s) THEN s[i] ELSE t[i - Len(s)]
  OBVIOUS

\* A part, position by position.
LEMMA PartFacts ==
    ASSUME NEW S, NEW s \in Seq(S), NEW m \in 1 .. Len(s) + 1, NEW n \in m - 1 .. Len(s)
    PROVE  /\ SubSeq(s, m, n) \in Seq(S) /\ Len(SubSeq(s, m, n)) = n - m + 1
           /\ \A i \in 1 .. n - m + 1 : SubSeq(s, m, n)[i] = s[m + i - 1]
  OBVIOUS

\* Sequences by their positions: a pop shifts every other one down.
LEMMA TailFacts ==
    ASSUME NEW S, NEW s \in Seq(S), s # <<>>
    PROVE  /\ 1 \in DOMAIN s /\ Head(s) = s[1] /\ Head(s) \in S /\ Tail(s) \in Seq(S)
           /\ \A i \in DOMAIN Tail(s) :
                 i \in Nat \ {0} /\ i + 1 \in DOMAIN s /\ Tail(s)[i] = s[i + 1]
           /\ \A i \in DOMAIN s : i # 1 => i - 1 \in DOMAIN Tail(s) /\ Tail(s)[i - 1] = s[i]
  <1>1. Len(s) \in Nat \ {0} /\ DOMAIN s = 1 .. Len(s)
    BY SeqFacts, Zenon
  <1>2. /\ Head(s) \in S /\ Tail(s) \in Seq(S) /\ Len(Tail(s)) = Len(s) - 1
        /\ \A i \in 1 .. Len(Tail(s)) : Tail(s)[i] = s[i + 1]
    OBVIOUS
  <1>3. DOMAIN Tail(s) = 1 .. Len(Tail(s))
    BY <1>2, SeqFacts, Zenon
  <1>4. Head(s) = s[1]
    BY <1>1
  <1> QED
    BY <1>1, <1>2, <1>3, <1>4

\* A push adds one position at the end.
LEMMA AppendFacts ==
    ASSUME NEW S, NEW s \in Seq(S), NEW x \in S
    PROVE  /\ Append(s, x) \in Seq(S)
           /\ Len(s) \in Nat /\ DOMAIN s = 1 .. Len(s)
           /\ DOMAIN Append(s, x) = 1 .. Len(s) + 1
           /\ \A i \in DOMAIN s : Append(s, x)[i] = s[i]
           /\ Append(s, x)[Len(s) + 1] = x
  <1>1. /\ Append(s, x) \in Seq(S) /\ Len(Append(s, x)) = Len(s) + 1
        /\ \A i \in 1 .. Len(s) : Append(s, x)[i] = s[i]
        /\ Append(s, x)[Len(s) + 1] = x
    OBVIOUS
  <1>2. Len(s) \in Nat /\ DOMAIN s = 1 .. Len(s)
    BY SeqFacts, Zenon
  <1>3. DOMAIN Append(s, x) = 1 .. Len(Append(s, x))
    BY <1>1, SeqFacts, Zenon
  <1> QED
    BY <1>1, <1>2, <1>3, Zenon

\* Removing position k closes the gap and keeps the order.
LEMMA WithoutFacts ==
    ASSUME NEW S, NEW s \in Seq(S), NEW k \in DOMAIN s
    PROVE  /\ Without(s, k) \in Seq(S)
           /\ DOMAIN Without(s, k) = 1 .. Len(s) - 1
           /\ \A i \in 1 .. Len(s) - 1 :
                 Without(s, k)[i] = IF i < k THEN s[i] ELSE s[i + 1]
  <1>1. Len(s) \in Nat /\ DOMAIN s = 1 .. Len(s) /\ k \in 1 .. Len(s)
    BY SeqFacts, Zenon
  <1>2. \A i \in 1 .. Len(s) : s[i] \in S
    BY SeqFacts, Zenon
  <1> DEFINE a == SubSeq(s, 1, k - 1)
             b == SubSeq(s, k + 1, Len(s))
  <1>3. /\ a \in Seq(S) /\ Len(a) = k - 1
        /\ \A i \in 1 .. k - 1 : a[i] = s[i]
    <2>1. \A i \in 1 .. k - 1 : s[i] \in S
      BY <1>1, <1>2
    <2>2. /\ a \in Seq(S) /\ Len(a) = IF 1 <= k - 1 THEN k - 1 - 1 + 1 ELSE 0
          /\ \A i \in 1 .. k - 1 - 1 + 1 : a[i] = s[1 + i - 1]
      BY <1>1, <2>1, PartFacts
    <2> QED
      BY <1>1, <2>2
  <1>4. /\ b \in Seq(S) /\ Len(b) = Len(s) - k
        /\ \A i \in 1 .. Len(s) - k : b[i] = s[k + i]
    <2>1. \A i \in k + 1 .. Len(s) : s[i] \in S
      BY <1>1, <1>2
    <2>2. /\ b \in Seq(S) /\ Len(b) = IF k + 1 <= Len(s) THEN Len(s) - (k + 1) + 1 ELSE 0
          /\ \A i \in 1 .. Len(s) - (k + 1) + 1 : b[i] = s[(k + 1) + i - 1]
      BY <1>1, <2>1, PartFacts
    <2> QED
      BY <1>1, <2>2
  <1> HIDE DEF a, b
  <1>5. /\ a \o b \in Seq(S) /\ Len(a \o b) = Len(s) - 1
        /\ \A i \in 1 .. Len(s) - 1 : (a \o b)[i] = IF i <= k - 1 THEN a[i] ELSE b[i - (k - 1)]
    <2>1. /\ a \o b \in Seq(S) /\ Len(a \o b) = Len(a) + Len(b)
          /\ \A i \in 1 .. Len(a) + Len(b) :
                (a \o b)[i] = IF i <= Len(a) THEN a[i] ELSE b[i - Len(a)]
      BY <1>3, <1>4, ConcatFacts, Zenon
    <2>2. Len(a) + Len(b) = Len(s) - 1
      BY <1>1, <1>3, <1>4
    <2> QED
      BY <1>3, <2>1, <2>2, Zenon
  <1>6. DOMAIN (a \o b) = 1 .. Len(s) - 1
    BY <1>5, SeqFacts, Zenon
  <1>7. Without(s, k) = a \o b
    BY Zenon DEF Without, a, b
  <1>8. ASSUME NEW i \in 1 .. Len(s) - 1
        PROVE  (a \o b)[i] = IF i < k THEN s[i] ELSE s[i + 1]
    <2>1. CASE i < k
      BY <1>1, <1>3, <1>5, <2>1
    <2>2. CASE ~(i < k)
      <3>1. (a \o b)[i] = b[i - (k - 1)] /\ i - (k - 1) \in 1 .. Len(s) - k
        BY <1>1, <1>5, <2>2
      <3>2. b[i - (k - 1)] = s[k + (i - (k - 1))] /\ k + (i - (k - 1)) = i + 1
        BY <1>1, <1>4, <3>1
      <3> QED
        BY <2>2, <3>1, <3>2, Zenon
    <2> QED
      BY <2>1, <2>2, Zenon
  <1> QED
    BY <1>5, <1>6, <1>7, <1>8, Zenon

\* Tickets below this one have entered the ring or were refused by it.
Submitted == IF owner = "admitted" THEN nextTicket - 1 ELSE nextTicket

\* The ticket of a submit between its permit and its push.
Admitted == IF owner = "admitted" THEN {nextTicket - 1} ELSE {}

(***************************************************************************)
(* What a step can do to the queue.  Every step of the client is one of    *)
(* these moves of served, pending, ring, cur, outstanding and of the       *)
(* streams of the requests that leave it.                                  *)
(***************************************************************************)
KeepSubmit == Submitted' = Submitted /\ Admitted' = Admitted

Still ==
    /\ UNCHANGED <<served, pending, ring, cur, outstanding, open>> /\ KeepSubmit
    /\ \A t \in Ticket : sent'[t] = sent[t] \/ (t = cur /\ rpc = "send")
    /\ \/ rpc' = rpc
       \/ rpc \in Serving \ {"reset"} /\ rpc' \in Serving \ {"reset"}
       \/ rpc = "next" /\ rpc' = "idle" /\ pending = <<>>

Admit ==
    /\ UNCHANGED <<served, pending, ring, cur, rpc, sent, open>>
    /\ Submitted \in Ticket /\ Admitted = {}
    /\ Submitted' = Submitted /\ Admitted' = {Submitted}
    /\ outstanding < MaxOutstanding /\ outstanding' = outstanding + 1

Push ==
    /\ UNCHANGED <<served, pending, cur, rpc, outstanding, sent>>
    /\ open' = [open EXCEPT ![Submitted] = TRUE]
    /\ Submitted \in Ticket /\ Admitted = {Submitted}
    /\ Submitted' = Submitted + 1 /\ Admitted' = {}
    /\ ring' = Append(ring, Request(Submitted))

Refuse ==
    /\ UNCHANGED <<served, pending, ring, cur, rpc, sent, open>>
    /\ Submitted \in Ticket /\ Admitted = {Submitted}
    /\ Submitted' = Submitted + 1 /\ Admitted' = {}
    /\ outstanding' = outstanding - 1

Post(k) ==
    /\ UNCHANGED <<served, pending, cur, rpc, outstanding, sent, open>> /\ KeepSubmit
    /\ ring' = Append(ring, Cancel(k))

TakePending ==
    /\ rpc = "next" /\ rpc' = "reset" /\ pending # <<>>
    /\ cur' = Head(pending) /\ pending' = Tail(pending)
    /\ UNCHANGED <<served, ring, outstanding, sent, open>> /\ KeepSubmit

TakeRing ==
    /\ rpc = "idle" /\ rpc' = "reset" /\ ring # <<>> /\ Head(ring).kind = "Request"
    /\ cur' = Head(ring).ticket /\ ring' = Tail(ring)
    /\ UNCHANGED <<served, pending, outstanding, sent, open>> /\ KeepSubmit

Skip ==
    /\ \/ rpc = "idle" /\ rpc' = "next"
       \/ /\ rpc = "poll" /\ rpc' = "poll"
          /\ \A i \in DOMAIN pending : Head(ring) = Cancel(pending[i]) => pending[i] = cur
    /\ ring # <<>> /\ Head(ring).kind = "Cancel" /\ ring' = Tail(ring)
    /\ UNCHANGED <<served, pending, cur, outstanding, sent, open>> /\ KeepSubmit

Abort(i) ==
    /\ rpc = "poll" /\ rpc' = "poll" /\ ring # <<>>
    /\ Head(ring) = Cancel(pending[i]) /\ pending[i] # cur
    /\ ring' = Tail(ring) /\ pending' = Without(pending, i)
    /\ outstanding' = outstanding - 1
    /\ open' = [t \in Ticket |-> open[t] /\ t \notin {pending[i]}]
    /\ sent' = IF BlockedReason(pending[i], FALSE) THEN sent ELSE Pushed(pending[i], "Aborted")
    /\ UNCHANGED <<served, cur>> /\ KeepSubmit

Displace ==
    /\ rpc = "poll" /\ rpc' = "poll" /\ ring # <<>> /\ Head(ring).kind = "Request"
    /\ ring' = Tail(ring) /\ pending' = Append(pending, Head(ring).ticket)
    /\ UNCHANGED <<served, cur, outstanding, sent, open>> /\ KeepSubmit

StartServing ==
    /\ rpc = "reset" /\ rpc' = "poll" /\ served' = Append(served, cur)
    /\ UNCHANGED <<pending, ring, cur, outstanding, sent, open>> /\ KeepSubmit

Finish ==
    /\ rpc = "finish" /\ rpc' = "next" /\ cur' = NONE /\ outstanding' = outstanding - 1
    /\ open' = [t \in Ticket |-> open[t] /\ t \notin {cur}]
    /\ UNCHANGED <<served, pending, ring, sent>> /\ KeepSubmit

Exit ==
    /\ rpc = "next" /\ rpc' = "exited" /\ pending' = <<>>
    /\ \/ ring' = ring /\ DropRequests(Range(pending))
       \/ ring' = <<>> /\ DropRequests(QueuedTickets)
    /\ UNCHANGED <<served, cur, sent>> /\ KeepSubmit

Move ==
    \/ Still \/ Admit \/ Push \/ Refuse \/ (\E k \in 0 .. MaxTickets : Post(k))
    \/ TakePending \/ TakeRing \/ Skip \/ (\E i \in DOMAIN pending : Abort(i)) \/ Displace
    \/ StartServing \/ Finish \/ Exit

\* The owner and the holders push, post, admit or leave the queue alone.
LEMMA CallersMove ==
    ASSUME TypeInv, OwnerStep \/ \E t \in Holders : HolderStep(t)
    PROVE  Still \/ Admit \/ Push \/ Refuse \/ (\E k \in 0 .. MaxTickets : Post(k))
  <1>1. UNCHANGED <<rpc, cur, served>>
    BY CallersKeepReader, Zenon
  <1>2. /\ nextTicket \in 0 .. MaxTickets /\ MaxTickets \in Nat
        /\ owner = "admitted" => nextTicket > 0
    BY DeliveryAssumption, Zenon DEF TypeInv, TypeOK, Control
  <1> USE DEF Submitted, Admitted, KeepSubmit
  <1>3. CASE SubmitAdmit
    <2>1. Admit
      BY <1>1, <1>2, <1>3 DEF SubmitAdmit, TryAdmit, queueVars, streamVars, Admit, Ticket
    <2> QED
      BY <2>1, Zenon
  <1>4. CASE SubmitPush
    <2>1. Push \/ Refuse
      BY <1>1, <1>2, <1>4 DEF SubmitPush, Release, Push, Refuse, Ticket
    <2> QED
      BY <2>1, Zenon
  <1>5. CASE CancelAnyFlag \/ DropFlag \/ DropJoin
    <2>1. Still
      BY <1>1, <1>5, Zenon DEF CancelAnyFlag, DropFlag, DropJoin, queueVars, streamVars, Still
    <2> QED
      BY <2>1, Zenon
  <1>6. CASE CancelAnyPush \/ DropWake
    <2>1. Still \/ Post(CANCEL_ANY)
      BY <1>1, <1>6, Zenon DEF CancelAnyPush, DropWake, PushOrLose, streamVars, Still, Post
    <2> QED
      BY <1>2, <2>1 DEF CANCEL_ANY
  <1>7. ASSUME NEW t \in Holders, HolderStep(t)
        PROVE  Still \/ Post(t)
    BY <1>1, <1>7, Zenon DEF HolderStep, HandleCancelFlag, HandleCancelPush, HandleRead,
       HandleDrop,
                      PushOrLose, queueVars, streamVars, ownerVars, Still, Post
  <1>8. \A t \in Holders : t \in 0 .. MaxTickets
    BY <1>2, AsyncClientAssumption DEF Ticket
  <1> QED
    BY <1>3, <1>4, <1>5, <1>6, <1>7, <1>8, Zenon DEF OwnerStep

\* The reader takes, skips, aborts, displaces, serves or finishes.
LEMMA ReaderMoves ==
    ASSUME TypeInv, ReaderRuns, Counting
    PROVE  Move
  <1>1. KeepSubmit
    BY Zenon DEF ReaderRuns, ownerVars, KeepSubmit, Submitted, Admitted
  <1>2. ring \in Seq(Message) /\ pending \in Seq(Ticket) /\ rpc \in ReaderPc
    BY Zenon DEF TypeInv, TypeOK
  <1> USE DEF Goto, StartPoll, StartSend
  <1>3. CASE NextPending /\ UNCHANGED <<exchangeVars, wireVars>>
    <2>1. Still \/ TakePending
      BY <1>1, <1>3, Zenon DEF NextPending, streamVars, wireVars, historyVars, Still, TakePending
    <2> QED
      BY <2>1, Zenon DEF Move
  <1>4. CASE PopBlock /\ UNCHANGED <<exchangeVars, wireVars>>
    <2>1. Head(ring) \in Message
      BY <1>2, <1>4, TailType, Zenon DEF PopBlock
    <2>2. TakeRing \/ Skip
      BY <1>1, <1>4, <2>1, Zenon DEF PopBlock, streamVars, wireVars, historyVars, TakeRing, Skip,
                              Message
    <2> QED
      BY <2>2, Zenon DEF Move
  <1>5. CASE PollCancelMsg /\ UNCHANGED <<exchangeVars, wireVars>>
    <2>1. Head(ring) \in Message
      BY <1>2, <1>5, TailType, Zenon DEF PollCancelMsg
    <2> DEFINE k == Head(ring).ticket
    <2>2. Head(ring) = Cancel(k)
      BY <1>5, <2>1, Zenon DEF PollCancelMsg, Message, Cancel
    <2>3. UNCHANGED <<rpc, cur, served>> /\ rpc = "poll" /\ ring # <<>> /\ ring' = Tail(ring)
      BY <1>5, Zenon DEF PollCancelMsg, wireVars, historyVars
    <2>4. CASE k \in {CANCEL_ANY, cur} \/ ~\E i \in DOMAIN pending : pending[i] = k
      <3>1. UNCHANGED <<pending, outstanding, sent, open>>
        BY <1>5, <2>4, Zenon DEF PollCancelMsg, AbortPending, streamVars
      <3>2. \A i \in DOMAIN pending : Head(ring) = Cancel(pending[i]) => pending[i] = cur
        <4>1. ASSUME NEW i \in DOMAIN pending, Head(ring) = Cancel(pending[i])
              PROVE  pending[i] = k /\ pending[i] # CANCEL_ANY
          BY <1>2, <2>2, <4>1, DeliveryAssumption DEF Cancel, CANCEL_ANY, Ticket
        <4> QED
          BY <2>4, <4>1, Zenon
      <3>3. Skip
        BY <1>1, <1>5, <2>3, <3>1, <3>2, Zenon DEF PollCancelMsg, Skip
      <3> QED
        BY <3>3, Zenon DEF Move
    <2>5. CASE k \notin {CANCEL_ANY, cur} /\ \E i \in DOMAIN pending : pending[i] = k
      <3>1. AbortPending(k)
        BY <1>5, <2>5, Zenon DEF PollCancelMsg
      <3>2. PICK i \in DOMAIN pending : pending[i] = k /\ pending' = Without(pending, i)
        BY <2>5, <3>1, Zenon DEF AbortPending
      <3>3. /\ outstanding' = outstanding - Cardinality({k})
            /\ open' = [t \in Ticket |-> open[t] /\ t \notin {k}]
            /\ sent' = IF BlockedReason(k, FALSE) THEN sent ELSE Pushed(k, "Aborted")
        BY <2>5, <3>1, Zenon DEF AbortPending, DropRequests, Release
      <3>4. Cardinality({k}) = 1
        BY Zenon DEF Counting
      <3>5. Abort(i)
        BY <1>1, <2>2, <2>3, <2>5, <3>2, <3>3, <3>4, Zenon DEF Abort
      <3> QED
        BY <3>5, Zenon DEF Move
    <2> QED
      BY <2>4, <2>5, Zenon
  <1>6. CASE PollRequestMsg /\ UNCHANGED <<exchangeVars, wireVars>>
    <2>1. Displace
      BY <1>1, <1>6, Zenon DEF PollRequestMsg, streamVars, wireVars, historyVars, Displace
    <2> QED
      BY <2>1, Zenon DEF Move
  <1>7. CASE PollReturn /\ UNCHANGED <<exchangeVars, wireVars>>
    <2>1. rpc' \in {"send", "clean", "redial", "io"}
      BY <1>7, Zenon DEF PollReturn, PollAnswer
    <2>2. Still
      BY <1>1, <1>7, <2>1, Zenon DEF PollReturn, queueVars, streamVars, wireVars, historyVars,
         Still,
                              Serving, ReaderPc
    <2> QED
      BY <2>2, Zenon DEF Move
  <1>8. CASE Serve
    <2>1. StartServing
      BY <1>1, <1>8, Zenon DEF Serve, ResetCancelAny, queueVars, streamVars, StartServing
    <2> QED
      BY <2>1, Zenon DEF Move
  <1>9. CASE EnsureClean \/ BeginExchange \/ WriteRequest \/ ReadHead \/ Redial
    <2>1. UNCHANGED <<served, pending, ring, cur, outstanding, sent, open>>
      BY <1>9, Zenon DEF EnsureClean, BeginExchange, WriteRequest, ReadHead, OfferHead, Redial,
                  callerSide, queueVars, streamVars, historyVars
    <2>2. rpc \in {"clean", "begin", "io", "redial"} /\ rpc' \in {"begin", "send", "poll"}
      BY <1>9, Zenon DEF EnsureClean, BeginExchange, WriteRequest, ReadHead, OfferHead, Redial,
         Io, Stall, Progress, Broken
    <2>3. Still
      BY <1>1, <2>1, <2>2, Zenon DEF Still, Serving, ReaderPc
    <2> QED
      BY <2>3, Zenon DEF Move
  <1>10. CASE StreamSuccess \/ DrainErrorBody
    <2>1. UNCHANGED <<served, pending, ring, cur, outstanding, sent, open>>
      BY <1>10, Zenon DEF StreamSuccess, DrainErrorBody, callerSide, queueVars, streamVars,
                   historyVars
    <2>2. rpc \in {"body", "drain", "io"} /\ rpc' \in {"send", "poll"}
      BY <1>10, Zenon DEF StreamSuccess, DrainErrorBody, BodyWait, Io, Stall, Progress
    <2>3. Still
      BY <1>1, <2>1, <2>2, Zenon DEF Still, Serving, ReaderPc
    <2> QED
      BY <2>3, Zenon DEF Move
  <1>11. CASE Deliver
    <2>1. /\ UNCHANGED <<served, pending, ring, cur, outstanding, open>>
          /\ sent' = sent \/ sent' = Pushed(cur, out)
      BY <1>11, Zenon DEF Deliver, queueVars, wireVars, historyVars
    <2>2. out \in Chunk /\ rpc = "send"
      BY <1>11, Zenon DEF Deliver, TypeInv, Control
    <2>3. rpc' \in {"send", "finish", "body", "drain"}
      BY <1>11, <2>2, Zenon DEF Deliver, Chunk, Terminator
    <2>4. \A t \in Ticket : sent'[t] = sent[t] \/ t = cur
      BY <2>1, Zenon DEF Pushed, TypeInv, TypeOK
    <2>5. Still
      BY <1>1, <2>1, <2>2, <2>3, <2>4, Zenon DEF Still, Serving, ReaderPc
    <2> QED
      BY <2>5, Zenon DEF Move
  <1>12. CASE FinishRequest
    <2>1. Cardinality({cur}) = 1
      BY Zenon DEF Counting
    <2>2. Finish
      BY <1>1, <1>12, <2>1, Zenon DEF FinishRequest, DropRequests, Release, queueVars, wireVars,
                               historyVars, Finish
    <2> QED
      BY <2>2, Zenon DEF Move
  <1>13. CASE ExitReader
    <2>1. /\ UNCHANGED <<served, cur, sent>>
          /\ rpc = "next" /\ rpc' = "exited" /\ pending' = <<>>
      BY <1>13, Zenon DEF ExitReader, wireVars, historyVars
    <2>2. PICK drained \in BOOLEAN :
             /\ DropRequests(Range(pending)
                   \cup {t \in Ticket : drained /\ Request(t) \in Range(ring)})
             /\ ring' = IF drained THEN <<>> ELSE ring
      BY <1>13, Zenon DEF ExitReader
    <2>3. CASE drained = TRUE
      <3>1. Range(pending) \cup {t \in Ticket : drained /\ Request(t) \in Range(ring)}
               = QueuedTickets
        BY <2>3, Zenon DEF QueuedTickets
      <3>2. DropRequests(QueuedTickets) /\ ring' = <<>>
        BY <2>2, <2>3, <3>1, Zenon
      <3> QED
        BY <1>1, <2>1, <3>2, Zenon DEF Exit, Move
    <2>4. CASE drained = FALSE
      <3>1. Range(pending) \cup {t \in Ticket : drained /\ Request(t) \in Range(ring)}
               = Range(pending)
        BY <2>4, Zenon
      <3>2. DropRequests(Range(pending)) /\ ring' = ring
        BY <2>2, <2>4, <3>1, Zenon
      <3> QED
        BY <1>1, <2>1, <3>2, Zenon DEF Exit, Move
    <2> QED
      BY <2>2, <2>3, <2>4, Zenon
  <1> QED
    BY <1>3, <1>4, <1>5, <1>6, <1>7, <1>8, <1>9, <1>10, <1>11, <1>12, <1>13, Zenon
       DEF ReaderRuns, ReaderStep

(***************************************************************************)
(* The line of requests                                                    *)
(***************************************************************************)

\* The tickets whose request is in the ring.
RingTickets == {t \in Ticket : Request(t) \in Range(ring)}

\* The tickets the messages of the ring carry.
TicketAt == [i \in DOMAIN ring |-> ring[i].ticket]

\* Where the reader is says whether it has a request, and a request being
\* served is the last one served.
CurInv ==
    /\ cur # NONE <=> rpc \in Serving
    /\ rpc \in Serving \ {"reset"} => served # <<>> /\ served[Len(served)] = cur
    /\ rpc = "idle" => pending = <<>>

\* The line of OneLine, pair by pair.
LineInv ==
    /\ \A i, j \in DOMAIN served : i < j => served[i] < served[j]
    /\ \A i, j \in DOMAIN pending : i < j => pending[i] < pending[j]
    /\ \A i, j \in RingRequests : i < j => TicketAt[i] < TicketAt[j]
    /\ \A i \in DOMAIN pending, j \in RingRequests : pending[i] < TicketAt[j]
    /\ \A i \in DOMAIN served, j \in DOMAIN pending : served[i] < pending[j]
    /\ \A i \in DOMAIN served, j \in RingRequests : served[i] < TicketAt[j]
    /\ rpc = "reset" =>
          /\ \A i \in DOMAIN served : served[i] < cur
          /\ \A i \in DOMAIN pending : cur < pending[i]
          /\ \A i \in RingRequests : cur < TicketAt[i]

\* Nothing in the line is beyond the last submission.
BoundInv ==
    /\ \A i \in DOMAIN served : served[i] < Submitted
    /\ \A i \in DOMAIN pending : pending[i] < Submitted
    /\ \A i \in RingRequests : TicketAt[i] < Submitted
    /\ cur # NONE => cur < Submitted

\* The counter is the number of requests that hold a permit.
PermitInv == outstanding = Cardinality(LiveTickets) /\ outstanding <= MaxOutstanding

-----------------------------------------------------------------------------

\* The parts of the type invariant the moves are about.
LEMMA QueueTypes ==
    ASSUME TypeInv
    PROVE  /\ ring \in Seq(Message) /\ pending \in Seq(Ticket) /\ served \in Seq(Ticket)
           /\ cur \in Ticket \cup {NONE} /\ rpc \in ReaderPc
           /\ Submitted \in Nat /\ Submitted \in 0 .. MaxTickets
           /\ rpc \in Serving => cur \in Ticket
           /\ Ticket \subseteq Nat /\ NONE \notin Ticket
           /\ Admitted \in {{}, {Submitted}}
  <1>1. /\ nextTicket \in 0 .. MaxTickets /\ MaxTickets \in Nat
        /\ owner = "admitted" => nextTicket > 0
    BY DeliveryAssumption, Zenon DEF TypeInv, TypeOK, Control
  <1>2. Submitted \in Nat /\ Submitted \in 0 .. MaxTickets /\ Admitted \in {{}, {Submitted}}
    BY <1>1 DEF Submitted, Admitted
  <1>3. Ticket \subseteq Nat /\ NONE \notin Ticket
    BY <1>1 DEF Ticket, NONE
  <1> QED
    BY <1>2, <1>3, Zenon DEF TypeInv, TypeOK, Control

\* A pop of the control ring moves its requests one place up.
LEMMA RingPops ==
    ASSUME ring \in Seq(Message), ring # <<>>, ring' = Tail(ring)
    PROVE  /\ 1 \in DOMAIN ring /\ Head(ring) = ring[1] /\ Head(ring) \in Message
           /\ \A i \in DOMAIN ring' :
                 i \in Nat \ {0} /\ i + 1 \in DOMAIN ring /\ ring'[i] = ring[i + 1]
           /\ \A i \in DOMAIN ring : i # 1 => i - 1 \in DOMAIN ring' /\ ring'[i - 1] = ring[i]
           /\ \A i \in RingRequests' :
                 /\ i \in Nat \ {0} /\ i + 1 \in RingRequests /\ i + 1 > 1
                 /\ TicketAt'[i] = TicketAt[i + 1]
           /\ Head(ring).kind = "Request" => 1 \in RingRequests
  <1>1. /\ 1 \in DOMAIN ring /\ Head(ring) = ring[1] /\ Head(ring) \in Message
        /\ \A i \in DOMAIN ring' :
                 i \in Nat \ {0} /\ i + 1 \in DOMAIN ring /\ ring'[i] = ring[i + 1]
        /\ \A i \in DOMAIN ring : i # 1 => i - 1 \in DOMAIN ring' /\ ring'[i - 1] = ring[i]
    <2> DEFINE m == Message
    <2>1. ring \in Seq(m)
      BY Zenon
    <2> HIDE DEF m
    <2>2. /\ 1 \in DOMAIN ring /\ Head(ring) = ring[1] /\ Head(ring) \in m
          /\ \A i \in DOMAIN Tail(ring) :
                i \in Nat \ {0} /\ i + 1 \in DOMAIN ring /\ Tail(ring)[i] = ring[i + 1]
          /\ \A i \in DOMAIN ring :
                i # 1 => i - 1 \in DOMAIN Tail(ring) /\ Tail(ring)[i - 1] = ring[i]
      BY <2>1, TailFacts
    <2> QED
      BY <2>2, Zenon DEF m
  <1>2. ASSUME NEW i \in RingRequests'
        PROVE  /\ i \in Nat \ {0} /\ i + 1 \in RingRequests /\ i + 1 > 1
               /\ TicketAt'[i] = TicketAt[i + 1]
    BY <1>1 DEF RingRequests, TicketAt
  <1> QED
    BY <1>1, <1>2, Zenon DEF RingRequests

\* A push onto the control ring adds one message behind the others.
LEMMA RingGrows ==
    ASSUME ring \in Seq(Message), NEW m \in Message, ring' = Append(ring, m)
    PROVE  /\ Len(ring) \in Nat /\ DOMAIN ring = 1 .. Len(ring)
           /\ DOMAIN ring' = 1 .. Len(ring) + 1
           /\ \A i \in DOMAIN ring : ring'[i] = ring[i]
           /\ ring'[Len(ring) + 1] = m
           /\ \A i \in RingRequests' :
                 \/ i \in RingRequests /\ TicketAt'[i] = TicketAt[i]
                 \/ i = Len(ring) + 1 /\ m.kind = "Request" /\ TicketAt'[i] = m.ticket
           /\ RingRequests \subseteq 1 .. Len(ring)
  <1>1. /\ Len(ring) \in Nat /\ DOMAIN ring = 1 .. Len(ring)
        /\ DOMAIN ring' = 1 .. Len(ring) + 1
        /\ \A i \in DOMAIN ring : ring'[i] = ring[i]
        /\ ring'[Len(ring) + 1] = m
    BY AppendFacts
  <1> QED
    BY <1>1 DEF RingRequests, TicketAt

\* Positions and tickets are functions of the ring.
LEMMA RingSame ==
    ASSUME ring' = ring
    PROVE  RingRequests' = RingRequests /\ TicketAt' = TicketAt
  BY Zenon DEF RingRequests, TicketAt

\* Where the reader is and whether it has a request stay in step.
LEMMA CurStep == ASSUME TypeInv, TypeInv', CurInv, Move PROVE CurInv'
  <1>1. /\ cur \in Ticket \cup {NONE} /\ NONE \notin Ticket
        /\ rpc \in Serving => cur \in Ticket
    BY QueueTypes, Zenon
  <1>2. rpc' \in ReaderPc /\ (rpc' \in Serving => cur' \in Ticket)
    BY Zenon DEF TypeInv, TypeOK, Control
  <1> USE DEF CurInv, Serving, ReaderPc
  <1>3. CASE Still
    BY <1>3, Zenon DEF Still
  <1>4. CASE Admit \/ Push \/ Refuse \/ \E k \in 0 .. MaxTickets : Post(k)
    BY <1>4, Zenon DEF Admit, Push, Refuse, Post
  <1>5. CASE TakePending \/ TakeRing
    BY <1>1, <1>2, <1>5, Zenon DEF TakePending, TakeRing
  <1>6. CASE Skip \/ (\E i \in DOMAIN pending : Abort(i)) \/ Displace
    BY <1>6, Zenon DEF Skip, Abort, Displace
  <1>7. CASE StartServing
    <2>1. served \in Seq(Ticket) /\ cur \in Ticket
      BY <1>7, QueueTypes, Zenon DEF StartServing
    <2>2. served' # <<>> /\ served'[Len(served')] = cur
      <3>1. /\ Len(served') = Len(served) + 1 /\ Len(served) \in Nat
              /\ served'[Len(served) + 1] = cur
        BY <1>7, <2>1 DEF StartServing
      <3>2. served' # <<>>
        BY <3>1
      <3> QED
        BY <3>1, <3>2, Zenon
    <2> QED
      BY <1>1, <1>7, <2>1, <2>2, Zenon DEF StartServing
  <1>8. CASE Finish \/ Exit
    BY <1>1, <1>8, Zenon DEF Finish, Exit
  <1> QED
    BY <1>3, <1>4, <1>5, <1>6, <1>7, <1>8, Zenon DEF Move

\* Positions and entries of the line are numbers.
LEMMA LineTypes ==
    ASSUME TypeInv
    PROVE  /\ \A i \in DOMAIN served : i \in Nat /\ served[i] \in Nat
           /\ \A i \in DOMAIN pending : i \in Nat /\ pending[i] \in Ticket /\ pending[i] \in Nat
           /\ \A i \in DOMAIN ring : i \in Nat /\ ring[i] \in Message
           /\ \A i \in RingRequests : TicketAt[i] \in Ticket /\ TicketAt[i] \in Nat
  <1>1. /\ ring \in Seq(Message) /\ pending \in Seq(Ticket) /\ served \in Seq(Ticket)
        /\ Ticket \subseteq Nat
    BY QueueTypes, Zenon
  <1>2. \A i \in DOMAIN served : i \in Nat /\ served[i] \in Ticket
    BY <1>1, SeqFacts
  <1>3. \A i \in DOMAIN pending : i \in Nat /\ pending[i] \in Ticket
    BY <1>1, SeqFacts
  <1>4. \A i \in DOMAIN ring : i \in Nat /\ ring[i] \in Message
    BY <1>1, SeqFacts
  <1>5. \A i \in RingRequests : TicketAt[i] \in Ticket
    BY <1>4, Zenon DEF RingRequests, TicketAt, Message
  <1> QED
    BY <1>1, <1>2, <1>3, <1>4, <1>5, Zenon

\* A pop leaves the requests of the ring in order, and each of them where one
\* behind the first was.
LEMMA RingStaysOrdered ==
    ASSUME TypeInv, LineInv, ring # <<>>, ring' = Tail(ring)
    PROVE  /\ \A i, j \in RingRequests' : i < j => TicketAt'[i] < TicketAt'[j]
           /\ \A i \in RingRequests' : \E j \in RingRequests :
                 TicketAt'[i] = TicketAt[j] /\ j > 1
           /\ Head(ring).kind = "Request" =>
                 1 \in RingRequests /\ Head(ring).ticket = TicketAt[1]
  <1>1. ring \in Seq(Message)
    BY QueueTypes, Zenon
  <1>2. /\ \A i \in RingRequests' :
              /\ i \in Nat \ {0} /\ i + 1 \in RingRequests /\ i + 1 > 1
              /\ TicketAt'[i] = TicketAt[i + 1]
        /\ Head(ring).kind = "Request" => 1 \in RingRequests
        /\ Head(ring) = ring[1] /\ 1 \in DOMAIN ring
    BY <1>1, RingPops, Zenon
  <1>3. ASSUME NEW i \in RingRequests', NEW j \in RingRequests', i < j
        PROVE  TicketAt'[i] < TicketAt'[j]
    <2>1. i + 1 < j + 1 /\ i + 1 \in RingRequests /\ j + 1 \in RingRequests
      BY <1>2, <1>3
    <2>2. TicketAt[i + 1] < TicketAt[j + 1]
      BY <2>1, Zenon DEF LineInv
    <2> QED
      BY <1>2, <2>2, Zenon
  <1>4. ASSUME NEW i \in RingRequests'
        PROVE  \E j \in RingRequests : TicketAt'[i] = TicketAt[j] /\ j > 1
    BY <1>2, Zenon
  <1>5. Head(ring).ticket = TicketAt[1]
    BY <1>2, Zenon DEF TicketAt
  <1> QED
    BY <1>2, <1>3, <1>4, <1>5, Zenon

\* The line stays in order and below the tickets not submitted yet: whatever
\* leaves the ring or the displaced queue is their first entry or goes for
\* good, and what enters the ring is newer than all.
LEMMA LineStep ==
    ASSUME TypeInv, TypeInv', CurInv, LineInv, BoundInv, Move
    PROVE  LineInv' /\ BoundInv'
  <1>0. ring \in Seq(Message) /\ pending \in Seq(Ticket) /\ served \in Seq(Ticket)
    BY QueueTypes, Zenon
  <1>1. /\ Submitted \in Nat /\ Ticket \subseteq Nat /\ NONE \notin Ticket
        /\ rpc \in Serving => cur \in Ticket
        /\ cur # NONE => cur \in Nat
    BY QueueTypes, Zenon
  <1>2. /\ \A i \in DOMAIN served : i \in Nat /\ served[i] \in Nat
        /\ \A i \in DOMAIN pending : i \in Nat /\ pending[i] \in Nat
        /\ \A i \in RingRequests : i \in Nat /\ TicketAt[i] \in Nat
    BY LineTypes, Zenon DEF RingRequests
  <1>3. CASE Still
    <2>1. RingRequests' = RingRequests /\ TicketAt' = TicketAt
      BY <1>3, RingSame, Zenon DEF Still
    <2>2. rpc' = "reset" => rpc = "reset"
      BY <1>3, Zenon DEF Still
    <2> QED
      BY <1>3, <2>1, <2>2, Zenon DEF Still, KeepSubmit, LineInv, BoundInv
  <1>4. CASE Admit
    <2>1. RingRequests' = RingRequests /\ TicketAt' = TicketAt
      BY <1>4, RingSame, Zenon DEF Admit
    <2> QED
      BY <1>4, <2>1, Zenon DEF Admit, LineInv, BoundInv
  <1>5. CASE Push
    <2>1. Request(Submitted) \in Message /\ Request(Submitted).ticket = Submitted
      BY <1>5, Zenon DEF Push, Request, Message
    <2>2. /\ Len(ring) \in Nat /\ RingRequests \subseteq 1 .. Len(ring)
          /\ \A i \in RingRequests' :
                \/ i \in RingRequests /\ TicketAt'[i] = TicketAt[i]
                \/ i = Len(ring) + 1 /\ TicketAt'[i] = Submitted
      BY <1>0, <1>5, <2>1, RingGrows, Zenon DEF Push
    <2>3. LineInv'
      <3>1. ASSUME NEW i \in RingRequests', NEW j \in RingRequests', i < j
            PROVE  TicketAt'[i] < TicketAt'[j]
        <4>1. i \in RingRequests /\ TicketAt'[i] = TicketAt[i]
          <5>1. j \in 1 .. Len(ring) \/ j = Len(ring) + 1
            BY <2>2, Zenon
          <5>2. i # Len(ring) + 1
            BY <2>2, <3>1, <5>1
          <5> QED
            BY <2>2, <5>2, Zenon
        <4>2. CASE j \in RingRequests /\ TicketAt'[j] = TicketAt[j]
          BY <3>1, <4>1, <4>2, Zenon DEF LineInv
        <4>3. CASE TicketAt'[j] = Submitted
          BY <4>1, <4>3, Zenon DEF BoundInv
        <4> QED
          BY <2>2, <4>2, <4>3, Zenon
      <3>2. ASSUME NEW x \in Nat, x < Submitted, NEW j \in RingRequests',
                   \A k \in RingRequests : x < TicketAt[k]
            PROVE  x < TicketAt'[j]
        BY <2>2, <3>2, Zenon
      <3>3. \A i \in DOMAIN pending, j \in RingRequests' : pending[i] < TicketAt'[j]
        BY <1>2, <3>2, Zenon DEF LineInv, BoundInv
      <3>4. \A i \in DOMAIN served, j \in RingRequests' : served[i] < TicketAt'[j]
        BY <1>2, <3>2, Zenon DEF LineInv, BoundInv
      <3>5. rpc = "reset" => \A j \in RingRequests' : cur < TicketAt'[j]
        <4>1. rpc = "reset" => cur # NONE
          BY Zenon DEF CurInv, Serving, ReaderPc
        <4> QED
          BY <1>1, <3>2, <4>1, Zenon DEF LineInv, BoundInv
      <3> QED
        BY <1>5, <3>1, <3>3, <3>4, <3>5, Zenon DEF Push, LineInv
    <2>4. BoundInv'
      <3>1. Submitted' = Submitted + 1 /\ UNCHANGED <<served, pending, cur>>
        BY <1>5, Zenon DEF Push
      <3>2. ASSUME NEW i \in RingRequests' PROVE TicketAt'[i] < Submitted + 1
        <4>1. CASE i \in RingRequests /\ TicketAt'[i] = TicketAt[i]
          BY <1>1, <1>2, <4>1 DEF BoundInv
        <4>2. CASE TicketAt'[i] = Submitted
          BY <1>1, <4>2
        <4> QED
          BY <2>2, <4>1, <4>2, Zenon
      <3>3. \A i \in DOMAIN served : served[i] < Submitted + 1
        BY <1>1, <1>2 DEF BoundInv
      <3>4. \A i \in DOMAIN pending : pending[i] < Submitted + 1
        BY <1>1, <1>2 DEF BoundInv
      <3>5. cur # NONE => cur < Submitted + 1
        BY <1>1 DEF BoundInv
      <3> QED
        BY <3>1, <3>2, <3>3, <3>4, <3>5, Zenon DEF BoundInv
    <2> QED
      BY <2>3, <2>4, Zenon
  <1>6. CASE Refuse
    <2>1. RingRequests' = RingRequests /\ TicketAt' = TicketAt
      BY <1>6, RingSame, Zenon DEF Refuse
    <2>2. BoundInv'
      BY <1>1, <1>2, <1>6, <2>1, QueueTypes DEF Refuse, BoundInv
    <2> QED
      BY <1>6, <2>1, <2>2, Zenon DEF Refuse, LineInv
  <1>7. ASSUME NEW k \in 0 .. MaxTickets, Post(k)
        PROVE  LineInv' /\ BoundInv'
    <2>1. Cancel(k) \in Message /\ Cancel(k).kind # "Request"
      BY Zenon DEF Cancel, Message
    <2>2. \A i \in RingRequests' : i \in RingRequests /\ TicketAt'[i] = TicketAt[i]
      BY <1>0, <1>7, <2>1, RingGrows, Zenon DEF Post
    <2> QED
      BY <1>7, <2>2, Zenon DEF Post, KeepSubmit, LineInv, BoundInv
  <1>8. CASE TakePending
    <2>1. /\ 1 \in DOMAIN pending /\ cur' = pending[1]
          /\ \A i \in DOMAIN pending' :
                i \in Nat \ {0} /\ i + 1 \in DOMAIN pending /\ pending'[i] = pending[i + 1]
      BY <1>0, <1>8, TailFacts DEF TakePending
    <2>2. \A i \in DOMAIN pending' : i + 1 > 1
      BY <2>1
    <2>3. RingRequests' = RingRequests /\ TicketAt' = TicketAt
      BY <1>8, RingSame, Zenon DEF TakePending
    <2> QED
      BY <1>2, <1>8, <2>1, <2>2, <2>3 DEF TakePending, KeepSubmit, LineInv, BoundInv
  <1>9. CASE TakeRing
    <2>1. /\ 1 \in RingRequests /\ cur' = TicketAt[1]
          /\ \A i, j \in RingRequests' : i < j => TicketAt'[i] < TicketAt'[j]
          /\ \A i \in RingRequests' : \E j \in RingRequests :
                TicketAt'[i] = TicketAt[j] /\ j > 1
      BY <1>1, <1>9, RingStaysOrdered, Zenon DEF TakeRing
    <2>2. pending' = <<>>
      BY <1>9, Zenon DEF TakeRing, CurInv
    <2> QED
      BY <1>2, <1>9, <2>1, <2>2 DEF TakeRing, KeepSubmit, LineInv, BoundInv
  <1>10. CASE Skip
    <2>1. /\ \A i, j \in RingRequests' : i < j => TicketAt'[i] < TicketAt'[j]
          /\ \A i \in RingRequests' : \E j \in RingRequests :
                TicketAt'[i] = TicketAt[j] /\ j > 1
      BY <1>1, <1>10, RingStaysOrdered, Zenon DEF Skip
    <2> QED
      BY <1>2, <1>10, <2>1, ZenonT(30) DEF Skip, KeepSubmit, LineInv, BoundInv
  <1>11. ASSUME NEW k \in DOMAIN pending, Abort(k)
         PROVE  LineInv' /\ BoundInv'
    <2>1. /\ \A i, j \in RingRequests' : i < j => TicketAt'[i] < TicketAt'[j]
          /\ \A i \in RingRequests' : \E j \in RingRequests :
                TicketAt'[i] = TicketAt[j] /\ j > 1
      BY <1>1, <1>11, RingStaysOrdered, Zenon DEF Abort
    <2>2. \A i \in DOMAIN pending' :
             /\ i \in Nat
             /\ (IF i < k THEN i ELSE i + 1) \in DOMAIN pending
             /\ pending'[i] = pending[IF i < k THEN i ELSE i + 1]
      <3>1. /\ DOMAIN pending' = 1 .. Len(pending) - 1
            /\ \A i \in 1 .. Len(pending) - 1 :
                  pending'[i] = IF i < k THEN pending[i] ELSE pending[i + 1]
        BY <1>0, <1>11, WithoutFacts, Zenon DEF Abort
      <3>2. DOMAIN pending = 1 .. Len(pending) /\ Len(pending) \in Nat
        BY <1>0, SeqFacts, Zenon
      <3> QED
        BY <3>1, <3>2
    <2>3. ASSUME NEW i \in DOMAIN pending', NEW j \in DOMAIN pending', i < j
          PROVE  pending'[i] < pending'[j]
      <3> DEFINE a == IF i < k THEN i ELSE i + 1
                 b == IF j < k THEN j ELSE j + 1
      <3>1. a \in DOMAIN pending /\ b \in DOMAIN pending /\ a < b
        BY <1>2, <2>2, <2>3
      <3>2. pending'[i] = pending[a] /\ pending'[j] = pending[b]
        BY <2>2, Zenon
      <3> QED
        BY <3>1, <3>2, Zenon DEF LineInv
    <2>4. \A i \in DOMAIN pending' : \E j \in DOMAIN pending : pending'[i] = pending[j]
      BY <2>2, Zenon
    <2> QED
      BY <1>11, <2>1, <2>3, <2>4 DEF Abort, KeepSubmit, LineInv, BoundInv
  <1>12. CASE Displace
    <2>1. /\ 1 \in RingRequests /\ pending' = Append(pending, TicketAt[1])
          /\ \A i, j \in RingRequests' : i < j => TicketAt'[i] < TicketAt'[j]
          /\ \A i \in RingRequests' : \E j \in RingRequests :
                TicketAt'[i] = TicketAt[j] /\ j > 1
      BY <1>1, <1>12, RingStaysOrdered, Zenon DEF Displace
    <2>2. TicketAt[1] \in Ticket
      BY <2>1, LineTypes, Zenon
    <2>3. \A i \in DOMAIN pending' :
             \/ i \in DOMAIN pending /\ pending'[i] = pending[i]
             \/ /\ i = Len(pending) + 1 /\ pending'[i] = TicketAt[1]
                /\ \A j \in DOMAIN pending : ~(i < j)
      BY <1>0, <2>1, <2>2, AppendFacts
    <2>4. ASSUME NEW i \in DOMAIN pending', NEW j \in DOMAIN pending', i < j
          PROVE  pending'[i] < pending'[j]
      <3>1. i \in DOMAIN pending /\ pending'[i] = pending[i]
        BY <1>2, <2>3, <2>4
      <3>2. CASE j \in DOMAIN pending /\ pending'[j] = pending[j]
        BY <2>4, <3>1, <3>2, Zenon DEF LineInv
      <3>3. CASE pending'[j] = TicketAt[1]
        BY <2>1, <3>1, <3>3, Zenon DEF LineInv
      <3> QED
        BY <2>3, <3>2, <3>3, Zenon
    <2>5. \A i \in DOMAIN pending' :
             (\E j \in DOMAIN pending : pending'[i] = pending[j]) \/ pending'[i] = TicketAt[1]
      BY <2>3, Zenon
    <2>6. \A i \in RingRequests' : TicketAt[1] < TicketAt'[i]
      <3>1. \A j \in RingRequests : j > 1 => TicketAt[1] < TicketAt[j]
        BY <1>2, <2>1, Zenon DEF LineInv
      <3> QED
        BY <2>1, <3>1, Zenon
    <2>7. \A i \in DOMAIN served : served[i] < TicketAt[1]
      BY <2>1, Zenon DEF LineInv
    <2>8. TicketAt[1] < Submitted
      BY <2>1, Zenon DEF BoundInv
    <2> QED
      BY <1>12, <2>1, <2>4, <2>5, <2>6, <2>7, <2>8 DEF Displace, KeepSubmit, LineInv, BoundInv
  <1>13. CASE StartServing
    <2>1. cur \in Ticket
      BY <1>1, <1>13, Zenon DEF StartServing, Serving, ReaderPc
    <2>2. \A i \in DOMAIN served' :
             \/ i \in DOMAIN served /\ served'[i] = served[i]
             \/ /\ i = Len(served) + 1 /\ served'[i] = cur
                /\ \A j \in DOMAIN served : ~(i < j)
      BY <1>0, <1>13, <2>1, AppendFacts DEF StartServing
    <2>3. RingRequests' = RingRequests /\ TicketAt' = TicketAt
      BY <1>13, RingSame, Zenon DEF StartServing
    <2> QED
      BY <1>1, <1>2, <1>13, <2>1, <2>2, <2>3 DEF StartServing, KeepSubmit, LineInv, BoundInv
  <1>14. CASE Finish
    <2>1. RingRequests' = RingRequests /\ TicketAt' = TicketAt
      BY <1>14, RingSame, Zenon DEF Finish
    <2> QED
      BY <1>14, <2>1, Zenon DEF Finish, KeepSubmit, LineInv, BoundInv
  <1>15. CASE Exit
    <2>1. \A i \in RingRequests' : i \in RingRequests /\ TicketAt'[i] = TicketAt[i]
      BY <1>15 DEF Exit, RingRequests, TicketAt
    <2> QED
      BY <1>15, <2>1 DEF Exit, KeepSubmit, LineInv, BoundInv
  <1> QED
    BY <1>3, <1>4, <1>5, <1>6, <1>7, <1>8, <1>9, <1>10, <1>11, <1>12, <1>13, <1>14, <1>15, Zenon
       DEF Move

-----------------------------------------------------------------------------

PendingTickets == Range(pending)

\* The tickets of the ring's requests, by position.
LEMMA RingTicketsAre ==
    ASSUME TypeInv
    PROVE  /\ RingTickets \subseteq Ticket
           /\ \A t : t \in RingTickets <=> \E i \in RingRequests : TicketAt[i] = t
           /\ \A t \in Ticket, i \in DOMAIN ring :
                 ring[i] = Request(t) <=> i \in RingRequests /\ TicketAt[i] = t
           /\ \A t \in 0 .. MaxTickets, i \in DOMAIN ring :
                 ring[i] = Cancel(t) <=> i \notin RingRequests /\ TicketAt[i] = t
  <1>1. /\ \A i \in DOMAIN ring : ring[i] \in Message
        /\ \A i \in RingRequests : TicketAt[i] \in Ticket
    BY LineTypes, Zenon
  <1>2. ASSUME NEW i \in DOMAIN ring
        PROVE  (i \in RingRequests <=> ring[i].kind = "Request") /\ TicketAt[i] = ring[i].ticket
    BY Zenon DEF RingRequests, TicketAt
  <1>3. ASSUME NEW t \in Ticket, NEW i \in DOMAIN ring
        PROVE  ring[i] = Request(t) <=> i \in RingRequests /\ TicketAt[i] = t
    <2>1. ring[i] = Request(t) <=> ring[i].kind = "Request" /\ ring[i].ticket = t
      BY <1>1, MessageIs, Zenon
    <2> QED
      BY <1>2, <2>1, Zenon
  <1>4. ASSUME NEW t \in 0 .. MaxTickets, NEW i \in DOMAIN ring
        PROVE  ring[i] = Cancel(t) <=> i \notin RingRequests /\ TicketAt[i] = t
    <2>1. ring[i] = Cancel(t) <=> ring[i].kind # "Request" /\ ring[i].ticket = t
      BY <1>1, MessageIs, Zenon
    <2> QED
      BY <1>2, <2>1, Zenon
  <1>5. RingRequests \subseteq DOMAIN ring
    BY Zenon DEF RingRequests
  <1>6. ASSUME NEW t
        PROVE  t \in RingTickets <=> \E i \in RingRequests : TicketAt[i] = t
    <2>1. t \in RingTickets <=> t \in Ticket /\ \E i \in DOMAIN ring : ring[i] = Request(t)
      BY Zenon DEF RingTickets, Range
    <2> QED
      BY <1>1, <1>3, <1>5, <2>1, Zenon
  <1> QED
    BY <1>3, <1>4, <1>6, Zenon DEF RingTickets

\* The tickets of the displaced queue, by position.
LEMMA PendingTicketsAre ==
    ASSUME TypeInv
    PROVE  /\ PendingTickets \subseteq Ticket
           /\ \A t : t \in PendingTickets <=> \E i \in DOMAIN pending : pending[i] = t
           /\ QueuedTickets = PendingTickets \cup RingTickets
           /\ LiveTickets = PendingTickets \cup RingTickets \cup ({cur} \ {NONE}) \cup Admitted
  <1>1. \A t : t \in PendingTickets <=> \E i \in DOMAIN pending : pending[i] = t
    BY Zenon DEF PendingTickets, Range
  <1>2. PendingTickets \subseteq Ticket
    BY <1>1, LineTypes, Zenon
  <1>3. QueuedTickets = PendingTickets \cup RingTickets
    BY Zenon DEF QueuedTickets, PendingTickets, RingTickets
  <1> QED
    BY <1>1, <1>2, <1>3, Zenon DEF LiveTickets, Admitted

\* A request is in one place: displaced, in the ring, being served, or between
\* its permit and its push.
LEMMA OnePlace ==
    ASSUME TypeInv, CurInv, LineInv, BoundInv
    PROVE  /\ PendingTickets \cap RingTickets = {}
           /\ cur \notin PendingTickets \cup RingTickets
           /\ Submitted \notin PendingTickets \cup RingTickets \cup {cur}
  <1>1. /\ \A i \in DOMAIN pending : pending[i] \in Nat
        /\ \A i \in RingRequests : TicketAt[i] \in Nat
        /\ \A i \in DOMAIN served : served[i] \in Nat
    BY LineTypes, Zenon
  <1>2. \A t : t \in PendingTickets <=> \E i \in DOMAIN pending : pending[i] = t
    BY PendingTicketsAre, Zenon
  <1>3. \A t : t \in RingTickets <=> \E i \in RingRequests : TicketAt[i] = t
    BY RingTicketsAre, Zenon
  <1>4. Submitted \in Nat /\ NONE \notin Nat /\ rpc \in ReaderPc /\ served \in Seq(Ticket)
    BY QueueTypes DEF NONE
  <1>5. PendingTickets \cap RingTickets = {}
    BY <1>1, <1>2, <1>3 DEF LineInv
  <1>6. Submitted \notin PendingTickets \cup RingTickets \cup {cur}
    BY <1>1, <1>2, <1>3, <1>4 DEF BoundInv
  <1>7. cur # NONE => /\ \A i \in DOMAIN pending : cur < pending[i]
                      /\ \A i \in RingRequests : cur < TicketAt[i]
    <2>1. CASE rpc = "reset"
      BY <2>1, Zenon DEF LineInv
    <2>2. CASE rpc \in Serving \ {"reset"}
      <3>1. Len(served) \in DOMAIN served /\ served[Len(served)] = cur
        BY <1>4, <2>2, SeqFacts DEF CurInv
      <3> QED
        BY <3>1, Zenon DEF LineInv
    <2> QED
      BY <2>1, <2>2, Zenon DEF CurInv
  <1>8. cur \notin PendingTickets \cup RingTickets
    <2>1. cur \in Nat \/ cur = NONE
      BY QueueTypes, Zenon
    <2>2. CASE cur = NONE
      BY <1>1, <1>2, <1>3, <1>4, <2>2, Zenon
    <2>3. CASE cur # NONE /\ cur \in Nat
      BY <1>1, <1>2, <1>3, <1>7, <2>3
    <2> QED
      BY <2>1, <2>2, <2>3, Zenon
  <1> QED
    BY <1>5, <1>6, <1>8, Zenon

\* What a sequence holds.
LEMMA InRange == \A s, x : x \in Range(s) <=> \E i \in DOMAIN s : s[i] = x
  BY Zenon DEF Range

\* What a sequence holds after a push, a pop and a removal.
LEMMA RangeFacts ==
    ASSUME NEW S, NEW s \in Seq(S)
    PROVE  /\ \A x \in S : Range(Append(s, x)) = Range(s) \cup {x}
           /\ s # <<>> => Range(s) = Range(Tail(s)) \cup {Head(s)}
           /\ \A k \in DOMAIN s : Range(s) = Range(Without(s, k)) \cup {s[k]}
  <1>1. ASSUME NEW x \in S PROVE Range(Append(s, x)) = Range(s) \cup {x}
    <2>1. /\ Len(s) \in Nat /\ DOMAIN s = 1 .. Len(s)
          /\ DOMAIN Append(s, x) = 1 .. Len(s) + 1
          /\ \A i \in DOMAIN s : Append(s, x)[i] = s[i]
          /\ Append(s, x)[Len(s) + 1] = x
      BY AppendFacts
    <2> HIDE <1>1
    <2>2. DOMAIN Append(s, x) = DOMAIN s \cup {Len(s) + 1}
      BY <2>1
    <2> QED
      BY <2>1, <2>2, Zenon DEF Range
  <1>2. ASSUME s # <<>> PROVE Range(s) = Range(Tail(s)) \cup {Head(s)}
    <2>1. /\ 1 \in DOMAIN s /\ Head(s) = s[1]
          /\ \A i \in DOMAIN Tail(s) : i + 1 \in DOMAIN s /\ Tail(s)[i] = s[i + 1]
          /\ \A i \in DOMAIN s : i # 1 => i - 1 \in DOMAIN Tail(s) /\ Tail(s)[i - 1] = s[i]
      BY <1>2, TailFacts
    <2> DEFINE r == Tail(s)
    <2>2. /\ \A i \in DOMAIN s : s[i] = Head(s) \/ \E j \in DOMAIN r : r[j] = s[i]
          /\ \A i \in DOMAIN r : \E j \in DOMAIN s : s[j] = r[i]
          /\ \E j \in DOMAIN s : s[j] = Head(s)
      BY <2>1, Zenon
    <2> HIDE DEF r
    <2>3. Range(s) = Range(r) \cup {Head(s)}
      BY <2>2, InRange
    <2> QED
      BY <2>3, Zenon DEF r
  <1>3. ASSUME NEW k \in DOMAIN s PROVE Range(s) = Range(Without(s, k)) \cup {s[k]}
    <2> DEFINE r == Without(s, k)
    <2>1. /\ DOMAIN r = 1 .. Len(s) - 1
          /\ \A i \in 1 .. Len(s) - 1 : r[i] = IF i < k THEN s[i] ELSE s[i + 1]
      BY WithoutFacts, Zenon
    <2>2. Len(s) \in Nat /\ DOMAIN s = 1 .. Len(s) /\ k \in 1 .. Len(s)
      BY SeqFacts, Zenon
    <2> HIDE DEF r
    <2>3. \A i \in DOMAIN r : \E j \in DOMAIN s : r[i] = s[j]
      BY <2>1, <2>2
    <2>4. ASSUME NEW j \in DOMAIN s, j # k PROVE \E i \in DOMAIN r : r[i] = s[j]
      <3>1. CASE j < k
        BY <2>1, <2>2, <3>1
      <3>2. CASE j > k
        <4>1. j - 1 \in 1 .. Len(s) - 1 /\ ~(j - 1 < k) /\ (j - 1) + 1 = j
          BY <2>2, <3>2
        <4> QED
          BY <2>1, <4>1, Zenon
      <3> QED
        BY <2>2, <2>4, <3>1, <3>2
    <2>5. Range(s) = Range(r) \cup {s[k]}
      BY <2>3, <2>4, InRange
    <2> QED
      BY <2>5, Zenon DEF r
  <1> QED
    BY <1>1, <1>2, <1>3, Zenon

\* The ring loses the request it pops and gains the one it is given.
LEMMA RingTicketsMove ==
    ASSUME TypeInv, LineInv
    PROVE  /\ ring' = ring => RingTickets' = RingTickets
           /\ ring' = <<>> => RingTickets' = {}
           /\ \A t \in Ticket : ring' = Append(ring, Request(t)) =>
                 RingTickets' = RingTickets \cup {t}
           /\ \A k \in 0 .. MaxTickets : ring' = Append(ring, Cancel(k)) =>
                 RingTickets' = RingTickets
           /\ (ring # <<>> /\ ring' = Tail(ring) /\ Head(ring).kind = "Cancel") =>
                 RingTickets' = RingTickets
           /\ (ring # <<>> /\ ring' = Tail(ring) /\ Head(ring).kind = "Request") =>
                 /\ Head(ring).ticket \in RingTickets
                 /\ RingTickets' = RingTickets \ {Head(ring).ticket}
  <1>1. ring \in Seq(Message)
    BY QueueTypes, Zenon
  <1>2. /\ \A t, u \in Ticket : Request(t) = Request(u) => t = u
        /\ \A t \in Ticket, k \in 0 .. MaxTickets : Request(t) # Cancel(k)
        /\ \A t \in Ticket : Request(t) \in Message
        /\ \A k \in 0 .. MaxTickets : Cancel(k) \in Message
    BY Zenon DEF Request, Cancel, Message
  <1>3. ring' = ring => RingTickets' = RingTickets
    BY Zenon DEF RingTickets
  <1>4. ring' = <<>> => RingTickets' = {}
    BY DEF RingTickets, Range
  <1>5. ASSUME NEW m \in Message, ring' = Append(ring, m)
        PROVE  Range(ring') = Range(ring) \cup {m}
    BY <1>1, <1>5, RangeFacts
  <1>6. ASSUME NEW t \in Ticket, ring' = Append(ring, Request(t))
        PROVE  RingTickets' = RingTickets \cup {t}
    <2>1. Range(ring') = Range(ring) \cup {Request(t)}
      BY <1>2, <1>5, <1>6, Zenon
    <2> QED
      BY <1>2, <2>1, Zenon DEF RingTickets
  <1>7. ASSUME NEW k \in 0 .. MaxTickets, ring' = Append(ring, Cancel(k))
        PROVE  RingTickets' = RingTickets
    <2>1. Range(ring') = Range(ring) \cup {Cancel(k)}
      BY <1>2, <1>5, <1>7, Zenon
    <2> QED
      BY <1>2, <2>1, Zenon DEF RingTickets
  <1>8. ASSUME ring # <<>>, ring' = Tail(ring)
        PROVE  Range(ring) = Range(ring') \cup {Head(ring)} /\ Head(ring) \in Message
    <2>1. Range(ring) = Range(ring') \cup {Head(ring)}
      BY <1>1, <1>8, RangeFacts, Zenon
    <2> QED
      BY <1>1, <1>8, <2>1, RingPops, Zenon
  <1>9. ASSUME ring # <<>>, ring' = Tail(ring), Head(ring).kind = "Cancel"
        PROVE  RingTickets' = RingTickets
    <2>1. \A t \in Ticket : Request(t) # Head(ring)
      BY <1>9 DEF Request
    <2> QED
      BY <1>8, <1>9, <2>1, Zenon DEF RingTickets
  <1>10. ASSUME ring # <<>>, ring' = Tail(ring), Head(ring).kind = "Request"
         PROVE  /\ Head(ring).ticket \in RingTickets
                /\ RingTickets' = RingTickets \ {Head(ring).ticket}
    <2> DEFINE u == Head(ring).ticket
    <2>1. Head(ring) = Request(u) /\ u \in Ticket
      BY <1>8, <1>10, Zenon DEF Message, Request
    <2>2. Request(u) \notin Range(ring')
      <3>1. SUFFICES ASSUME NEW i \in DOMAIN ring', ring'[i] = Request(u) PROVE FALSE
        BY InRange, Zenon
      <3>2. i + 1 \in DOMAIN ring /\ ring[i + 1] = Request(u) /\ i + 1 > 1
            /\ 1 \in DOMAIN ring /\ ring[1] = Request(u)
        BY <1>1, <1>10, <2>1, <3>1, RingPops
      <3>3. /\ i + 1 \in RingRequests /\ TicketAt[i + 1] = u
            /\ 1 \in RingRequests /\ TicketAt[1] = u
        BY <2>1, <3>2, RingTicketsAre
      <3>4. u \in Nat
        BY <2>1, QueueTypes, Zenon
      <3> QED
        BY <3>2, <3>3, <3>4 DEF LineInv
    <2> HIDE DEF u
    <2>3. Range(ring) = Range(ring') \cup {Request(u)}
      BY <1>8, <1>10, <2>1, Zenon
    <2>4. u \in RingTickets /\ RingTickets' = RingTickets \ {u}
      BY <1>2, <2>1, <2>2, <2>3, Zenon DEF RingTickets
    <2> QED
      BY <2>4, Zenon DEF u
  <1> QED
    BY <1>3, <1>4, <1>6, <1>7, <1>9, <1>10, Zenon

\* So does the displaced queue.
LEMMA PendingTicketsMove ==
    ASSUME TypeInv, LineInv
    PROVE  /\ pending' = pending => PendingTickets' = PendingTickets
           /\ pending' = <<>> => PendingTickets' = {}
           /\ \A t \in Ticket : pending' = Append(pending, t) =>
                 PendingTickets' = PendingTickets \cup {t}
           /\ (pending # <<>> /\ pending' = Tail(pending)) =>
                 /\ Head(pending) \in PendingTickets
                 /\ PendingTickets' = PendingTickets \ {Head(pending)}
           /\ \A k \in DOMAIN pending : pending' = Without(pending, k) =>
                 /\ pending[k] \in PendingTickets
                 /\ PendingTickets' = PendingTickets \ {pending[k]}
  <1>1. pending \in Seq(Ticket) /\ Len(pending) \in Nat /\ DOMAIN pending = 1 .. Len(pending)
    BY QueueTypes, SeqFacts, Zenon
  <1>2. /\ \A i \in DOMAIN pending : pending[i] \in Nat
        /\ \A i, j \in DOMAIN pending : pending[i] = pending[j] => i = j
    BY <1>1, LineTypes DEF LineInv
  <1>3. pending' = <<>> => PendingTickets' = {}
    BY DEF PendingTickets, Range
  <1>4. \A t \in Ticket : pending' = Append(pending, t) =>
            PendingTickets' = PendingTickets \cup {t}
    BY <1>1, RangeFacts DEF PendingTickets
  <1>5. ASSUME pending # <<>>, pending' = Tail(pending)
        PROVE  /\ Head(pending) \in PendingTickets
               /\ PendingTickets' = PendingTickets \ {Head(pending)}
    <2>1. Range(pending) = Range(pending') \cup {Head(pending)}
      BY <1>1, <1>5, RangeFacts, Zenon
    <2>2. Head(pending) \notin Range(pending')
      <3>1. SUFFICES ASSUME NEW i \in DOMAIN pending', pending'[i] = Head(pending) PROVE FALSE
        BY InRange, Zenon
      <3>2. /\ i \in Nat \ {0} /\ i + 1 \in DOMAIN pending /\ pending[i + 1] = pending[1]
            /\ 1 \in DOMAIN pending
        BY <1>1, <1>5, <3>1, TailFacts, Zenon
      <3> QED
        BY <1>2, <3>2
    <2> QED
      BY <2>1, <2>2, Zenon DEF PendingTickets
  <1>6. ASSUME NEW k \in DOMAIN pending, pending' = Without(pending, k)
        PROVE  /\ pending[k] \in PendingTickets
               /\ PendingTickets' = PendingTickets \ {pending[k]}
    <2>1. Range(pending) = Range(pending') \cup {pending[k]}
      BY <1>1, <1>6, RangeFacts
    <2>2. pending[k] \notin Range(pending')
      <3>1. SUFFICES ASSUME NEW i \in DOMAIN pending', pending'[i] = pending[k] PROVE FALSE
        BY InRange, Zenon
      <3>2. /\ i \in 1 .. Len(pending) - 1
            /\ pending'[i] = IF i < k THEN pending[i] ELSE pending[i + 1]
        BY <1>1, <1>6, <3>1, WithoutFacts, Zenon
      <3>3. CASE i < k
        <4>1. i \in DOMAIN pending /\ pending[i] = pending[k] /\ i # k
          BY <1>1, <3>1, <3>2, <3>3
        <4> QED
          BY <1>2, <4>1, Zenon
      <3>4. CASE ~(i < k)
        <4>1. i + 1 \in DOMAIN pending /\ pending[i + 1] = pending[k] /\ i + 1 # k
          BY <1>1, <3>1, <3>2, <3>4
        <4> QED
          BY <1>2, <4>1, Zenon
      <3> QED
        BY <3>3, <3>4, Zenon
    <2> QED
      BY <2>1, <2>2, Zenon DEF PendingTickets
  <1> QED
    BY <1>3, <1>4, <1>5, <1>6, Zenon DEF PendingTickets

(***************************************************************************)
(* Permits are counted: what needs the cardinality of a set                *)
(***************************************************************************)

INSTANCE FiniteSetTheorems

\* Permits are counted one by one, and a set of tickets is finite.
LEMMA CountingHolds == Counting
  <1>1. \A x : Cardinality({x}) = 1
    BY FS_Singleton, Zenon
  <1>2. ASSUME NEW S \in SUBSET Ticket PROVE Cardinality(S) \in Nat
    <2>1. IsFiniteSet(Ticket)
      BY DeliveryAssumption, FS_Interval DEF Ticket
    <2>2. IsFiniteSet(S)
      BY <2>1, FS_Subset, Zenon
    <2> QED
      BY <2>2, FS_CardinalityType, Zenon
  <1> QED
    BY <1>1, <1>2, Zenon DEF Counting

\* Every step keeps the types and what they depend on.
LEMMA TypeStep == TypeInv /\ [Next]_vars => TypeInv'
  <1> SUFFICES ASSUME TypeInv, [Next]_vars PROVE TypeInv'
    BY Zenon
  <1>1. TypeB /\ TypeC /\ TypeQ /\ TypeL /\ TypeR /\ TypeO /\ Control
    BY TypeParts, Zenon DEF TypeInv
  <1>2. CASE Next
    <2>1. TypeB' /\ TypeC' /\ TypeQ' /\ TypeL' /\ TypeR' /\ TypeO' /\ Control'
      BY <1>1, <1>2, NextTypeB, NextTypeC, NextTypeQ, NextTypeL, NextTypeR, NextTypeO,
         NextControl, CountingHolds
    <2>2. TypeOK'
      BY <2>1 DEF TypeOK, TypeB, TypeC, TypeQ, TypeL, TypeR, TypeO
    <2> QED
      BY <2>1, <2>2 DEF TypeInv
  <1>3. CASE UNCHANGED vars
    <2>1. TypeOK'
      BY <1>1, <1>3, ZenonT(30) DEF vars, TypeOK, TypeB, TypeC, TypeQ, TypeL, TypeR, TypeO
    <2>2. Control'
      BY <1>1, <1>3, Zenon DEF vars, Control
    <2> QED
      BY <2>1, <2>2, Zenon DEF TypeInv
  <1> QED
    BY <1>2, <1>3, Zenon

\* Every variable of the client keeps its type: in particular the budgets never
\* run past Silence, an exchange is attempted at most twice, and the reader
\* never delivers for, or is served by, a ticket that was not submitted.
THEOREM TypeCorrect == Spec => []TypeOK
  <1>1. TypeInv => TypeOK
    BY DEF TypeInv
  <1> QED
    BY InitType, TypeStep, <1>1, PTL DEF Spec

\* Every step of the client is a move of the queue.
LEMMA StepIsMove == ASSUME TypeInv, Next PROVE Move
  BY CallersMove, ReaderMoves, CountingHolds, ZenonT(30) DEF Next, Move

(***************************************************************************)
(* Permits.                                                                *)
(***************************************************************************)

\* What a move does to the requests that hold a permit.  LiveTickets changes
\* with admission and with the end of a request, never while one travels.
Travels == LiveTickets' = LiveTickets /\ outstanding' = outstanding
Starts ==
    /\ Submitted \in Ticket \ LiveTickets /\ LiveTickets' = LiveTickets \cup {Submitted}
    /\ outstanding < MaxOutstanding /\ outstanding' = outstanding + 1
Ends(t) ==
    /\ t \in LiveTickets /\ LiveTickets' = LiveTickets \ {t}
    /\ outstanding' = outstanding - 1
Leave(S) ==
    /\ S \subseteq LiveTickets /\ LiveTickets' = LiveTickets \ S
    /\ outstanding' = outstanding - Cardinality(S)

\* Every move of the queue (admission, refusal, hand-over, service, abort, the
\* reader's exit) keeps one permit per live request: requests travel without
\* one being taken or given back, and a request that ends gives back its own.
LEMMA LiveMove ==
    ASSUME TypeInv, TypeInv', CurInv, LineInv, BoundInv, Move
    PROVE  \/ Travels
           \/ Admit /\ Starts
           \/ Refuse /\ Ends(Submitted)
           \/ Finish /\ Ends(cur)
           \/ \E i \in DOMAIN pending : Abort(i) /\ Ends(pending[i])
           \/ Exit /\ \E S \in SUBSET QueuedTickets : Leave(S)
  <1> DEFINE P == PendingTickets
             R == RingTickets
             C == {cur} \ {NONE}
  <1>1. LiveTickets = P \cup R \cup C \cup Admitted /\ QueuedTickets = P \cup R
    BY PendingTicketsAre, Zenon
  <1>2. LiveTickets' = P' \cup R' \cup C' \cup Admitted'
    BY Zenon DEF LiveTickets, QueuedTickets, PendingTickets, RingTickets, Admitted
  <1>3. /\ P \cap R = {} /\ cur \notin P \cup R /\ Submitted \notin P \cup R \cup {cur}
    BY OnePlace
  <1>4. /\ P \subseteq Ticket /\ R \subseteq Ticket /\ NONE \notin Ticket
        /\ Admitted \in {{}, {Submitted}}
        /\ rpc \in Serving => cur \in Ticket
    BY PendingTicketsAre, RingTicketsAre, QueueTypes, Zenon
  <1>5. /\ ring' = ring => R' = R
        /\ pending' = pending => P' = P
    BY RingTicketsMove, PendingTicketsMove, Zenon
  <1> HIDE DEF P, R
  <1>6. CASE Still
    <2>1. Travels
      BY <1>1, <1>2, <1>5, <1>6 DEF Still, KeepSubmit, Travels
    <2> QED
      BY <2>1, Zenon
  <1>7. CASE Admit
    <2>1. P' = P /\ R' = R /\ C' = C /\ Admitted = {} /\ Admitted' = {Submitted}
          /\ Submitted \in Ticket
      BY <1>5, <1>7 DEF Admit
    <2>2. Starts
      BY <1>1, <1>2, <1>3, <1>7, <2>1 DEF Admit, Starts
    <2> QED
      BY <1>7, <2>2, Zenon
  <1>8. CASE Push
    <2>1. P' = P /\ R' = R \cup {Submitted} /\ C' = C
      BY <1>5, <1>8, RingTicketsMove, Zenon DEF Push, R
    <2>2. Travels
      BY <1>1, <1>2, <1>8, <2>1 DEF Push, Travels
    <2> QED
      BY <2>2
  <1>9. CASE Refuse
    <2>1. P' = P /\ R' = R /\ C' = C /\ Admitted = {Submitted} /\ Admitted' = {}
      BY <1>5, <1>9 DEF Refuse
    <2>2. Ends(Submitted)
      BY <1>1, <1>2, <1>3, <1>9, <2>1 DEF Refuse, Ends
    <2> QED
      BY <1>9, <2>2, Zenon
  <1>10. ASSUME NEW k \in 0 .. MaxTickets, Post(k) PROVE Travels
    <2>1. P' = P /\ R' = R /\ C' = C
      BY <1>5, <1>10, RingTicketsMove, Zenon DEF Post, R
    <2> QED
      BY <1>1, <1>2, <1>10, <2>1 DEF Post, KeepSubmit, Travels
  <1>11. CASE TakePending
    <2>1. cur' \in P /\ P' = P \ {cur'} /\ R' = R
      BY <1>5, <1>11, PendingTicketsMove, Zenon DEF TakePending, P
    <2>2. C = {} /\ C' = {cur'}
      BY <1>4, <1>11, <2>1 DEF TakePending, CurInv, Serving
    <2>3. Travels
      BY <1>1, <1>2, <1>11, <2>1, <2>2 DEF TakePending, KeepSubmit, Travels
    <2> QED
      BY <2>3
  <1>12. CASE TakeRing
    <2>1. cur' \in R /\ R' = R \ {cur'} /\ P' = P
      BY <1>5, <1>12, RingTicketsMove, Zenon DEF TakeRing, R
    <2>2. C = {} /\ C' = {cur'}
      BY <1>4, <1>12, <2>1 DEF TakeRing, CurInv, Serving
    <2>3. Travels
      BY <1>1, <1>2, <1>12, <2>1, <2>2 DEF TakeRing, KeepSubmit, Travels
    <2> QED
      BY <2>3
  <1>13. CASE Skip
    <2>1. P' = P /\ R' = R /\ C' = C
      BY <1>5, <1>13, RingTicketsMove, Zenon DEF Skip, R
    <2>2. Travels
      BY <1>1, <1>2, <1>13, <2>1 DEF Skip, KeepSubmit, Travels
    <2> QED
      BY <2>2
  <1>14. ASSUME NEW i \in DOMAIN pending, Abort(i) PROVE Ends(pending[i])
    <2>1. pending[i] \in P /\ P' = P \ {pending[i]} /\ C' = C
      BY <1>14, PendingTicketsMove DEF Abort, P
    <2>2. R' = R
      <3>1. Head(ring).kind = "Cancel"
        BY <1>14 DEF Abort, Cancel
      <3> QED
        BY <1>14, <3>1, RingTicketsMove, ZenonT(30) DEF Abort, R
    <2>3. pending[i] \notin Admitted /\ pending[i] \notin R /\ pending[i] # cur
      BY <1>3, <1>4, <2>1, ZenonT(30)
    <2> QED
      BY <1>1, <1>2, <1>14, <2>1, <2>2, <2>3 DEF Abort, KeepSubmit, Ends
  <1>15. CASE Displace
    <2> DEFINE k == Head(ring).ticket
    <2>1. k \in R /\ R' = R \ {k}
      BY <1>15, RingTicketsMove DEF Displace, R
    <2>2. P' = P \cup {k} /\ C' = C
      BY <1>4, <1>15, <2>1, PendingTicketsMove DEF Displace, P
    <2> HIDE DEF k
    <2>3. Travels
      BY <1>1, <1>2, <1>15, <2>1, <2>2 DEF Displace, KeepSubmit, Travels
    <2> QED
      BY <2>3, Zenon
  <1>16. CASE StartServing
    <2>1. Travels
      BY <1>1, <1>2, <1>5, <1>16 DEF StartServing, KeepSubmit, Travels
    <2> QED
      BY <2>1, Zenon
  <1>17. CASE Finish
    <2>1. P' = P /\ R' = R /\ C' = {}
      BY <1>5, <1>17 DEF Finish
    <2>2. C = {cur} /\ cur \notin Admitted
      BY <1>3, <1>4, <1>17, Zenon DEF Finish, CurInv, Serving, ReaderPc
    <2>3. Ends(cur)
      BY <1>1, <1>2, <1>3, <1>17, <2>1, <2>2 DEF Finish, KeepSubmit, Ends
    <2> QED
      BY <1>17, <2>3, Zenon
  <1>18. CASE Exit
    <2>1. C = {} /\ C' = C /\ P' = {} /\ P \cap Admitted = {} /\ R \cap Admitted = {}
      BY <1>3, <1>4, <1>18, PendingTicketsMove DEF Exit, CurInv, Serving, P
    <2>2. CASE ring' = ring /\ DropRequests(Range(pending))
      <3>1. Leave(P)
        BY <1>1, <1>2, <1>3, <1>5, <1>18, <2>1, <2>2
           DEF Exit, KeepSubmit, Leave, DropRequests, Release, P, PendingTickets
      <3>2. P \in SUBSET QueuedTickets
        BY <1>1, Zenon
      <3> QED
        BY <1>18, <3>1, <3>2, ZenonT(30)
    <2>3. CASE ring' = <<>> /\ DropRequests(QueuedTickets)
      <3>1. R' = {}
        BY <2>3, RingTicketsMove, Zenon DEF R
      <3>2. Leave(QueuedTickets)
        BY <1>1, <1>2, <1>18, <2>1, <2>3, <3>1 DEF Exit, KeepSubmit, Leave, DropRequests,
                                                   Release
      <3> QED
        BY <1>18, <3>2
    <2> QED
      BY <1>18, <2>2, <2>3, ZenonT(30) DEF Exit
  <1> QED
    BY <1>6, <1>7, <1>8, <1>9, <1>10, <1>11, <1>12, <1>13, <1>14, <1>15, <1>16, <1>17, <1>18
       DEF Move

\* The requests that hold a permit are finitely many tickets.
LEMMA LiveFinite ==
    ASSUME TypeInv
    PROVE  /\ LiveTickets \subseteq Ticket /\ IsFiniteSet(LiveTickets)
           /\ \A S \in SUBSET Ticket : IsFiniteSet(S) /\ Cardinality(S) \in Nat
  <1>1. /\ nextTicket \in 0 .. MaxTickets /\ MaxTickets \in Nat
        /\ owner = "admitted" => nextTicket > 0
    BY DeliveryAssumption, Zenon DEF TypeInv, TypeOK, Control
  <1>2. Admitted \subseteq Ticket
    BY <1>1 DEF Admitted, Ticket
  <1>3. LiveTickets \subseteq Ticket
    BY <1>2, PendingTicketsAre, RingTicketsAre, QueueTypes
  <1>4. IsFiniteSet(Ticket)
    BY <1>1, FS_Interval DEF Ticket
  <1>5. \A S \in SUBSET Ticket : IsFiniteSet(S) /\ Cardinality(S) \in Nat
    BY <1>4, FS_Subset, FS_CardinalityType, Zenon
  <1> QED
    BY <1>3, <1>5

\* The counter and the requests that hold a permit change together.
LEMMA PermitStep ==
    ASSUME TypeInv, TypeInv', CurInv, LineInv, BoundInv, PermitInv, Move
    PROVE  PermitInv'
  <1>1. /\ LiveTickets \subseteq Ticket /\ IsFiniteSet(LiveTickets)
        /\ Cardinality(LiveTickets) \in Nat
    BY LiveFinite, Zenon
  <1>2. MaxOutstanding \in Nat
    BY AdmissionAssumption, Zenon
  <1>3. CASE Travels
    BY <1>3 DEF Travels, PermitInv
  <1>4. CASE Starts
    BY <1>1, <1>2, <1>4, FS_AddElement DEF Starts, PermitInv
  <1>5. ASSUME NEW t, Ends(t) PROVE PermitInv'
    BY <1>1, <1>2, <1>5, FS_RemoveElement DEF Ends, PermitInv
  <1>6. ASSUME NEW S \in SUBSET QueuedTickets, Leave(S) PROVE PermitInv'
    <2>1. S \subseteq LiveTickets /\ Cardinality(S) \in Nat /\ LiveTickets \cap S = S
      BY <1>1, <1>6, LiveFinite DEF Leave
    <2>2. Cardinality(LiveTickets \ S) = Cardinality(LiveTickets) - Cardinality(S)
      BY <1>1, <2>1, FS_Difference, ZenonT(30)
    <2> QED
      BY <1>1, <1>2, <1>6, <2>1, <2>2 DEF Leave, PermitInv
  <1> QED
    BY <1>3, <1>4, <1>5, <1>6, LiveMove, Zenon

QueueInv == TypeInv /\ CurInv /\ LineInv /\ BoundInv /\ PermitInv

\* The queue is empty and nothing was submitted.
LEMMA InitQueue == Init => QueueInv
  <1> SUFFICES ASSUME Init PROVE QueueInv
    BY Zenon
  <1>1. TypeInv
    BY InitType, Zenon
  <1>2. /\ ring = <<>> /\ pending = <<>> /\ served = <<>> /\ rpc = "next" /\ cur = NONE
        /\ owner = "idle" /\ nextTicket = 0 /\ outstanding = 0
    BY Zenon DEF Init, QueueInit, ReaderInit, AdmissionInit
  <1>3. RingRequests = {} /\ DOMAIN pending = {} /\ DOMAIN served = {}
    BY <1>2 DEF RingRequests
  <1>4. CurInv /\ LineInv /\ BoundInv
    BY <1>2, <1>3, Zenon DEF CurInv, LineInv, BoundInv, Serving
  <1>5. LiveTickets = {}
    BY <1>2 DEF LiveTickets, QueuedTickets, Range
  <1>6. PermitInv
    BY <1>2, <1>5, FS_EmptySet, AdmissionAssumption DEF PermitInv
  <1> QED
    BY <1>1, <1>4, <1>6, Zenon DEF QueueInv

\* No step breaks the line or the count of permits.
LEMMA QueueStep == QueueInv /\ [Next]_vars => QueueInv'
  <1> SUFFICES ASSUME QueueInv, [Next]_vars PROVE QueueInv'
    BY Zenon
  <1>1. TypeInv /\ CurInv /\ LineInv /\ BoundInv /\ PermitInv
    BY Zenon DEF QueueInv
  <1>2. TypeInv'
    BY <1>1, TypeStep
  <1>3. CASE Next
    <2>1. Move
      BY <1>1, <1>3, StepIsMove
    <2> QED
      BY <1>1, <1>2, <2>1, CurStep, LineStep, PermitStep DEF QueueInv
  <1>4. CASE UNCHANGED vars
    <2>1. UNCHANGED <<served, pending, ring, cur, rpc, owner, nextTicket, outstanding>>
      BY <1>4, Zenon DEF vars
    <2>2. CurInv' /\ PermitInv'
      BY <1>1, <2>1, ZenonT(30) DEF CurInv, PermitInv, LiveTickets, QueuedTickets
    <2>3. LineInv' /\ BoundInv'
      <3>1. RingRequests' = RingRequests /\ TicketAt' = TicketAt /\ Submitted' = Submitted
        BY <2>1, RingSame, Zenon DEF Submitted
      <3> QED
        BY <1>1, <2>1, <3>1 DEF LineInv, BoundInv
    <2> QED
      BY <1>2, <2>2, <2>3, Zenon DEF QueueInv
  <1> QED
    BY <1>3, <1>4, Zenon

\* The inductive invariant holds in every reachable state.
THEOREM QueueInvariant == Spec => []QueueInv
  BY InitQueue, QueueStep, PTL DEF Spec

\* As many tickets wait in the displaced queue and in the ring as there are
\* entries of them there: none is there twice.
LEMMA NoTicketTwice ==
    ASSUME QueueInv
    PROVE  /\ Cardinality(PendingTickets) = Len(pending)
           /\ Cardinality(RingTickets) = Cardinality(RingRequests)
  <1> USE DEF QueueInv
  <1>1. Cardinality(PendingTickets) = Len(pending)
    <2>1. Len(pending) \in Nat /\ DOMAIN pending = 1 .. Len(pending)
      BY QueueTypes, SeqFacts, ZenonT(30)
    <2>2. \A i, j \in DOMAIN pending : pending[i] = pending[j] => i = j
      BY <2>1, LineTypes DEF LineInv
    <2>3. pending \in [1 .. Len(pending) -> PendingTickets]
      <3>1. pending = [i \in DOMAIN pending |-> pending[i]]
        BY QueueTypes
      <3>2. \A i \in DOMAIN pending : pending[i] \in PendingTickets
        BY PendingTicketsAre, Zenon
      <3> QED
        BY <2>1, <3>1, <3>2, Zenon
    <2>4. pending \in Bijection(1 .. Len(pending), PendingTickets)
      BY <2>1, <2>2, <2>3, PendingTicketsAre, Zenon DEF Bijection, Injection, Surjection,
                                                   IsInjective
    <2> QED
      BY <2>1, <2>4, FS_CountingElements DEF ExistsBijection
  <1>2. Cardinality(RingTickets) = Cardinality(RingRequests)
    <2> DEFINE f == [i \in RingRequests |-> TicketAt[i]]
    <2>1. \A t : t \in RingTickets <=> \E i \in RingRequests : TicketAt[i] = t
      BY RingTicketsAre, Zenon
    <2>2. f \in [RingRequests -> RingTickets]
      BY <2>1, Zenon
    <2>3. ASSUME NEW i \in RingRequests, NEW j \in RingRequests, f[i] = f[j] PROVE i = j
      <3>1. i \in Nat /\ j \in Nat /\ TicketAt[i] \in Nat /\ TicketAt[i] = TicketAt[j]
        BY <2>3, LineTypes, Zenon DEF RingRequests
      <3> QED
        BY <3>1 DEF LineInv
    <2>4. \A t \in RingTickets : \E i \in RingRequests : f[i] = t
      BY <2>1, Zenon
    <2> HIDE DEF f
    <2>5. f \in Bijection(RingRequests, RingTickets)
      BY <2>2, <2>3, <2>4 DEF Bijection, Injection, Surjection, IsInjective
    <2>6. IsFiniteSet(RingRequests)
      <3>1. DOMAIN ring = 1 .. Len(ring) /\ Len(ring) \in Nat
        BY QueueTypes, SeqFacts
      <3>2. IsFiniteSet(1 .. Len(ring))
        BY <3>1, FS_Interval
      <3> QED
        BY <3>1, <3>2, FS_Subset, Zenon DEF RingRequests
    <2> QED
      BY <2>5, <2>6, FS_Bijection, Zenon DEF ExistsBijection
  <1> QED
    BY <1>1, <1>2, Zenon

\* The admission counter is, in every reachable state, the number of requests
\* in the displaced queue, in the ring, being served and between permit and
\* push, and never more than the bound: each exit path of submit, of the queue
\* and of the reader gives back one permit, and only one.
THEOREM OnePermitEach == Spec => []PermitPerRequest
  <1>1. QueueInv => PermitPerRequest
    <2> SUFFICES ASSUME QueueInv PROVE PermitPerRequest
      BY Zenon
    <2> USE DEF QueueInv
    <2> DEFINE P == PendingTickets
               R == RingTickets
               C == {cur} \ {NONE}
    <2>1. LiveTickets = P \cup R \cup C \cup Admitted
      BY PendingTicketsAre
    <2>2. /\ P \cap R = {} /\ (P \cup R) \cap C = {}
          /\ (P \cup R \cup C) \cap Admitted = {}
      BY OnePlace, QueueTypes, Zenon
    <2>3. /\ IsFiniteSet(P) /\ IsFiniteSet(R) /\ IsFiniteSet(C) /\ IsFiniteSet(Admitted)
          /\ Cardinality(P) \in Nat /\ Cardinality(R) \in Nat
      <3>1. /\ P \in SUBSET Ticket /\ R \in SUBSET Ticket /\ C \in SUBSET Ticket
            /\ Admitted \in SUBSET Ticket
        BY <2>1, LiveFinite, Zenon
      <3> QED
        BY <3>1, LiveFinite
    <2>4. Cardinality(C) = IF cur = NONE THEN 0 ELSE 1
      <3>1. CASE cur = NONE
        <4>1. C = {}
          BY <3>1
        <4> QED
          BY <3>1, <4>1, FS_EmptySet, Zenon
      <3>2. CASE cur # NONE
        <4>1. C = {cur}
          BY <3>2, Zenon
        <4> QED
          BY <3>2, <4>1, FS_Singleton, Zenon
      <3> QED
        BY <3>1, <3>2
    <2>5. Cardinality(Admitted) = IF owner = "admitted" THEN 1 ELSE 0
      BY FS_EmptySet, FS_Singleton, Zenon DEF Admitted
    <2>6. Cardinality(P) = Len(pending) /\ Cardinality(R) = Cardinality(RingRequests)
      BY NoTicketTwice
    <2> HIDE DEF P, R, C
    <2>7. ASSUME NEW S, NEW T, IsFiniteSet(S), IsFiniteSet(T), S \cap T = {}
          PROVE  /\ IsFiniteSet(S \cup T)
                 /\ Cardinality(S \cup T) = Cardinality(S) + Cardinality(T)
      <3>1. Cardinality(S) \in Nat /\ Cardinality(T) \in Nat /\ Cardinality({}) = 0
        BY <2>7, FS_CardinalityType, FS_EmptySet, Zenon
      <3>2. /\ IsFiniteSet(S \cup T)
            /\ Cardinality(S \cup T) = Cardinality(S) + Cardinality(T) - Cardinality(S \cap T)
        BY <2>7, FS_Union
      <3>3. Cardinality(S \cap T) = 0
        BY <2>7, <3>1, Zenon
      <3> QED
        BY <3>1, <3>2, <3>3
    <2>8. IsFiniteSet(P \cup R) /\ Cardinality(P \cup R) = Cardinality(P) + Cardinality(R)
      BY <2>2, <2>3, <2>7, Zenon
    <2>9. /\ IsFiniteSet(P \cup R \cup C)
          /\ Cardinality(P \cup R \cup C) = Cardinality(P \cup R) + Cardinality(C)
      BY <2>2, <2>3, <2>7, <2>8, Zenon
    <2>10. Cardinality(P \cup R \cup C \cup Admitted)
             = Cardinality(P \cup R \cup C) + Cardinality(Admitted)
      BY <2>2, <2>3, <2>7, <2>9, Zenon
    <2> QED
      BY <2>1, <2>3, <2>4, <2>5, <2>6, <2>8, <2>9, <2>10 DEF PermitPerRequest, PermitInv
  <1> QED
    BY <1>1, QueueInvariant, PTL

(***************************************************************************)
(* The client implements RequestService: each move of the queue is one     *)
(* step of the abstract service or leaves every request where it was.      *)
(***************************************************************************)

\* The refinement mapping, stage by stage.
LifeShape ==
    /\ Life \in [Ticket -> {"absent", "waiting", "serving", "over"}]
    /\ \A t \in Ticket :
          /\ Life[t] = "absent" <=> t >= nextTicket
          /\ Life[t] = "serving" <=> t = cur
          /\ Life[t] = "waiting" <=> t \in LiveTickets /\ t # cur

\* Every request that holds a permit was numbered, the one being served
\* included, so that no case of Life hides another.
LEMMA LifeIs == QueueInv => LifeShape
  <1> SUFFICES ASSUME QueueInv PROVE LifeShape
    BY Zenon
  <1> USE DEF QueueInv
  <1>1. /\ nextTicket \in Nat /\ Submitted \in Nat /\ Submitted <= nextTicket
        /\ Ticket \subseteq Nat /\ NONE \notin Ticket
    <2>1. nextTicket \in 0 .. MaxTickets
      BY Zenon DEF TypeInv, TypeOK, Control
    <2>2. nextTicket \in Nat
      BY <2>1, DeliveryAssumption
    <2>3. Submitted \in Nat /\ Ticket \subseteq Nat /\ NONE \notin Ticket
      BY QueueTypes, Zenon
    <2>4. Submitted <= nextTicket
      BY <2>2 DEF Submitted
    <2> QED
      BY <2>2, <2>3, <2>4, Zenon
  <1>2. cur \in Ticket => cur < nextTicket
    BY <1>1 DEF BoundInv
  <1>3. ASSUME NEW t \in LiveTickets PROVE t \in Ticket /\ t < nextTicket
    <2>1. t \in Ticket /\ t \in Nat
      BY <1>1, LiveFinite, Zenon
    <2>2. CASE t \in PendingTickets
      BY <1>1, <2>1, <2>2, PendingTicketsAre, LineTypes DEF BoundInv
    <2>3. CASE t \in RingTickets
      BY <1>1, <2>1, <2>3, RingTicketsAre, LineTypes DEF BoundInv
    <2>4. CASE t \in Admitted
      BY <1>1, <2>1, <2>4 DEF Admitted
    <2> QED
      BY <1>2, <2>1, <2>2, <2>3, <2>4, PendingTicketsAre, ZenonT(30)
  <1>4. ASSUME NEW t \in Ticket
        PROVE  /\ Life[t] \in {"absent", "waiting", "serving", "over"}
               /\ Life[t] = "absent" <=> t >= nextTicket
               /\ Life[t] = "serving" <=> t = cur
               /\ Life[t] = "waiting" <=> t \in LiveTickets /\ t # cur
    <2>1. t \in Nat
      BY <1>1
    <2>2. CASE t >= nextTicket
      BY <1>1, <1>2, <1>3, <2>1, <2>2 DEF Life
    <2>3. CASE t < nextTicket /\ t = cur
      BY <1>1, <2>1, <2>3 DEF Life
    <2>4. CASE t < nextTicket /\ t # cur /\ t \in LiveTickets
      BY <1>1, <2>1, <2>4 DEF Life
    <2>5. CASE t < nextTicket /\ t # cur /\ t \notin LiveTickets
      BY <1>1, <2>1, <2>5, Zenon DEF Life
    <2> QED
      BY <1>1, <2>1, <2>2, <2>3, <2>4, <2>5
  <1>5. Life \in [Ticket -> {"absent", "waiting", "serving", "over"}]
    BY <1>4, Zenon DEF Life
  <1> QED
    BY <1>4, <1>5, Zenon DEF LifeShape

\* Only a submit that is admitted numbers a request, and the reader's request
\* only changes when one is taken or finished.
LEMMA StepNumbers ==
    ASSUME TypeInv, Next
    PROVE  /\ nextTicket' = nextTicket \/ SubmitAdmit
           /\ cur' = cur \/ TakePending \/ TakeRing \/ Finish
  <1>1. cur' = cur \/ TakePending \/ TakeRing \/ Finish
    BY StepIsMove, Zenon DEF Move, Still, Admit, Push, Refuse, Post, Skip, Abort, Displace,
                      StartServing, Exit
  <1>2. nextTicket' = nextTicket \/ SubmitAdmit
    BY Zenon DEF Next, ReaderRuns, ownerVars, OwnerStep, SubmitPush, CancelAnyFlag, CancelAnyPush,
           DropFlag, DropWake, DropJoin, HolderStep, HandleCancelFlag, HandleCancelPush
  <1> QED
    BY <1>1, <1>2, Zenon

\* The next request the reader takes is the oldest that waits.
LEMMA TakesOldest ==
    ASSUME QueueInv, TakePending \/ TakeRing
    PROVE  /\ cur = NONE /\ cur' \in LiveTickets
           /\ \A t \in LiveTickets : cur' <= t
  <1> USE DEF QueueInv
  <1>1. cur = NONE /\ (rpc = "idle" => pending = <<>>)
    BY Zenon DEF CurInv, TakePending, TakeRing, Serving
  <1>2. LiveTickets = PendingTickets \cup RingTickets \cup Admitted
    BY <1>1, PendingTicketsAre, Zenon
  <1>3. \E n \in PendingTickets \cup RingTickets :
           /\ cur' = n
           /\ \A t \in PendingTickets \cup RingTickets : n <= t
    <2>1. CASE TakePending
      <3>1. 1 \in DOMAIN pending /\ cur' = pending[1]
        BY <2>1, QueueTypes, TailFacts, ZenonT(30) DEF TakePending
      <3>2. \A i \in DOMAIN pending : i = 1 \/ 1 < i
        BY QueueTypes, SeqFacts
      <3>3. \A i \in DOMAIN pending : pending[1] <= pending[i]
        BY <3>1, <3>2, LineTypes DEF LineInv
      <3>4. \A i \in RingRequests : pending[1] <= TicketAt[i]
        BY <3>1, LineTypes DEF LineInv
      <3>5. \A t \in PendingTickets : pending[1] <= t
        BY <3>3, PendingTicketsAre, ZenonT(30)
      <3>6. \A t \in RingTickets : pending[1] <= t
        BY <3>4, RingTicketsAre
      <3>7. pending[1] \in PendingTickets
        BY <3>1, PendingTicketsAre, ZenonT(30)
      <3> QED
        BY <3>1, <3>5, <3>6, <3>7
    <2>2. CASE TakeRing
      <3>1. 1 \in RingRequests /\ cur' = TicketAt[1] /\ pending = <<>>
        BY <1>1, <2>2, RingStaysOrdered, Zenon DEF TakeRing
      <3>2. \A i \in RingRequests : i = 1 \/ 1 < i
        <4>1. DOMAIN ring = 1 .. Len(ring) /\ Len(ring) \in Nat
          BY QueueTypes, SeqFacts, Zenon
        <4> QED
          BY <4>1 DEF RingRequests
      <3>3. \A i \in RingRequests : TicketAt[1] <= TicketAt[i]
        BY <3>1, <3>2, LineTypes DEF LineInv
      <3>4. PendingTickets = {}
        BY <3>1, PendingTicketsAre
      <3> QED
        BY <3>1, <3>3, <3>4, RingTicketsAre
    <2> QED
      BY <2>1, <2>2, Zenon
  <1>4. ASSUME NEW t \in Admitted, NEW n \in PendingTickets \cup RingTickets PROVE n <= t
    <2>1. t = Submitted /\ t \in Nat
      BY <1>4, QueueTypes, Zenon DEF Admitted, Submitted
    <2> QED
      BY <2>1, PendingTicketsAre, RingTicketsAre, LineTypes DEF BoundInv
  <1> QED
    BY <1>1, <1>2, <1>3, <1>4, Zenon

\* The requests the service counts as unfinished are those with a permit.
LEMMA UnfinishedAre ==
    ASSUME LifeShape, LiveTickets \subseteq Ticket, cur \in LiveTickets \cup {NONE}, NONE \notin Ticket
    PROVE  /\ Service!In("waiting") = LiveTickets \ {cur}
           /\ Service!In("serving") = {cur} \ {NONE}
           /\ Service!In("waiting") \cup Service!In("serving") = LiveTickets
  <1>1. Service!In("waiting") = LiveTickets \ {cur}
    BY Zenon DEF LifeShape, Service!In, Service!Requests, Ticket
  <1>2. Service!In("serving") = {cur} \ {NONE}
    BY Zenon DEF LifeShape, Service!In, Service!Requests, Ticket
  <1> QED
    BY <1>1, <1>2, Zenon

\* A function of the requests is Life after the step if it agrees with what is
\* numbered, served and waiting then.
LEMMA LifeBecomes ==
    ASSUME LifeShape', NEW f \in [Ticket -> {"absent", "waiting", "serving", "over"}],
           \A t \in Ticket :
              /\ f[t] = "absent" <=> t >= nextTicket'
              /\ f[t] = "serving" <=> t = cur'
              /\ f[t] = "waiting" <=> t \in LiveTickets' /\ t # cur'
    PROVE  Life' = f
  <1>1. Life' \in [Ticket -> {"absent", "waiting", "serving", "over"}]
    BY Zenon DEF LifeShape
  <1>2. ASSUME NEW t \in Ticket PROVE Life'[t] = f[t]
    <2>1. /\ Life'[t] = "absent" <=> t >= nextTicket'
          /\ Life'[t] = "serving" <=> t = cur'
          /\ Life'[t] = "waiting" <=> t \in LiveTickets' /\ t # cur'
      BY Zenon DEF LifeShape
    <2>2. Life'[t] \in {"absent", "waiting", "serving", "over"}
      BY <1>1, Zenon
    <2> QED
      BY <2>1, <2>2
  <1> QED
    BY <1>1, <1>2

\* The service and the client count alike.
LEMMA SameCardinality == \A S : Service!Cardinality(S) = Cardinality(S)
  BY Zenon DEF Service!Cardinality, Cardinality

\* Every step of the client is a step of the service or none.
LEMMA ServiceStep ==
    ASSUME QueueInv, QueueInv', LifeShape, LifeShape', Next
    PROVE  Service!Next \/ UNCHANGED Life
  <1> DEFINE stage == {"absent", "waiting", "serving", "over"}
             Retired(S) == [t \in Ticket |-> IF t \in S THEN "over" ELSE Life[t]]
  <1>1. /\ TypeInv /\ TypeInv' /\ CurInv /\ LineInv /\ BoundInv /\ PermitInv
        /\ Service!Requests = Ticket
    BY Zenon DEF QueueInv, Service!Requests, Ticket
  <1>2. /\ LiveTickets \subseteq Ticket /\ Cardinality(LiveTickets) \in Nat
        /\ \A S \in SUBSET Ticket : Cardinality(S) \in Nat
        /\ Ticket \subseteq Nat /\ NONE \notin Ticket /\ nextTicket \in Nat
        /\ outstanding \in Nat
    <2>1. nextTicket \in Nat
      BY <1>1, DeliveryAssumption DEF TypeInv, TypeOK
    <2> QED
      BY <1>1, <2>1, LiveFinite, QueueTypes DEF PermitInv
  <1>3. /\ cur \in LiveTickets \cup {NONE}
        /\ cur \notin QueuedTickets /\ Submitted # cur
    BY <1>1, OnePlace, PendingTicketsAre, Zenon
  <1>4. /\ Service!In("waiting") = LiveTickets \ {cur}
        /\ Service!In("serving") = {cur} \ {NONE}
        /\ Service!In("waiting") \cup Service!In("serving") = LiveTickets
    BY <1>2, <1>3, UnfinishedAre, Zenon
  <1>5. /\ Life \in [Ticket -> stage]
        /\ \A t \in Ticket :
              /\ Life[t] = "absent" <=> t >= nextTicket
              /\ Life[t] = "serving" <=> t = cur
              /\ Life[t] = "waiting" <=> t \in LiveTickets /\ t # cur
    BY Zenon DEF LifeShape
  <1>6. /\ nextTicket' = nextTicket \/ SubmitAdmit
        /\ cur' = cur \/ TakePending \/ TakeRing \/ Finish
    BY <1>1, StepNumbers, Zenon
  <1>7. ASSUME NEW S \in SUBSET (LiveTickets \ {cur}), LiveTickets' = LiveTickets \ S,
               cur' = cur, nextTicket' = nextTicket
        PROVE  Service!Next \/ UNCHANGED Life
    <2>1. Retired(S) \in [Ticket -> stage]
      BY <1>5, Zenon
    <2>2. ASSUME NEW t \in Ticket
          PROVE  /\ Retired(S)[t] = "absent" <=> t >= nextTicket'
                 /\ Retired(S)[t] = "serving" <=> t = cur'
                 /\ Retired(S)[t] = "waiting" <=> t \in LiveTickets' /\ t # cur'
      BY <1>5, <1>7
    <2>3. Life' = Retired(S)
      BY <2>1, <2>2, LifeBecomes, Zenon
    <2>4. S = {} => Life' = Life
      BY <1>5, <2>3
    <2>5. S # {} => Service!Retire(S)
      BY <1>1, <2>3, Zenon DEF Service!Retire
    <2> QED
      BY <1>4, <2>4, <2>5 DEF Service!Next
  <1>8. CASE SubmitAdmit
    <2>1. /\ nextTicket' = nextTicket + 1 /\ Submitted = nextTicket /\ nextTicket \in Ticket
          /\ outstanding < MaxOutstanding /\ outstanding' = outstanding + 1 /\ cur' = cur
      <3>1. cur' = cur
        BY <1>8, CallersKeepReader DEF OwnerStep
      <3>2. nextTicket \in Ticket
        BY <1>2, <1>8, DeliveryAssumption DEF SubmitAdmit, Ticket
      <3> QED
        BY <1>8, <3>1, <3>2, Zenon DEF SubmitAdmit, TryAdmit, Submitted
    <2>2. Starts
      <3>1. Travels \/ Starts \/ (\E t : Ends(t)) \/ \E S \in SUBSET QueuedTickets : Leave(S)
        BY <1>1, StepIsMove, LiveMove, Zenon
      <3>2. QueuedTickets \subseteq Ticket
        BY <1>1, PendingTicketsAre, RingTicketsAre, Zenon
      <3> QED
        BY <1>2, <2>1, <3>1, <3>2 DEF Travels, Ends, Leave
    <2> DEFINE f == [Life EXCEPT ![nextTicket] = "waiting"]
    <2>3. f \in [Ticket -> stage]
      BY <1>5, <2>1
    <2>4. ASSUME NEW t \in Ticket
          PROVE  /\ f[t] = "absent" <=> t >= nextTicket'
                 /\ f[t] = "serving" <=> t = cur'
                 /\ f[t] = "waiting" <=> t \in LiveTickets' /\ t # cur'
      <3>1. t >= nextTicket' <=> t >= nextTicket /\ t # nextTicket
        BY <1>2, <2>1
      <3>2. t \in LiveTickets' <=> t \in LiveTickets \/ t = nextTicket
        BY <2>1, <2>2, Zenon DEF Starts
      <3>3. cur # nextTicket
        BY <1>3, <2>1, Zenon
      <3> QED
        BY <1>5, <2>1, <3>1, <3>2, <3>3, ZenonT(30)
    <2>5. Life' = f
      <3> HIDE DEF f
      <3> QED
        BY <2>3, <2>4, LifeBecomes
    <2>6. Service!Arrive(nextTicket)
      <3>1. Cardinality(LiveTickets) < MaxOutstanding
        BY <1>1, <2>1 DEF PermitInv
      <3>2. \A u \in Ticket : u < nextTicket => Life[u] # "absent"
        BY <1>2, <1>5
      <3>3. Life[nextTicket] = "absent"
        BY <1>2, <1>5, <2>1
      <3> QED
        <4>1. Service!Cardinality(Service!In("waiting") \cup Service!In("serving"))
                 < MaxOutstanding
          BY <1>4, <3>1, SameCardinality
        <4>2. \A u \in Service!Requests : u < nextTicket => Life[u] # "absent"
          BY <1>1, <3>2, Zenon
        <4> QED
          BY <2>5, <3>3, <4>1, <4>2, Zenon DEF Service!Arrive
    <2> QED
      BY <1>1, <2>1, <2>6 DEF Service!Next
  <1>9. CASE nextTicket' = nextTicket
    <2>1. CASE Travels /\ cur' = cur
      BY <1>5, <1>7, <1>9, <2>1, Zenon DEF Travels
    <2>2. CASE Travels /\ (TakePending \/ TakeRing)
      <3>1. cur = NONE /\ cur' \in LiveTickets /\ \A t \in LiveTickets : cur' <= t
        BY <2>2, TakesOldest, Zenon
      <3>2. LiveTickets' = LiveTickets
        BY <2>2, Zenon DEF Travels
      <3>3. PICK n \in Ticket : n = cur'
        BY <1>2, <3>1, Zenon
      <3> DEFINE f == [Life EXCEPT ![n] = "serving"]
      <3>4. f \in [Ticket -> stage]
        BY <1>5, Zenon
      <3>5. ASSUME NEW t \in Ticket
            PROVE  /\ f[t] = "absent" <=> t >= nextTicket'
                   /\ f[t] = "serving" <=> t = cur'
                   /\ f[t] = "waiting" <=> t \in LiveTickets' /\ t # cur'
        <4>1. Life[n] = "waiting"
          BY <1>2, <1>5, <3>1, <3>3, ZenonT(30)
        <4> QED
          BY <1>2, <1>5, <1>9, <3>1, <3>2, <3>3, <4>1
      <3>6. Life' = f
        <4> HIDE DEF f
        <4> QED
          BY <3>4, <3>5, LifeBecomes
      <3>7. Service!Begin(n)
        <4>1. Life[n] = "waiting"
          BY <1>2, <1>5, <3>1, <3>3
        <4>2. Service!In("serving") = {} /\ \A u \in Service!In("waiting") : n <= u
          BY <1>4, <3>1, <3>3, ZenonT(30)
        <4> QED
          BY <3>6, <4>1, <4>2, ZenonT(30) DEF Service!Begin
      <3> QED
        BY <1>1, <3>7, Zenon DEF Service!Next
    <2>3. CASE Finish /\ Ends(cur)
      <3>1. cur \in Ticket /\ cur' = NONE /\ LiveTickets' = LiveTickets \ {cur}
        BY <1>2, <2>3, Zenon DEF Finish, Ends
      <3>2. PICK n \in Ticket : n = cur
        BY <3>1, Zenon
      <3> DEFINE f == [Life EXCEPT ![n] = "over"]
      <3>3. f \in [Ticket -> stage]
        BY <1>5, ZenonT(30)
      <3>4. ASSUME NEW t \in Ticket
            PROVE  /\ f[t] = "absent" <=> t >= nextTicket'
                   /\ f[t] = "serving" <=> t = cur'
                   /\ f[t] = "waiting" <=> t \in LiveTickets' /\ t # cur'
        BY <1>2, <1>5, <1>9, <3>1, <3>2
      <3>5. Life' = f
        <4> HIDE DEF f
        <4> QED
          BY <3>3, <3>4, LifeBecomes, ZenonT(30)
      <3>6. Service!End(n)
        BY <1>5, <3>2, <3>5 DEF Service!End
      <3> QED
        BY <1>1, <3>6 DEF Service!Next
    <2>4. CASE Refuse /\ Ends(Submitted)
      <3>1. Submitted \in LiveTickets \ {cur} /\ LiveTickets' = LiveTickets \ {Submitted}
            /\ cur' = cur
        BY <1>3, <2>4 DEF Refuse, Ends
      <3> QED
        BY <1>7, <1>9, <3>1, Zenon
    <2>5. ASSUME NEW i \in DOMAIN pending, Abort(i), Ends(pending[i])
          PROVE  Service!Next \/ UNCHANGED Life
      <3>1. pending[i] \in LiveTickets \ {cur} /\ LiveTickets' = LiveTickets \ {pending[i]}
            /\ cur' = cur
        BY <2>5 DEF Abort, Ends
      <3> QED
        BY <1>7, <1>9, <3>1, ZenonT(30)
    <2>6. ASSUME Exit, NEW S \in SUBSET QueuedTickets, Leave(S)
          PROVE  Service!Next \/ UNCHANGED Life
      <3>1. S \subseteq LiveTickets \ {cur} /\ LiveTickets' = LiveTickets \ S /\ cur' = cur
        BY <1>3, <2>6 DEF Exit, Leave
      <3> QED
        BY <1>7, <1>9, <3>1, ZenonT(30)
    <2>7. ~(Admit /\ Starts) \/ SubmitAdmit
      <3>1. nextTicket' \in Nat /\ (Admit => Submitted' = Submitted)
        <4>1. nextTicket' \in 0 .. MaxTickets
          BY <1>1, Zenon DEF TypeInv, TypeOK
        <4> QED
          BY <4>1, DeliveryAssumption DEF Admit
      <3>2. Admit => owner # "admitted" /\ owner' = "admitted"
        BY Zenon DEF Admit, Admitted
      <3> QED
        BY <1>2, <1>9, <3>1, <3>2 DEF Submitted
    <2>8. ~(Travels /\ Finish)
      BY <1>2 DEF Travels, Finish
    <2> QED
      <3>1. \/ Travels
            \/ Admit /\ Starts
            \/ Refuse /\ Ends(Submitted)
            \/ Finish /\ Ends(cur)
            \/ \E i \in DOMAIN pending : Abort(i) /\ Ends(pending[i])
            \/ Exit /\ \E S \in SUBSET QueuedTickets : Leave(S)
        BY <1>1, StepIsMove, LiveMove
      <3> QED
        BY <1>6, <1>8, <2>1, <2>2, <2>3, <2>4, <2>5, <2>6, <2>7, <2>8, <3>1, ZenonT(30)
  <1> QED
    BY <1>6, <1>8, <1>9

\* A client implements the abstract service: a bounded number of requests is
\* unfinished, they are served one at a time and in the order of submission,
\* and each ends once, whatever the ring, the displaced queue, the cancels and
\* the shutdown do to it on the way.
THEOREM ClientIsService == Spec => ImplementsService
  <1>1. Init => Service!Init
    <2> SUFFICES ASSUME Init PROVE Service!Init
      BY Zenon
    <2>1. LifeShape /\ nextTicket = 0
      BY InitQueue, LifeIs, Zenon DEF Init
    <2>2. Service!Requests = Ticket /\ \A t \in Ticket : t >= nextTicket
      BY <2>1, DeliveryAssumption DEF Service!Requests, Ticket
    <2> QED
      BY <2>1, <2>2, Zenon DEF LifeShape, Service!Init
  <1>2. QueueInv' => LifeShape'
    BY LifeIs, PTL
  <1>3. QueueInv /\ QueueInv' /\ [Next]_vars => [Service!Next]_Life
    <2> SUFFICES ASSUME QueueInv, QueueInv', [Next]_vars PROVE [Service!Next]_Life
      OBVIOUS
    <2>1. CASE Next
      BY <1>2, <2>1, LifeIs, ServiceStep, ZenonT(30)
    <2>2. CASE UNCHANGED vars
      <3>1. UNCHANGED <<ring, pending, cur, owner, nextTicket>>
        BY <2>2, Zenon DEF vars
      <3> QED
        BY <3>1 DEF Life, LiveTickets, QueuedTickets
    <2> QED
      BY <2>1, <2>2, Zenon
  <1> QED
    BY <1>1, <1>3, QueueInvariant, PTL DEF Spec, ImplementsService, Service!Spec

=============================================================================
