---------------------------- MODULE AnswerProofs ----------------------------
(***************************************************************************)
(* What a caller of an AsyncClient is shown, for every value of the        *)
(* constants: every stream has its shape and a reason when it closes early *)
(* (StreamShape), and there is a cancel behind every Aborted               *)
(* (AbortedOnlyIfAsked).                                                   *)
(***************************************************************************)
EXTENDS StreamProofs

\* What the provers may take for a leaf.
USE SMTT(30), ZenonT(30)

\* Wherever an untargeted cancel is, one was asked for.
AnyInv ==
    /\ cancelAny = TRUE => AnyAsked
    /\ AnyAt # {} => AnyAsked
    /\ owner = "cancelling" => AnyAsked
    /\ owner \in {"dropping", "joining", "dropped"} => shuttingDown = TRUE

\* The reader is before the head of the response, or is offering it.
BeforeHead ==
    \/ rpc \in {"reset", "clean", "begin", "redial"}
    \/ rpc \in {"poll", "io"} /\ site \in {"dispatch", "write", "retry", "head"}
    \/ rpc = "send" /\ out = "Head"

\* The reader has a response to read, or its head to offer.
AtAnswer == (rpc \in {"poll", "io"} /\ site = "head") \/ (rpc = "send" /\ out = "Head")

\* The reader is past the head, and not at an error.
AfterHead ==
    \/ rpc \in {"body", "drain"}
    \/ rpc \in {"poll", "io"} /\ site \in {"body", "drain"}
    \/ rpc = "send" /\ out \in {"Body", "Eof"}

\* The stream of the request being served, by the stage the reader is at.
StageInv ==
    /\ BeforeHead => sent[cur] = <<>>
    /\ AtAnswer => written[cur] > 0
    /\ AfterHead => sent[cur] # <<>>
    /\ rpc \in Serving \ {"finish"} => ~Ended(cur)
    /\ rpc = "finish" => Ended(cur) \/ Cause(cur)

ShapeInv ==
    \A t \in Ticket :
        /\ Shaped(t)
        /\ (handle[t] # "none" /\ open[t] = FALSE /\ ~Ended(t)) => Cause(t)

\* The poll has found a cancel for the request being served.
Hit == (rpc = "poll" /\ hit = TRUE) \/ (rpc = "send" /\ out = "Aborted")

\* Every ticketed cancel was made by the holder of that ticket's handle, and
\* whoever is aborted, or about to be, was asked for.
AskedInv ==
    /\ \A t \in Ticket : CancelPosted(t) \/ handle[t] = "cancelling" => cancelled[t] = TRUE
    /\ Hit => cancelled[cur] = TRUE \/ AnyAsked
    /\ \A t \in Ticket : Aborted(t) => cancelled[t] = TRUE \/ CANCEL_ANY \in targets

Unasked == {t \in Ticket : Aborted(t) /\ cancelled[t] = FALSE}

\* The request being served is about to be aborted by an untargeted cancel.
Asking == IF Hit /\ cancelled[cur] = FALSE THEN 1 ELSE 0

\* Each untargeted cancel is in one place: not pushed yet, in the ring, found
\* by the poll, or spent on one request.
CountInv ==
    /\ Cardinality(Unasked) <= cancels
    /\ shuttingDown = FALSE =>
          Cardinality(Unasked) + Asking + Cardinality(AnyAt)
              + (IF owner = "cancelling" THEN 1 ELSE 0) <= cancels

-----------------------------------------------------------------------------

\* An untargeted cancel is where it is because one was asked for: the flag,
\* the message, and the wakeup of a drop.
LEMMA AnyStep ==
    ASSUME StreamInv, AnyInv, Next
    PROVE  AnyInv'
  <1>1. QueueInv /\ TypeInv /\ cancelAny \in BOOLEAN
    BY DEF StreamInv, QueueInv, TypeInv, TypeOK
  <1>2. AnyAsked => AnyAsked'
    BY Latches, Zenon
  <1>3. AnyAt' # {} => AnyAsked'
    <2>1. SUFFICES ASSUME AnyAt' # {} PROVE AnyAsked
      BY <1>2, Zenon
    <2>2. CANCEL_ANY \in 0 .. MaxTickets /\ CANCEL_ANY \notin Ticket
      BY DeliveryAssumption DEF CANCEL_ANY, Ticket
    <2>3. \E j \in DOMAIN ring' : ring'[j] = Cancel(CANCEL_ANY)
      BY <2>1, Zenon DEF AnyAt, CANCEL_ANY
    <2>4. AnyAt # {} \/ owner \in {"cancelling", "dropping"}
      BY <1>1, <2>2, <2>3, CancelsAppear, ZenonT(30) DEF AnyAt
    <2> QED
      BY <2>4 DEF AnyInv, AnyAsked
  <1>4. cancelAny' = TRUE => AnyAsked'
    <2>1. \/ cancelAny' = cancelAny \/ cancelAny' = FALSE \/ CancelAnyFlag
          \/ PollCancelMsg
      BY ZenonT(30) DEF Next, OwnerStep, SubmitAdmit, SubmitPush, CancelAnyPush, DropFlag,
         DropWake, DropJoin, HolderStep, HandleCancelFlag, HandleCancelPush, HandleRead,
         HandleDrop, ReaderRuns, ReaderStep, NextPending, PopBlock, PollRequestMsg, PollReturn,
         Serve, ResetCancelAny, EnsureClean, BeginExchange, WriteRequest, ReadHead, OfferHead,
         Redial, StreamSuccess, DrainErrorBody, Deliver, FinishRequest, ExitReader, callerSide,
         flagVars
    <2>2. CASE PollCancelMsg
      <3>1. ring # <<>> /\ Head(ring).kind = "Cancel" /\ ring \in Seq(Message)
        BY <1>1, <2>2, QueueTypes DEF PollCancelMsg
      <3>2. 1 \in DOMAIN ring /\ Head(ring) = ring[1] /\ Head(ring) \in Message
        <4> DEFINE m == Message
        <4>1. ring \in Seq(m)
          BY <3>1
        <4> HIDE DEF m
        <4>2. 1 \in DOMAIN ring /\ Head(ring) = ring[1] /\ Head(ring) \in m
          BY <3>1, <4>1, TailFacts
        <4> QED
          BY <4>2, Zenon DEF m
      <3>3. Head(ring).ticket = CANCEL_ANY => AnyAt # {}
        BY <3>1, <3>2 DEF AnyAt, Cancel, Message
      <3>4. cancelAny' = (cancelAny \/ Head(ring).ticket = CANCEL_ANY)
        BY <2>2, Zenon DEF PollCancelMsg
      <3>5. cancelAny' = TRUE => cancelAny = TRUE \/ Head(ring).ticket = CANCEL_ANY
        BY <1>1, <3>4
      <3> QED
        BY <1>2, <3>3, <3>5, Zenon DEF AnyInv
    <2>3. CASE CancelAnyFlag
      BY <2>3, ZenonT(30) DEF CancelAnyFlag, AnyAsked, CANCEL_ANY
    <2> QED
      BY <1>2, <2>1, <2>2, <2>3, ZenonT(30) DEF AnyInv
  <1>5. /\ owner' = "cancelling" => AnyAsked'
        /\ owner' \in {"dropping", "joining", "dropped"} => shuttingDown' = TRUE
    <2>1. \/ owner' = owner \/ owner' \in {"idle", "admitted"}
          \/ CancelAnyFlag
          \/ DropFlag
          \/ owner = "dropping" /\ owner' = "joining"
          \/ owner = "joining" /\ owner' = "dropped"
      BY Zenon DEF Next, OwnerStep, SubmitAdmit, SubmitPush, CancelAnyPush, DropWake,
             DropJoin, HolderStep, HandleCancelFlag, HandleCancelPush, ReaderRuns, ownerVars
    <2>2. CancelAnyFlag => AnyAsked' /\ owner' = "cancelling"
      BY DEF CancelAnyFlag, AnyAsked, CANCEL_ANY
    <2>3. DropFlag => shuttingDown' = TRUE /\ owner' = "dropping"
      BY Zenon DEF DropFlag
    <2> QED
      BY <1>2, <2>1, <2>2, <2>3, Latches, ZenonT(30) DEF AnyInv
  <1> QED
    BY <1>3, <1>4, <1>5 DEF AnyInv

-----------------------------------------------------------------------------

\* Each stage of an exchange hands the next one the stream it expects: nothing
\* before the head, no terminator before the end, and a terminator or a reason
\* at the end.
LEMMA StageStep ==
    ASSUME StreamInv, StreamInv', AnyInv, StageInv, Next
    PROVE  StageInv'
  <1>1. /\ TypeInv /\ TypeInv' /\ FreshInv' /\ rpc \in ReaderPc /\ rpc' \in ReaderPc
        /\ rpc \in Serving => cur \in Ticket
        /\ rpc' = "reset" => cur' \in Ticket
    BY QueueTypes, Zenon DEF StreamInv, QueueInv, TypeInv, TypeOK, Control, Serving, ReaderPc
  <1> DEFINE E == Ended(cur)
             N == sent[cur] = <<>>
             W == written[cur] > 0
             C == Cause(cur)
  <1>2. sent' = sent /\ cur' = cur => E' = E /\ N' = N
    BY Zenon DEF Ended
  <1>3. cur' = cur /\ cur \in Ticket => (W => W') /\ (C => C')
    BY <1>1, WrittenLasts, Latches, Zenon DEF Cause, AnyAsked
  <1>4. N => ~E
    BY DEF Ended
  <1>5. /\ BeforeHead => N
        /\ AtAnswer => W
        /\ AfterHead => ~N
        /\ rpc \in Serving \ {"finish"} => ~E
        /\ rpc = "finish" => E \/ C
    BY Zenon DEF StageInv
  <1> SUFFICES /\ BeforeHead' => N'
               /\ AtAnswer' => W'
               /\ AfterHead' => ~N'
               /\ rpc' \in Serving \ {"finish"} => ~E'
               /\ rpc' = "finish" => E' \/ C'
    BY Zenon DEF StageInv
  <1> HIDE DEF N, W, C, E
  <1>6. CASE rpc' = "reset"
    <2>1. sent'[cur'] = <<>>
      BY <1>1, <1>6 DEF FreshInv, Waiting
    <2>2. N' /\ ~E'
      BY <2>1 DEF N, E, Ended
    <2> QED
      BY <1>6, <2>2, ZenonT(30) DEF BeforeHead, AtAnswer, AfterHead
  <1>7. CASE rpc' \notin Serving
    BY <1>1, <1>7 DEF BeforeHead, AtAnswer, AfterHead, Serving, ReaderPc
  <1>8. CASE OwnerStep \/ \E t \in Holders : HolderStep(t)
    <2>1. UNCHANGED <<rpc, site, cur, out>>
      BY <1>8, CallersKeepReader
    <2>2. sent' = sent
      BY <1>8, Zenon DEF OwnerStep, SubmitAdmit, SubmitPush, CancelAnyFlag, CancelAnyPush,
         DropFlag,
                  DropWake, DropJoin, HolderStep, HandleCancelFlag, HandleCancelPush,
                  HandleRead, HandleDrop, streamVars
    <2>3. rpc \notin Serving \/ (E' = E /\ N' = N /\ (W => W') /\ (C => C'))
      BY <1>1, <1>2, <1>3, <2>1, <2>2
    <2> QED
      BY <1>1, <1>5, <1>7, <2>1, <2>3 DEF BeforeHead, AtAnswer, AfterHead
  <1> USE DEF BeforeHead, AtAnswer, AfterHead, Serving, StartPoll, StartSend, Goto
  <1>9. CASE Serve
    BY <1>1, <1>2, <1>3, <1>4, <1>5, <1>9 DEF Serve, ResetCancelAny, streamVars
  <1>10. CASE EnsureClean \/ Redial
    BY <1>1, <1>2, <1>3, <1>4, <1>5, <1>10 DEF EnsureClean, Redial, callerSide, streamVars
  <1>11. CASE BeginExchange
    BY <1>1, <1>2, <1>3, <1>4, <1>5, <1>11 DEF BeginExchange, callerSide, streamVars
  <1>12. CASE WriteRequest
    <2>1. W'
      BY <1>1, <1>12 DEF WriteRequest, Io, OnWire, W, callerSide, TypeInv, TypeOK
    <2> QED
      BY <1>1, <1>2, <1>3, <1>4, <1>5, <1>12, <2>1 DEF WriteRequest, Io, Stall, Progress,
                                                       Broken, callerSide, streamVars
  <1>13. CASE ReadHead
    BY <1>1, <1>2, <1>3, <1>4, <1>5, <1>13 DEF ReadHead, OfferHead, Io, Stall, Progress, Broken,
                                               callerSide, streamVars
  <1>14. CASE StreamSuccess
    BY <1>1, <1>2, <1>3, <1>4, <1>5, <1>14 DEF StreamSuccess, Io, Stall, Progress, BodyWait,
                                               callerSide, streamVars
  <1>15. CASE DrainErrorBody
    BY <1>1, <1>2, <1>3, <1>4, <1>5, <1>15 DEF DrainErrorBody, Io, Stall, Progress, BodyWait,
                                               callerSide, streamVars
  <1>16. CASE Deliver
    <2>1. cur \in Ticket /\ cur' = cur /\ rpc = "send" /\ out \in Chunk
      BY <1>1, <1>16 DEF Deliver, TypeInv, Control
    <2>2. CASE BlockedReason(cur, out \notin Terminator)
      <3>1. C
        <4>1. \/ shuttingDown = TRUE \/ cancelled[cur] = TRUE \/ cancelAny = TRUE
              \/ handle[cur] = "dropped"
          <5>1. shuttingDown \in BOOLEAN /\ cancelAny \in BOOLEAN /\ cancelled[cur] \in BOOLEAN
            BY <1>1, <2>1 DEF TypeInv, TypeOK
          <5> QED
            BY <2>2, <5>1 DEF BlockedReason, ConsumerAlive
        <4> QED
          BY <4>1 DEF C, Cause, AnyAsked, AnyInv
      <3>2. rpc' = "finish"
        BY <1>16, <2>2, ZenonT(30) DEF Deliver
      <3> QED
        BY <1>3, <2>1, <3>1, <3>2
    <2>3. CASE ~BlockedReason(cur, out \notin Terminator)
      <3>1. sent' = Pushed(cur, out) /\ sent \in [Ticket -> Seq(Chunk)]
        BY <1>1, <1>16, <2>3, ZenonT(30) DEF Deliver, TypeInv, TypeOK
      <3>2. sent'[cur] # <<>> /\ (Ended(cur)' <=> Ended(cur) \/ out \in Terminator)
        BY <2>1, <3>1, PushShows, ZenonT(30) DEF Ended
      <3>3. ~N' /\ (E' <=> E \/ out \in Terminator)
        BY <2>1, <3>2 DEF N, E, Ended
      <3>4. \/ out \in Terminator /\ rpc' = "finish"
            \/ out \notin Terminator /\ (rpc' \in {"body", "drain"} \/ (rpc' = "send" /\ out' = "Eof"))
        BY <1>16, <2>1, <2>3, Zenon DEF Deliver, Chunk, Terminator
      <3>5. ~E
        BY <1>5, <2>1 DEF ReaderPc
      <3> QED
        BY <3>3, <3>4, <3>5
    <2> QED
      BY <2>2, <2>3
  <1>17. CASE PollCancelMsg \/ PollRequestMsg
    <2>1. rpc = "poll" /\ UNCHANGED <<rpc, site, cur, out>> /\ cur \in Ticket
      BY <1>1, <1>17 DEF PollCancelMsg, PollRequestMsg
    <2>2. sent'[cur] = sent[cur]
      <3>1. sent' = sent \/ \E i \in DOMAIN pending : Abort(i) /\ sent' = Pushed(pending[i], "Aborted")
        BY <1>1, <2>1, PushesAre, ZenonT(30)
      <3>2. \A i \in DOMAIN pending : pending[i] \in Ticket
        BY <1>1, LineTypes, Zenon
      <3> QED
        BY <1>1, <2>1, <3>1, <3>2, ZenonT(30) DEF Pushed, Abort, TypeInv, TypeOK
    <2>3. E' = E /\ N' = N
      BY <2>1, <2>2 DEF N, E, Ended
    <2> QED
      BY <1>3, <1>5, <2>1, <2>3
  <1>18. CASE PollReturn
    BY <1>1, <1>2, <1>3, <1>4, <1>5, <1>18 DEF PollReturn, PollAnswer, streamVars
  <1>19. CASE NextPending \/ PopBlock \/ FinishRequest \/ ExitReader
    BY <1>6, <1>7, <1>19 DEF NextPending, PopBlock, FinishRequest, ExitReader
  <1> QED
    BY <1>8, <1>9, <1>10, <1>11, <1>12, <1>13, <1>14, <1>15, <1>16, <1>17, <1>18, <1>19, Zenon
       DEF Next, ReaderRuns, ReaderStep

\* No step breaks the shape of a stream, or closes one without a terminator
\* and without a reason.
LEMMA ShapeStep ==
    ASSUME StreamInv, StreamInv', AnyInv, StageInv, ShapeInv, Next
    PROVE  ShapeInv'
  <1> SUFFICES ASSUME NEW t \in Ticket
               PROVE  /\ Shaped(t)'
                      /\ (handle'[t] # "none" /\ open'[t] = FALSE /\ ~Ended(t)') => Cause(t)'
    BY Zenon DEF ShapeInv
  <1>1. /\ TypeInv /\ FreshInv /\ sent \in [Ticket -> Seq(Chunk)]
        /\ rpc \in Serving => cur \in Ticket
        /\ open \in [Ticket -> BOOLEAN]
    BY QueueTypes, ZenonT(30) DEF StreamInv, QueueInv, TypeInv, TypeOK
  <1>2. /\ Shaped(t)
        /\ (handle[t] # "none" /\ open[t] = FALSE /\ ~Ended(t)) => Cause(t)
        /\ written[t] > 0 => written'[t] > 0
        /\ Cause(t) => Cause(t)'
    BY <1>1, WrittenLasts, Latches, ZenonT(30) DEF ShapeInv
  <1>3. sent'[t] = sent[t] => Shaped(t)' /\ (Ended(t)' <=> Ended(t))
    BY <1>2, ZenonT(30) DEF ShapeInv, Shaped, Ended
  <1>4. ASSUME NEW i \in DOMAIN pending, Abort(i), t = pending[i]
        PROVE  sent[t] = <<>> /\ ~Ended(t)
    <2>1. t \in Waiting
      BY <1>1, <1>4, PendingTicketsAre, ZenonT(30) DEF Waiting
    <2> QED
      BY <1>1, <2>1 DEF FreshInv, Ended
  <1>5. ASSUME NEW i \in DOMAIN pending, Abort(i), t = pending[i],
               sent' = Pushed(pending[i], "Aborted")
        PROVE  Shaped(t)' /\ Ended(t)'
    BY <1>1, <1>2, <1>4, <1>5, PushShows, Zenon DEF Chunk, Terminator, ShapeInv
  <1>6. ASSUME rpc = "send", t = cur, sent' = Pushed(cur, out)
        PROVE  Shaped(t)' /\ (Ended(t) => Ended(t)')
    <2>1. /\ out \in Chunk /\ ~Ended(t)
          /\ out = "Head" => sent[t] = <<>> /\ written[t] > 0
          /\ out \in {"Body", "Eof"} => sent[t] # <<>>
      BY <1>1, <1>6, ZenonT(30) DEF StageInv, BeforeHead, AtAnswer, AfterHead, TypeInv, Control,
         Serving,
                        ReaderPc
    <2> QED
      BY <1>1, <1>2, <1>6, <2>1, PushShows, ZenonT(30)
  <1>7. Shaped(t)' /\ (Ended(t) => Ended(t)')
    <2>1. CASE sent' = sent
      BY <1>3, <2>1, Zenon
    <2>2. CASE rpc = "send" /\ sent' = Pushed(cur, out)
      BY <1>1, <1>3, <1>6, <2>2 DEF Pushed
    <2>3. ASSUME NEW i \in DOMAIN pending, Abort(i), sent' = Pushed(pending[i], "Aborted")
          PROVE  Shaped(t)' /\ (Ended(t) => Ended(t)')
      <3>1. t # pending[i] => sent'[t] = sent[t]
        BY <1>1, <2>3 DEF Pushed
      <3> QED
        BY <1>3, <1>5, <2>3, <3>1, ZenonT(30)
    <2> QED
      BY <1>1, <2>1, <2>2, <2>3, PushesAre, Zenon
  <1>8. ASSUME handle'[t] # "none", open'[t] = FALSE, ~Ended(t)'
        PROVE  Cause(t)'
    <2>1. handle[t] # "none"
      BY <1>8, HandleComesOpen, ZenonT(30)
    <2>2. CASE open[t] = FALSE
      BY <1>2, <1>7, <1>8, <2>1, <2>2 DEF ShapeInv
    <2>3. CASE open[t] = TRUE
      <3>1. CASE t = cur /\ rpc = "finish"
        BY <1>2, <1>7, <1>8, <3>1, ZenonT(30) DEF StageInv
      <3>2. CASE shuttingDown = TRUE
        BY <1>2, <3>2 DEF Cause, AnyAsked
      <3>3. ASSUME NEW i \in DOMAIN pending, Abort(i), t = pending[i] PROVE Cause(t)'
        <4>1. BlockedReason(t, FALSE)
          BY <1>5, <1>8, <3>3, ZenonT(30) DEF Abort
        <4>2. shuttingDown = TRUE \/ handle[t] = "dropped"
          BY <1>1, <4>1, Zenon DEF BlockedReason, ConsumerAlive, TypeInv, TypeOK
        <4> QED
          BY <1>2, <4>2, Zenon DEF Cause, AnyAsked
      <3> QED
        BY <1>8, <2>3, <3>1, <3>2, <3>3, StreamsClose, ZenonT(30)
    <2> QED
      BY <1>1, <2>2, <2>3, Zenon
  <1> QED
    BY <1>7, <1>8, ZenonT(30)

-----------------------------------------------------------------------------

\* The poll takes an untargeted cancel from the ring.
TakesAny ==
    /\ rpc = "poll" /\ ring # <<>>
    /\ Head(ring) = Cancel(CANCEL_ANY) /\ ring' = Tail(ring)

\* A poll comes to a hit, and a reader to Aborted, by a cancel of the request
\* being served, by an untargeted one, or by the drop of the client.
LEMMA HitsAre ==
    ASSUME StreamInv, Next, Hit'
    PROVE  cur' = cur /\ cur \in Ticket
           /\ (Hit \/ shuttingDown = TRUE \/ CancelPosted(cur) \/ TakesAny)
  <1>1. /\ TypeInv /\ hit \in BOOLEAN /\ shuttingDown \in BOOLEAN
        /\ rpc \in Serving => cur \in Ticket
    BY QueueTypes, Zenon DEF StreamInv, QueueInv, TypeInv, TypeOK
  <1>2. CASE OwnerStep \/ \E t \in Holders : HolderStep(t)
    <2>1. UNCHANGED <<rpc, site, hit, out, cur>>
      BY <1>2, CallersKeepReader, Zenon DEF OwnerStep, HolderStep, SubmitAdmit, SubmitPush,
            CancelAnyFlag, CancelAnyPush, DropFlag, DropWake, DropJoin, HandleCancelFlag,
            HandleCancelPush, readerVars
    <2> QED
      BY <1>1, <2>1 DEF Hit, Serving, ReaderPc
  <1>3. CASE PollCancelMsg
    <2>1. /\ rpc = "poll" /\ cur' = cur /\ ring # <<>> /\ Head(ring).kind = "Cancel"
          /\ ring' = Tail(ring)
          /\ hit' = hit \/ Head(ring).ticket \in {CANCEL_ANY, cur}
      BY <1>3 DEF PollCancelMsg
    <2>2. Head(ring) = Cancel(Head(ring).ticket)
      BY <1>1, <2>1, HeadIsPosted DEF Cancel, Message
    <2>3. Head(ring).ticket = CANCEL_ANY => TakesAny
      BY <2>1, <2>2 DEF TakesAny
    <2>4. Head(ring).ticket = cur => CancelPosted(cur)
      BY <1>1, <2>1, <2>2, HeadIsPosted
    <2>5. hit' = hit => Hit
      BY <1>3, <2>1 DEF Hit, PollCancelMsg
    <2>6. cur \in Ticket
      BY <1>1, <2>1 DEF Serving, ReaderPc
    <2> QED
      BY <2>1, <2>3, <2>4, <2>5, <2>6, Zenon
  <1>4. CASE PollRequestMsg
    BY <1>1, <1>4 DEF PollRequestMsg, Hit, Serving, ReaderPc
  <1>5. CASE PollReturn
    <2>1. rpc = "poll" /\ cur' = cur /\ (shuttingDown \/ PollAnswer(hit))
      BY <1>5, Zenon DEF PollReturn
    <2>2. PollAnswer(hit) => hit = TRUE
      BY <1>1, Zenon DEF PollAnswer, Goto, Hit
    <2> QED
      BY <1>1, <2>1, <2>2, Zenon DEF Hit, Serving, ReaderPc
  <1>6. CASE NextPending \/ PopBlock \/ FinishRequest \/ ExitReader
    BY <1>6 DEF NextPending, PopBlock, FinishRequest, ExitReader, Goto, Hit
  <1>7. CASE Serve \/ EnsureClean \/ BeginExchange \/ Redial
    BY <1>7, ZenonT(30) DEF Serve, ResetCancelAny, EnsureClean, BeginExchange, Redial,
       StartPoll, StartSend,
                Goto, Hit
  <1>8. CASE WriteRequest \/ ReadHead
    BY <1>8 DEF WriteRequest, ReadHead, OfferHead, Stall, Progress, Broken, StartPoll,
                StartSend, Hit
  <1>9. CASE StreamSuccess \/ DrainErrorBody
    BY <1>9 DEF StreamSuccess, DrainErrorBody, BodyWait, Stall, Progress, StartPoll, StartSend,
                Hit
  <1>10. CASE Deliver
    <2>1. out \in Chunk
      BY <1>1, <1>10 DEF Deliver, TypeInv, Control
    <2>2. rpc' \in {"finish", "body", "drain"} \/ (rpc' = "send" /\ out' = "Eof")
      BY <1>10, <2>1, ZenonT(30) DEF Deliver, Goto, StartSend, Chunk, Terminator
    <2> QED
      BY <2>2 DEF Hit
  <1> QED
    BY <1>2, <1>3, <1>4, <1>5, <1>6, <1>7, <1>8, <1>9, <1>10, ZenonT(30)
       DEF Next, ReaderRuns, ReaderStep

\* Whoever is aborted, or about to be, was asked for.
LEMMA AskedStep ==
    ASSUME StreamInv, AnyInv, AskedInv, Next
    PROVE  AskedInv'
  <1>1. /\ QueueInv /\ TypeInv /\ sent \in [Ticket -> Seq(Chunk)]
        /\ handle \in [Ticket -> HandleState] /\ cancelled \in [Ticket -> BOOLEAN]
        /\ rpc \in Serving => cur \in Ticket
    <2>1. QueueInv /\ TypeInv
      BY Zenon DEF StreamInv, QueueInv
    <2>2. /\ sent \in [Ticket -> Seq(Chunk)] /\ handle \in [Ticket -> HandleState]
          /\ cancelled \in [Ticket -> BOOLEAN]
      BY <2>1, ZenonT(30) DEF TypeInv, TypeOK
    <2> QED
      BY <2>1, <2>2, QueueTypes, Zenon
  <1>2. /\ targets \subseteq targets' /\ (AnyAsked => AnyAsked')
        /\ \A t \in Ticket : cancelled[t] = TRUE => cancelled'[t] = TRUE
    BY Latches, Zenon
  <1>3. ASSUME NEW t \in Ticket, CancelPosted(t)' PROVE cancelled'[t] = TRUE
    <2>1. t \in 0 .. MaxTickets /\ t # CANCEL_ANY
      BY DeliveryAssumption DEF Ticket, CANCEL_ANY
    <2>2. CancelPosted(t) \/ handle[t] = "cancelling"
      BY <1>1, <1>3, <2>1, CancelsAppear DEF CancelPosted
    <2> QED
      BY <1>2, <2>2 DEF AskedInv
  <1>4. ASSUME NEW t \in Ticket, handle'[t] = "cancelling" PROVE cancelled'[t] = TRUE
    <2>1. CASE SubmitPush
      <3>1. handle' = handle \/ handle' = [handle EXCEPT ![nextTicket - 1] = "held"]
        BY <2>1 DEF SubmitPush
      <3>2. handle[t] = "cancelling"
        BY <1>1, <1>4, <3>1
      <3> QED
        BY <1>2, <3>2, ZenonT(30) DEF AskedInv
    <2>2. ASSUME NEW u \in Holders, HolderStep(u) PROVE cancelled'[t] = TRUE
      <3>1. \/ HandleCancelFlag(u)
            \/ handle' = handle
            \/ \E x \in {"held", "dropped"} : handle' = [handle EXCEPT ![u] = x]
        BY <2>2 DEF HolderStep, HandleCancelPush, HandleRead, HandleDrop
      <3>2. CASE HandleCancelFlag(u) /\ t = u
        BY <1>1, <3>2 DEF HandleCancelFlag
      <3>3. CASE handle[t] = "cancelling"
        BY <1>2, <3>3 DEF AskedInv
      <3> QED
        BY <1>1, <1>4, <3>1, <3>2, <3>3, ZenonT(30) DEF HandleCancelFlag
    <2>3. CASE (OwnerStep /\ ~SubmitPush) \/ ReaderRuns
      <3>1. handle' = handle
        BY <2>3, ZenonT(30) DEF OwnerStep, SubmitAdmit, CancelAnyFlag, CancelAnyPush, DropFlag,
           DropWake, DropJoin, ReaderRuns, ReaderStep, NextPending, PopBlock, PollCancelMsg,
           PollRequestMsg, PollReturn, Serve, ResetCancelAny, EnsureClean, BeginExchange,
           WriteRequest, ReadHead, OfferHead, Redial, StreamSuccess, DrainErrorBody, Deliver,
           FinishRequest, ExitReader, callerSide
      <3> QED
        BY <1>2, <1>4, <3>1 DEF AskedInv
    <2> QED
      BY <2>1, <2>2, <2>3, Zenon DEF Next
  <1>5. Hit' => cancelled'[cur'] = TRUE \/ AnyAsked'
    <2> SUFFICES ASSUME Hit' PROVE cancelled'[cur'] = TRUE \/ AnyAsked'
      BY Zenon
    <2>1. /\ cur' = cur /\ cur \in Ticket
          /\ Hit \/ shuttingDown = TRUE \/ CancelPosted(cur) \/ TakesAny
      BY HitsAre, Zenon
    <2>2. TakesAny => AnyAsked
      BY <1>1, HeadIsPosted DEF TakesAny, AnyInv
    <2> QED
      BY <1>2, <2>1, <2>2 DEF AskedInv, AnyAsked
  <1>6. ASSUME NEW t \in Ticket, Aborted(t)'
        PROVE  cancelled'[t] = TRUE \/ CANCEL_ANY \in targets'
    <2>1. sent'[t] = sent[t] => Aborted(t)
      BY <1>6 DEF Aborted
    <2>2. CASE Aborted(t)
      BY <1>2, <2>2 DEF AskedInv
    <2>3. CASE ~Aborted(t) /\ rpc = "send" /\ sent' = Pushed(cur, out)
               /\ ~BlockedReason(cur, out \notin Terminator)
      <3>1. cur \in Ticket /\ out \in Chunk
        BY <1>1, <2>3, ZenonT(30) DEF Serving, ReaderPc, TypeInv, Control
      <3>2. t = cur /\ out = "Aborted"
        BY <1>1, <1>6, <2>1, <2>3, <3>1, PushShows
      <3>3. ~shuttingDown
        BY <2>3 DEF BlockedReason
      <3> QED
        BY <1>2, <2>3, <3>2, <3>3 DEF AskedInv, Hit, AnyAsked
    <2>4. ASSUME NEW i \in DOMAIN pending, Abort(i), sent' = Pushed(pending[i], "Aborted"),
                 ~Aborted(t)
          PROVE  cancelled'[t] = TRUE
      <3>1. pending[i] \in Ticket
        BY <1>1, LineTypes
      <3>2. t = pending[i]
        BY <1>1, <2>1, <2>4, <3>1, PushShows, ZenonT(30) DEF Chunk
      <3>3. CancelPosted(t)
        BY <1>1, <2>4, <3>2, HeadIsPosted DEF Abort
      <3> QED
        BY <1>2, <3>3 DEF AskedInv
    <2> QED
      BY <1>1, <2>1, <2>2, <2>3, <2>4, PushesAre, ZenonT(30)
  <1> QED
    BY <1>3, <1>4, <1>5, <1>6, Zenon DEF AskedInv

\* A request joins those aborted unasked only from the reader's hands, by the
\* delivery that an untargeted cancel had brought about.
LEMMA UnaskedMove ==
    ASSUME StreamInv, AskedInv, Next
    PROVE  \/ Unasked' \subseteq Unasked
           \/ /\ Unasked' \subseteq Unasked \cup {cur} /\ shuttingDown = FALSE
              /\ Asking = 1 /\ Deliver /\ Asking' = 0
  <1>1. /\ TypeInv /\ sent \in [Ticket -> Seq(Chunk)] /\ cancelled \in [Ticket -> BOOLEAN]
        /\ rpc \in Serving => cur \in Ticket
        /\ shuttingDown \in BOOLEAN
    BY QueueTypes, ZenonT(30) DEF StreamInv, QueueInv, TypeInv, TypeOK
  <1>2. \A t \in Ticket : cancelled[t] = TRUE => cancelled'[t] = TRUE
    BY Latches, ZenonT(30)
  <1>3. ASSUME NEW t \in Unasked' PROVE t \in Ticket /\ Aborted(t)' /\ cancelled[t] = FALSE
    BY <1>1, <1>2, <1>3 DEF Unasked
  <1>4. CASE sent' = sent
    <2>1. \A t : Aborted(t)' => Aborted(t)
      BY <1>4 DEF Aborted
    <2> QED
      BY <1>3, <2>1, ZenonT(30) DEF Unasked
  <1>5. CASE Deliver /\ rpc = "send" /\ ~BlockedReason(cur, out \notin Terminator)
             /\ sent' = Pushed(cur, out)
    <2>1. cur \in Ticket /\ out \in Chunk
      BY <1>1, <1>5 DEF Serving, ReaderPc, TypeInv, Control
    <2>2. \A u \in Ticket : u # cur => sent'[u] = sent[u]
      BY <1>1, <1>5, <2>1, PushShows, Zenon
    <2>3. ASSUME NEW t \in Unasked'
          PROVE  t \in Unasked \/ (t = cur /\ out = "Aborted" /\ cancelled[cur] = FALSE)
      <3>1. t \in Ticket /\ Aborted(t)' /\ cancelled[t] = FALSE
        BY <1>3, Zenon
      <3>2. CASE t # cur
        <4>1. Aborted(t)
          BY <2>2, <3>1, <3>2, Zenon DEF Aborted
        <4> QED
          BY <3>1, <4>1 DEF Unasked
      <3>3. CASE t = cur
        <4>1. Aborted(t) \/ out = "Aborted"
          BY <1>1, <1>5, <2>1, <3>1, <3>3, PushShows, ZenonT(30)
        <4> QED
          BY <3>1, <3>3, <4>1 DEF Unasked
      <3> QED
        BY <3>2, <3>3, Zenon
    <2>4. CASE out = "Aborted" /\ cancelled[cur] = FALSE
      <3>1. rpc' = "finish" /\ ~shuttingDown
        BY <1>5, <2>4, Zenon DEF Deliver, Terminator, Goto, BlockedReason
      <3>2. Asking = 1 /\ Asking' = 0
        BY <1>5, <2>4, <3>1 DEF Asking, Hit
      <3> QED
        BY <1>1, <1>5, <2>3, <3>1, <3>2, ZenonT(30)
    <2>5. CASE ~(out = "Aborted" /\ cancelled[cur] = FALSE)
      BY <2>3, <2>5, ZenonT(30)
    <2> QED
      BY <2>4, <2>5, ZenonT(30)
  <1>6. ASSUME NEW i \in DOMAIN pending, Abort(i), sent' = Pushed(pending[i], "Aborted"),
               NEW t \in Unasked'
        PROVE  t \in Unasked
    <2>1. pending[i] \in Ticket
      BY <1>1, LineTypes, ZenonT(30)
    <2>2. cancelled[pending[i]] = TRUE
      BY <1>1, <1>6, <2>1, HeadIsPosted, ZenonT(30) DEF Abort, AskedInv
    <2>3. t \in Ticket /\ Aborted(t)' /\ cancelled[t] = FALSE
      BY <1>3, <1>6, ZenonT(30)
    <2>4. sent'[t] = sent[t]
      BY <1>1, <1>6, <2>1, <2>2, <2>3 DEF Pushed
    <2>5. Aborted(t)
      BY <2>3, <2>4, ZenonT(30) DEF Aborted
    <2> QED
      BY <2>3, <2>5 DEF Unasked
  <1> QED
    BY <1>1, <1>4, <1>5, <1>6, PushesAre, ZenonT(30)

\* The reader comes to abort a request nobody asked it to abort only by taking
\* an untargeted cancel from the ring.
LEMMA AskingMove ==
    ASSUME StreamInv, AskedInv, Next, shuttingDown = FALSE
    PROVE  Asking \in {0, 1} /\ Asking' \in {0, 1} /\ (Asking' <= Asking \/ TakesAny)
  <1>1. Asking \in {0, 1} /\ Asking' \in {0, 1}
    BY Zenon DEF Asking
  <1>2. ASSUME Asking' = 1 PROVE Asking = 1 \/ TakesAny
    <2>1. Hit' /\ cancelled'[cur'] = FALSE
      BY <1>2 DEF Asking
    <2>2. /\ cur' = cur /\ cur \in Ticket
          /\ Hit \/ CancelPosted(cur) \/ TakesAny
      BY <2>1, HitsAre, ZenonT(30)
    <2>3. cancelled[cur] = FALSE
      BY <2>1, <2>2, Latches, Zenon DEF StreamInv, QueueInv, TypeInv, TypeOK
    <2> QED
      BY <2>2, <2>3, ZenonT(30) DEF Asking, AskedInv
  <1> QED
    BY <1>1, <1>2

\* One untargeted cancel is spent on one request: none is counted twice while
\* it moves from the call to the ring, to the poll and to a stream.
LEMMA CountStep ==
    ASSUME StreamInv, AnyInv, AskedInv, CountInv, Next
    PROVE  CountInv'
  <1> DEFINE u == Cardinality(Unasked)
             r == Cardinality(AnyAt)
             o == IF owner = "cancelling" THEN 1 ELSE 0
             running == shuttingDown = FALSE
  <1>1. TypeInv /\ cancels \in Nat
    BY AsyncClientAssumption DEF StreamInv, QueueInv, TypeInv, TypeOK
  <1>2. Cardinality(Unasked) \in Nat /\ Cardinality(Unasked') \in Nat
    <2>1. Unasked \in SUBSET Ticket /\ Unasked' \in SUBSET Ticket
      BY DEF Unasked
    <2> QED
      BY <1>1, <2>1, LiveFinite
  <1>3. /\ Unasked' \subseteq Unasked => u' <= u
        /\ Unasked' \subseteq Unasked \cup {cur} => u' <= u + 1
    <2>1. IsFiniteSet(Unasked)
      <3>1. Unasked \in SUBSET Ticket
        BY DEF Unasked
      <3> QED
        BY <1>1, <3>1, LiveFinite, ZenonT(30)
    <2>2. IsFiniteSet(Unasked \cup {cur}) /\ Cardinality(Unasked \cup {cur}) <= u + 1
      BY <1>2, <2>1, FS_AddElement
    <2>3. Unasked' \subseteq Unasked => Cardinality(Unasked') <= Cardinality(Unasked)
      BY <2>1, FS_Subset, Zenon
    <2>4. Unasked' \subseteq Unasked \cup {cur} =>
             Cardinality(Unasked') <= Cardinality(Unasked \cup {cur})
      BY <2>2, FS_Subset
    <2>5. Cardinality(Unasked \cup {cur}) \in Nat
      BY <2>2, FS_CardinalityType, Zenon
    <2> QED
      BY <1>2, <2>2, <2>3, <2>4, <2>5
  <1>4. r \in Nat /\ (ring' = ring => r' = r)
    BY <1>1, AnyCount
  <1>5. /\ u <= cancels
        /\ running => u + Asking + r + o <= cancels
    BY Zenon DEF CountInv
  <1>6. o \in Nat /\ o <= 1 /\ o' \in Nat /\ o' <= 1
    OBVIOUS
  <1> SUFFICES /\ u' <= cancels'
               /\ running' => u' + Asking' + r' + o' <= cancels'
    BY Zenon DEF CountInv
  <1>7. \/ u' <= u
        \/ u' <= u + 1 /\ running /\ Asking = 1 /\ Deliver /\ Asking' = 0
    BY <1>3, UnaskedMove, ZenonT(30)
  <1>8. /\ running' => running
        /\ running => Asking' <= Asking \/ TakesAny
        /\ Asking \in Nat /\ Asking <= 1 /\ Asking' \in Nat /\ Asking' <= 1
    <2>1. running' => running
      BY Latches, ZenonT(30) DEF StreamInv, QueueInv, TypeInv, TypeOK
    <2>2. Asking \in Nat /\ Asking <= 1 /\ Asking' \in Nat /\ Asking' <= 1
      BY DEF Asking
    <2>3. running => Asking' <= Asking \/ TakesAny
      BY AskingMove, Zenon
    <2> QED
      BY <2>1, <2>2, <2>3, Zenon
  <1> HIDE DEF u, r, o, running
  <1>9. u \in Nat /\ u' \in Nat
    BY <1>2 DEF u
  <1>10. CASE OwnerStep \/ \E t \in Holders : HolderStep(t)
    <2>1. UNCHANGED <<rpc, hit, out, cur, sent>>
      BY <1>10, CallersKeepReader, ZenonT(30) DEF OwnerStep, HolderStep, SubmitAdmit, SubmitPush,
            CancelAnyFlag, CancelAnyPush, DropFlag, DropWake, DropJoin, HandleCancelFlag,
            HandleCancelPush, HandleRead, HandleDrop, readerVars, streamVars
    <2>2. cancelled \in [Ticket -> BOOLEAN] /\ (Hit => cur \in Ticket)
      BY <1>1, QueueTypes, ZenonT(30) DEF TypeInv, TypeOK, Hit, Serving, ReaderPc
    <2>3. \A t \in Ticket : cancelled'[t] = FALSE => cancelled[t] = FALSE
      BY <2>2, Latches, ZenonT(30)
    <2>4. u' <= u
      <3>1. \A t : Aborted(t)' => Aborted(t)
        BY <2>1 DEF Aborted
      <3>2. Unasked' \subseteq Unasked
        BY <2>3, <3>1, ZenonT(30) DEF Unasked
      <3> QED
        BY <1>3, <3>2, Zenon
    <2>5. Asking' <= Asking
      BY <2>1, <2>2, <2>3 DEF Asking, Hit
    <2>6. /\ cancels' \in {cancels, cancels + 1}
          /\ running' => r' \in Nat /\ r' + o' + cancels <= r + o + cancels'
      <3>1. CASE CancelAnyFlag \/ \E t \in Holders : HandleCancelFlag(t)
        <4>1. cancels' = cancels + 1 /\ r' = r
          BY <1>4, <3>1, ZenonT(30) DEF CancelAnyFlag, HandleCancelFlag, queueVars
        <4>2. \A a, b, c, d \in Nat : d <= 1 => a + d + c <= a + b + (c + 1)
          OBVIOUS
        <4>3. r + o' + cancels <= r + o + (cancels + 1)
          BY <1>1, <1>4, <1>6, <4>2, Zenon
        <4> QED
          BY <1>4, <4>1, <4>3
      <3>2. CASE CancelAnyPush
        <4>1. o = 1 /\ o' = 0 /\ cancels' = cancels
          BY <3>2, ZenonT(30) DEF CancelAnyPush, o
        <4>2. Cancel(CANCEL_ANY) \in Message
          BY DeliveryAssumption DEF Cancel, CANCEL_ANY, Message
        <4>3. ring' = ring \/ ring' = Append(ring, Cancel(CANCEL_ANY))
          BY <3>2, ZenonT(30) DEF CancelAnyPush, PushOrLose
        <4>4. r' = r \/ r' = r + 1
          BY <1>1, <4>2, <4>3, AnyCount, ZenonT(30) DEF r
        <4> QED
          BY <1>1, <1>4, <4>1, <4>4
      <3>3. CASE DropWake \/ DropFlag
        <4>1. cancels' = cancels /\ ~running'
          BY <3>3, Latches, Zenon DEF DropWake, DropFlag, AnyInv, cancelHistory, running
        <4> QED
          BY <4>1
      <3>4. CASE SubmitPush \/ \E t \in Holders : HandleCancelPush(t)
        <4>1. cancels' = cancels /\ o' = o
          BY <3>4 DEF SubmitPush, HandleCancelPush, cancelHistory, ownerVars, o
        <4>2. \E m \in Message : m # Cancel(CANCEL_ANY) /\ (ring' = ring \/ ring' = Append(ring, m))
          <5>1. CASE SubmitPush
            <6>1. nextTicket - 1 \in Ticket
              BY <1>1, <5>1, DeliveryAssumption DEF SubmitPush, TypeInv, TypeOK, Control, Ticket
            <6>2. Request(nextTicket - 1) \in Message /\ Request(nextTicket - 1) # Cancel(CANCEL_ANY)
              BY <6>1 DEF Request, Cancel, Message
            <6> QED
              BY <5>1, <6>2 DEF SubmitPush
          <5>2. ASSUME NEW t \in Holders, HandleCancelPush(t)
                PROVE  \E m \in Message : /\ m # Cancel(CANCEL_ANY)
                                          /\ ring' = ring \/ ring' = Append(ring, m)
            <6>1. Cancel(t) \in Message /\ Cancel(t) # Cancel(CANCEL_ANY)
              BY AsyncClientAssumption, DeliveryAssumption DEF Cancel, CANCEL_ANY, Message, Ticket
            <6> QED
              BY <5>2, <6>1 DEF HandleCancelPush, PushOrLose
          <5> QED
            BY <3>4, <5>1, <5>2, ZenonT(30)
        <4>3. r' = r
          <5>1. PICK m \in Message : m # Cancel(CANCEL_ANY) /\ (ring' = ring \/ ring' = Append(ring, m))
            BY <4>2
          <5>2. ring' = Append(ring, m) => r' = r + 0
            BY <1>1, <5>1, AnyCount DEF r
          <5> QED
            BY <1>4, <5>1, <5>2
        <4> QED
          BY <1>1, <1>4, <1>6, <4>1, <4>3
      <3>5. CASE \/ SubmitAdmit \/ DropJoin
                 \/ \E t \in Holders : (HandleRead(t) \/ HandleDrop(t))
                                       /\ UNCHANGED <<queueVars, ownerVars, cancelHistory>>
        <4>1. cancels' = cancels /\ ring' = ring /\ o' = o
          BY <3>5, Zenon DEF SubmitAdmit, DropJoin, cancelHistory, ownerVars, queueVars, o
        <4> QED
          BY <1>1, <1>4, <1>6, <4>1
      <3> QED
        BY <1>10, <3>1, <3>2, <3>3, <3>4, <3>5, ZenonT(30) DEF OwnerStep, HolderStep
    <2> QED
      BY <1>1, <1>4, <1>5, <1>6, <1>8, <1>9, <2>4, <2>5, <2>6
  <1>11. CASE ReaderRuns
    <2>1. UNCHANGED <<cancels, owner>> /\ o' = o
      BY <1>11, ZenonT(30) DEF ReaderRuns, cancelHistory, ownerVars, o, ReaderStep, NextPending,
         PopBlock, PollCancelMsg, PollRequestMsg, PollReturn, Serve, ResetCancelAny,
         EnsureClean, BeginExchange, WriteRequest, ReadHead, OfferHead, Redial, StreamSuccess,
         DrainErrorBody, Deliver, FinishRequest, ExitReader, callerSide, flagVars
    <2>2. CASE ~running
      BY <1>1, <1>5, <1>7, <1>8, <1>9, <2>1, <2>2
    <2>3. CASE running
      <3>1. ring' = ring \/ (ring # <<>> /\ ring' = Tail(ring))
        BY <1>11, <2>3, Zenon DEF ReaderRuns, ReaderStep, NextPending, PopBlock, PollCancelMsg,
              PollRequestMsg, PollReturn, Serve, ResetCancelAny, EnsureClean, BeginExchange,
              WriteRequest, ReadHead, OfferHead, Redial, StreamSuccess, DrainErrorBody, Deliver,
              FinishRequest, ExitReader, callerSide, queueVars, running
      <3>2. r' \in Nat /\ r' <= r /\ (TakesAny => r = r' + 1)
        <4>1. r' \in Nat
          <5>1. TypeInv'
            BY TypeStep, Zenon DEF StreamInv, QueueInv
          <5>2. IsFiniteSet(AnyAt')
            <6>1. ring' \in Seq(Message) /\ AnyAt' \subseteq DOMAIN ring'
              BY <5>1, ZenonT(30) DEF TypeInv, TypeOK, AnyAt
            <6>2. IsFiniteSet(DOMAIN ring')
              BY <6>1, SeqFacts, FS_Interval
            <6> QED
              BY <6>1, <6>2, FS_Subset
          <5> QED
            BY <5>2, FS_CardinalityType DEF r
        <4>2. (ring # <<>> /\ ring' = Tail(ring)) =>
                 r = r' + (IF Head(ring) = Cancel(CANCEL_ANY) THEN 1 ELSE 0)
          BY <1>1, AnyCount, ZenonT(30) DEF r
        <4>3. TakesAny => r = r' + 1
          BY <4>2 DEF TakesAny
        <4>4. CASE ring' = ring
          BY <1>4, <4>1, <4>3, <4>4
        <4>5. CASE ring # <<>> /\ ring' = Tail(ring)
          <5>1. r = r' \/ r = r' + 1
            BY <4>1, <4>2, <4>5
          <5>2. \A a, b \in Nat : (a = b \/ a = b + 1) => b <= a
            OBVIOUS
          <5>3. r' <= r
            BY <1>4, <4>1, <5>1, <5>2, Zenon
          <5> QED
            BY <4>1, <4>3, <5>3, ZenonT(30)
        <4> QED
          BY <3>1, <4>4, <4>5, ZenonT(30)
      <3>3. Deliver => r' = r
        BY <1>4, Zenon DEF Deliver, queueVars
      <3> QED
        <4>1. u + Asking + r + o <= cancels
          BY <1>5, <2>3, ZenonT(30)
        <4>2. CASE u' <= u
          <5>1. Asking' + r' <= Asking + r
            <6>1. /\ \A a, b, c, d \in Nat : (a <= b /\ c <= d) => a + c <= b + d
                  /\ \A a, b, c, d \in Nat : (a <= 1 /\ d = c + 1) => a + c <= b + d
              OBVIOUS
            <6>2. CASE Asking' <= Asking
              BY <1>4, <1>8, <3>2, <6>1, <6>2, Zenon
            <6>3. CASE TakesAny
              BY <1>4, <1>8, <3>2, <6>1, <6>3, Zenon
            <6> QED
              BY <1>8, <2>3, <6>2, <6>3
          <5>2. \A a, b, c, d \in Nat : (a <= b /\ c <= d) => a + c <= b + d
            OBVIOUS
          <5>3. Asking + r \in Nat /\ Asking' + r' \in Nat
            <6>1. \A a, b \in Nat : a + b \in Nat
              OBVIOUS
            <6> QED
              BY <1>4, <1>8, <3>2, <6>1, ZenonT(30)
          <5>4. u' + (Asking' + r') <= u + (Asking + r)
            BY <1>9, <4>2, <5>1, <5>2, <5>3
          <5>5. \A a, b, c, d \in Nat : a + b + c + d = (a + (b + c)) + d
            OBVIOUS
          <5>6. \A a, b, c, d \in Nat : (a <= b /\ b + c <= d) => a + c <= d
            OBVIOUS
          <5>7. (u + (Asking + r)) + o <= cancels
            BY <1>4, <1>6, <1>8, <1>9, <4>1, <5>5
          <5>8. (u' + (Asking' + r')) + o <= cancels
            <6>1. u + (Asking + r) \in Nat /\ u' + (Asking' + r') \in Nat
              BY <1>9, <5>3
            <6> QED
              BY <1>1, <1>6, <5>4, <5>6, <5>7, <6>1
          <5>9. u' + Asking' + r' + o <= cancels
            BY <1>4, <1>6, <1>8, <1>9, <3>2, <5>5, <5>8
          <5> QED
            BY <1>1, <1>5, <1>9, <2>1, <4>2, <5>9
        <4>3. CASE u' <= u + 1 /\ Asking = 1 /\ Deliver /\ Asking' = 0
          <5>1. \A a, b, c, d, e \in Nat :
                   (a <= b + 1 /\ b + 1 + c + d <= e) => a + 0 + c + d <= e /\ a <= e
            OBVIOUS
          <5>2. u' + 0 + r + o <= cancels /\ u' <= cancels
            BY <1>1, <1>4, <1>6, <1>9, <4>1, <4>3, <5>1, Zenon
          <5> QED
            BY <2>1, <3>3, <4>3, <5>2
        <4> QED
          BY <1>7, <4>2, <4>3
    <2> QED
      BY <2>2, <2>3
  <1> QED
    BY <1>10, <1>11 DEF Next

AnswerInv == StreamInv /\ AnyInv /\ StageInv /\ ShapeInv /\ AskedInv /\ CountInv

\* Nothing was sent, cancelled or asked for.
LEMMA InitAnswer == Init => AnswerInv
  <1> SUFFICES ASSUME Init PROVE AnswerInv
    BY Zenon
  <1>1. /\ ring = <<>> /\ rpc = "next" /\ cancelAny = FALSE /\ owner = "idle" /\ cancels = 0
        /\ cancelled = [t \in Ticket |-> FALSE] /\ handle = [t \in Ticket |-> "none"]
        /\ sent = [t \in Ticket |-> <<>>]
    BY DEF Init, DeliveryInit, QueueInit, ReaderInit
  <1>2. AnyAt = {} /\ \A t \in Ticket : ~CancelPosted(t) /\ ~Aborted(t)
    BY <1>1 DEF AnyAt, CancelPosted, Aborted, Range
  <1>3. AnyInv /\ StageInv
    BY <1>1, <1>2, ZenonT(30) DEF AnyInv, StageInv, BeforeHead, AtAnswer, AfterHead, Serving
  <1>4. ShapeInv
    BY <1>1 DEF ShapeInv, Shaped
  <1>5. AskedInv
    BY <1>1, <1>2 DEF AskedInv, Hit
  <1>6. CountInv
    <2>1. Unasked = {} /\ Asking = 0
      BY <1>1, <1>2, ZenonT(30) DEF Unasked, Asking, Hit
    <2> QED
      BY <1>1, <1>2, <2>1, FS_EmptySet DEF CountInv
  <1> QED
    BY <1>3, <1>4, <1>5, <1>6, InitStream DEF AnswerInv

\* No step breaks them together.
LEMMA AnswerStep == AnswerInv /\ [Next]_vars => AnswerInv'
  <1> SUFFICES ASSUME AnswerInv, [Next]_vars PROVE AnswerInv'
    BY Zenon
  <1>1. StreamInv /\ AnyInv /\ StageInv /\ ShapeInv /\ AskedInv /\ CountInv /\ StreamInv'
    BY StreamStep DEF AnswerInv
  <1>2. CASE Next
    BY <1>1, <1>2, AnyStep, StageStep, ShapeStep, AskedStep, CountStep DEF AnswerInv
  <1>3. CASE UNCHANGED vars
    <2>1. /\ UNCHANGED <<ring, rpc, site, hit, cur, out, owner, cancels, targets>>
          /\ UNCHANGED <<written, sent, open, handle, cancelled, cancelAny, shuttingDown>>
      BY <1>3, Zenon DEF vars
    <2>2. AnyAsked' = AnyAsked /\ AnyAt' = AnyAt
      BY <2>1 DEF AnyAsked, AnyAt
    <2>3. AnyInv' /\ StageInv'
      BY <1>1, <2>1, <2>2 DEF AnyInv, StageInv, BeforeHead, AtAnswer, AfterHead, Ended, Cause
    <2>4. ShapeInv'
      BY <1>1, <2>1, <2>2, ZenonT(30) DEF ShapeInv, Shaped, Ended, Cause
    <2>5. AskedInv'
      BY <1>1, <2>1, <2>2, ZenonT(30) DEF AskedInv, Hit, Aborted, CancelPosted
    <2>6. CountInv'
      BY <1>1, <2>1, <2>2, Zenon DEF CountInv, Unasked, Asking, Hit, Aborted
    <2> QED
      BY <1>1, <2>3, <2>4, <2>5, <2>6 DEF AnswerInv
  <1> QED
    BY <1>2, <1>3

\* The inductive invariant holds in every reachable state.
THEOREM AnswerInvariant == Spec => []AnswerInv
  BY InitAnswer, AnswerStep, PTL DEF Spec

\* A caller's stream is a head, bodies and one terminator, or one error or
\* Aborted alone; a head is only shown for a request that was written; and a
\* stream that closes without a terminator was cancelled, dropped or shut down.
THEOREM StreamShapeHolds == Spec => []StreamShape
  <1>1. AnswerInv => StreamShape
    <2> SUFFICES ASSUME AnswerInv, NEW t \in Ticket
                 PROVE  /\ Shaped(t)
                        /\ (handle[t] # "none" /\ ~open[t] /\ ~Ended(t)) =>
                              \/ cancelled[t] \/ CANCEL_ANY \in targets
                              \/ handle[t] = "dropped"
                              \/ shuttingDown
      BY Zenon DEF StreamShape, Shaped
    <2>1. Shaped(t)
      BY Zenon DEF AnswerInv, ShapeInv
    <2>2. open \in [Ticket -> BOOLEAN]
      BY Zenon DEF AnswerInv, StreamInv, QueueInv, TypeInv, TypeOK
    <2>3. (handle[t] # "none" /\ open[t] = FALSE /\ ~Ended(t)) =>
             cancelled[t] = TRUE \/ AnyAsked \/ handle[t] = "dropped"
      BY ZenonT(30) DEF AnswerInv, ShapeInv, Cause
    <2> QED
      BY <2>1, <2>2, <2>3, Zenon DEF AnyAsked
  <1> QED
    BY <1>1, AnswerInvariant, PTL

\* Whoever is aborted was cancelled by its own handle or by an untargeted
\* cancel, and no untargeted cancel aborts two requests: a cancel that arrives
\* late never reaches a successor.
THEOREM AbortedHolds == Spec => []AbortedOnlyIfAsked
  <1>1. AnswerInv => AbortedOnlyIfAsked
    <2> SUFFICES ASSUME AnswerInv PROVE AbortedOnlyIfAsked
      BY Zenon
    <2>1. cancelled \in [Ticket -> BOOLEAN]
      BY Zenon DEF AnswerInv, StreamInv, QueueInv, TypeInv, TypeOK
    <2>2. Unasked = {t \in Ticket : "Aborted" \in Range(sent[t]) /\ ~cancelled[t]}
      BY <2>1, Zenon DEF Unasked, Aborted
    <2>3. Unasked # {} => CANCEL_ANY \in targets
      BY Zenon DEF AnswerInv, AskedInv, Unasked
    <2>4. Cardinality(Unasked) <= cancels
      BY Zenon DEF AnswerInv, CountInv
    <2> QED
      BY <2>2, <2>3, <2>4, ZenonT(30) DEF AbortedOnlyIfAsked
  <1> QED
    BY <1>1, AnswerInvariant, PTL

=============================================================================
