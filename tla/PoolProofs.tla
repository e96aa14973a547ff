----------------------------- MODULE PoolProofs -----------------------------
(***************************************************************************)
(* The io_uring pool, for every number of requests, sockets, connections   *)
(* and timeouts, every size of its rings and every environment: each       *)
(* connection has a descriptor of its own, each send the kernel has is     *)
(* covered by its ticket, and each request is answered at most once.       *)
(***************************************************************************)
EXTENDS RingProofs

\* What the provers may take for a leaf.
USE SMTT(30), ZenonT(30)

(***************************************************************************)
(* ClaimInv                                                                *)
(***************************************************************************)

\* A claim that moves, or ends, without a new one: no step but request's gives
\* an id a claim that had none.
LEMMA ClaimShift ==
    ASSUME ClaimInv, CallerTypes, OneTicket', OnePlace', OneInRing', OneKept',
           Apart(Owned', Pending', InRing', Stashed', Returned'),
           \A i \in Owned' \cup Pending' \cup InRing' \cup Stashed' \cup Returned' :
              i = 0 \/ i \in Claimed,
           nextReq' = nextReq,
           cpc' = "ticket" => cpc = "ticket" /\ sending' = sending
    PROVE  ClaimInv'
<1>1. /\ \A i \in Claimed : i < nextReq
      /\ cpc = "ticket" => sending.id \in Id /\ sending.id < nextReq /\ sending.id \notin Claimed
  BY Zenon DEF ClaimInv
<1>2. \A i \in Claimed' : i = 0 \/ i \in Claimed
  BY Zenon DEF Claimed
<1>3. 0 < nextReq
  BY DEF CallerTypes
<1>4. \A i \in Claimed' : i < nextReq'
  BY <1>1, <1>2, <1>3, Zenon
<1>5. cpc' = "ticket" => sending'.id \in Id /\ sending'.id < nextReq' /\ sending'.id \notin Claimed'
  BY <1>1, <1>2, Numbers, Zenon
<1> QED  BY <1>4, <1>5, Zenon DEF ClaimInv, Apart

\* What the sets of claims are before a step.
LEMMA ClaimsAre ==
    ASSUME ThreadTypes, CallerTypes, ClaimInv
    PROVE  /\ 0 \notin Owned /\ 0 \notin Pending /\ 0 \notin Stashed /\ 0 \notin Returned
           /\ Apart(Owned, Pending, InRing, Stashed, Returned)
           /\ OneTicket /\ OnePlace /\ OneInRing /\ OneKept
           /\ Owned \subseteq Id
<1>1. Known \subseteq Ticket
  BY DEF Known, ThreadTypes, Range
<1>2. Owned \subseteq Id
  BY <1>1, Zenon DEF Owned, Ticket
<1> QED  BY <1>2, Numbers, Zenon DEF ClaimInv, Pending, Stashed, Returned

\* The complete thread: a timeout's result is for no request, an answer moves
\* its request from the front of a queue to the ring, and a send's completion
\* moves its request from its ticket to the end of a queue, or drops it.
LEMMA ThreadClaims ==
    ASSUME KernelTypes, ThreadTypes, CallerTypes, ClaimInv,
           QuietStep \/ AnswerStep \/ RedeemStep,
           UNCHANGED <<cpc, sending, nextReq, stash, got>>
    PROVE  ClaimInv'
<1>1. /\ 0 \notin Owned /\ 0 \notin Pending /\ 0 \notin Stashed /\ 0 \notin Returned
      /\ Apart(Owned, Pending, InRing, Stashed, Returned)
      /\ OneTicket /\ OnePlace /\ OneInRing /\ OneKept /\ Owned \subseteq Id
  BY ClaimsAre, Zenon
<1>2. Stashed' = Stashed /\ Returned' = Returned /\ OneKept'
  BY <1>1, Zenon DEF Stashed, Returned, OneKept
<1>3. responses \in Seq(Result)
  BY Zenon DEF ThreadTypes
<1>4. CASE QuietStep \/ AnswerStep
  <2>1. Owned' = Owned /\ OneTicket'
    BY <1>1, <1>4, Zenon DEF QuietStep, AnswerStep, Owned, Known, OneTicket
  <2>2. CASE QuietStep
    <3>1. Pending' = Pending /\ OnePlace'
      BY <1>1, <2>2 DEF QuietStep, Pending, OnePlace
    <3>2. OneInRing' /\ (InRing' = InRing \/ InRing' = InRing \cup {0})
      <4>1. CASE responses' = responses
        BY <1>1, <4>1, Zenon DEF OneInRing, InRing
      <4>2. CASE responses' # responses
        <5>1. PICK r \in Result : r = Timeout /\ r.id = 0
          BY ResultIs, Zenon DEF Timeout
        <5>2. responses' = Append(responses, r)
          BY <2>2, <4>2, <5>1, Zenon DEF QuietStep
        <5> QED  BY <1>1, <1>3, <5>1, <5>2, RingPush, Zenon
      <4> QED  BY <4>1, <4>2, Zenon
    <3>3. Apart(Owned', Pending', InRing', Stashed', Returned')
      BY <1>1, <1>2, <2>1, <3>1, <3>2, Zenon DEF Apart
    <3> QED  BY <1>2, <2>1, <3>1, <3>2, <3>3, ClaimShift, Zenon DEF Claimed
  <2>3. CASE AnswerStep
    <3>1. PICK c \in ConnId, r \in Result :
            /\ r.id = FrontId(cdata[c]) /\ responses' = Append(responses, r)
            /\ cdata'[c].pending = Popped(cdata[c])
            /\ \A d \in ConnId \ {c} : cdata'[d].pending = cdata[d].pending
      BY <2>3, Zenon DEF AnswerStep
    <3>2. /\ OnePlace' /\ \A i \in Pending' : i \in Pending
          /\ r.id # 0 => r.id \in Pending /\ r.id \notin Pending'
      BY <1>1, <3>1, PlaceLeft, Zenon
    <3>3. r.id = 0 \/ r.id \notin InRing
      BY <1>1, <3>2, Zenon DEF Apart
    <3>4. OneInRing' /\ InRing' = InRing \cup {r.id}
      BY <1>1, <1>3, <3>1, <3>3, RingPush, Zenon
    <3>5. Apart(Owned', Pending', InRing', Stashed', Returned')
      BY <1>1, <1>2, <2>1, <3>2, <3>4, Zenon DEF Apart
    <3>6. \A i \in Owned' \cup Pending' \cup InRing' \cup Stashed' \cup Returned' :
             i = 0 \/ i \in Claimed
      BY <1>2, <2>1, <3>2, <3>4, Zenon DEF Claimed
    <3> QED  BY <1>2, <2>1, <3>2, <3>4, <3>5, <3>6, ClaimShift, Zenon
  <2> QED  BY <1>4, <2>2, <2>3, Zenon
<1>5. CASE RedeemStep
  <2>1. PICK i : i = Head(cq).id
    BY Zenon
  <2>2. Known' = {t \in Known : t.id # i}
    <3>1. Range(<<>>) = {}
      BY DEF Range
    <3> QED  BY <1>5, <2>1, <3>1, Zenon DEF RedeemStep, Known
  <2>3. OneTicket' /\ \A j : j \in Owned' <=> j \in Owned /\ j # i
    BY <1>1, <2>2, Zenon DEF OneTicket, Owned
  <2>4. InRing' = InRing /\ OneInRing'
    BY <1>1, <1>5, Zenon DEF RedeemStep, InRing, OneInRing
  <2>5. OnePlace' /\ \A j \in Pending' : j \in Pending \/ (j = i /\ i \in Owned)
    <3>1. CASE \A c \in ConnId : cdata'[c].pending = cdata[c].pending
      BY <1>1, <3>1 DEF OnePlace, Pending
    <3>2. CASE ~\A c \in ConnId : cdata'[c].pending = cdata[c].pending
      <4>1. PICK t \in Known :
              /\ t.id = i
              /\ cdata'[t.conn].pending = Append(cdata[t.conn].pending, t.id)
              /\ \A d \in ConnId \ {t.conn} : cdata'[d].pending = cdata[d].pending
        BY <1>5, <2>1, <3>2, Zenon DEF RedeemStep
      <4>2. i \in Owned /\ i \in Id /\ i \notin Pending
        BY <1>1, <4>1, Zenon DEF Owned, Apart
      <4>3. t.conn \in ConnId
        <5>1. t \in Ticket
          BY DEF Known, ThreadTypes, Range
        <5> QED  BY <5>1, Zenon DEF Ticket
      <4>4. PICK c \in ConnId : c = t.conn
        BY <4>3, Zenon
      <4>5. OnePlace' /\ Pending' = Pending \cup {i}
        BY <1>1, <4>1, <4>2, <4>4, PlaceTaken, Zenon
      <4> QED  BY <4>2, <4>5, Zenon
    <3> QED  BY <3>1, <3>2, Zenon
  <2>6. Apart(Owned', Pending', InRing', Stashed', Returned')
    BY <1>1, <1>2, <2>3, <2>4, <2>5, Zenon DEF Apart
  <2>7. \A j \in Owned' \cup Pending' \cup InRing' \cup Stashed' \cup Returned' :
           j = 0 \/ j \in Claimed
    BY <1>2, <2>3, <2>4, <2>5, Zenon DEF Claimed
  <2> QED  BY <1>2, <2>3, <2>4, <2>5, <2>6, <2>7, ClaimShift, Zenon
<1> QED  BY <1>4, <1>5, Zenon

\* The caller's methods that touch no ticket and no result.
LEMMA SameClaims ==
    ASSUME ThreadTypes, CallerTypes, ClaimInv,
           UNCHANGED <<ticketRing, tickets, cdata, responses, stash, got, nextReq>>,
           cpc' = "ticket" => cpc = "ticket" /\ sending' = sending
    PROVE  ClaimInv'
<1>1. /\ Owned' = Owned /\ Pending' = Pending /\ InRing' = InRing
      /\ Stashed' = Stashed /\ Returned' = Returned
  BY Zenon DEF Owned, Known, Pending, InRing, Stashed, Returned
<1>2. OneTicket' /\ OnePlace' /\ OneInRing' /\ OneKept'
  BY ClaimsAre DEF OneTicket, Known, OnePlace, OneInRing, OneKept
<1>3. Apart(Owned', Pending', InRing', Stashed', Returned')
  BY <1>1, ClaimsAre, Zenon
<1>4. \A i \in Owned' \cup Pending' \cup InRing' \cup Stashed' \cup Returned' :
         i = 0 \/ i \in Claimed
  BY <1>1, Zenon DEF Claimed
<1> QED  BY <1>2, <1>3, <1>4, ClaimShift, Zenon

\* A result leaves the ring for the stash or the caller, or it is a timeout's
\* that ends a recv_timeout.
LEMMA PopClaims ==
    ASSUME ThreadTypes, CallerTypes, ClaimInv, responses # <<>>, responses' = Tail(responses),
           UNCHANGED <<ticketRing, tickets, cdata, nextReq>>, cpc' # "ticket",
           \/ UNCHANGED <<stash, got>>
           \/ Stash(Head(responses)) /\ got' = got
           \/ Return(Head(responses).id, Head(responses)) /\ stash' = stash
    PROVE  ClaimInv'
<1>1. /\ 0 \notin Owned /\ 0 \notin Pending /\ 0 \notin Stashed /\ 0 \notin Returned
      /\ Apart(Owned, Pending, InRing, Stashed, Returned)
      /\ OneTicket /\ OnePlace /\ OneInRing /\ OneKept
  BY ClaimsAre, Zenon
<1>2. /\ responses \in Seq(Result) /\ got \in [Id -> SUBSET Result]
      /\ stash \in [0 .. MaxRequests -> SUBSET Result]
  BY Zenon DEF ThreadTypes, CallerTypes
<1>3. PICK r \in Result : r = Head(responses)
  <2>1. Head(responses) \in Result
    BY <1>2
  <2> QED  BY <2>1, Zenon
<1>4. PICK i \in 0 .. MaxRequests : i = r.id
  BY Zenon DEF Result
<1>5. /\ OneInRing' /\ i \in InRing /\ \A j \in InRing' : j \in InRing
      /\ i # 0 => i \notin InRing'
  BY <1>1, <1>2, <1>3, <1>4, RingPop, Zenon
<1>6. /\ Owned' = Owned /\ OneTicket' /\ Pending' = Pending /\ OnePlace'
  BY <1>1 DEF Owned, Known, OneTicket, Pending, OnePlace
<1>7. /\ \A j \in Id : j # i => stash'[j] = stash[j] /\ got'[j] = got[j]
      /\ i \in Id => \/ stash'[i] = stash[i] /\ got'[i] = got[i]
                     \/ stash'[i] = {r} /\ got'[i] = got[i]
                     \/ stash'[i] = stash[i] /\ got'[i] = got[i] \cup {r}
  <2>1. CASE UNCHANGED <<stash, got>>
    BY <2>1, Zenon
  <2>2. CASE Stash(Head(responses)) /\ got' = got
    BY <1>2, <1>3, <1>4, <2>2, Numbers, Zenon DEF Stash
  <2>3. CASE Return(Head(responses).id, Head(responses)) /\ stash' = stash
    BY <1>2, <1>3, <1>4, <2>3, Numbers, Zenon DEF Return
  <2> QED  BY <2>1, <2>2, <2>3, Zenon
<1>8. i \in Id => stash[i] = {} /\ got[i] = {}
  BY <1>1, <1>5, Zenon DEF Apart, Stashed, Returned
<1>9. OneKept'
  BY <1>1, <1>7, <1>8 DEF OneKept
<1>10. /\ \A j \in Stashed' : j \in Stashed \/ (j = i /\ j \in Id)
       /\ \A j \in Returned' : j \in Returned \/ (j = i /\ j \in Id)
       /\ i \in Stashed' => i \notin Returned'
  BY <1>7, <1>8, Zenon DEF Stashed, Returned
<1>11. Apart(Owned', Pending', InRing', Stashed', Returned')
  BY <1>1, <1>5, <1>6, <1>10, Numbers, Zenon DEF Apart
<1>12. \A j \in Owned' \cup Pending' \cup InRing' \cup Stashed' \cup Returned' :
          j = 0 \/ j \in Claimed
  BY <1>5, <1>6, <1>10, Zenon DEF Claimed
<1> QED  BY <1>5, <1>6, <1>9, <1>11, <1>12, ClaimShift, Zenon

\* A result leaves the stash for the caller.
LEMMA UnstashClaims ==
    ASSUME ThreadTypes, CallerTypes, ClaimInv, NEW i \in 0 .. MaxRequests,
           got' = [got EXCEPT ![i] = got[i] \cup stash[i]], stash' = [stash EXCEPT ![i] = {}],
           UNCHANGED <<ticketRing, tickets, cdata, responses, nextReq>>, cpc' # "ticket"
    PROVE  ClaimInv'
<1>1. /\ 0 \notin Owned /\ 0 \notin Pending /\ 0 \notin Stashed /\ 0 \notin Returned
      /\ Apart(Owned, Pending, InRing, Stashed, Returned)
      /\ OneTicket /\ OnePlace /\ OneInRing /\ OneKept
  BY ClaimsAre, Zenon
<1>2. got \in [Id -> SUBSET Result] /\ stash \in [0 .. MaxRequests -> SUBSET Result]
  BY Zenon DEF CallerTypes
<1>3. /\ Owned' = Owned /\ OneTicket' /\ Pending' = Pending /\ OnePlace'
      /\ InRing' = InRing /\ OneInRing'
  BY <1>1 DEF Owned, Known, OneTicket, Pending, OnePlace, InRing, OneInRing
<1>4. /\ \A j \in Id : j # i => stash'[j] = stash[j] /\ got'[j] = got[j]
      /\ i \in Id => stash'[i] = {} /\ got'[i] = got[i] \cup stash[i]
  BY <1>2, Numbers, Zenon
<1>5. i \in Id => stash[i] = {} \/ got[i] = {}
  BY <1>1, Zenon DEF Apart, Stashed, Returned
<1>6. OneKept'
  BY <1>1, <1>4, <1>5 DEF OneKept
<1>7. /\ \A j \in Stashed' : j \in Stashed /\ j # i
      /\ \A j \in Returned' : j \in Returned \/ (j = i /\ j \in Stashed)
  BY <1>4, Zenon DEF Stashed, Returned
<1>8. Apart(Owned', Pending', InRing', Stashed', Returned')
  BY <1>1, <1>3, <1>7, Zenon DEF Apart
<1>9. \A j \in Owned' \cup Pending' \cup InRing' \cup Stashed' \cup Returned' :
         j = 0 \/ j \in Claimed
  BY <1>3, <1>7, Zenon DEF Claimed
<1> QED  BY <1>3, <1>6, <1>8, <1>9, ClaimShift, Zenon

\* request takes an id that has no claim.
LEMMA PushSendClaims ==
    ASSUME ThreadTypes, CallerTypes, ClaimInv, nextReq \in Id, nextReq' = nextReq + 1,
           UNCHANGED <<ticketRing, tickets, cdata, responses, stash, got>>,
           cpc' = "ticket" => sending'.id = nextReq
    PROVE  ClaimInv'
<1>1. /\ Claimed' = Claimed
      /\ Apart(Owned, Pending, InRing, Stashed, Returned)'
  BY ClaimsAre DEF Claimed, Owned, Known, Pending, InRing, Stashed, Returned, Apart
<1>2. OneTicket' /\ OnePlace' /\ OneInRing' /\ OneKept'
  BY ClaimsAre DEF OneTicket, Known, OnePlace, OneInRing, OneKept
<1>3. \A i \in Claimed : i \in 0 .. MaxRequests /\ i < nextReq
  <2>1. \A i \in InRing : i \in 0 .. MaxRequests
    <3>1. \A k \in DOMAIN responses : responses[k] \in Result
      BY DEF ThreadTypes
    <3>2. \A k \in DOMAIN responses : responses[k].id \in 0 .. MaxRequests
      BY <3>1, Zenon DEF Result
    <3> QED  BY <3>2, Zenon DEF InRing
  <2>2. Owned \subseteq Id
    BY ClaimsAre, Zenon
  <2>3. \A i \in Claimed : i < nextReq
    BY Zenon DEF ClaimInv
  <2> QED  BY <2>1, <2>2, <2>3, Numbers, Zenon DEF Claimed, Pending, Stashed, Returned
<1>4. nextReq < nextReq + 1 /\ nextReq \notin Claimed /\ \A i \in Claimed : i < nextReq + 1
  BY <1>3, Numbers DEF Id
<1> QED  BY <1>1, <1>2, <1>4, Zenon DEF ClaimInv

\* push_send queues the ticket of the request that is being made.
LEMMA PushTicketClaims ==
    ASSUME ThreadTypes, CallerTypes, ClaimInv, cpc = "ticket", cpc' # "ticket",
           ticketRing' = Append(ticketRing, sending),
           UNCHANGED <<tickets, cdata, responses, stash, got, nextReq>>
    PROVE  ClaimInv' /\ \A i : i \in Owned' <=> i \in Owned \/ i = sending.id
<1>1. /\ Apart(Owned, Pending, InRing, Stashed, Returned)
      /\ OneTicket /\ OnePlace /\ OneInRing /\ OneKept
  BY ClaimsAre, Zenon
<1>2. /\ \A i \in Claimed : i < nextReq
      /\ sending.id \in Id /\ sending.id < nextReq /\ sending.id \notin Claimed
  BY Zenon DEF ClaimInv
<1>3. sending \in Ticket
  BY <1>2, Zenon DEF CallerTypes, Ticket
<1>4. Range(ticketRing') = Range(ticketRing) \cup {sending}
  <2>1. PICK n \in Nat : n = Len(ticketRing)
    BY DEF ThreadTypes
  <2>2. /\ DOMAIN ticketRing = 1 .. n /\ DOMAIN ticketRing' = 1 .. n + 1
        /\ ticketRing'[n + 1] = sending
        /\ \A k \in 1 .. n : ticketRing'[k] = ticketRing[k]
    BY <1>3, <2>1 DEF ThreadTypes
  <2>3. \A k : k \in DOMAIN ticketRing' <=> k \in DOMAIN ticketRing \/ k = n + 1
    BY <2>2
  <2> QED  BY <2>2, <2>3, Zenon DEF Range
<1>5. \A t : t \in Known' <=> t \in Known \/ t = sending
  BY <1>4, Zenon DEF Known
<1>6. \A i : i \in Owned' <=> i \in Owned \/ i = sending.id
  BY <1>5, Zenon DEF Owned
<1>7. OneTicket'
  <2>1. \A t \in Known : t.id # sending.id
    BY <1>2, Zenon DEF Owned, Claimed
  <2> QED  BY <1>1, <1>5, <2>1, Zenon DEF OneTicket
<1>8. /\ Pending' = Pending /\ OnePlace' /\ InRing' = InRing /\ OneInRing'
      /\ Stashed' = Stashed /\ Returned' = Returned /\ OneKept'
  BY <1>1 DEF Pending, OnePlace, InRing, OneInRing, Stashed, Returned, OneKept
<1>9. Apart(Owned, Pending, InRing, Stashed, Returned)'
  BY <1>1, <1>2, <1>6, <1>8, Zenon DEF Apart, Claimed
<1>10. \A i \in Claimed' : i < nextReq'
  BY <1>2, <1>6, <1>8, Zenon DEF Claimed
<1> QED  BY <1>6, <1>7, <1>8, <1>9, <1>10, Zenon DEF ClaimInv

(***************************************************************************)
(* DescriptorInv                                                           *)
(***************************************************************************)

\* What touches neither the descriptors nor the connections.
LEMMA SameDescriptors ==
    ASSUME DescriptorInv, UNCHANGED <<fds, made, conns>>,
           cpc' = "dial" \/ after' = "dial" => /\ cpc = "dial" \/ after = "dial"
                                               /\ sending' = sending,
           cpc' = "ticket" => cpc = "ticket" /\ sending' = sending
    PROVE  DescriptorInv'
BY Zenon DEF DescriptorInv, Open

\* A connection gives up its descriptor, and no other loses one.
LEMMA OldDescriptor ==
    ASSUME KernelTypes, CallerTypes, DescriptorInv, NEW c \in ConnId, Open(c),
           NEW x \in CallerConn, x.fd = NO_FD, x.live = TRUE => x.reconnect = TRUE,
           fds' = [fds EXCEPT ![conns[c].fd] = NO_SOCKET], made' = made,
           conns' = [conns EXCEPT ![c] = x],
           cpc' \notin {"dial", "ticket"}, after' # "dial"
    PROVE  /\ DescriptorInv' /\ conns' \in [ConnId -> CallerConn]
           /\ fds' \in [Fd -> Socket \cup {NO_SOCKET}]
<1>1. /\ fds \in [Fd -> Socket \cup {NO_SOCKET}] /\ conns \in [ConnId -> CallerConn]
      /\ made \in Nat
  BY Numbers DEF KernelTypes, CallerTypes
<1>2. PICK n \in Fd : n = conns[c].fd
  BY Zenon DEF DescriptorInv
<1>3. /\ fds'[n] = NO_SOCKET /\ \A f \in Fd \ {n} : fds'[f] = fds[f]
      /\ conns'[c] = x /\ \A d \in ConnId \ {c} : conns'[d] = conns[d]
  BY <1>1, <1>2, Zenon
<1>4. /\ \A f \in Fd : fds'[f] <= made'
      /\ \A f, g \in Fd : fds'[f] = fds'[g] /\ fds'[f] # NO_SOCKET => f = g
  <2>1. NO_SOCKET <= made
    BY <1>1 DEF NO_SOCKET
  <2> QED  BY <1>3, <2>1 DEF DescriptorInv
<1>5. x.live \in BOOLEAN /\ x.reconnect \in BOOLEAN
  BY Zenon DEF CallerConn
<1>6. ASSUME NEW d \in ConnId, Open(d)' PROVE d # c /\ Open(d) /\ conns'[d] = conns[d] /\ conns[d].fd # n
  <2>1. d # c
    BY <1>3, <1>5, <1>6, Zenon DEF Open
  <2> QED  BY <1>2, <1>3, <1>6, <2>1, Zenon DEF DescriptorInv, Open
<1>7. /\ \A d \in ConnId : Open(d)' => conns'[d].fd \in Fd /\ fds'[conns'[d].fd] # NO_SOCKET
      /\ \A b, d \in ConnId : Open(b)' /\ Open(d)' /\ conns'[b].fd = conns'[d].fd => b = d
  BY <1>3, <1>6 DEF DescriptorInv
<1>8. \A d \in ConnId : conns'[d].reconnect => conns'[d].fd = NO_FD
  BY <1>3 DEF DescriptorInv
<1> QED  BY <1>1, <1>2, <1>4, <1>7, <1>8, Zenon DEF DescriptorInv

\* handle_error and handle_protocol_error.
LEMMA MarkIs ==
    ASSUME KernelTypes, CallerTypes, DescriptorInv, NEW r \in Result, MarkForReconnect(r),
           after' = after, cpc' \notin {"dial", "ticket"}, cpc # "enter"
    PROVE  /\ DescriptorInv' /\ conns' \in [ConnId -> CallerConn] /\ KernelTypes'
           /\ UNCHANGED <<sq, cq, sends>>
<1>1. after' # "dial"
  BY Zenon DEF CallerTypes
<1>2. r.conn \in ConnId /\ conns \in [ConnId -> CallerConn]
  BY Zenon DEF Result, CallerTypes
<1>3. CASE r.kind = "error" /\ conns[r.conn].live /\ ~conns[r.conn].reconnect
  <2>1. PICK c \in ConnId : c = r.conn /\ Open(c)
    BY <1>2, <1>3, Zenon DEF Open
  <2>2. PICK old \in CallerConn : old = conns[c]
    BY <1>2, Zenon
  <2>3. LET x == [old EXCEPT !.fd = NO_FD, !.armed = FALSE, !.reconnect = TRUE]
        IN  x \in CallerConn /\ x.fd = NO_FD /\ x.reconnect = TRUE
    BY Zenon DEF CallerConn
  <2>4. PICK x \in CallerConn :
          /\ x = [old EXCEPT !.fd = NO_FD, !.armed = FALSE, !.reconnect = TRUE]
          /\ x.fd = NO_FD /\ x.reconnect = TRUE
    BY <2>3, Zenon
  <2>5. /\ fds' = [fds EXCEPT ![conns[c].fd] = NO_SOCKET] /\ conns' = [conns EXCEPT ![c] = x]
        /\ UNCHANGED <<world, sq, cq, sends, armed, made, peer>>
    BY <1>3, <2>1, <2>2, <2>4, Zenon DEF MarkForReconnect, Close
  <2>6. /\ DescriptorInv' /\ conns' \in [ConnId -> CallerConn]
        /\ fds' \in [Fd -> Socket \cup {NO_SOCKET}]
    BY <1>1, <2>1, <2>4, <2>5, OldDescriptor, Zenon
  <2> QED  BY <2>5, <2>6, Zenon DEF KernelTypes
<1>4. CASE ~(r.kind = "error" /\ conns[r.conn].live /\ ~conns[r.conn].reconnect)
  <2>1. UNCHANGED uringVars /\ conns' = conns
    BY <1>4, Zenon DEF MarkForReconnect
  <2> QED  BY <1>1, <1>2, <2>1, SameDescriptors, SameTypes, Zenon DEF uringVars
<1> QED  BY <1>3, <1>4, Zenon

\* A pop keeps the invariant, whatever is done with the result.
LEMMA PopKeeps ==
    ASSUME PoolInv, Pop, cpc \in {"poll", "recv", "timed"},
           UNCHANGED <<nextReq, pendingRearms, after, sending, calls, asked>>,
           cpc' \in {"poll", "recv", "timed", "idle", "cancel"}, want' \in {0, want},
           \/ UNCHANGED <<stash, got>>
           \/ Stash(Head(responses)) /\ got' = got
           \/ Return(Head(responses).id, Head(responses)) /\ stash' = stash
    PROVE  PoolInv'
<1>1. /\ KernelTypes /\ ThreadTypes /\ CallerTypes /\ DescriptorInv /\ FlightInv /\ ClaimInv
  BY Zenon DEF PoolInv, PoolTypes
<1>2. /\ responses # <<>> /\ responses' = Tail(responses) /\ MarkForReconnect(Head(responses))
      /\ UNCHANGED <<ticketRing, tickets, cdata, threadVars, rearms>>
  BY Zenon DEF Pop
<1>3. responses \in Seq(Result) /\ responses' \in Seq(Result)
  BY <1>1, <1>2 DEF ThreadTypes
<1>4. PICK r \in Result : r = Head(responses)
  <2>1. Head(responses) \in Result
    BY <1>2, <1>3
  <2> QED  BY <2>1, Zenon
<1>5. /\ DescriptorInv' /\ conns' \in [ConnId -> CallerConn] /\ KernelTypes'
      /\ UNCHANGED <<sq, cq, sends>>
  BY <1>1, <1>2, <1>4, MarkIs, Zenon
<1>6. ThreadTypes'
  BY <1>1, <1>2, <1>3, Zenon DEF ThreadTypes, threadVars
<1>7. got' \in [Id -> SUBSET Result] /\ stash' \in [0 .. MaxRequests -> SUBSET Result]
  BY <1>1, <1>4 DEF CallerTypes, Stash, Return
<1>8. CallerTypes'
  <2>1. want' \in 0 .. MaxRequests
    BY <1>1, Numbers, Zenon DEF CallerTypes
  <2> QED  BY <1>1, <1>5, <1>7, <2>1, Zenon DEF CallerTypes
<1>9. ClaimInv'
  BY <1>1, <1>2, PopClaims, Zenon
<1>10. FlightInv'
  <2>1. Owned' = Owned
    BY <1>2, Zenon DEF Owned, Known
  <2> QED  BY <1>1, <1>5, <2>1, CallerFlights, Zenon DEF CallerQueues
<1> QED  BY <1>5, <1>6, <1>8, <1>9, <1>10, Zenon DEF PoolInv, PoolTypes

(***************************************************************************)
(* The caller's methods                                                    *)
(***************************************************************************)

\* The steps that only push entries other than sends, and go elsewhere.
LEMMA PassiveKeeps ==
    ASSUME PoolInv, CallerQueues, sq' \in Seq(Sqe), Len(sq') <= RING,
           UNCHANGED <<world, cq, sends, armed, fds, made, peer, completionVars, conns, nextReq,
                       stash, got, asked, pendingRearms>>,
           cpc # "ticket", cpc' # "ticket",
           cpc' = "dial" \/ after' = "dial" => /\ cpc = "dial" \/ after = "dial"
                                               /\ sending' = sending,
           after' \in {"idle", "dial", "timed", "join"}, after' # "idle" => cpc' = "enter",
           want' \in 0 .. MaxRequests, calls' \in Nat, sending' \in {sending, NO_REQUEST}
    PROVE  PoolInv'
<1>1. /\ KernelTypes /\ ThreadTypes /\ CallerTypes /\ DescriptorInv /\ FlightInv /\ ClaimInv
  BY Zenon DEF PoolInv, PoolTypes
<1>2. KernelTypes' /\ ThreadTypes'
  BY <1>1, SameTypes, Zenon DEF KernelTypes
<1>3. CallerTypes'
  <2>1. sending' \in [conn : ConnId, id : 0 .. MaxRequests]
    BY <1>1, Numbers DEF CallerTypes, NO_REQUEST
  <2> QED  BY <1>1, <2>1, Zenon DEF CallerTypes
<1>4. DescriptorInv'
  BY <1>1, SameDescriptors, Zenon
<1>5. ClaimInv'
  BY <1>1, SameClaims, Zenon DEF completionVars
<1>6. FlightInv'
  <2>1. Owned' = Owned
    BY Zenon DEF Owned, Known, completionVars
  <2> QED  BY <1>1, <2>1, CallerFlights, Zenon
<1> QED  BY <1>2, <1>3, <1>4, <1>5, <1>6, Zenon DEF PoolInv, PoolTypes

\* The stash is emptied for an id, outside a request.
LEMMA UnstashKeeps ==
    ASSUME PoolInv, NEW i \in 0 .. MaxRequests, cpc # "ticket", cpc' # "ticket", cpc' # "dial",
           got' = [got EXCEPT ![i] = got[i] \cup stash[i]], stash' = [stash EXCEPT ![i] = {}],
           UNCHANGED <<uringVars, completionVars, conns, nextReq, asked, pendingRearms, after,
                       sending, calls>>,
           want' \in 0 .. MaxRequests, cpc # "enter"
    PROVE  PoolInv'
<1>1. /\ KernelTypes /\ ThreadTypes /\ CallerTypes /\ DescriptorInv /\ FlightInv /\ ClaimInv
  BY Zenon DEF PoolInv, PoolTypes
<1>2. KernelTypes' /\ ThreadTypes'
  BY <1>1, SameTypes, Zenon DEF uringVars
<1>3. after = "idle"
  BY <1>1, Zenon DEF CallerTypes
<1>4. CallerTypes'
  <2>1. got' \in [Id -> SUBSET Result] /\ stash' \in [0 .. MaxRequests -> SUBSET Result]
    BY <1>1, Zenon DEF CallerTypes
  <2> QED  BY <1>1, <1>3, <2>1, Zenon DEF CallerTypes
<1>5. DescriptorInv'
  BY <1>1, <1>3, SameDescriptors, Zenon DEF uringVars
<1>6. ClaimInv'
  BY <1>1, UnstashClaims, Zenon DEF completionVars
<1>7. FlightInv'
  <2>1. Owned' = Owned
    BY Zenon DEF Owned, Known, completionVars
  <2> QED  BY <1>1, <2>1, CallerFlights, Zenon DEF CallerQueues, uringVars
<1> QED  BY <1>2, <1>4, <1>5, <1>6, <1>7, Zenon DEF PoolInv, PoolTypes

\* An entry other than a send, pushed where there is room.
LEMMA PushIs ==
    ASSUME KernelTypes, NEW x \in Sqe, x.op # "send",
           sq' = (IF SqHasRoom THEN Append(sq, x) ELSE sq)
    PROVE  CallerQueues /\ sq' \in Seq(Sqe) /\ Len(sq') <= RING
<1>1. sq \in Seq(Sqe) /\ Len(sq) <= RING /\ RING \in Nat
  BY PoolBounds, Zenon DEF KernelTypes
<1>2. CASE SqHasRoom
  <2>1. sq' = Append(sq, x) /\ Len(sq) < RING
    BY <1>2, Zenon DEF SqHasRoom
  <2> QED  BY <1>1, <2>1 DEF CallerQueues
<1>3. CASE ~SqHasRoom
  BY <1>1, <1>3, Zenon DEF CallerQueues
<1> QED  BY <1>2, <1>3, Zenon

\* The ids the caller may ask for.
LEMMA AwaitableIs == ASSUME CallerTypes PROVE \A i \in Awaitable : i \in Id /\ i \in 0 .. MaxRequests
BY Numbers DEF CallerTypes, Awaitable, Ticket

\* recv and poll, from their calls to their returns, and the end of a
\* recv_timeout.
LEMMA ReceiveKeeps ==
    ASSUME PoolInv, RecvStart \/ PollStart \/ PollStep \/ RecvPop \/ TimedResult \/ TimedOut
    PROVE  PoolInv'
<1>1. KernelTypes /\ CallerTypes
  BY Zenon DEF PoolInv, PoolTypes
<1>2. /\ calls \in Nat /\ want \in 0 .. MaxRequests /\ sq \in Seq(Sqe) /\ Len(sq) <= RING
      /\ after \in {"idle", "dial", "timed", "join"} /\ (cpc # "enter" => after = "idle")
  BY <1>1, Zenon DEF CallerTypes, KernelTypes
<1>3. CASE RecvStart
  <2>1. cpc = "idle"
    BY <1>3, Zenon DEF RecvStart
  <2>2. PICK i \in Awaitable :
          \/ FromStash(i)
          \/ /\ cpc' = "recv" /\ want' = i
             /\ UNCHANGED <<uringVars, got, stash, after, calls>>
    BY <1>3, Zenon DEF RecvStart
  <2>3. UNCHANGED <<completionVars, conns, nextReq, pendingRearms, sending, asked>>
    BY <1>3, Zenon DEF RecvStart
  <2>4. i \in 0 .. MaxRequests
    BY <1>1, AwaitableIs, Zenon
  <2>5. CASE FromStash(i)
    BY <1>2, <2>1, <2>3, <2>4, <2>5, UnstashKeeps, Zenon DEF FromStash
  <2>6. CASE ~FromStash(i)
    BY <1>2, <2>1, <2>2, <2>3, <2>4, <2>6, PassiveKeeps, Zenon DEF CallerQueues, uringVars
  <2> QED  BY <2>5, <2>6, Zenon
<1>4. CASE PollStart
  <2>1. PICK i \in Awaitable : want' = i
    BY <1>4, Zenon DEF PollStart
  <2>2. i \in 0 .. MaxRequests
    BY <1>1, AwaitableIs, Zenon
  <2>3. /\ cpc = "idle" /\ cpc' = "poll"
        /\ UNCHANGED <<uringVars, completionVars, conns, nextReq, stash, got, asked,
                       pendingRearms, after, sending, calls>>
    BY <1>4, Zenon DEF PollStart, seenVars
  <2> QED  BY <1>2, <2>1, <2>2, <2>3, PassiveKeeps, Zenon DEF CallerQueues, uringVars
<1>5. CASE PollStep
  <2>1. cpc = "poll" /\ UNCHANGED <<nextReq, pendingRearms, after, sending, calls, asked>>
    BY <1>5, Zenon DEF PollStep
  <2>2. CASE Pop /\ Stash(Head(responses)) /\ UNCHANGED <<cpc, want, got>>
    BY <2>1, <2>2, PopKeeps, Zenon
  <2>3. CASE ~(Pop /\ Stash(Head(responses)) /\ UNCHANGED <<cpc, want, got>>)
    <3>1. /\ got' = [got EXCEPT ![want] = got[want] \cup stash[want]]
          /\ stash' = [stash EXCEPT ![want] = {}] /\ cpc' = "idle" /\ want' = 0
          /\ UNCHANGED <<uringVars, completionVars, conns>>
      BY <1>5, <2>3, Zenon DEF PollStep
    <3> QED  BY <1>2, <2>1, <3>1, Numbers, UnstashKeeps, Zenon
  <2> QED  BY <2>2, <2>3, Zenon
<1>6. CASE RecvPop \/ TimedResult
  <2>1. /\ Pop /\ UNCHANGED <<nextReq, pendingRearms, after, sending, calls, asked>>
        /\ cpc \in {"recv", "timed"} /\ cpc' \in {"recv", "timed", "idle", "cancel"}
        /\ want' \in {0, want}
    BY <1>6, Zenon DEF RecvPop, TimedResult
  <2>2. \/ Stash(Head(responses)) /\ got' = got
        \/ Return(Head(responses).id, Head(responses)) /\ stash' = stash
    BY <1>6, Zenon DEF RecvPop, TimedResult
  <2> QED  BY <2>1, <2>2, PopKeeps, Zenon
<1>7. CASE TimedOut
  BY <1>7, PopKeeps, Zenon DEF TimedOut
<1> QED  BY <1>3, <1>4, <1>5, <1>6, <1>7, Zenon

\* The start of a recv_timeout, the removal of its timeout, drop, and a request
\* that is refused.
LEMMA TimedKeeps ==
    ASSUME PoolInv, TimedStart \/ CancelTimeout \/ Drop \/ Joined \/ RequestRefused
    PROVE  PoolInv'
<1>1. KernelTypes /\ CallerTypes
  BY Zenon DEF PoolInv, PoolTypes
<1>2. /\ calls \in Nat /\ want \in 0 .. MaxRequests /\ sq \in Seq(Sqe) /\ Len(sq) <= RING
      /\ after \in {"idle", "dial", "timed", "join"} /\ (cpc # "enter" => after = "idle")
  BY <1>1, Zenon DEF CallerTypes, KernelTypes
<1>3. CASE TimedStart
  <2>1. PICK i \in Awaitable :
          \/ FromStash(i)
          \/ /\ calls' = calls + 1 /\ want' = i
             /\ IF SqHasRoom
                THEN /\ sq' = Append(sq, [op |-> "timeout", call |-> calls + 1])
                     /\ Submit("timed")
                ELSE /\ cpc' = "poll"
                     /\ UNCHANGED <<sq, after>>
             /\ UNCHANGED <<world, cq, sends, armed, timers, elapsed, fds, made, peer, got, stash>>
    BY <1>3, Zenon DEF TimedStart
  <2>2. cpc = "idle" /\ UNCHANGED <<completionVars, conns, nextReq, pendingRearms, sending, asked>>
    BY <1>3, Zenon DEF TimedStart
  <2>3. i \in 0 .. MaxRequests
    BY <1>1, AwaitableIs, Zenon
  <2>4. CASE FromStash(i)
    BY <1>2, <2>2, <2>3, <2>4, UnstashKeeps, Zenon DEF FromStash
  <2>5. CASE ~FromStash(i)
    <3>1. PICK n \in Nat : n = calls + 1
      BY <1>2
    <3>2. PICK x \in Sqe : x = [op |-> "timeout", call |-> n] /\ x.op # "send"
      <4>1. [op |-> "timeout", call |-> n] \in Sqe /\ [op |-> "timeout", call |-> n].op # "send"
        BY SqeIs, Zenon
      <4> QED  BY <4>1, Zenon
    <3>3. /\ sq' = (IF SqHasRoom THEN Append(sq, x) ELSE sq) /\ calls' = n
          /\ UNCHANGED <<world, cq, sends, armed, fds, made, peer, got, stash>>
          /\ \/ cpc' = "enter" /\ after' = "timed"
             \/ cpc' = "poll" /\ after' = after
      BY <2>1, <2>5, <3>1, <3>2, Zenon DEF Submit
    <3>4. CallerQueues /\ sq' \in Seq(Sqe) /\ Len(sq') <= RING
      BY <1>1, <3>2, <3>3, PushIs, Zenon
    <3>5. want' = i
      BY <2>1, <2>5, Zenon
    <3> QED  BY <1>2, <2>2, <2>3, <3>3, <3>4, <3>5, PassiveKeeps, Zenon
  <2> QED  BY <2>4, <2>5, Zenon
<1>4. CASE CancelTimeout \/ Drop
  <2>1. PICK x \in Sqe : x.op # "send" /\ sq' = (IF SqHasRoom THEN Append(sq, x) ELSE sq)
    BY <1>4, SqeIs, Zenon DEF CancelTimeout, Drop
  <2>2. CallerQueues /\ sq' \in Seq(Sqe) /\ Len(sq') <= RING
    BY <1>1, <2>1, PushIs, Zenon
  <2>3. /\ cpc \in {"cancel", "idle"} /\ cpc' = "enter" /\ after' \in {"idle", "join"}
        /\ UNCHANGED <<world, cq, sends, armed, fds, made, peer, completionVars, conns, nextReq,
                       stash, got, asked, pendingRearms, sending, want, calls>>
    BY <1>4, Zenon DEF CancelTimeout, Drop, Submit, seenVars
  <2> QED  BY <1>2, <2>2, <2>3, PassiveKeeps, Zenon
<1>5. CASE Joined \/ RequestRefused
  <2>1. /\ cpc \in {"join", "dial"} /\ cpc' \in {"gone", "idle"} /\ after' = after
        /\ UNCHANGED <<uringVars, completionVars, conns, nextReq, stash, got, asked,
                       pendingRearms, want, calls>>
        /\ sending' \in {sending, NO_REQUEST}
    BY <1>5, Zenon DEF Joined, RequestRefused, RequestFails, seenVars
  <2> QED  BY <1>2, <2>1, PassiveKeeps, Zenon DEF CallerQueues, uringVars
<1> QED  BY <1>3, <1>4, <1>5, Zenon

\* submit(): no ticket is outstanding while the kernel takes entries.
LEMMA SubmittingKeeps == ASSUME PoolInv, Submitting PROVE PoolInv'
<1>1. /\ KernelTypes /\ ThreadTypes /\ CallerTypes /\ DescriptorInv /\ FlightInv /\ ClaimInv
  BY Zenon DEF PoolInv, PoolTypes
<1>2. /\ calls \in Nat /\ want \in 0 .. MaxRequests /\ sq \in Seq(Sqe) /\ Len(sq) <= RING
      /\ after \in {"idle", "dial", "timed", "join"}
  BY <1>1, Zenon DEF CallerTypes, KernelTypes
<1>3. /\ cpc = "enter"
      /\ UNCHANGED <<completionVars, conns, nextReq, stash, got, asked, pendingRearms, sending,
                     want, calls>>
  BY Zenon DEF Submitting, seenVars
<1>4. CASE sq = <<>>
  <2>1. cpc' = after /\ after' = "idle" /\ UNCHANGED uringVars
    BY <1>4, Zenon DEF Submitting
  <2> QED  BY <1>2, <1>3, <2>1, PassiveKeeps, Zenon DEF CallerQueues, uringVars
<1>5. CASE sq # <<>>
  <2>1. TakeSqe /\ UNCHANGED <<cpc, after>>
    BY <1>5, Zenon DEF Submitting
  <2>2. KernelTypes' /\ ThreadTypes'
    BY <1>1, <1>3, <2>1, TakeSqeTypes, SameTypes, Zenon
  <2>3. CallerTypes'
    BY <1>1, <1>3, <2>1, Zenon DEF CallerTypes
  <2>4. DescriptorInv'
    BY <1>1, <1>3, <2>1, SameDescriptors, Zenon DEF TakeSqe
  <2>5. ClaimInv'
    BY <1>1, <1>3, <2>1, SameClaims, Zenon DEF completionVars
  <2>6. FlightInv'
    <3>1. Owned' = Owned
      BY <1>3, Zenon DEF Owned, Known, completionVars
    <3> QED  BY <1>1, <1>3, <2>1, <3>1, TakeSqeMoves, KernelFlights, Zenon
  <2> QED  BY <2>2, <2>3, <2>4, <2>5, <2>6, Zenon DEF PoolInv, PoolTypes
<1> QED  BY <1>4, <1>5, Zenon

\* The connections change, and with them the descriptor table, while no ticket
\* is outstanding.
LEMMA ConnectionKeeps ==
    ASSUME PoolInv, DescriptorInv', conns' \in [ConnId -> CallerConn],
           fds' \in [Fd -> Socket \cup {NO_SOCKET}], made' \in 0 .. MaxSockets,
           UNCHANGED <<world, sq, cq, sends, armed, peer, completionVars, nextReq, stash, got,
                       asked, pendingRearms, cpc, after, sending, want, calls>>
    PROVE  PoolInv'
<1>1. /\ KernelTypes /\ ThreadTypes /\ CallerTypes /\ FlightInv /\ ClaimInv
  BY Zenon DEF PoolInv, PoolTypes
<1>2. KernelTypes' /\ ThreadTypes' /\ CallerTypes'
  BY <1>1, SameTypes, Zenon DEF KernelTypes, CallerTypes
<1>3. ClaimInv'
  BY <1>1, SameClaims, Zenon DEF completionVars
<1>4. FlightInv'
  <2>1. Owned' = Owned
    BY Zenon DEF Owned, Known, completionVars
  <2> QED  BY <1>1, <2>1, CallerFlights, Zenon DEF CallerQueues
<1> QED  BY <1>2, <1>3, <1>4, Zenon DEF PoolInv, PoolTypes

\* The start of a request: the rearms that fit are pushed, the rest are kept.
LEMMA RequestStartKeeps == ASSUME PoolInv, RequestStart PROVE PoolInv'
<1>1. /\ KernelTypes /\ ThreadTypes /\ CallerTypes /\ DescriptorInv /\ FlightInv /\ ClaimInv
  BY Zenon DEF PoolInv, PoolTypes
<1>2. PICK c \in ConnId : conns[c].live /\ sending' = [conn |-> c, id |-> 0]
  BY Zenon DEF RequestStart
<1>3. PICK all \in Seq(RearmMsg) : all = pendingRearms \o rearms
  <2>1. pendingRearms \o rearms \in Seq(RearmMsg)
    BY <1>1, ConcatFacts, Zenon DEF ThreadTypes, CallerTypes
  <2> QED  BY <2>1, Zenon
<1>4. /\ sq \in Seq(Sqe) /\ Len(sq) \in Nat /\ RING \in Nat /\ Len(sq) <= RING
      /\ Len(all) \in Nat
  BY <1>1, PoolBounds DEF KernelTypes
<1>5. PICK fit \in Nat : /\ fit = (IF Len(all) < RING - Len(sq) THEN Len(all) ELSE RING - Len(sq))
                         /\ fit <= Len(all) /\ Len(sq) + fit <= RING
  <2>1. PICK n \in Nat, m \in Nat : n = Len(all) /\ m = RING - Len(sq) /\ Len(sq) + m = RING
    BY <1>4
  <2>2. CASE n < m
    BY <1>4, <2>1, <2>2
  <2>3. CASE ~(n < m)
    BY <1>4, <2>1, <2>3
  <2> QED  BY <2>2, <2>3, Zenon
<1>6. /\ sq' = sq \o [k \in 1 .. fit |-> RecvSqe(all[k].fd, all[k].conn)]
      /\ pendingRearms' = SubSeq(all, fit + 1, Len(all))
      /\ \E new : conns' = [d \in ConnId |->
              IF conns[d].live /\ new[d] = TRUE THEN [conns[d] EXCEPT !.armed = TRUE] ELSE conns[d]]
      /\ \/ cpc' = "enter" /\ after' = "dial"
         \/ cpc' = "dial" /\ after' = after
  <2>1. PICK new : new = [d \in ConnId |-> \E k \in 1 .. fit : SubSeq(all, 1, fit)[k].conn = d]
    BY Zenon
  <2>2. /\ sq' = sq \o [k \in 1 .. fit |-> RecvSqe(all[k].fd, all[k].conn)]
        /\ pendingRearms' = SubSeq(all, fit + 1, Len(all))
        /\ conns' = [d \in ConnId |->
              IF conns[d].live /\ \E k \in 1 .. fit : SubSeq(all, 1, fit)[k].conn = d
              THEN [conns[d] EXCEPT !.armed = TRUE] ELSE conns[d]]
        /\ IF fit < Len(all) THEN Submit("dial") ELSE cpc' = "dial" /\ UNCHANGED after
    BY <1>3, <1>5, Zenon DEF RequestStart
  <2>3. conns' = [d \in ConnId |->
              IF conns[d].live /\ new[d] = TRUE THEN [conns[d] EXCEPT !.armed = TRUE] ELSE conns[d]]
    BY <2>1, <2>2, Zenon
  <2> QED  BY <2>2, <2>3, Zenon DEF Submit
<1>7. /\ cpc = "idle" /\ after = "idle" /\ rearms' = <<>> /\ nextReq <= world.requests
      /\ UNCHANGED <<world, cq, sends, armed, fds, made, peer, ticketRing, tickets, cdata,
                     threadVars, responses, nextReq, stash, want, calls, got, asked>>
  BY <1>1, Zenon DEF RequestStart, CallerTypes, seenVars
<1>8. PICK p \in Seq(Sqe) : /\ p = [k \in 1 .. fit |-> RecvSqe(all[k].fd, all[k].conn)]
                            /\ Len(p) = fit /\ \A k \in DOMAIN p : p[k].op # "send"
  <2>1. ASSUME NEW k \in 1 .. fit
        PROVE  RecvSqe(all[k].fd, all[k].conn) \in Sqe /\ RecvSqe(all[k].fd, all[k].conn).op # "send"
    <3>1. k \in 1 .. Len(all)
      BY <1>4, <1>5
    <3>2. all[k] \in RearmMsg
      BY <3>1
    <3>3. all[k].fd \in Fd /\ all[k].conn \in ConnId
      BY <3>2, Zenon DEF RearmMsg
    <3> QED  BY <3>3, SqeIs, Zenon DEF RecvSqe
  <2> DEFINE q == [k \in 1 .. fit |-> RecvSqe(all[k].fd, all[k].conn)]
  <2>2. q \in [1 .. fit -> Sqe] /\ \A k \in 1 .. fit : q[k].op # "send"
    BY <2>1, Zenon
  <2>3. DOMAIN q = 1 .. fit
    BY Zenon
  <2> HIDE DEF q
  <2>4. q \in Seq(Sqe)
    BY <2>2
  <2>5. Len(q) = fit
    BY <2>3, <2>4
  <2> QED  BY <2>2, <2>3, <2>4, <2>5, Zenon DEF q
<1>9. CallerQueues /\ sq' \in Seq(Sqe) /\ Len(sq') <= RING
  <2>1. sq' = sq \o p
    BY <1>6, <1>8, Zenon
  <2>2. sq \o p \in Seq(Sqe) /\ Len(sq \o p) = Len(sq) + Len(p)
    BY <1>4, ConcatFacts, Zenon
  <2> QED  BY <1>5, <1>8, <2>1, <2>2, Zenon DEF CallerQueues
<1>10. pendingRearms' \in Seq(RearmMsg)
  BY <1>4, <1>5, <1>6, PartOf
<1>11. /\ conns' \in [ConnId -> CallerConn]
       /\ \A d \in ConnId : /\ conns'[d].live = conns[d].live /\ conns'[d].fd = conns[d].fd
                            /\ conns'[d].reconnect = conns[d].reconnect
  <2>1. conns \in [ConnId -> CallerConn]
    BY <1>1, Zenon DEF CallerTypes
  <2>2. \A x \in CallerConn : /\ [x EXCEPT !.armed = TRUE] \in CallerConn
                              /\ [x EXCEPT !.armed = TRUE].live = x.live
                              /\ [x EXCEPT !.armed = TRUE].fd = x.fd
                              /\ [x EXCEPT !.armed = TRUE].reconnect = x.reconnect
    BY Zenon DEF CallerConn
  <2>3. DOMAIN conns' = ConnId /\ conns' = [d \in ConnId |-> conns'[d]]
    BY <1>6, Zenon
  <2>4. \A d \in ConnId : conns'[d] = conns[d] \/ conns'[d] = [conns[d] EXCEPT !.armed = TRUE]
    BY <1>6, Zenon
  <2>5. ASSUME NEW d \in ConnId
        PROVE  /\ conns'[d] \in CallerConn
               /\ conns'[d].live = conns[d].live /\ conns'[d].fd = conns[d].fd
               /\ conns'[d].reconnect = conns[d].reconnect
    <3>1. PICK old \in CallerConn : old = conns[d]
      BY <2>1, Zenon
    <3>2. conns'[d] = old \/ conns'[d] = [old EXCEPT !.armed = TRUE]
      BY <2>4, <3>1, Zenon
    <3> QED  BY <2>2, <3>1, <3>2, Zenon
  <2>6. conns' \in [ConnId -> CallerConn]
    BY <2>3, <2>5, Zenon
  <2> QED  BY <2>5, <2>6, Zenon
<1>12. KernelTypes'
  BY <1>1, <1>7, <1>9, Zenon DEF KernelTypes
<1>13. ThreadTypes'
  <2>1. rearms' \in Seq(RearmMsg)
    BY <1>7
  <2> QED  BY <1>1, <1>7, <2>1, Zenon DEF ThreadTypes, threadVars
<1>14. CallerTypes'
  <2>1. sending' \in [conn : ConnId, id : 0 .. MaxRequests]
    BY <1>2, Numbers, Zenon
  <2>2. nextReq <= MaxRequests
    <3>1. world.requests \in 0 .. MaxRequests /\ nextReq \in Nat /\ MaxRequests \in Nat
      BY <1>1, Numbers DEF KernelTypes, World, CallerTypes
    <3> QED  BY <1>7, <3>1
  <2> QED  BY <1>1, <1>6, <1>7, <1>10, <1>11, <2>1, <2>2, Zenon DEF CallerTypes
<1>15. DescriptorInv'
  <2>1. sending'.conn = c
    BY <1>2, Zenon
  <2> QED  BY <1>1, <1>2, <1>6, <1>7, <1>11, <2>1 DEF DescriptorInv, Open
<1>16. ClaimInv'
  BY <1>1, <1>6, <1>7, SameClaims, Zenon
<1>17. FlightInv'
  <2>1. Owned' = Owned
    BY <1>7, Zenon DEF Owned, Known
  <2> QED  BY <1>1, <1>7, <1>9, <2>1, CallerFlights, Zenon
<1> QED  BY <1>12, <1>13, <1>14, <1>15, <1>16, <1>17, Zenon DEF PoolInv, PoolTypes

\* push_send: the send is pushed under a new id on the connection's own
\* descriptor, then its ticket is queued before the kernel is told.
LEMMA PushKeeps == ASSUME PoolInv, PushSend \/ PushTicket PROVE PoolInv'
<1>1. /\ KernelTypes /\ ThreadTypes /\ CallerTypes /\ DescriptorInv /\ FlightInv /\ ClaimInv
  BY Zenon DEF PoolInv, PoolTypes
<1>2. /\ sq \in Seq(Sqe) /\ Len(sq) \in Nat /\ RING \in Nat /\ Len(sq) <= RING
      /\ MaxRequests \in Nat /\ nextReq \in 1 .. MaxRequests + 1
      /\ conns \in [ConnId -> CallerConn] /\ sending \in [conn : ConnId, id : 0 .. MaxRequests]
      /\ after \in {"idle", "dial", "timed", "join"} /\ (cpc # "enter" => after = "idle")
  BY <1>1, PoolBounds DEF KernelTypes, CallerTypes
<1>3. PICK c \in ConnId : c = sending.conn
  BY <1>2, Zenon
<1>4. CASE PushSend
  <2>1. /\ cpc = "dial" /\ ~conns[c].reconnect /\ nextReq' = nextReq + 1
        /\ UNCHANGED <<world, cq, sends, armed, fds, made, peer, completionVars, conns, stash,
                       pendingRearms, after, want, calls, got, asked>>
    BY <1>3, <1>4, Zenon DEF PushSend, seenVars
  <2>2. after = "idle" /\ nextReq \in Id /\ nextReq <= MaxRequests
    BY <1>1, <1>2, <2>1 DEF CallerTypes, Id
  <2>3. PICK f \in Fd : f = conns[c].fd /\ Open(c)
    BY <1>1, <1>3, <2>1, Zenon DEF DescriptorInv, Open
  <2>4. ThreadTypes' /\ Owned' = Owned
    BY <1>1, <2>1, SameTypes, Zenon DEF Owned, Known, completionVars
  <2>5. nextReq' \in 1 .. MaxRequests + 1 /\ nextReq \in 0 .. MaxRequests
    BY <1>2, <2>1, <2>2
  <2>6. CASE SqHasRoom
    <3>1. /\ sq' = Append(sq, SendSqe(f, nextReq)) /\ cpc' = "ticket"
          /\ sending' = [sending EXCEPT !.id = nextReq]
      BY <1>3, <1>4, <2>3, <2>6, Zenon DEF PushSend
    <3>2. /\ sending' \in [conn : ConnId, id : 0 .. MaxRequests]
          /\ sending'.id = nextReq /\ sending'.conn = c
      BY <1>2, <1>3, <2>5, <3>1, Zenon
    <3>3. sq' \in Seq(Sqe) /\ Len(sq') <= RING
      <4>1. PICK x \in Sqe : x = SendSqe(f, nextReq)
        BY <2>2, SqeIs, Zenon
      <4>2. sq' = Append(sq, x) /\ Len(sq) < RING
        BY <2>6, <3>1, <4>1, Zenon DEF SqHasRoom
      <4> QED  BY <1>2, <4>2
    <3>4. KernelTypes'
      BY <1>1, <2>1, <3>3, Zenon DEF KernelTypes
    <3>5. CallerTypes'
      BY <1>1, <2>1, <2>2, <2>5, <3>1, <3>2, Zenon DEF CallerTypes
    <3>6. DescriptorInv'
      BY <1>1, <2>1, <2>2, <2>3, <3>1, <3>2 DEF DescriptorInv, Open
    <3>7. FlightInv'
      BY <1>1, <2>1, <2>2, <2>4, <3>1, <3>2, PushFlights, Zenon
    <3>8. ClaimInv'
      BY <1>1, <2>1, <2>2, <3>2, PushSendClaims, Zenon DEF completionVars
    <3> QED  BY <2>4, <3>4, <3>5, <3>6, <3>7, <3>8, Zenon DEF PoolInv, PoolTypes
  <2>7. CASE ~SqHasRoom
    <3>1. sq' = sq /\ cpc' = "idle" /\ sending' = NO_REQUEST
      BY <1>4, <2>7, Zenon DEF PushSend, RequestFails
    <3>2. KernelTypes'
      BY <1>1, <2>1, <3>1, SameTypes, Zenon
    <3>3. CallerTypes'
      <4>1. sending' \in [conn : ConnId, id : 0 .. MaxRequests]
        BY <3>1, Numbers, Zenon DEF NO_REQUEST
      <4> QED  BY <1>1, <2>1, <2>2, <2>5, <3>1, <4>1, Zenon DEF CallerTypes
    <3>4. DescriptorInv'
      BY <1>1, <2>1, <2>2, <3>1, SameDescriptors, Zenon
    <3>5. FlightInv'
      BY <1>1, <2>1, <2>4, <3>1, CallerFlights, Zenon DEF CallerQueues
    <3>6. ClaimInv'
      BY <1>1, <2>1, <2>2, <3>1, PushSendClaims, Zenon DEF completionVars
    <3> QED  BY <2>4, <3>2, <3>3, <3>4, <3>5, <3>6, Zenon DEF PoolInv, PoolTypes
  <2> QED  BY <2>6, <2>7, Zenon
<1>5. CASE PushTicket
  <2>1. /\ cpc = "ticket" /\ ticketRing' = Append(ticketRing, sending)
        /\ UNCHANGED <<world, cq, sends, armed, fds, made, peer, tickets, cdata, threadVars,
                       responses, rearms, nextReq, stash, pendingRearms, want, calls, got>>
    BY <1>5, Zenon DEF PushTicket
  <2>2. sending \in Ticket /\ Open(c) /\ after = "idle"
    BY <1>1, <1>2, <1>3, <2>1, Zenon DEF Ticket, ClaimInv, DescriptorInv
  <2>3. PICK f \in Fd : f = conns[c].fd
    BY <1>1, <2>2, Zenon DEF DescriptorInv
  <2>4. PICK old \in CallerConn : old = conns[c]
    BY <1>2, Zenon
  <2>5. PICK x \in Sqe : x = RecvSqe(f, c) /\ x.op # "send"
    <3>1. RecvSqe(f, c) \in Sqe /\ RecvSqe(f, c).op # "send"
      BY SqeIs, Zenon DEF RecvSqe
    <3> QED  BY <3>1, Zenon
  <2>6. PICK y \in CallerConn :
          /\ y = [old EXCEPT !.armed = TRUE]
          /\ y.fd = old.fd /\ y.live = old.live /\ y.reconnect = old.reconnect
    <3>1. /\ [old EXCEPT !.armed = TRUE] \in CallerConn
          /\ [old EXCEPT !.armed = TRUE].fd = old.fd
          /\ [old EXCEPT !.armed = TRUE].live = old.live
          /\ [old EXCEPT !.armed = TRUE].reconnect = old.reconnect
      BY Zenon DEF CallerConn
    <3> QED  BY <3>1, Zenon
  <2>7. /\ sq' = sq \/ (SqHasRoom /\ sq' = Append(sq, x))
        /\ conns' = conns \/ conns' = [conns EXCEPT ![c] = y]
        /\ asked' = asked \/ asked' = asked \cup {sending}
        /\ sending' = NO_REQUEST
        /\ \/ cpc' = "enter" /\ after' = "idle"
           \/ cpc' = "idle" /\ after' = after
    <3>1. CASE conns[c].armed \/ SqHasRoom
      <4>1. /\ sq' = (IF conns[c].armed THEN sq ELSE Append(sq, RecvSqe(conns[c].fd, c)))
            /\ conns' = [conns EXCEPT ![c].armed = TRUE]
            /\ asked' = asked \cup {sending} /\ sending' = NO_REQUEST /\ Submit("idle")
        BY <1>3, <1>5, <3>1, Zenon DEF PushTicket
      <4> QED  BY <2>3, <2>4, <2>5, <2>6, <3>1, <4>1, Zenon DEF Submit
    <3>2. CASE ~(conns[c].armed \/ SqHasRoom)
      BY <1>3, <1>5, <3>2, Zenon DEF PushTicket, RequestFails
    <3> QED  BY <3>1, <3>2, Zenon
  <2>8. CallerQueues /\ sq' \in Seq(Sqe) /\ Len(sq') <= RING
    BY <1>2, <2>5, <2>7 DEF CallerQueues, SqHasRoom
  <2>9. /\ conns' \in [ConnId -> CallerConn]
        /\ \A d \in ConnId : /\ conns'[d].live = conns[d].live /\ conns'[d].fd = conns[d].fd
                             /\ conns'[d].reconnect = conns[d].reconnect
    <3>1. \A d \in ConnId : conns'[d] = conns[d] \/ (d = c /\ conns'[d] = y)
      BY <1>2, <2>7, Zenon
    <3> QED  BY <1>2, <2>4, <2>6, <2>7, <3>1, ZenonT(30)
  <2>10. KernelTypes'
    BY <1>1, <2>1, <2>8, Zenon DEF KernelTypes
  <2>11. ThreadTypes'
    <3>1. ticketRing' \in Seq(Ticket)
      BY <1>1, <2>1, <2>2 DEF ThreadTypes
    <3> QED  BY <1>1, <2>1, <3>1, Zenon DEF ThreadTypes, threadVars
  <2>12. CallerTypes'
    <3>1. sending' \in [conn : ConnId, id : 0 .. MaxRequests] /\ asked' \subseteq Ticket
      BY <1>1, <2>2, <2>7, Numbers, ZenonT(30) DEF NO_REQUEST, CallerTypes
    <3> QED  BY <1>1, <2>1, <2>2, <2>7, <2>9, <3>1, Zenon DEF CallerTypes
  <2>13. DescriptorInv'
    BY <1>1, <2>1, <2>2, <2>7, <2>9 DEF DescriptorInv, Open
  <2>14. ClaimInv' /\ \A i : i \in Owned' <=> i \in Owned \/ i = sending.id
    BY <1>1, <2>1, <2>7, PushTicketClaims, Zenon
  <2>15. FlightInv'
    BY <1>1, <2>1, <2>8, <2>14, CallerFlights, Zenon
  <2> QED  BY <2>10, <2>11, <2>12, <2>13, <2>14, <2>15, Zenon DEF PoolInv, PoolTypes
<1> QED  BY <1>4, <1>5, Zenon

(***************************************************************************)
(* The other threads, and the theorems                                     *)
(***************************************************************************)

\* complete_loop.
LEMMA ThreadKeeps == ASSUME PoolInv, ThreadStep PROVE PoolInv'
<1>1. /\ KernelTypes /\ ThreadTypes /\ CallerTypes /\ DescriptorInv /\ FlightInv /\ ClaimInv
  BY Zenon DEF PoolInv, PoolTypes
<1>2. CompleteThread /\ UNCHANGED <<callerVars, seenVars>>
  BY Zenon DEF ThreadStep
<1>3. ThreadTypes' /\ (QuietStep \/ AnswerStep \/ RedeemStep)
  BY <1>1, <1>2, ThreadStepIs, Zenon
<1>4. UNCHANGED <<world, sq, sends, armed, fds, made, peer>>
  BY <1>2, Zenon DEF CompleteThread, ReapTimeout, ReapShutdown, ReapSend, ReapEnd, ReapData,
              DrainRecvBuf, PushRearm, Reaping, uringVars
<1>5. cq' \in Seq(Cqe)
  <2>1. cq' = cq \/ (cq # <<>> /\ cq' = Tail(cq))
    BY <1>3, Zenon DEF QuietStep, AnswerStep, RedeemStep, Passed
  <2>2. PICK q \in Seq(Cqe) : q = cq
    BY <1>1, Zenon DEF KernelTypes
  <2>3. q # <<>> => Tail(q) \in Seq(Cqe)
    OBVIOUS
  <2> QED  BY <2>1, <2>2, <2>3, Zenon
<1>6. KernelTypes' /\ CallerTypes'
  <2>1. KernelTypes'
    BY <1>1, <1>4, <1>5, Zenon DEF KernelTypes
  <2> QED  BY <1>1, <1>2, <2>1, SameTypes, Zenon
<1>7. DescriptorInv'
  BY <1>1, <1>2, <1>4, SameDescriptors, Zenon DEF callerVars
<1>8. FlightInv'
  BY <1>1, <1>2, <1>3, <1>4, ThreadFlights, Zenon DEF callerVars
<1>9. ClaimInv'
  BY <1>1, <1>2, <1>3, ThreadClaims, Zenon DEF callerVars, seenVars
<1> QED  BY <1>3, <1>6, <1>7, <1>8, <1>9, Zenon DEF PoolInv, PoolTypes

\* The kernel and the servers.
LEMMA KernelKeeps == ASSUME PoolInv, Outside(Kernel) \/ Outside(PeerLeaves) PROVE PoolInv'
<1>1. /\ KernelTypes /\ ThreadTypes /\ CallerTypes /\ DescriptorInv /\ FlightInv /\ ClaimInv
  BY Zenon DEF PoolInv, PoolTypes
<1>2. (Kernel \/ PeerLeaves) /\ UNCHANGED <<completionVars, callerVars, seenVars>>
  BY Zenon DEF Outside
<1>3. KernelTypes' /\ ThreadTypes' /\ CallerTypes'
  BY <1>1, <1>2, KernelStepTypes, SameTypes, Zenon
<1>4. UNCHANGED <<sq, fds, made>>
  BY <1>2, Zenon DEF Kernel, SendCompletes, DataArrives, EndArrives, TimerFires, PeerLeaves
<1>5. DescriptorInv'
  BY <1>1, <1>2, <1>4, SameDescriptors, Zenon DEF callerVars
<1>6. FlightInv'
  <2>1. Owned' = Owned
    BY <1>2, Zenon DEF Owned, Known, completionVars
  <2> QED  BY <1>1, <1>2, <1>4, <2>1, KernelMoves, KernelFlights, Zenon DEF callerVars
<1>7. ClaimInv'
  BY <1>1, <1>2, SameClaims, Zenon DEF completionVars, callerVars, seenVars
<1> QED  BY <1>3, <1>5, <1>6, <1>7, Zenon DEF PoolInv, PoolTypes

\* A pool that was just made.
LEMMA InitPool == ASSUME Init PROVE PoolInv
<1>1. KernelTypes
  <2>1. world \in World /\ 0 <= RING /\ 0 \in 0 .. MaxSockets
    BY PoolBounds DEF Init, UringInit
  <2>2. sq \in Seq(Sqe) /\ Len(sq) = 0 /\ cq \in Seq(Cqe) /\ sends \in Seq(Flight)
    BY DEF Init, UringInit
  <2>3. fds \in [Fd -> Socket \cup {NO_SOCKET}] /\ armed \subseteq Recv /\ made = 0
    BY Zenon DEF Init, UringInit
  <2>4. peer \in [Socket -> Peer]
    <3>1. [wire |-> <<>>, closed |-> FALSE] \in Peer
      BY DEF Peer
    <3> QED  BY <3>1, Zenon DEF Init, UringInit
  <2> QED  BY <2>1, <2>2, <2>3, <2>4, Zenon DEF KernelTypes
<1>2. /\ ticketRing = <<>> /\ tickets = {} /\ responses = <<>> /\ cdata = [c \in ConnId |-> EmptyConn]
      /\ tconn = 0 /\ tfeed = <<>> /\ trearm = <<>> /\ rearms = <<>>
  BY Zenon DEF Init, CompletionInit
<1>3. ThreadTypes
  <2>1. EmptyConn \in ConnData
    BY DEF EmptyConn, ConnData, Partial
  <2>2. cdata \in [ConnId -> ConnData]
    BY <1>2, <2>1, Zenon
  <2>3. ticketRing \in Seq(Ticket) /\ responses \in Seq(Result)
    BY <1>2
  <2>4. tfeed \in Seq(Unit) /\ trearm \in Seq(RearmMsg) /\ rearms \in Seq(RearmMsg)
    BY <1>2
  <2> QED  BY <1>2, <2>2, <2>3, <2>4, Numbers, Zenon DEF ThreadTypes
<1>4. CallerTypes
  <2>1. /\ NO_CONN \in CallerConn /\ NO_REQUEST \in [conn : ConnId, id : 0 .. MaxRequests]
    BY Numbers, Zenon DEF NO_CONN, CallerConn, NO_REQUEST
  <2>2. 1 \in 1 .. MaxRequests + 1 /\ 0 \in 0 .. MaxRequests
    BY Numbers
  <2> QED  BY <2>1, <2>2 DEF Init, CallerTypes
<1>5. DescriptorInv
  <2>1. /\ \A f \in Fd : fds[f] = 0 /\ fds[f] <= made
        /\ \A c \in ConnId : conns[c] = NO_CONN /\ NO_CONN.live = FALSE /\ NO_CONN.reconnect = FALSE
    BY DEF Init, UringInit, NO_SOCKET, NO_CONN
  <2>2. cpc = "idle" /\ after = "idle"
    BY Zenon DEF Init
  <2> QED  BY <2>1, <2>2, Zenon DEF DescriptorInv, Open, NO_SOCKET
<1>6. FlightInv
  <2>1. sq = <<>> /\ sends = <<>> /\ cq = <<>>
    BY Zenon DEF Init, UringInit
  <2> QED  BY <2>1 DEF FlightInv, Distinct, DistinctFlights, Ids, Sent, FlightIds
<1>7. ClaimInv
  <2>1. Known = {} /\ Owned = {} /\ InRing = {}
    BY <1>2 DEF Known, Owned, InRing, Range
  <2>2. \A c \in ConnId : cdata[c].pending = <<>>
    BY <1>2, Zenon DEF EmptyConn
  <2>3. Pending = {} /\ OnePlace
    BY <2>2 DEF Pending, OnePlace, Range
  <2>4. \A i \in Id : stash[i] = {} /\ got[i] = {}
    BY Numbers, Zenon DEF Init
  <2>5. Stashed = {} /\ Returned = {} /\ OneKept
    BY <2>4, Zenon DEF Stashed, Returned, OneKept
  <2>6. OneTicket /\ OneInRing
    BY <1>2, <2>1 DEF OneTicket, OneInRing
  <2>7. cpc = "idle"
    BY Zenon DEF Init
  <2> QED  BY <2>1, <2>3, <2>5, <2>6, <2>7, Zenon DEF ClaimInv, Claimed, Apart
<1> QED  BY <1>1, <1>3, <1>4, <1>5, <1>6, <1>7, Zenon DEF PoolInv, PoolTypes

INSTANCE FiniteSetTheorems

\* While a socket can be made there is a free descriptor: no socket is under
\* two, so the sockets made do not fill the table.
LEMMA LowestIs ==
    ASSUME KernelTypes, DescriptorInv, made < world.sockets
    PROVE  LowestFd \in Fd /\ fds[LowestFd] = NO_SOCKET /\ made + 1 \in Socket
<1>1. /\ fds \in [Fd -> Socket \cup {NO_SOCKET}] /\ made \in 0 .. MaxSockets
      /\ world.sockets \in 0 .. MaxSockets
  BY Zenon DEF KernelTypes, World
<1>2. MaxSockets \in Nat /\ made \in Nat /\ made < MaxSockets
  BY <1>1, Numbers
<1> DEFINE Free == {f \in Fd : fds[f] = NO_SOCKET}
<1>3. Free # {}
  <2> SUFFICES ASSUME \A f \in Fd : fds[f] # NO_SOCKET PROVE FALSE
    BY Zenon
  <2>1. fds \in [1 .. MaxSockets -> 1 .. made]
    <3>1. ASSUME NEW f \in Fd PROVE fds[f] \in 1 .. made
      <4>1. fds[f] \in Socket /\ fds[f] <= made
        BY <1>1, Zenon DEF DescriptorInv
      <4> QED  BY <1>2, <4>1 DEF Socket
    <3> QED  BY <1>1, <3>1, Zenon DEF Fd
  <2>2. /\ IsFiniteSet(1 .. MaxSockets) /\ Cardinality(1 .. MaxSockets) = MaxSockets
        /\ IsFiniteSet(1 .. made) /\ Cardinality(1 .. made) = made
    <3>1. 1 \in Int /\ MaxSockets \in Int /\ made \in Int
      BY <1>2
    <3>2. /\ IsFiniteSet(1 .. MaxSockets)
          /\ Cardinality(1 .. MaxSockets) = IF 1 > MaxSockets THEN 0 ELSE MaxSockets - 1 + 1
          /\ IsFiniteSet(1 .. made)
          /\ Cardinality(1 .. made) = IF 1 > made THEN 0 ELSE made - 1 + 1
      BY <3>1, FS_Interval, Zenon
    <3> QED  BY <1>2, <3>2
  <2>3. Cardinality(1 .. made) < Cardinality(1 .. MaxSockets)
    BY <1>2, <2>2
  <2>4. \E f, g \in 1 .. MaxSockets : f # g /\ fds[f] = fds[g]
    BY <2>1, <2>2, <2>3, FS_PigeonHole, Zenon
  <2> QED  BY <2>4, Zenon DEF DescriptorInv, Fd
<1>4. Free \subseteq Nat
  BY <1>2 DEF Fd
<1>5. PICK f \in Free : \A g \in Free : ~(<<g, f>> \in OpToRel(<, Nat))
  BY <1>3, <1>4, NatLessThanWellFounded, WFMin, Zenon
<1>6. \A g \in Free : ~(g < f)
  BY <1>4, <1>5, Zenon DEF OpToRel
<1>7. f \in Fd /\ fds[f] = NO_SOCKET /\ \A g \in Fd : g < f => fds[g] # NO_SOCKET
  BY <1>6, Zenon
<1>8. LowestFd \in Fd /\ fds[LowestFd] = NO_SOCKET
  BY <1>7, Zenon DEF LowestFd
<1> QED  BY <1>2, <1>8 DEF Socket

\* connect and the reconnect of a request: a new socket under a descriptor
\* that no connection has.
LEMMA NewDescriptor ==
    ASSUME KernelTypes, CallerTypes, DescriptorInv, NewSocket, NEW c \in ConnId,
           NEW x \in CallerConn, x.fd = LowestFd, x.live = TRUE, x.reconnect = FALSE,
           conns' = [conns EXCEPT ![c] = x], UNCHANGED <<cpc, after, sending>>, cpc # "ticket"
    PROVE  /\ DescriptorInv' /\ conns' \in [ConnId -> CallerConn]
           /\ fds' \in [Fd -> Socket \cup {NO_SOCKET}] /\ made' \in 0 .. MaxSockets
<1>1. /\ fds \in [Fd -> Socket \cup {NO_SOCKET}] /\ made \in 0 .. MaxSockets
      /\ conns \in [ConnId -> CallerConn] /\ sending.conn \in ConnId
  BY Zenon DEF KernelTypes, CallerTypes
<1>2. LowestFd \in Fd /\ fds[LowestFd] = NO_SOCKET /\ made + 1 \in Socket
  BY LowestIs, Zenon DEF NewSocket
<1>3. PICK n \in Fd : n = LowestFd
  BY <1>2, Zenon
<1>4. PICK s \in Socket : s = made + 1
  BY <1>2, Zenon
<1>5. made' = s /\ fds' = [fds EXCEPT ![n] = s]
  BY <1>3, <1>4, Zenon DEF NewSocket
<1>6. /\ fds'[n] = s /\ \A f \in Fd \ {n} : fds'[f] = fds[f]
      /\ conns'[c] = x /\ \A d \in ConnId \ {c} : conns'[d] = conns[d]
  BY <1>1, <1>5
<1>7. /\ s # NO_SOCKET /\ s <= s /\ made' \in 0 .. MaxSockets
      /\ \A f \in Fd : fds[f] <= s /\ fds[f] # s
  <2>1. \A f \in Fd : fds[f] \in Nat /\ fds[f] <= made /\ made \in Nat /\ MaxSockets \in Nat
    BY <1>1, Numbers DEF DescriptorInv, Socket, NO_SOCKET
  <2> QED  BY <1>4, <1>5, <2>1 DEF Socket, NO_SOCKET
<1>8. /\ \A f \in Fd : fds'[f] <= made'
      /\ \A f, g \in Fd : fds'[f] = fds'[g] /\ fds'[f] # NO_SOCKET => f = g
  BY <1>5, <1>6, <1>7 DEF DescriptorInv
<1>9. \A d \in ConnId : d # c /\ Open(d)' => /\ Open(d) /\ conns'[d].fd = conns[d].fd
                                             /\ conns[d].fd \in Fd /\ conns[d].fd # n
  BY <1>2, <1>3, <1>6 DEF DescriptorInv, Open
<1>10. Open(c)' => conns'[c].fd = n
  BY <1>3, <1>6, ZenonT(30)
<1>11. /\ \A d \in ConnId : Open(d)' => conns'[d].fd \in Fd /\ fds'[conns'[d].fd] # NO_SOCKET
       /\ \A b, d \in ConnId : Open(b)' /\ Open(d)' /\ conns'[b].fd = conns'[d].fd => b = d
  BY <1>3, <1>6, <1>7, <1>9, <1>10 DEF DescriptorInv
<1>12. \A d \in ConnId : conns'[d].reconnect => conns'[d].fd = NO_FD
  BY <1>6, Zenon DEF DescriptorInv
<1>13. cpc' = "dial" \/ after' = "dial" => conns'[sending'.conn].live
  BY <1>1, <1>6, Zenon DEF DescriptorInv
<1>14. fds' \in [Fd -> Socket \cup {NO_SOCKET}] /\ conns' \in [ConnId -> CallerConn]
  BY <1>1, <1>5, Zenon
<1> QED  BY <1>7, <1>8, <1>11, <1>12, <1>13, <1>14, ZenonT(30) DEF DescriptorInv

\* connect, disconnect, and the reconnect of a connection that failed.
LEMMA ConnectKeeps == ASSUME PoolInv, Connect \/ Disconnect \/ Reconnect PROVE PoolInv'
<1>1. /\ KernelTypes /\ CallerTypes /\ DescriptorInv
  BY Zenon DEF PoolInv, PoolTypes
<1>2. /\ conns \in [ConnId -> CallerConn] /\ sending.conn \in ConnId
      /\ (cpc # "enter" => after = "idle")
  BY <1>1, Zenon DEF CallerTypes
<1>3. /\ fds \in [Fd -> Socket \cup {NO_SOCKET}] /\ made \in 0 .. MaxSockets
  BY <1>1, Zenon DEF KernelTypes
<1>4. CASE Connect
  <2>1. LowestFd \in Fd
    BY <1>1, <1>4, LowestIs, Zenon DEF Connect, NewSocket
  <2>2. LET x == [fd |-> LowestFd, armed |-> FALSE, reconnect |-> FALSE, live |-> TRUE]
        IN  x \in CallerConn /\ x.fd = LowestFd /\ x.live = TRUE /\ x.reconnect = FALSE
    BY <2>1, Zenon DEF CallerConn
  <2>3. PICK x \in CallerConn :
          /\ x = [fd |-> LowestFd, armed |-> FALSE, reconnect |-> FALSE, live |-> TRUE]
          /\ x.fd = LowestFd /\ x.live = TRUE /\ x.reconnect = FALSE
    BY <2>2, Zenon
  <2>4. PICK c \in ConnId : conns' = [conns EXCEPT ![c] = x]
    BY <1>4, <2>3, Zenon DEF Connect
  <2>5. /\ NewSocket /\ cpc = "idle"
        /\ UNCHANGED <<completionVars, nextReq, stash, got, asked, pendingRearms, cpc, after,
                       sending, want, calls>>
    BY <1>4, Zenon DEF Connect, seenVars
  <2>6. /\ DescriptorInv' /\ conns' \in [ConnId -> CallerConn]
        /\ fds' \in [Fd -> Socket \cup {NO_SOCKET}] /\ made' \in 0 .. MaxSockets
    BY <1>1, <2>3, <2>4, <2>5, NewDescriptor, Zenon
  <2> QED  BY <2>5, <2>6, ConnectionKeeps DEF NewSocket
<1>5. CASE Reconnect
  <2>1. LowestFd \in Fd
    BY <1>1, <1>5, LowestIs, Zenon DEF Reconnect, NewSocket
  <2>2. PICK c \in ConnId : c = sending.conn
    BY <1>2
  <2>3. PICK old \in CallerConn : old = conns[c] /\ old.live = TRUE
    <3>1. cpc = "dial" /\ conns[c] \in CallerConn /\ conns[c].live
      BY <1>1, <1>2, <1>5, <2>2 DEF Reconnect, DescriptorInv
    <3>2. conns[c].live \in BOOLEAN
      BY <3>1, Zenon DEF CallerConn
    <3> QED  BY <3>1, <3>2, Zenon
  <2>4. LET x == [old EXCEPT !.fd = LowestFd, !.armed = FALSE, !.reconnect = FALSE]
        IN  x \in CallerConn /\ x.fd = LowestFd /\ x.live = TRUE /\ x.reconnect = FALSE
    BY <2>1, <2>3, Zenon DEF CallerConn
  <2>5. PICK x \in CallerConn :
          /\ x = [old EXCEPT !.fd = LowestFd, !.armed = FALSE, !.reconnect = FALSE]
          /\ x.fd = LowestFd /\ x.live = TRUE /\ x.reconnect = FALSE
    BY <2>4, Zenon
  <2>6. /\ NewSocket /\ cpc = "dial" /\ conns' = [conns EXCEPT ![c] = x]
        /\ UNCHANGED <<completionVars, nextReq, stash, got, asked, pendingRearms, cpc, after,
                       sending, want, calls>>
    BY <1>5, <2>2, <2>3, <2>5 DEF Reconnect, seenVars
  <2>7. /\ DescriptorInv' /\ conns' \in [ConnId -> CallerConn]
        /\ fds' \in [Fd -> Socket \cup {NO_SOCKET}] /\ made' \in 0 .. MaxSockets
    BY <1>1, <2>5, <2>6, NewDescriptor, Zenon
  <2> QED  BY <2>6, <2>7, ConnectionKeeps, Zenon DEF NewSocket
<1>6. CASE Disconnect
  <2>1. PICK c \in ConnId :
          /\ conns[c].live
          /\ IF conns[c].reconnect THEN UNCHANGED uringVars ELSE Close(conns[c].fd)
          /\ conns' = [conns EXCEPT ![c] = NO_CONN]
    BY <1>6, Zenon DEF Disconnect
  <2>2. /\ cpc = "idle"
        /\ UNCHANGED <<completionVars, nextReq, stash, got, asked, pendingRearms, cpc, after,
                       sending, want, calls>>
    BY <1>6, Zenon DEF Disconnect, seenVars
  <2>3. PICK x \in CallerConn : x = NO_CONN /\ x.fd = NO_FD /\ x.live = FALSE /\ x.reconnect = FALSE
    <3>1. /\ NO_CONN \in CallerConn /\ NO_CONN.fd = NO_FD /\ NO_CONN.live = FALSE
          /\ NO_CONN.reconnect = FALSE
      BY Zenon DEF NO_CONN, CallerConn
    <3> QED  BY <3>1, Zenon
  <2>4. CASE conns[c].reconnect
    <3>1. UNCHANGED uringVars
      BY <2>1, <2>4
    <3>2. \A d \in ConnId : conns'[d] = (IF d = c THEN x ELSE conns[d])
      BY <1>2, <2>1, <2>3, ZenonT(30)
    <3>3. DescriptorInv'
      BY <1>1, <1>2, <2>2, <2>3, <3>1, <3>2 DEF DescriptorInv, Open, uringVars
    <3>4. conns' \in [ConnId -> CallerConn]
      BY <1>2, <2>1, <2>3, Zenon
    <3> QED  BY <1>3, <2>2, <3>1, <3>3, <3>4, ConnectionKeeps DEF uringVars
  <2>5. CASE ~conns[c].reconnect
    <3>1. Open(c) /\ Close(conns[c].fd)
      BY <2>1, <2>5, Zenon DEF Open
    <3>2. /\ DescriptorInv' /\ conns' \in [ConnId -> CallerConn]
          /\ fds' \in [Fd -> Socket \cup {NO_SOCKET}]
      BY <1>1, <1>2, <2>1, <2>2, <2>3, <3>1, OldDescriptor, Zenon DEF Close
    <3> QED  BY <1>3, <2>2, <3>1, <3>2, ConnectionKeeps, Zenon DEF Close
  <2> QED  BY <2>4, <2>5
<1> QED  BY <1>4, <1>5, <1>6

\* The pool keeps its invariant through every call of its methods, every order
\* of completions and every behaviour of the servers.
THEOREM PoolInvariant == Spec => []PoolInv
<1>1. Init => PoolInv
  BY InitPool, Zenon
<1>2. PoolInv /\ [Next]_vars => PoolInv'
  <2>1. ASSUME PoolInv, Next PROVE PoolInv'
    <3>1. CASE Caller
      BY <2>1, <3>1, SubmittingKeeps, ConnectKeeps, RequestStartKeeps, PushKeeps, ReceiveKeeps,
         TimedKeeps DEF Caller
    <3> QED  BY <2>1, <3>1, ThreadKeeps, KernelKeeps DEF Next
  <2>2. ASSUME PoolInv, UNCHANGED vars PROVE PoolInv'
    <3>1. /\ UNCHANGED <<world, sq, cq, sends, armed, fds, made, peer>>
          /\ UNCHANGED <<completionVars, callerVars, seenVars>>
      BY <2>2, Zenon DEF vars, uringVars
    <3>2. /\ KernelTypes /\ ThreadTypes /\ CallerTypes /\ DescriptorInv /\ FlightInv /\ ClaimInv
      BY <2>2 DEF PoolInv, PoolTypes
    <3>3. KernelTypes' /\ ThreadTypes' /\ CallerTypes'
      BY <3>1, <3>2, SameTypes, Zenon
    <3>4. DescriptorInv' /\ ClaimInv'
      BY <3>1, <3>2, SameDescriptors, SameClaims, Zenon DEF completionVars, callerVars, seenVars
    <3>5. FlightInv'
      <4>1. Owned' = Owned
        BY <3>1, Zenon DEF Owned, Known, completionVars
      <4> QED  BY <3>1, <3>2, <4>1, CallerFlights, Zenon DEF CallerQueues, callerVars
    <3> QED  BY <3>3, <3>4, <3>5 DEF PoolInv, PoolTypes
  <2> QED  BY <2>1, <2>2, Zenon
<1> QED  BY <1>1, <1>2, PTL DEF Spec

\* libc_close never hits another connection's descriptor: a connection that is
\* not waiting for a reconnect has an open one, and no two have the same.
THEOREM PoolOwnDescriptor == Spec => []OwnDescriptor
<1>1. ASSUME PoolInv PROVE OwnDescriptor
  <2> SUFFICES ASSUME NEW c \in ConnId, conns[c].live, ~conns[c].reconnect
               PROVE  /\ fds[conns[c].fd] # NO_SOCKET
                      /\ \A d \in ConnId \ {c} : conns[d].live => conns[d].fd # conns[c].fd
    BY Zenon DEF OwnDescriptor
  <2>1. DescriptorInv /\ Open(c)
    BY <1>1 DEF PoolInv, Open
  <2>2. conns[c].fd \in Fd /\ fds[conns[c].fd] # NO_SOCKET
    BY <2>1, Zenon DEF DescriptorInv
  <2>3. ASSUME NEW d \in ConnId \ {c}, conns[d].live PROVE conns[d].fd # conns[c].fd
    <3>1. CASE conns[d].reconnect
      BY <2>1, <2>2, <3>1, Numbers, Zenon DEF DescriptorInv
    <3>2. CASE ~conns[d].reconnect
      BY <2>1, <2>3, <3>2, Zenon DEF DescriptorInv, Open
    <3> QED  BY <3>1, <3>2
  <2> QED  BY <2>2, <2>3
<1> QED  BY <1>1, PoolInvariant, PTL

\* push_send: from the moment the kernel has a send until its completion is
\* reaped, the ticket that owns its buffer is with the complete thread.
THEOREM PoolSendsHaveTickets == Spec => []SendsHaveTickets
<1>1. ASSUME PoolInv PROVE SendsHaveTickets
  <2>1. FlightInv
    BY <1>1, Zenon DEF PoolInv
  <2> QED  BY <2>1, Zenon DEF FlightInv, SendsHaveTickets, FlightIds, Ids, Sent, Owned, Known
<1> QED  BY <1>1, PoolInvariant, PTL

\* A request is answered at most once: of its ticket, its place in a pending
\* queue and its result in the ring, in the stash or with the caller there is
\* one at any time.
THEOREM PoolAnsweredOnce == Spec => []AnsweredOnce
<1>1. ASSUME PoolInv PROVE AnsweredOnce
  <2>1. /\ ThreadTypes /\ CallerTypes /\ ClaimInv
    BY <1>1 DEF PoolInv, PoolTypes
  <2>2. /\ Apart(Owned, Pending, InRing, Stashed, Returned)
        /\ OneTicket /\ OnePlace /\ OneInRing /\ OneKept
    BY <2>1, ClaimsAre, Zenon
  <2>3. ASSUME NEW i \in Id PROVE \A a, b \in Claims(i) : a = b
    <3> DEFINE T == {x \in tickets \cup Range(ticketRing) : x.id = i}
               P == {q \in ConnId \X Id :
                       q[2] \in DOMAIN cdata[q[1]].pending /\ cdata[q[1]].pending[q[2]] = i}
               R == {j \in DOMAIN responses : responses[j].id = i}
    <3>1. /\ \A t \in T : i \in Owned
          /\ \A t, u \in T : t = u
      BY <2>2, Zenon DEF Owned, Known, OneTicket
    <3>2. \A q \in P : i \in Pending
      <4> SUFFICES ASSUME NEW q \in P PROVE i \in Pending
        BY Zenon
      <4>1. q[1] \in ConnId /\ i \in Range(cdata[q[1]].pending)
        BY Zenon DEF Range
      <4> QED  BY <4>1, Zenon DEF Pending
    <3>3. \A p, q \in P : p = q
      <4> SUFFICES ASSUME NEW p \in P, NEW q \in P PROVE p = q
        BY Zenon
      <4>1. p = <<p[1], p[2]>> /\ q = <<q[1], q[2]>> /\ p[1] \in ConnId /\ q[1] \in ConnId
        OBVIOUS
      <4>2. p[1] = q[1] /\ p[2] = q[2]
        BY <2>2, <4>1 DEF OnePlace
      <4> QED  BY <4>1, <4>2, Zenon
    <3>4. /\ \A k \in R : i \in InRing
          /\ \A k, l \in R : k = l
      BY <2>2, Numbers, Zenon DEF InRing, OneInRing
    <3>5. /\ \A r \in stash[i] : i \in Stashed
          /\ \A r \in got[i] : i \in Returned
          /\ \A r, s \in stash[i] : r = s
          /\ \A r, s \in got[i] : r = s
      BY <2>2, Zenon DEF Stashed, Returned, OneKept
    <3>6. \A a : a \in Claims(i) <=>
             \/ \E t \in T : a = <<"ticket", t>>
             \/ \E p \in P : a = <<"pending", p>>
             \/ \E k \in R : a = <<"ring", k>>
             \/ \E r \in stash[i] : a = <<"stash", r>>
             \/ \E r \in got[i] : a = <<"got", r>>
      BY Zenon DEF Claims
    <3> HIDE DEF T, P, R
    <3> QED  BY <2>2, <3>1, <3>2, <3>3, <3>4, <3>5, <3>6 DEF Apart
  <2>4. ASSUME NEW i \in Id PROVE Cardinality(Claims(i)) <= 1
    <3>1. CASE Claims(i) = {}
      BY <3>1, FS_EmptySet
    <3>2. CASE Claims(i) # {}
      <4>1. PICK a : a \in Claims(i)
        BY <3>2, Zenon
      <4>2. Claims(i) = {a}
        BY <2>3, <4>1
      <4> QED  BY <4>2, FS_Singleton
    <3> QED  BY <3>1, <3>2, Zenon
  <2> QED  BY <2>4, Zenon DEF AnsweredOnce
<1> QED  BY <1>1, PoolInvariant, PTL

=============================================================================
