----------------------------- MODULE RingProofs -----------------------------
(***************************************************************************)
(* The io_uring pool's queues: the inductive invariant that PoolProofs     *)
(* establishes, what each step of the kernel and of the I/O thread does to *)
(* the queues between them, and that every send keeps the place it has in  *)
(* them.                                                                   *)
(***************************************************************************)
EXTENDS Pool, TLAPS

\* What the provers may take for a leaf.
USE SMTT(30), ZenonT(30)

(***************************************************************************)
(* The inductive invariant                                                 *)
(***************************************************************************)

Sqe ==
    [op : {"send"}, fd : Fd, id : Id] \cup [op : {"recv"}, fd : Fd, conn : ConnId]
    \cup [op : {"timeout"}, call : Nat] \cup [op : {"remove", "nop"}]
Cqe ==
    [op : {"send"}, id : Id, ok : BOOLEAN]
    \cup [op : {"data"}, conn : ConnId, fd : Fd, more : BOOLEAN, units : Seq(Unit)]
    \cup [op : {"eof", "error"}, conn : ConnId, fd : Fd]
    \cup [op : {"timeout", "shutdown"}]
Flight == [id : Id, sock : Socket, ok : BOOLEAN]
Recv == [sock : Socket, fd : Fd, conn : ConnId]
Peer == [wire : Seq(Unit), closed : BOOLEAN]
Ticket == [conn : ConnId, id : Id]
RearmMsg == [fd : Fd, conn : ConnId]
Partial == {NO_PARTIAL} \cup [kind : {"open", "length"}, from : SUBSET Id]
ConnData == [pending : Seq(Id), held : Seq(Unit), accum : Seq(Unit), partial : Partial]

KernelTypes ==
    /\ world \in World
    /\ sq \in Seq(Sqe) /\ Len(sq) <= RING /\ cq \in Seq(Cqe) /\ sends \in Seq(Flight) /\ armed \subseteq Recv
    /\ fds \in [Fd -> Socket \cup {NO_SOCKET}] /\ made \in 0 .. MaxSockets
    /\ peer \in [Socket -> Peer]

ThreadTypes ==
    /\ ticketRing \in Seq(Ticket) /\ tickets \subseteq Ticket
    /\ cdata \in [ConnId -> ConnData]
    /\ tconn \in ConnId /\ tfeed \in Seq(Unit) /\ trearm \in Seq(RearmMsg)
    /\ responses \in Seq(Result) /\ rearms \in Seq(RearmMsg)

\* An id is left for the request that is being made, and its connection is in
\* use from the moment it was looked up.
CallerTypes ==
    /\ conns \in [ConnId -> CallerConn] /\ pendingRearms \in Seq(RearmMsg)
    /\ nextReq \in 1 .. MaxRequests + 1 /\ calls \in Nat
    /\ want \in 0 .. MaxRequests /\ asked \subseteq Ticket
    /\ got \in [Id -> SUBSET Result] /\ stash \in [0 .. MaxRequests -> SUBSET Result]
    /\ sending \in [conn : ConnId, id : 0 .. MaxRequests]
    /\ after \in {"idle", "dial", "timed", "join"}
    /\ after # "idle" => cpc = "enter"
    /\ cpc = "dial" \/ after = "dial" => nextReq <= MaxRequests

PoolTypes == KernelTypes /\ ThreadTypes /\ CallerTypes

Open(c) == conns[c].live /\ ~conns[c].reconnect

\* Descriptors: a socket is under one descriptor, a connection that is open has
\* one that no other has, and one that awaits its reconnect has none.
DescriptorInv ==
    /\ \A f \in Fd : fds[f] <= made
    /\ \A f, g \in Fd : fds[f] = fds[g] /\ fds[f] # NO_SOCKET => f = g
    /\ \A c \in ConnId : Open(c) => conns[c].fd \in Fd /\ fds[conns[c].fd] # NO_SOCKET
    /\ \A c, d \in ConnId : Open(c) /\ Open(d) /\ conns[c].fd = conns[d].fd => c = d
    /\ \A c \in ConnId : conns[c].reconnect => conns[c].fd = NO_FD
    /\ cpc = "dial" \/ after = "dial" => conns[sending.conn].live
    /\ cpc = "ticket" => Open(sending.conn)

Known == tickets \cup Range(ticketRing)
Owned == {t.id : t \in Known}

\* The sends in a queue of entries or of completions, and their ids.
Sent(q) == {k \in DOMAIN q : q[k].op = "send"}
Ids(q) == {q[k].id : k \in Sent(q)}
Distinct(q) == \A k, l \in Sent(q) : q[k].id = q[l].id => k = l

FlightIds(q) == {q[k].id : k \in DOMAIN q}
DistinctFlights(q) == \A k, l \in DOMAIN q : q[k].id = q[l].id => k = l

\* Sends: each id is in flight at most once, from the submission queue to the
\* completion that is reaped; its ticket is there but for the request that is
\* being made, which the kernel has not seen.
FlightInv ==
    /\ Distinct(sq) /\ DistinctFlights(sends) /\ Distinct(cq)
    /\ \A i \in Ids(sq) : i \notin FlightIds(sends) /\ i \notin Ids(cq)
    /\ \A i \in FlightIds(sends) : i \notin Ids(cq)
    /\ \A i \in Ids(sq) : i \in Owned \/ (cpc = "ticket" /\ i = sending.id)
    /\ \A i \in FlightIds(sends) \cup Ids(cq) : i \in Owned

\* Where a request has its claim to a result: besides its ticket, a place in a
\* pending queue, or its result in the ring, in the stash or with the caller.
Pending == {i \in Id : \E c \in ConnId : i \in Range(cdata[c].pending)}
InRing == {responses[k].id : k \in DOMAIN responses}
Stashed == {i \in Id : stash[i] # {}}
Returned == {i \in Id : got[i] # {}}
Claimed == Owned \cup Pending \cup InRing \cup Stashed \cup Returned

\* One place at a time.
Apart(A, B, C, D, E) ==
    /\ \A i \in A : i \notin B /\ i \notin C /\ i \notin D /\ i \notin E
    /\ \A i \in B : i \notin C /\ i \notin D /\ i \notin E
    /\ \A i \in C : i \notin D /\ i \notin E
    /\ \A i \in D : i \notin E

\* And there once; the results for no request have id 0.
OneTicket == \A t, u \in Known : t.id = u.id => t = u
OnePlace ==
    \A c, d \in ConnId : \A k \in DOMAIN cdata[c].pending, l \in DOMAIN cdata[d].pending :
        cdata[c].pending[k] = cdata[d].pending[l] => c = d /\ k = l
OneInRing ==
    \A k, l \in DOMAIN responses :
        responses[k].id = responses[l].id /\ responses[k].id # 0 => k = l
OneKept == \A i \in Id : (\A r, s \in stash[i] : r = s) /\ (\A r, s \in got[i] : r = s)

\* Requests that were not made yet have no claim, nor has the one whose ticket
\* is being queued.
ClaimInv ==
    /\ OneTicket /\ OnePlace /\ OneInRing /\ OneKept
    /\ Apart(Owned, Pending, InRing, Stashed, Returned)
    /\ \A i \in Claimed : i < nextReq
    /\ cpc = "ticket" => sending.id \in Id /\ sending.id < nextReq /\ sending.id \notin Claimed

PoolInv == PoolTypes /\ DescriptorInv /\ FlightInv /\ ClaimInv

(***************************************************************************)
(* Sequences                                                               *)
(***************************************************************************)

\* Concatenation, position by position.
LEMMA ConcatFacts ==
    ASSUME NEW S, NEW s \in Seq(S), NEW t \in Seq(S)
    PROVE  /\ s \o t \in Seq(S) /\ Len(s \o t) = Len(s) + Len(t)
           /\ \A i \in 1 .. Len(s) + Len(t) :
                 (s \o t)[i] = IF i <= Len(s) THEN s[i] ELSE t[i - Len(s)]
OBVIOUS

\* A part, position by position.
LEMMA PartFacts ==
    ASSUME NEW S, NEW s \in Seq(S), NEW m \in 1 .. Len(s) + 1, NEW n \in m - 1 .. Len(s)
    PROVE  /\ SubSeq(s, m, n) \in Seq(S) /\ Len(SubSeq(s, m, n)) = n - m + 1
           /\ \A i \in 1 .. n - m + 1 : SubSeq(s, m, n)[i] = s[m + i - 1]
OBVIOUS

\* Removing position k closes the gap and keeps the order.
LEMMA WithoutFacts ==
    ASSUME NEW S, NEW s \in Seq(S), NEW k \in DOMAIN s
    PROVE  /\ Without(s, k) \in Seq(S)
           /\ DOMAIN Without(s, k) = 1 .. Len(s) - 1
           /\ \A i \in 1 .. Len(s) - 1 :
                 Without(s, k)[i] = IF i < k THEN s[i] ELSE s[i + 1]
  <1>1. Len(s) \in Nat /\ DOMAIN s = 1 .. Len(s) /\ k \in 1 .. Len(s)
    OBVIOUS
  <1>2. \A i \in 1 .. Len(s) : s[i] \in S
    OBVIOUS
  <1> DEFINE a == SubSeq(s, 1, k - 1)
             b == SubSeq(s, k + 1, Len(s))
  <1>3. /\ a \in Seq(S) /\ Len(a) = k - 1
        /\ \A i \in 1 .. k - 1 : a[i] = s[i]
    BY <1>1, PartFacts
  <1>4. /\ b \in Seq(S) /\ Len(b) = Len(s) - k
        /\ \A i \in 1 .. Len(s) - k : b[i] = s[k + i]
    BY <1>1, PartFacts
  <1> HIDE DEF a, b
  <1>5. /\ a \o b \in Seq(S) /\ Len(a \o b) = Len(s) - 1
        /\ \A i \in 1 .. Len(s) - 1 : (a \o b)[i] = IF i <= k - 1 THEN a[i] ELSE b[i - (k - 1)]
    <2>1. /\ a \o b \in Seq(S) /\ Len(a \o b) = Len(a) + Len(b)
          /\ \A i \in 1 .. Len(a) + Len(b) :
                (a \o b)[i] = IF i <= Len(a) THEN a[i] ELSE b[i - Len(a)]
      BY <1>3, <1>4, ConcatFacts, Zenon
    <2>2. Len(a) + Len(b) = Len(s) - 1
      BY <1>1, <1>3, <1>4
    <2> QED
      BY <1>3, <2>1, <2>2
  <1>6. DOMAIN (a \o b) = 1 .. Len(s) - 1
    BY <1>5
  <1>7. Without(s, k) = a \o b
    BY DEF Without, a, b
  <1>8. ASSUME NEW i \in 1 .. Len(s) - 1
        PROVE  (a \o b)[i] = IF i < k THEN s[i] ELSE s[i + 1]
    <2>1. CASE i < k
      BY <1>1, <1>3, <1>5, <2>1
    <2>2. CASE ~(i < k)
      <3>1. (a \o b)[i] = b[i - (k - 1)] /\ i - (k - 1) \in 1 .. Len(s) - k
        BY <1>1, <1>5, <2>2
      <3>2. b[i - (k - 1)] = s[k + (i - (k - 1))] /\ k + (i - (k - 1)) = i + 1
        BY <1>1, <1>4, <3>1
      <3> QED
        BY <2>2, <3>1, <3>2
    <2> QED
      BY <2>1, <2>2, Zenon
  <1> QED
    BY <1>5, <1>6, <1>7, <1>8

\* A part of a sequence.
LEMMA PartOf ==
    ASSUME NEW S, NEW s \in Seq(S), NEW m \in Nat \ {0}, NEW n \in Nat, n <= Len(s)
    PROVE  SubSeq(s, m, n) \in Seq(S)
OBVIOUS

(***************************************************************************)
(* Types                                                                   *)
(***************************************************************************)

\* The sets that ids, connections and descriptors are drawn from.
LEMMA Numbers ==
    /\ MaxRequests \in Nat /\ MaxSockets \in Nat /\ MaxConns \in Nat \ {0}
    /\ 0 \in ConnId /\ 0 \notin Id /\ 0 \in 0 .. MaxRequests /\ Id \subseteq 0 .. MaxRequests
    /\ NO_FD \notin Fd /\ NO_SOCKET \notin Socket /\ Fd = Socket
BY PoolBounds DEF ConnId, Id, Fd, Socket, NO_FD, NO_SOCKET

\* Submission queue entries, as driver.rs builds and the kernel reads them.
LEMMA SqeIs ==
    /\ \A f \in Fd, i \in Id : SendSqe(f, i) \in Sqe
    /\ \A f \in Fd, c \in ConnId : RecvSqe(f, c) \in Sqe
    /\ \A n \in Nat : [op |-> "timeout", call |-> n] \in Sqe
    /\ [op |-> "remove"] \in Sqe /\ [op |-> "nop"] \in Sqe
    /\ \A e \in Sqe : /\ e.op = "send" => e.fd \in Fd /\ e.id \in Id
                      /\ e.op = "recv" => e.fd \in Fd /\ e.conn \in ConnId
BY DEF Sqe, SendSqe, RecvSqe

\* Completions, as the kernel posts and complete_loop reads them.
LEMMA CqeIs ==
    /\ \A i \in Id, ok \in BOOLEAN : [op |-> "send", id |-> i, ok |-> ok] \in Cqe
    /\ \A c \in ConnId, f \in Fd, more \in BOOLEAN, u \in Seq(Unit) :
          [op |-> "data", conn |-> c, fd |-> f, more |-> more, units |-> u] \in Cqe
    /\ \A c \in ConnId, f \in Fd, op \in {"eof", "error"} : [op |-> op, conn |-> c, fd |-> f] \in Cqe
    /\ [op |-> "timeout"] \in Cqe /\ [op |-> "shutdown"] \in Cqe
    /\ \A e \in Cqe : /\ e.op = "send" => e.id \in Id /\ e.ok \in BOOLEAN
                      /\ e.op = "data" => /\ e.conn \in ConnId /\ e.fd \in Fd
                                          /\ e.more \in BOOLEAN /\ e.units \in Seq(Unit)
                      /\ e.op \in {"eof", "error"} => e.conn \in ConnId /\ e.fd \in Fd
BY DEF Cqe

\* What stays the same keeps its type.
LEMMA SameTypes ==
    /\ KernelTypes /\ UNCHANGED <<world, sq, cq, sends, armed, fds, made, peer>> => KernelTypes'
    /\ ThreadTypes /\ UNCHANGED completionVars => ThreadTypes'
    /\ CallerTypes /\ UNCHANGED <<callerVars, seenVars>> => CallerTypes'
BY DEF KernelTypes, ThreadTypes, CallerTypes, completionVars, threadVars, callerVars, seenVars

\* What a server sends has its type, whatever it decides to send.
LEMMA ServesTypes ==
    ASSUME KernelTypes, NEW s \in Socket, NEW i \in Id, Serves(s, i)
    PROVE  peer' \in [Socket -> Peer]
<1>1. peer \in [Socket -> Peer] /\ world \in World
  BY DEF KernelTypes
<1>2. CASE UNCHANGED peer
  BY <1>1, <1>2
<1>3. CASE \E kind \in world.kinds :
             peer' = [peer EXCEPT ![s] = [wire   |-> @.wire \o Answer(i, kind),
                                          closed |-> kind = "open"]]
  <2>1. PICK kind \in world.kinds :
             peer' = [peer EXCEPT ![s] = [wire   |-> peer[s].wire \o Answer(i, kind),
                                          closed |-> kind = "open"]]
    BY <1>3, Zenon
  <2>2. kind \in {"length", "open", "bad"}
    BY <1>1 DEF World
  <2>3. Answer(i, kind) \in Seq(Unit)
    <3>1. \A part \in {"head", "rest", "open", "bad"} : [req |-> i, part |-> part] \in Unit
      BY DEF Unit
    <3>2. CASE kind = "length"
      BY <3>1, <3>2 DEF Answer
    <3>3. CASE kind # "length"
      <4>1. [req |-> i, part |-> kind] \in Unit
        BY <2>2, <3>1, <3>3
      <4> QED  BY <3>3, <4>1 DEF Answer
    <3> QED  BY <3>2, <3>3
  <2>4. peer[s].wire \o Answer(i, kind) \in Seq(Unit)
    BY <1>1, <2>3 DEF Peer
  <2>5. (kind = "open") \in BOOLEAN
    OBVIOUS
  <2> QED  BY <1>1, <2>1, <2>4, <2>5 DEF Peer
<1>4. CASE peer' = [peer EXCEPT ![s].closed = TRUE]
  BY <1>1, <1>4, Zenon DEF Peer
<1> QED  BY <1>2, <1>3, <1>4 DEF Serves

\* A completion posted.
LEMMA PostTypes ==
    ASSUME KernelTypes, NEW x \in Cqe, Post(x)
    PROVE  cq' \in Seq(Cqe)
BY DEF KernelTypes, Post

\* The kernel taking an entry: sends and recvs are on sockets, and what it
\* posts at once is a completion.
LEMMA TakeSqeTypes ==
    ASSUME KernelTypes, TakeSqe
    PROVE  KernelTypes'
<1> DEFINE e == Head(sq)
<1>1. /\ sq # <<>> /\ sq' = Tail(sq) /\ UNCHANGED <<world, elapsed, fds, made>>
      /\ TakeSend(e) \/ TakeRecv(e) \/ TakeTimeout(e) \/ TakeRemove(e) \/ TakeNop(e)
  BY DEF TakeSqe
<1>2. e \in Sqe /\ sq' \in Seq(Sqe) /\ Len(sq') <= RING
  BY <1>1, PoolBounds DEF KernelTypes
<1>3. /\ cq \in Seq(Cqe) /\ sends \in Seq(Flight) /\ armed \subseteq Recv
      /\ fds \in [Fd -> Socket \cup {NO_SOCKET}] /\ peer \in [Socket -> Peer]
  BY DEF KernelTypes
<1> HIDE DEF e
<1>4. /\ cq' \in Seq(Cqe) /\ sends' \in Seq(Flight) /\ armed' \subseteq Recv
      /\ peer' \in [Socket -> Peer]
  <2>1. CASE TakeSend(e)
    <3>1. e.fd \in Fd /\ e.id \in Id
      BY <1>2, <2>1, SqeIs DEF TakeSend
    <3>2. CASE fds[e.fd] = NO_SOCKET
      <4>1. [op |-> "send", id |-> e.id, ok |-> FALSE] \in Cqe
        BY <3>1, CqeIs, Zenon
      <4>2. /\ Post([op |-> "send", id |-> e.id, ok |-> FALSE])
            /\ UNCHANGED <<sends, peer, armed>>
        BY <2>1, <3>2 DEF TakeSend
      <4> QED  BY <1>3, <4>1, <4>2, PostTypes
    <3>3. CASE fds[e.fd] # NO_SOCKET
      <4>1. fds[e.fd] \in Socket
        BY <1>3, <3>1, <3>3
      <4>2. PICK ok \in BOOLEAN : sends' = Append(sends, [id |-> e.id, sock |-> fds[e.fd], ok |-> ok])
        BY <2>1, <3>3 DEF TakeSend
      <4>3. [id |-> e.id, sock |-> fds[e.fd], ok |-> ok] \in Flight
        BY <3>1, <4>1 DEF Flight
      <4>4. Serves(fds[e.fd], e.id) /\ UNCHANGED <<cq, armed>>
        BY <2>1, <3>3 DEF TakeSend
      <4> QED  BY <1>3, <3>1, <4>1, <4>2, <4>3, <4>4, ServesTypes
    <3> QED  BY <3>2, <3>3
  <2>2. CASE TakeRecv(e)
    <3>1. e.fd \in Fd /\ e.conn \in ConnId
      BY <1>2, <2>2, SqeIs DEF TakeRecv
    <3>2. CASE fds[e.fd] = NO_SOCKET
      <4>1. [op |-> "error", conn |-> e.conn, fd |-> e.fd] \in Cqe
        BY <3>1, CqeIs, Zenon
      <4>2. /\ Post([op |-> "error", conn |-> e.conn, fd |-> e.fd])
            /\ UNCHANGED <<sends, peer, armed>>
        BY <2>2, <3>2 DEF TakeRecv
      <4> QED  BY <1>3, <4>1, <4>2, PostTypes
    <3>3. CASE fds[e.fd] # NO_SOCKET
      <4>1. [sock |-> fds[e.fd], fd |-> e.fd, conn |-> e.conn] \in Recv
        BY <1>3, <3>1, <3>3 DEF Recv
      <4> QED  BY <1>3, <2>2, <3>3, <4>1 DEF TakeRecv
    <3> QED  BY <3>2, <3>3
  <2>3. CASE TakeTimeout(e)
    BY <1>3, <2>3 DEF TakeTimeout
  <2>4. CASE TakeRemove(e)
    <3>1. UNCHANGED cq \/ Post([op |-> "timeout"])
      BY <2>4 DEF TakeRemove
    <3>2. cq' \in Seq(Cqe)
      BY <1>3, <3>1, CqeIs, PostTypes
    <3> QED  BY <1>3, <2>4, <3>2 DEF TakeRemove
  <2>5. CASE TakeNop(e)
    BY <1>3, <2>5, CqeIs, PostTypes DEF TakeNop
  <2> QED  BY <1>1, <2>1, <2>2, <2>3, <2>4, <2>5
<1> QED  BY <1>1, <1>2, <1>4 DEF KernelTypes

\* The kernel completing what it took, and a server closing.
LEMMA KernelStepTypes ==
    ASSUME KernelTypes, Kernel \/ PeerLeaves
    PROVE  KernelTypes'
<1>1. /\ cq \in Seq(Cqe) /\ sends \in Seq(Flight) /\ armed \subseteq Recv
      /\ peer \in [Socket -> Peer] /\ world \in World
  BY DEF KernelTypes
<1>2. CASE SendCompletes
  <2>1. PICK k \in DOMAIN sends :
          /\ sends' = Without(sends, k)
          /\ Post([op |-> "send", id |-> sends[k].id, ok |-> sends[k].ok])
    BY <1>2 DEF SendCompletes
  <2>2. sends[k] \in Flight
    BY <1>1
  <2>3. [op |-> "send", id |-> sends[k].id, ok |-> sends[k].ok] \in Cqe
    BY <2>2, CqeIs DEF Flight
  <2>4. cq' \in Seq(Cqe) /\ sends' \in Seq(Flight)
    BY <1>1, <2>1, <2>3, PostTypes, WithoutFacts
  <2> QED  BY <1>2, <2>4 DEF SendCompletes, KernelTypes
<1>3. CASE DataArrives
  <2>1. PICK r \in armed, more \in IF world.ends THEN BOOLEAN ELSE {TRUE} :
          \E n \in 1 .. Len(peer[r.sock].wire) :
             /\ Post([op |-> "data", conn |-> r.conn, fd |-> r.fd, more |-> more,
                      units |-> SubSeq(peer[r.sock].wire, 1, n)])
             /\ peer' = [peer EXCEPT ![r.sock].wire = SubSeq(@, n + 1, Len(@))]
             /\ armed' = IF more THEN armed ELSE armed \ {r}
    BY <1>3, Zenon DEF DataArrives
  <2>2. PICK n \in 1 .. Len(peer[r.sock].wire) :
             /\ Post([op |-> "data", conn |-> r.conn, fd |-> r.fd, more |-> more,
                      units |-> SubSeq(peer[r.sock].wire, 1, n)])
             /\ peer' = [peer EXCEPT ![r.sock].wire =
                            SubSeq(peer[r.sock].wire, n + 1, Len(peer[r.sock].wire))]
             /\ armed' = IF more THEN armed ELSE armed \ {r}
    BY <2>1, Zenon
  <2>3. r.sock \in Socket /\ r.conn \in ConnId /\ r.fd \in Fd /\ more \in BOOLEAN
    BY <1>1, Zenon DEF Recv
  <2>4. PICK wire \in Seq(Unit) : wire = peer[r.sock].wire
    BY <1>1, <2>3 DEF Peer
  <2>5. SubSeq(wire, 1, n) \in Seq(Unit) /\ SubSeq(wire, n + 1, Len(wire)) \in Seq(Unit)
    <3>1. n \in Nat /\ n + 1 \in Nat \ {0} /\ n <= Len(wire) /\ Len(wire) \in Nat /\ Len(wire) <= Len(wire)
      BY <2>4
    <3> QED  BY <3>1, PartOf
  <2>6. cq' \in Seq(Cqe)
    BY <2>2, <2>3, <2>4, <2>5, CqeIs, PostTypes, Zenon
  <2>7. peer' \in [Socket -> Peer]
    BY <1>1, <2>2, <2>3, <2>4, <2>5, Zenon DEF Peer
  <2>8. armed' \subseteq Recv
    BY <1>1, <2>2
  <2> QED  BY <1>3, <2>6, <2>7, <2>8 DEF DataArrives, KernelTypes
<1>4. CASE EndArrives
  <2>1. PICK r \in armed, op \in {"eof", "error"} :
          /\ Post([op |-> op, conn |-> r.conn, fd |-> r.fd])
          /\ armed' = armed \ {r}
    BY <1>4 DEF EndArrives
  <2>2. r.conn \in ConnId /\ r.fd \in Fd
    BY <1>1 DEF Recv
  <2>3. cq' \in Seq(Cqe)
    BY <2>1, <2>2, CqeIs, PostTypes, Zenon
  <2> QED  BY <1>1, <1>4, <2>1, <2>3 DEF EndArrives, KernelTypes
<1>5. CASE TimerFires
  <2>1. cq' \in Seq(Cqe)
    BY <1>5, CqeIs, PostTypes DEF TimerFires
  <2> QED  BY <1>5, <2>1 DEF TimerFires, KernelTypes
<1>6. CASE PeerLeaves
  <2>1. PICK s \in 1 .. made : \E n \in 0 .. Len(peer[s].wire) :
          peer' = [peer EXCEPT ![s] = [wire |-> SubSeq(peer[s].wire, 1, n), closed |-> TRUE]]
    BY <1>6, Zenon DEF PeerLeaves
  <2>2. s \in Socket
    BY Numbers DEF KernelTypes, Socket
  <2>3. PICK wire \in Seq(Unit) : wire = peer[s].wire
    BY <1>1, <2>2 DEF Peer
  <2>4. PICK n \in 0 .. Len(wire) :
          peer' = [peer EXCEPT ![s] = [wire |-> SubSeq(wire, 1, n), closed |-> TRUE]]
    BY <2>1, <2>3, Zenon
  <2>5. SubSeq(wire, 1, n) \in Seq(Unit)
    <3>1. n \in Nat /\ n <= Len(wire)
      BY <2>3
    <3> QED  BY <3>1, PartOf
  <2>6. peer' \in [Socket -> Peer]
    BY <1>1, <2>2, <2>4, <2>5, Zenon DEF Peer
  <2> QED  BY <1>6, <2>6 DEF PeerLeaves, KernelTypes
<1> QED  BY <1>2, <1>3, <1>4, <1>5, <1>6 DEF Kernel

\* What the parser returns.
Fed(conn, r) ==
    /\ r.conn \in ConnData /\ r.conn.pending = conn.pending
    /\ r.out \in {"more", "response", "error"} /\ r.from \subseteq Id

\* The requests that units name.
LEMMA OriginsAre == \A u \in Seq(Unit) : Origins(u) \subseteq Id
<1> SUFFICES ASSUME NEW u \in Seq(Unit), NEW k \in DOMAIN u PROVE u[k].req \in Id
  BY DEF Origins
<1>1. u[k] \in Unit
  OBVIOUS
<1> QED  BY <1>1 DEF Unit

\* A parser that waits for more.
LEMMA FedMore ==
    ASSUME NEW conn, NEW c \in ConnData, c.pending = conn.pending
    PROVE  Fed(conn, More(c))
BY DEF Fed, More

\* A parser that completes a response.
LEMMA FedComplete ==
    ASSUME NEW conn, NEW c \in ConnData, c.pending = conn.pending, NEW from \in SUBSET Id
    PROVE  Fed(conn, Complete(c, from))
BY DEF Fed, Complete

\* A parser that cannot go on.
LEMMA FedError ==
    ASSUME NEW conn, NEW c \in ConnData, c.pending = conn.pending
    PROVE  Fed(conn, [conn |-> c, out |-> "error", from |-> {}])
BY DEF Fed

\* A ResponseParser that waits, fails or completes a response leaves the queue
\* of pending ids to drain_recv_buf.
LEMMA FeedIs ==
    ASSUME NEW conn \in ConnData, NEW data \in Seq(Unit)
    PROVE  Fed(conn, Feed(conn, data))
<1>1. CASE conn.partial # NO_PARTIAL
  <2>1. conn.partial \in [kind : {"open", "length"}, from : SUBSET Id]
    BY <1>1 DEF ConnData, Partial
  <2>2. CASE conn.partial.kind = "open"
    <3>1. PICK p \in Partial : p = [conn.partial EXCEPT !.from = @ \cup Origins(data)]
      BY <2>1, OriginsAre, Zenon DEF Partial
    <3>2. Feed(conn, data) = More([conn EXCEPT !.partial.from = @ \cup Origins(data)])
      BY <1>1, <2>2 DEF Feed, FeedPartial
    <3>3. [conn EXCEPT !.partial.from = @ \cup Origins(data)] = [conn EXCEPT !.partial = p]
      BY <3>1 DEF ConnData
    <3>4. PICK d \in ConnData : d = [conn EXCEPT !.partial = p] /\ d.pending = conn.pending
      <4>1. /\ [conn EXCEPT !.partial = p] \in ConnData
            /\ [conn EXCEPT !.partial = p].pending = conn.pending
        BY DEF ConnData
      <4> QED  BY <4>1, Zenon
    <3>5. Feed(conn, data) = More(d)
      BY <3>2, <3>3, <3>4
    <3> QED  BY <3>4, <3>5, FedMore, Zenon
  <2>3. CASE conn.partial.kind = "length" /\ data = <<>>
    <3>1. Feed(conn, data) = More(conn)
      BY <1>1, <2>3 DEF Feed, FeedPartial
    <3> QED  BY <3>1, FedMore
  <2>4. CASE conn.partial.kind = "length" /\ data # <<>>
    <3>1. Tail(data) \in Seq(Unit) /\ Head(data) \in Unit
      BY <2>4
    <3>2. conn.partial.from \cup {Head(data).req} \in SUBSET Id
      BY <2>1, <3>1 DEF Unit
    <3>3. Feed(conn, data) = Complete([conn EXCEPT !.accum = Tail(data), !.partial = NO_PARTIAL],
                                      conn.partial.from \cup {Head(data).req})
      BY <1>1, <2>4 DEF Feed, FeedPartial
    <3>4. NO_PARTIAL \in Partial
      BY DEF Partial
    <3>5. PICK d \in ConnData : /\ d = [conn EXCEPT !.accum = Tail(data), !.partial = NO_PARTIAL]
                                /\ d.pending = conn.pending
      <4>1. /\ [conn EXCEPT !.accum = Tail(data), !.partial = NO_PARTIAL] \in ConnData
            /\ [conn EXCEPT !.accum = Tail(data), !.partial = NO_PARTIAL].pending = conn.pending
        BY <3>1, <3>4, Zenon DEF ConnData
      <4> QED  BY <4>1, Zenon
    <3>6. PICK from \in SUBSET Id : from = conn.partial.from \cup {Head(data).req}
      BY <3>2, Zenon
    <3>7. Feed(conn, data) = Complete(d, from)
      BY <3>3, <3>5, <3>6
    <3> QED  BY <3>5, <3>7, FedComplete, Zenon
  <2> QED  BY <2>1, <2>2, <2>3, <2>4
<1>2. CASE conn.partial = NO_PARTIAL
  <2>1. PICK c \in ConnData : c = [conn EXCEPT !.accum = @ \o data] /\ c.pending = conn.pending
    <3>1. conn.accum \o data \in Seq(Unit)
      BY DEF ConnData
    <3>2. /\ [conn EXCEPT !.accum = @ \o data] \in ConnData
          /\ [conn EXCEPT !.accum = @ \o data].pending = conn.pending
      BY <3>1, Zenon DEF ConnData
    <3> QED  BY <3>2, Zenon
  <2> DEFINE first == Head(c.accum)
  <2>2. Feed(conn, data) = FeedHead(c)
    BY <1>2, <2>1 DEF Feed
  <2>3. CASE \A k \in DOMAIN c.accum : c.accum[k].part = "rest"
    <3>1. FeedHead(c) = More(c)
      BY <2>3 DEF FeedHead
    <3> QED  BY <2>1, <2>2, <3>1, FedMore, Zenon
  <2>4. CASE ~(\A k \in DOMAIN c.accum : c.accum[k].part = "rest")
    <3>1. c.accum \in Seq(Unit) /\ c.accum # <<>> /\ c.partial \in Partial
      BY <2>1, <2>4 DEF ConnData
    <3>2. first \in Unit /\ Len(c.accum) \in Nat \ {0}
      BY <3>1
    <3>3. <<>> \in Seq(Unit)
      OBVIOUS
    <3>4. CASE first.part \in {"rest", "bad"}
      <4>1. FeedHead(c) = [conn |-> c, out |-> "error", from |-> {}]
        BY <2>4, <3>4 DEF FeedHead
      <4> QED  BY <2>1, <2>2, <4>1, FedError, Zenon
    <3>5. CASE first.part = "open"
      <4>1. [kind |-> "open", from |-> Origins(c.accum)] \in Partial
        BY <3>1, OriginsAre DEF Partial
      <4>2. FeedHead(c) = More([c EXCEPT !.accum = <<>>,
                                         !.partial = [kind |-> "open", from |-> Origins(c.accum)]])
        BY <2>4, <3>5 DEF FeedHead
      <4>3. PICK p \in Partial : p = [kind |-> "open", from |-> Origins(c.accum)]
        BY <4>1
      <4>4. PICK d \in ConnData : d = [c EXCEPT !.accum = <<>>, !.partial = p] /\ d.pending = conn.pending
        <5>1. /\ [c EXCEPT !.accum = <<>>, !.partial = p] \in ConnData
              /\ [c EXCEPT !.accum = <<>>, !.partial = p].pending = c.pending
          BY <3>3, Zenon DEF ConnData
        <5> QED  BY <2>1, <5>1, Zenon
      <4>5. Feed(conn, data) = More(d)
        BY <2>2, <4>2, <4>3, <4>4
      <4> QED  BY <4>4, <4>5, FedMore, Zenon
    <3>6. CASE first.part = "head" /\ Len(c.accum) = 1
      <4>1. [kind |-> "length", from |-> {first.req}] \in Partial
        BY <3>2 DEF Partial, Unit
      <4>2. FeedHead(c) = More([c EXCEPT !.accum = <<>>,
                                         !.partial = [kind |-> "length", from |-> {first.req}]])
        BY <2>4, <3>6 DEF FeedHead
      <4>3. PICK p \in Partial : p = [kind |-> "length", from |-> {first.req}]
        BY <4>1
      <4>4. PICK d \in ConnData : d = [c EXCEPT !.accum = <<>>, !.partial = p] /\ d.pending = conn.pending
        <5>1. /\ [c EXCEPT !.accum = <<>>, !.partial = p] \in ConnData
              /\ [c EXCEPT !.accum = <<>>, !.partial = p].pending = c.pending
          BY <3>3, Zenon DEF ConnData
        <5> QED  BY <2>1, <5>1, Zenon
      <4>5. Feed(conn, data) = More(d)
        BY <2>2, <4>2, <4>3, <4>4
      <4> QED  BY <4>4, <4>5, FedMore, Zenon
    <3>7. CASE first.part = "head" /\ Len(c.accum) # 1
      <4>1. Len(c.accum) \in Nat /\ 2 <= Len(c.accum) /\ Len(c.accum) <= Len(c.accum)
        <5>1. \A n \in Nat \ {0} : n # 1 => n \in Nat /\ 2 <= n /\ n <= n
          OBVIOUS
        <5> QED  BY <3>2, <3>7, <5>1, Zenon
      <4>2. SubSeq(c.accum, 1, 2) \in Seq(Unit) /\ SubSeq(c.accum, 3, Len(c.accum)) \in Seq(Unit)
        BY <3>1, <4>1, PartOf
      <4>3. FeedHead(c) = Complete([c EXCEPT !.accum = SubSeq(c.accum, 3, Len(c.accum))],
                                   Origins(SubSeq(c.accum, 1, 2)))
        BY <2>4, <3>7 DEF FeedHead
      <4>4. Origins(SubSeq(c.accum, 1, 2)) \in SUBSET Id
        BY <4>2, OriginsAre, Zenon
      <4>5. PICK d \in ConnData : /\ d = [c EXCEPT !.accum = SubSeq(c.accum, 3, Len(c.accum))]
                                  /\ d.pending = conn.pending
        <5>1. /\ [c EXCEPT !.accum = SubSeq(c.accum, 3, Len(c.accum))] \in ConnData
              /\ [c EXCEPT !.accum = SubSeq(c.accum, 3, Len(c.accum))].pending = c.pending
          BY <4>2, Zenon DEF ConnData
        <5> QED  BY <2>1, <5>1, Zenon
      <4>6. Feed(conn, data) = Complete(d, Origins(SubSeq(c.accum, 1, 2)))
        BY <2>2, <4>3, <4>5
      <4> QED  BY <4>4, <4>5, <4>6, FedComplete, Zenon
    <3> QED  BY <3>2, <3>4, <3>5, <3>6, <3>7 DEF Unit
  <2> QED  BY <2>3, <2>4
<1> QED  BY <1>1, <1>2

(***************************************************************************)
(* What a step of the complete thread does to the claims                   *)
(***************************************************************************)

\* The completion it reaps, if any, is not that of a send.
Passed == cq' = cq \/ (cq # <<>> /\ Head(cq).op # "send" /\ cq' = Tail(cq))

\* No claim moves; a timeout may be reported.
QuietStep ==
    /\ Passed /\ UNCHANGED <<ticketRing, tickets>>
    /\ \A c \in ConnId : cdata'[c].pending = cdata[c].pending
    /\ responses' = responses \/ responses' = Append(responses, Timeout)

\* The oldest pending request of a connection is answered, or request 0.
AnswerStep ==
    /\ Passed /\ UNCHANGED <<ticketRing, tickets>>
    /\ \E c \in ConnId, r \in Result :
          /\ r.id = FrontId(cdata[c]) /\ responses' = Append(responses, r)
          /\ cdata'[c].pending = Popped(cdata[c])
          /\ \A d \in ConnId \ {c} : cdata'[d].pending = cdata[d].pending

\* A send's completion redeems its ticket, and its request may become pending.
RedeemStep ==
    /\ cq # <<>> /\ Head(cq).op = "send" /\ cq' = Tail(cq) /\ responses' = responses
    /\ ticketRing' = <<>> /\ tickets' = {t \in Known : t.id # Head(cq).id}
    /\ \/ \A c \in ConnId : cdata'[c].pending = cdata[c].pending
       \/ \E t \in Known :
             /\ t.id = Head(cq).id
             /\ cdata'[t.conn].pending = Append(cdata[t.conn].pending, t.id)
             /\ \A d \in ConnId \ {t.conn} : cdata'[d].pending = cdata[d].pending

\* The front of a queue of pending ids, and what is left of it.
LEMMA FrontIs ==
    ASSUME NEW conn \in ConnData
    PROVE  FrontId(conn) \in 0 .. MaxRequests /\ Popped(conn) \in Seq(Id)
<1>1. conn.pending \in Seq(Id)
  BY DEF ConnData
<1>2. conn.pending # <<>> => Head(conn.pending) \in Id /\ Tail(conn.pending) \in Seq(Id)
  BY <1>1
<1> QED  BY <1>1, <1>2, Numbers, Zenon DEF FrontId, Popped

\* Results, as the complete thread reports them.
LEMMA ResultIs ==
    /\ \A i \in 0 .. MaxRequests, from \in SUBSET Id : Response(i, from) \in Result /\ Response(i, from).id = i
    /\ \A i \in 0 .. MaxRequests, c \in ConnId : Failure(i, c) \in Result /\ Failure(i, c).id = i
    /\ Timeout \in Result /\ Timeout.id = 0
BY Numbers DEF Result, Response, Failure, Timeout

\* The completion of a send that has a ticket or has none.
LEMMA ReapSendIs ==
    ASSUME KernelTypes, ThreadTypes, ReapSend
    PROVE  ThreadTypes' /\ RedeemStep
<1> DEFINE i == Head(cq).id
           mine == {t \in Known : t.id = i}
<1>1. /\ cq # <<>> /\ Head(cq).op = "send" /\ cq' = Tail(cq)
      /\ UNCHANGED <<responses, rearms>> /\ ticketRing' = <<>> /\ tickets' = Known \ mine
  BY DEF ReapSend, Reaping, Known
<1>2. tickets' = {t \in Known : t.id # i}
  BY <1>1
<1>3. Known \subseteq Ticket
  <2>1. ticketRing \in Seq(Ticket) /\ tickets \subseteq Ticket
    BY DEF ThreadTypes
  <2> QED  BY <2>1 DEF Known, Range
<1>4. \/ UNCHANGED <<cdata, threadVars>>
      \/ \E t \in mine : OnSendComplete(t.conn, t.id)
  BY DEF ReapSend, Known
<1>5. CASE UNCHANGED <<cdata, threadVars>>
  <2>1. RedeemStep
    BY <1>1, <1>2, <1>5 DEF RedeemStep
  <2>2. ThreadTypes'
    BY <1>1, <1>3, <1>5 DEF ThreadTypes, threadVars
  <2> QED  BY <2>1, <2>2
<1>6. CASE \E t \in mine : OnSendComplete(t.conn, t.id)
  <2>1. PICK t \in mine : OnSendComplete(t.conn, t.id)
    BY <1>6
  <2>2. t \in Known /\ t.id = i /\ t.conn \in ConnId /\ t.id \in Id
    BY <1>3, <2>1 DEF Ticket
  <2>3. PICK c \in ConnId, n \in Id : c = t.conn /\ n = t.id
    BY <2>2
  <2>4. cdata' = [cdata EXCEPT ![c].pending = Append(@, n), ![c].held = <<>>]
    BY <2>1, <2>3 DEF OnSendComplete
  <2>5. cdata \in [ConnId -> ConnData] /\ cdata[c] \in ConnData
    BY DEF ThreadTypes
  <2>6. PICK old \in ConnData : old = cdata[c]
    BY <2>5
  <2>7. PICK q \in Seq(Id) : q = Append(old.pending, n)
    <3>1. old.pending \in Seq(Id)
      BY DEF ConnData
    <3>2. Append(old.pending, n) \in Seq(Id)
      BY <3>1
    <3> QED  BY <3>2, Zenon
  <2>8. cdata' = [cdata EXCEPT ![c] = [old EXCEPT !.pending = q, !.held = <<>>]]
    BY <2>4, <2>5, <2>6, <2>7, Zenon DEF ConnData
  <2>9. PICK d \in ConnData : d = [old EXCEPT !.pending = q, !.held = <<>>] /\ d.pending = q
    <3>1. <<>> \in Seq(Unit)
      OBVIOUS
    <3>2. /\ [old EXCEPT !.pending = q, !.held = <<>>] \in ConnData
          /\ [old EXCEPT !.pending = q, !.held = <<>>].pending = q
      BY <3>1, Zenon DEF ConnData
    <3> QED  BY <3>2, Zenon
  <2>10. cdata' \in [ConnId -> ConnData] /\ cdata'[c] = d /\ \A e \in ConnId \ {c} : cdata'[e] = cdata[e]
    BY <2>5, <2>8, <2>9
  <2>11. RedeemStep
    BY <1>1, <1>2, <2>2, <2>3, <2>6, <2>7, <2>9, <2>10, Zenon DEF RedeemStep
  <2>12. tconn' \in ConnId /\ tfeed' \in Seq(Unit) /\ trearm' \in Seq(RearmMsg)
    <3>1. /\ tconn' = tconn \/ tconn' = c
          /\ tfeed' = tfeed \/ tfeed' = old.held
          /\ trearm' = trearm \/ trearm' = <<>>
      BY <2>1, <2>3, <2>6 DEF OnSendComplete, threadVars
    <3>2. <<>> \in Seq(RearmMsg) /\ old.held \in Seq(Unit)
      BY DEF ConnData
    <3> QED  BY <3>1, <3>2, Zenon DEF ThreadTypes
  <2>13. ThreadTypes'
    BY <1>1, <1>2, <1>3, <2>10, <2>12 DEF ThreadTypes
  <2> QED  BY <2>11, <2>13
<1> QED  BY <1>4, <1>5, <1>6

\* The end of a connection answers its oldest pending request.
LEMMA EndConnectionIs ==
    ASSUME ThreadTypes, NEW c \in ConnId, NEW r \in Result, r.id = FrontId(cdata[c]),
           EndConnection(c, r), Passed, UNCHANGED <<ticketRing, tickets>>
    PROVE  /\ AnswerStep
           /\ cdata' \in [ConnId -> ConnData] /\ responses' \in Seq(Result)
<1>1. cdata \in [ConnId -> ConnData] /\ cdata[c] \in ConnData /\ responses \in Seq(Result)
  BY DEF ThreadTypes
<1>2. PICK q \in Seq(Id) : q = Popped(cdata[c])
  BY <1>1, FrontIs
<1>3. PICK d \in ConnData : d = [EmptyConn EXCEPT !.pending = q] /\ d.pending = q
  <2>1. EmptyConn \in ConnData
    BY DEF EmptyConn, ConnData, Partial
  <2>2. [EmptyConn EXCEPT !.pending = q] \in ConnData /\ [EmptyConn EXCEPT !.pending = q].pending = q
    BY <2>1, Zenon DEF ConnData
  <2> QED  BY <2>2, Zenon
<1>4. cdata' = [cdata EXCEPT ![c] = d] /\ responses' = Append(responses, r)
  BY <1>2, <1>3 DEF EndConnection
<1>5. /\ cdata' \in [ConnId -> ConnData] /\ cdata'[c].pending = Popped(cdata[c])
      /\ \A e \in ConnId \ {c} : cdata'[e].pending = cdata[e].pending
  BY <1>1, <1>2, <1>3, <1>4
<1>6. responses' \in Seq(Result)
  BY <1>1, <1>4
<1> QED  BY <1>4, <1>5, <1>6 DEF AnswerStep

\* One pass of drain_recv_buf: the parser waits, answers the oldest pending
\* request, or gives the connection up for it.
LEMMA DrainIs ==
    ASSUME ThreadTypes, DrainRecvBuf
    PROVE  ThreadTypes' /\ (QuietStep \/ AnswerStep)
<1>1. PICK c \in ConnId : c = tconn
  BY DEF ThreadTypes
<1>2. PICK old \in ConnData : old = cdata[c]
  BY DEF ThreadTypes
<1>3. PICK fed : fed = Feed(old, tfeed)
  OBVIOUS
<1>4. Fed(old, fed)
  BY <1>3, FeedIs DEF ThreadTypes
<1>5. /\ cq' = cq /\ UNCHANGED <<ticketRing, tickets, trearm, rearms>> /\ tfeed' = <<>>
      /\ cdata \in [ConnId -> ConnData] /\ responses \in Seq(Result)
  BY DEF DrainRecvBuf, uringVars, ThreadTypes
<1>6. Passed
  BY <1>5 DEF Passed
<1>7. PICK i \in 0 .. MaxRequests : i = FrontId(old)
  BY FrontIs
<1>8. <<>> \in Seq(Unit) /\ 0 \in ConnId
  BY Numbers
<1>9. CASE old.pending = <<>>
  <2>1. Drained /\ UNCHANGED <<cdata, responses>>
    BY <1>1, <1>2, <1>9 DEF DrainRecvBuf
  <2>2. QuietStep
    BY <1>5, <1>6, <2>1 DEF QuietStep
  <2> QED  BY <1>5, <1>8, <2>1, <2>2 DEF ThreadTypes, Drained
<1>10. CASE old.pending # <<>> /\ fed.out = "more"
  <2>1. /\ cdata' = [cdata EXCEPT ![c] = fed.conn]
        /\ Drained /\ UNCHANGED responses
    BY <1>1, <1>2, <1>3, <1>10 DEF DrainRecvBuf
  <2>2. cdata' \in [ConnId -> ConnData] /\ \A d \in ConnId : cdata'[d].pending = cdata[d].pending
    BY <1>2, <1>4, <1>5, <2>1 DEF Fed
  <2>3. QuietStep
    BY <1>5, <1>6, <2>1, <2>2 DEF QuietStep
  <2> QED  BY <1>5, <1>8, <2>1, <2>2, <2>3 DEF ThreadTypes, Drained
<1>11. CASE old.pending # <<>> /\ fed.out = "response"
  <2>1. /\ cdata' = [cdata EXCEPT ![c] = [fed.conn EXCEPT !.pending = Tail(@)]]
        /\ responses' = Append(responses, Response(i, fed.from))
        /\ UNCHANGED <<tpc, tconn>>
    BY <1>1, <1>2, <1>3, <1>7, <1>11 DEF DrainRecvBuf
  <2>2. PICK q \in Seq(Id) : q = Popped(old) /\ q = Tail(old.pending)
    BY <1>11, FrontIs, Zenon DEF Popped
  <2>3. PICK new \in ConnData : new = fed.conn /\ new.pending = old.pending
    BY <1>4 DEF Fed
  <2>4. PICK d \in ConnData : d = [new EXCEPT !.pending = q] /\ d.pending = q
    <3>1. [new EXCEPT !.pending = q] \in ConnData /\ [new EXCEPT !.pending = q].pending = q
      BY Zenon DEF ConnData
    <3> QED  BY <3>1, Zenon
  <2>5. [fed.conn EXCEPT !.pending = Tail(@)] = d
    BY <2>2, <2>3, <2>4
  <2>6. PICK r \in Result : r = Response(i, fed.from) /\ r.id = i
    BY <1>4, ResultIs DEF Fed
  <2>7. /\ cdata' \in [ConnId -> ConnData] /\ cdata'[c].pending = Popped(old)
        /\ \A e \in ConnId \ {c} : cdata'[e].pending = cdata[e].pending
    BY <1>5, <2>1, <2>2, <2>4, <2>5, Zenon
  <2>8. responses' \in Seq(Result)
    BY <1>5, <2>1, <2>6
  <2>9. AnswerStep
    BY <1>2, <1>5, <1>6, <1>7, <2>1, <2>6, <2>7, Zenon DEF AnswerStep
  <2> QED  BY <1>1, <1>5, <1>8, <2>1, <2>7, <2>8, <2>9 DEF ThreadTypes
<1>12. CASE old.pending # <<>> /\ fed.out = "error"
  <2>1. EndConnection(c, Failure(i, c)) /\ Drained
    BY <1>1, <1>2, <1>3, <1>7, <1>12 DEF DrainRecvBuf
  <2>2. PICK r \in Result : r = Failure(i, c) /\ r.id = i
    BY ResultIs
  <2>3. AnswerStep /\ cdata' \in [ConnId -> ConnData] /\ responses' \in Seq(Result)
    BY <1>2, <1>5, <1>6, <1>7, <2>1, <2>2, EndConnectionIs
  <2> QED  BY <1>5, <1>8, <2>1, <2>3 DEF ThreadTypes, Drained
<1> QED  BY <1>4, <1>9, <1>10, <1>11, <1>12 DEF Fed

\* Every step of the complete thread is quiet, an answer or a redemption.
LEMMA ThreadStepIs ==
    ASSUME KernelTypes, ThreadTypes, CompleteThread
    PROVE  ThreadTypes' /\ (QuietStep \/ AnswerStep \/ RedeemStep)
<1>1. /\ cdata \in [ConnId -> ConnData] /\ responses \in Seq(Result) /\ cq \in Seq(Cqe)
      /\ tconn \in ConnId /\ tfeed \in Seq(Unit) /\ trearm \in Seq(RearmMsg)
      /\ rearms \in Seq(RearmMsg)
  BY DEF ThreadTypes, KernelTypes
<1>2. cq # <<>> => Head(cq) \in Cqe
  BY <1>1
<1>3. CASE ReapTimeout
  <2>1. Passed /\ responses' = Append(responses, Timeout)
        /\ UNCHANGED <<ticketRing, tickets, cdata, threadVars, rearms>>
    BY <1>3 DEF ReapTimeout, Reaping, Passed
  <2>2. responses' \in Seq(Result)
    BY <1>1, <2>1, ResultIs
  <2> QED  BY <2>1, <2>2 DEF QuietStep, ThreadTypes, threadVars
<1>4. CASE ReapShutdown
  <2>1. Passed /\ UNCHANGED <<ticketRing, tickets, cdata, tconn, tfeed, trearm, responses, rearms>>
    BY <1>4 DEF ReapShutdown, Reaping, Passed
  <2> QED  BY <2>1 DEF QuietStep, ThreadTypes
<1>5. CASE ReapSend
  BY <1>5, ReapSendIs
<1>6. CASE ReapEnd
  <2>1. /\ cq # <<>> /\ Head(cq).op \in {"eof", "error"} /\ cq' = Tail(cq)
        /\ UNCHANGED <<ticketRing, tickets, threadVars, rearms>>
    BY <1>6 DEF ReapEnd, Reaping
  <2>2. PICK c \in ConnId : c = Head(cq).conn
    BY <1>2, <2>1, CqeIs, Zenon
  <2>3. PICK old \in ConnData : old = cdata[c]
    BY <1>1
  <2>4. PICK i \in 0 .. MaxRequests : i = FrontId(old)
    BY FrontIs
  <2>5. EndConnection(c, Response(i, old.partial.from)) \/ EndConnection(c, Failure(i, c))
    BY <1>6, <2>2, <2>3, <2>4 DEF ReapEnd
  <2>6. old.partial.from \in SUBSET Id
    BY DEF ConnData, Partial, NO_PARTIAL
  <2>7. PICK r \in Result : EndConnection(c, r) /\ r.id = i
    BY <2>5, <2>6, ResultIs
  <2>8. Passed
    BY <2>1, Zenon DEF Passed
  <2>9. AnswerStep /\ cdata' \in [ConnId -> ConnData] /\ responses' \in Seq(Result)
    BY <2>1, <2>3, <2>4, <2>7, <2>8, EndConnectionIs, Zenon
  <2> QED  BY <2>1, <2>9, Zenon DEF ThreadTypes, threadVars
<1>7. CASE ReapData
  <2>1. PICK e \in Cqe : e = Head(cq) /\ e.op = "data"
    BY <1>2, <1>7, Zenon DEF ReapData, Reaping
  <2>2. /\ e.conn \in ConnId /\ e.fd \in Fd /\ e.units \in Seq(Unit)
    BY <2>1, CqeIs, Zenon
  <2>3. PICK c \in ConnId : c = e.conn
    BY <2>2, Zenon
  <2>4. PICK old \in ConnData : old = cdata[c]
    BY <1>1, Zenon
  <2>5. /\ Passed /\ UNCHANGED <<ticketRing, tickets, responses, rearms>>
        /\ cdata' = cdata \/ cdata' = [cdata EXCEPT ![c].held = @ \o e.units]
        /\ tconn' = 0 \/ tconn' = c
        /\ tfeed' = <<>> \/ tfeed' = e.units
        /\ trearm' = <<>> \/ trearm' = << [fd |-> e.fd, conn |-> e.conn] >>
    BY <1>7, <2>1, <2>3, Zenon DEF ReapData, Reaping, Passed
  <2>6. PICK d \in ConnData : d = [old EXCEPT !.held = @ \o e.units] /\ d.pending = old.pending
    <3>1. old.held \o e.units \in Seq(Unit)
      BY <2>2 DEF ConnData
    <3>2. /\ [old EXCEPT !.held = @ \o e.units] \in ConnData
          /\ [old EXCEPT !.held = @ \o e.units].pending = old.pending
      BY <3>1, Zenon DEF ConnData
    <3> QED  BY <3>2, Zenon
  <2>7. cdata' = cdata \/ cdata' = [cdata EXCEPT ![c] = d]
    BY <1>1, <2>4, <2>5, <2>6, Zenon
  <2>8. cdata' \in [ConnId -> ConnData] /\ \A b \in ConnId : cdata'[b].pending = cdata[b].pending
    BY <1>1, <2>4, <2>6, <2>7, Zenon
  <2>9. tconn' \in ConnId /\ tfeed' \in Seq(Unit) /\ trearm' \in Seq(RearmMsg)
    <3>1. [fd |-> e.fd, conn |-> e.conn] \in RearmMsg
      BY <2>2, Zenon DEF RearmMsg
    <3>2. << [fd |-> e.fd, conn |-> e.conn] >> \in Seq(RearmMsg) /\ <<>> \in Seq(RearmMsg)
      BY <3>1
    <3>3. <<>> \in Seq(Unit) /\ 0 \in ConnId
      BY Numbers
    <3> QED  BY <2>2, <2>5, <3>2, <3>3, Zenon
  <2>10. QuietStep
    BY <2>5, <2>8, Zenon DEF QuietStep
  <2> QED  BY <2>5, <2>8, <2>9, <2>10, Zenon DEF ThreadTypes
<1>8. CASE DrainRecvBuf
  BY <1>8, DrainIs, Zenon
<1>9. CASE PushRearm
  <2>1. /\ UNCHANGED <<cq, ticketRing, tickets, cdata, tconn, tfeed, responses>>
        /\ rearms' = rearms \o trearm /\ trearm' = <<>>
    BY <1>9, Zenon DEF PushRearm, uringVars
  <2>2. rearms' \in Seq(RearmMsg) /\ trearm' \in Seq(RearmMsg)
    BY <1>1, <2>1
  <2> QED  BY <2>1, <2>2, Zenon DEF QuietStep, Passed, ThreadTypes
<1> QED  BY <1>3, <1>4, <1>5, <1>6, <1>7, <1>8, <1>9, Zenon DEF CompleteThread

(***************************************************************************)
(* What a step of the kernel does to the sends                             *)
(***************************************************************************)

\* A completion of something else, or none.
PostsOther == cq' = cq \/ \E x \in Cqe : x.op # "send" /\ cq' = Append(cq, x)

\* A queue keeps its sends, or the oldest is taken from it.
SqSame == sq' = sq \/ (sq # <<>> /\ Head(sq).op # "send" /\ sq' = Tail(sq))
SqTakes(i) == sq # <<>> /\ Head(sq).op = "send" /\ Head(sq).id = i /\ sq' = Tail(sq)
Completes(i) == \E x \in Cqe : x.op = "send" /\ x.id = i /\ cq' = Append(cq, x)

KernelMove ==
    \/ SqSame /\ sends' = sends /\ PostsOther
    \/ \E i \in Id : SqTakes(i) /\ sends' = sends /\ Completes(i)
    \/ \E i \in Id : /\ SqTakes(i) /\ cq' = cq
                     /\ \E x \in Flight : x.id = i /\ sends' = Append(sends, x)
    \/ \E k \in DOMAIN sends : sq' = sq /\ sends' = Without(sends, k) /\ Completes(sends[k].id)

\* The kernel takes an entry: a send fails at once or is under way.
LEMMA TakeSqeMoves == ASSUME KernelTypes, TakeSqe PROVE KernelMove
<1>1. PICK e \in Sqe : e = Head(sq)
  BY DEF KernelTypes, TakeSqe
<1>2. /\ sq # <<>> /\ sq' = Tail(sq) /\ UNCHANGED <<world, elapsed, fds, made>>
      /\ TakeSend(e) \/ TakeRecv(e) \/ TakeTimeout(e) \/ TakeRemove(e) \/ TakeNop(e)
  BY <1>1, Zenon DEF TakeSqe
<1>3. fds \in [Fd -> Socket \cup {NO_SOCKET}]
  BY Zenon DEF KernelTypes
<1>4. CASE TakeSend(e)
  <2>1. PICK i \in Id : i = e.id /\ e.op = "send" /\ e.fd \in Fd
    BY <1>4, SqeIs, Zenon DEF TakeSend
  <2>2. SqTakes(i)
    BY <1>1, <1>2, <2>1, Zenon DEF SqTakes
  <2>3. CASE fds[e.fd] = NO_SOCKET
    <3>1. PICK x \in Cqe : x = [op |-> "send", id |-> i, ok |-> FALSE]
      BY CqeIs, Zenon
    <3>2. cq' = Append(cq, x) /\ sends' = sends
      BY <1>4, <2>1, <2>3, <3>1, Zenon DEF TakeSend, Post
    <3> QED  BY <2>2, <3>1, <3>2, Zenon DEF KernelMove, Completes
  <2>4. CASE fds[e.fd] # NO_SOCKET
    <3>1. fds[e.fd] \in Socket
      BY <1>3, <2>1, <2>4, Zenon
    <3>2. PICK ok \in BOOLEAN : sends' = Append(sends, [id |-> e.id, sock |-> fds[e.fd], ok |-> ok])
      BY <1>4, <2>4, Zenon DEF TakeSend
    <3>3. PICK x \in Flight : x = [id |-> i, sock |-> fds[e.fd], ok |-> ok]
      BY <3>1, Zenon DEF Flight
    <3>4. cq' = cq
      BY <1>4, <2>4, Zenon DEF TakeSend
    <3> QED  BY <2>1, <2>2, <3>2, <3>3, <3>4, Zenon DEF KernelMove
  <2> QED  BY <2>3, <2>4, Zenon
<1>5. CASE ~TakeSend(e)
  <2>1. e.op # "send" /\ sends' = sends
    BY <1>2, <1>5, Zenon DEF TakeRecv, TakeTimeout, TakeRemove, TakeNop
  <2>2. PostsOther
    <3>1. CASE TakeRecv(e)
      <4>1. e.fd \in Fd /\ e.conn \in ConnId
        BY <3>1, SqeIs, Zenon DEF TakeRecv
      <4>2. PICK x \in Cqe : x = [op |-> "error", conn |-> e.conn, fd |-> e.fd]
        BY <4>1, CqeIs, Zenon
      <4> QED  BY <3>1, <4>2, Zenon DEF TakeRecv, Post, PostsOther
    <3>2. CASE ~TakeRecv(e)
      <4>1. cq' = cq \/ cq' = Append(cq, [op |-> "timeout"]) \/ cq' = Append(cq, [op |-> "shutdown"])
        BY <1>2, <1>5, <3>2, Zenon DEF TakeTimeout, TakeRemove, TakeNop, Post
      <4>2. PICK x \in Cqe, y \in Cqe : x = [op |-> "timeout"] /\ y = [op |-> "shutdown"]
        BY CqeIs, Zenon
      <4> QED  BY <4>1, <4>2, Zenon DEF PostsOther
    <3> QED  BY <3>1, <3>2, Zenon
  <2> QED  BY <1>1, <1>2, <2>1, <2>2, Zenon DEF KernelMove, SqSame
<1> QED  BY <1>4, <1>5, Zenon

\* What was taken completes, and bytes, ends and timeouts arrive.
LEMMA KernelMoves == ASSUME KernelTypes, Kernel \/ PeerLeaves PROVE KernelMove
<1>1. sends \in Seq(Flight) /\ armed \subseteq Recv /\ peer \in [Socket -> Peer]
  BY Zenon DEF KernelTypes
<1>2. CASE SendCompletes
  <2>1. PICK k \in DOMAIN sends :
          /\ sends' = Without(sends, k)
          /\ Post([op |-> "send", id |-> sends[k].id, ok |-> sends[k].ok])
    BY <1>2, Zenon DEF SendCompletes
  <2>2. sends[k] \in Flight
    BY <1>1
  <2>3. PICK x \in Cqe : x = [op |-> "send", id |-> sends[k].id, ok |-> sends[k].ok]
    BY <2>2, CqeIs, Zenon DEF Flight
  <2>4. Completes(sends[k].id) /\ sq' = sq
    BY <1>2, <2>1, <2>3, Zenon DEF Completes, Post, SendCompletes
  <2> QED  BY <2>1, <2>4, Zenon DEF KernelMove
<1>3. CASE DataArrives \/ EndArrives \/ TimerFires \/ PeerLeaves
  <2>1. sq' = sq /\ sends' = sends
    BY <1>3, Zenon DEF DataArrives, EndArrives, TimerFires, PeerLeaves
  <2>2. KernelTypes'
    BY <1>3, KernelStepTypes, Zenon DEF Kernel
  <2>3. PostsOther
    <3>1. cq' = cq \/ \E x : x.op # "send" /\ cq' = Append(cq, x)
      BY <1>3, Zenon DEF DataArrives, EndArrives, TimerFires, PeerLeaves, Post
    <3>2. CASE cq' = cq
      BY <3>2, Zenon DEF PostsOther
    <3>3. CASE \E x : x.op # "send" /\ cq' = Append(cq, x)
      <4>1. PICK x : x.op # "send" /\ cq' = Append(cq, x)
        BY <3>3, Zenon
      <4>2. cq \in Seq(Cqe) /\ cq' \in Seq(Cqe)
        BY <2>2, Zenon DEF KernelTypes
      <4>3. Len(cq) + 1 \in DOMAIN cq' /\ cq'[Len(cq) + 1] = x
        BY <4>1, <4>2
      <4>4. x \in Cqe
        BY <4>2, <4>3
      <4> QED  BY <4>1, <4>4, Zenon DEF PostsOther
    <3> QED  BY <3>1, <3>2, <3>3, Zenon
  <2> QED  BY <2>1, <2>3, Zenon DEF KernelMove, SqSame
<1> QED  BY <1>2, <1>3, Zenon DEF Kernel

(***************************************************************************)
(* The ids of the sends in a queue                                         *)
(***************************************************************************)

\* At the end of a queue, an entry adds its id when it is a send.
LEMMA IdsAppend ==
    ASSUME NEW S, NEW q \in Seq(S), NEW x \in S, Distinct(q)
    PROVE  /\ x.op # "send" => Ids(Append(q, x)) = Ids(q) /\ Distinct(Append(q, x))
           /\ x.op = "send" => Ids(Append(q, x)) = Ids(q) \cup {x.id}
           /\ x.op = "send" /\ x.id \notin Ids(q) => Distinct(Append(q, x))
<1>1. PICK r \in Seq(S) : r = Append(q, x)
  <2>1. Append(q, x) \in Seq(S)
    OBVIOUS
  <2> QED  BY <2>1, Zenon
<1>2. PICK n \in Nat : n = Len(q)
  OBVIOUS
<1>3. /\ DOMAIN q = 1 .. n /\ DOMAIN r = 1 .. n + 1
      /\ r[n + 1] = x /\ \A k \in 1 .. n : r[k] = q[k]
  BY <1>1, <1>2
<1>4. \A k : k \in Sent(r) <=> k \in Sent(q) \/ (k = n + 1 /\ x.op = "send")
  BY <1>3 DEF Sent
<1>5. \A k \in Sent(q) : r[k] = q[k] /\ k # n + 1
  BY <1>3 DEF Sent
<1>6. \A k \in Sent(q) : q[k].id \in Ids(q)
  BY Zenon DEF Ids
<1>7. x.op # "send" => Ids(r) = Ids(q) /\ Distinct(r)
  BY <1>4, <1>5 DEF Ids, Distinct
<1>8. ASSUME x.op = "send" PROVE \A i : i \in Ids(r) <=> i \in Ids(q) \/ i = x.id
  BY <1>3, <1>4, <1>5, <1>8 DEF Ids
<1>9. ASSUME x.op = "send", x.id \notin Ids(q) PROVE Distinct(r)
  BY <1>3, <1>4, <1>5, <1>6, <1>9 DEF Distinct
<1> QED  BY <1>1, <1>7, <1>8, <1>9, Zenon

\* From its front, an entry takes its id with it when it is a send.
LEMMA IdsTail ==
    ASSUME NEW S, NEW q \in Seq(S), q # <<>>, Distinct(q)
    PROVE  /\ Distinct(Tail(q))
           /\ Head(q).op # "send" => Ids(Tail(q)) = Ids(q)
           /\ Head(q).op = "send" => /\ Ids(Tail(q)) = Ids(q) \ {Head(q).id}
                                     /\ Head(q).id \in Ids(q)
<1>1. PICK r \in Seq(S) : r = Tail(q)
  <2>1. Tail(q) \in Seq(S)
    OBVIOUS
  <2> QED  BY <2>1, Zenon
<1>2. PICK n \in Nat : n = Len(q) /\ n > 0
  OBVIOUS
<1>3. /\ DOMAIN q = 1 .. n /\ DOMAIN r = 1 .. n - 1 /\ q[1] = Head(q)
      /\ \A k \in 1 .. n - 1 : r[k] = q[k + 1]
  BY <1>1, <1>2
<1>4. \A k \in Sent(r) : k + 1 \in Sent(q) /\ r[k] = q[k + 1] /\ k \in Nat /\ k + 1 # 1
  BY <1>2, <1>3 DEF Sent
<1>5. \A k \in Sent(q) : k = 1 \/ \E l \in Sent(r) : k = l + 1
  <2> SUFFICES ASSUME NEW k \in Sent(q), k # 1 PROVE k - 1 \in Sent(r) /\ k = (k - 1) + 1
    BY Zenon
  <2>1. k \in 1 .. n /\ q[k].op = "send" /\ k - 1 \in 1 .. n - 1
    BY <1>2, <1>3 DEF Sent
  <2>2. r[k - 1] = q[(k - 1) + 1] /\ (k - 1) + 1 = k
    BY <1>3, <2>1
  <2> QED  BY <1>3, <2>1, <2>2, Zenon DEF Sent
<1>6. 1 \in Sent(q) <=> Head(q).op = "send"
  BY <1>2, <1>3 DEF Sent
<1>7. Distinct(r)
  <2> SUFFICES ASSUME NEW k \in Sent(r), NEW l \in Sent(r), r[k].id = r[l].id PROVE k = l
    BY Zenon DEF Distinct
  <2>1. k + 1 = l + 1 /\ k \in Nat /\ l \in Nat
    BY <1>4 DEF Distinct
  <2> QED  BY <2>1
<1>8. \A i : i \in Ids(r) <=> \E k \in Sent(q) : k # 1 /\ q[k].id = i
  BY <1>4, <1>5 DEF Ids
<1>9. \A i : i \in Ids(q) <=> \E k \in Sent(q) : q[k].id = i
  BY Zenon DEF Ids
<1>10. CASE Head(q).op # "send"
  BY <1>1, <1>6, <1>7, <1>8, <1>9, <1>10
<1>11. CASE Head(q).op = "send"
  <2>1. \A k \in Sent(q) : k # 1 => q[k].id # Head(q).id
    BY <1>3, <1>6, <1>11, Zenon DEF Distinct
  <2>2. \A i : i \in Ids(r) <=> i \in Ids(q) /\ i # Head(q).id
    BY <1>3, <1>8, <1>9, <2>1, Zenon
  <2>3. Head(q).id \in Ids(q)
    BY <1>3, <1>6, <1>9, <1>11, Zenon
  <2> QED  BY <1>1, <1>7, <1>11, <2>2, <2>3, Zenon
<1> QED  BY <1>10, <1>11, Zenon

\* Entries that are no sends add no ids.
LEMMA IdsConcat ==
    ASSUME NEW S, NEW q \in Seq(S), NEW p \in Seq(S), Distinct(q),
           \A k \in DOMAIN p : p[k].op # "send"
    PROVE  Ids(q \o p) = Ids(q) /\ Distinct(q \o p)
<1>1. PICK r \in Seq(S) : r = q \o p
  <2>1. q \o p \in Seq(S)
    BY ConcatFacts, Zenon
  <2> QED  BY <2>1, Zenon
<1>2. PICK n \in Nat, m \in Nat : n = Len(q) /\ m = Len(p)
  OBVIOUS
<1>3. /\ DOMAIN q = 1 .. n /\ DOMAIN p = 1 .. m /\ DOMAIN r = 1 .. n + m
      /\ \A k \in 1 .. n + m : r[k] = IF k <= n THEN q[k] ELSE p[k - n]
  BY <1>1, <1>2, ConcatFacts
<1>4. \A k \in Sent(r) : k \in 1 .. n
  <2> SUFFICES ASSUME NEW k \in 1 .. n + m, ~(k <= n) PROVE r[k].op # "send"
    BY <1>2, <1>3 DEF Sent
  <2>1. k - n \in 1 .. m /\ r[k] = p[k - n]
    BY <1>2, <1>3
  <2> QED  BY <1>3, <2>1, Zenon
<1>5. \A k \in 1 .. n : k \in 1 .. n + m /\ k <= n
  BY <1>2
<1>6. Sent(r) = Sent(q) /\ \A k \in Sent(q) : r[k] = q[k]
  BY <1>3, <1>4, <1>5, Zenon DEF Sent
<1>7. Ids(r) = Ids(q)
  BY <1>6, Zenon DEF Ids
<1>8. Distinct(r)
  BY <1>6, Zenon DEF Distinct
<1> QED  BY <1>1, <1>7, <1>8, Zenon

\* A send that is taken joins those under way.
LEMMA FlightsAppend ==
    ASSUME NEW S, NEW q \in Seq(S), NEW x \in S, DistinctFlights(q), x.id \notin FlightIds(q)
    PROVE  FlightIds(Append(q, x)) = FlightIds(q) \cup {x.id} /\ DistinctFlights(Append(q, x))
<1>1. PICK r \in Seq(S) : r = Append(q, x)
  <2>1. Append(q, x) \in Seq(S)
    OBVIOUS
  <2> QED  BY <2>1, Zenon
<1>2. PICK n \in Nat : n = Len(q)
  OBVIOUS
<1>3. /\ DOMAIN q = 1 .. n /\ DOMAIN r = 1 .. n + 1
      /\ r[n + 1] = x /\ \A k \in 1 .. n : r[k] = q[k]
  BY <1>1, <1>2
<1>4. \A k : k \in DOMAIN r <=> k \in DOMAIN q \/ k = n + 1
  BY <1>3
<1>5. \A k \in DOMAIN q : r[k] = q[k] /\ q[k].id \in FlightIds(q)
  BY <1>3, Zenon DEF FlightIds
<1> QED  BY <1>1, <1>3, <1>4, <1>5 DEF FlightIds, DistinctFlights

\* One that completes leaves them.
LEMMA FlightsWithout ==
    ASSUME NEW S, NEW q \in Seq(S), NEW j \in DOMAIN q, DistinctFlights(q)
    PROVE  /\ FlightIds(Without(q, j)) = FlightIds(q) \ {q[j].id}
           /\ DistinctFlights(Without(q, j)) /\ q[j].id \in FlightIds(q)
<1>1. PICK r \in Seq(S) : r = Without(q, j)
  BY WithoutFacts, Zenon
<1>2. PICK n \in Nat : n = Len(q) /\ n > 0 /\ j \in 1 .. n
  OBVIOUS
<1>3. /\ DOMAIN q = 1 .. n /\ DOMAIN r = 1 .. n - 1
      /\ \A k \in 1 .. n - 1 : r[k] = IF k < j THEN q[k] ELSE q[k + 1]
  <2>1. /\ DOMAIN Without(q, j) = 1 .. Len(q) - 1
        /\ \A k \in 1 .. Len(q) - 1 : Without(q, j)[k] = IF k < j THEN q[k] ELSE q[k + 1]
    BY WithoutFacts, Zenon
  <2>2. DOMAIN q = 1 .. n
    BY <1>2
  <2> QED  BY <1>1, <1>2, <2>1, <2>2, Zenon
<1>4. PICK at \in [1 .. n - 1 -> 1 .. n] : \A k \in 1 .. n - 1 : at[k] = IF k < j THEN k ELSE k + 1
  <2> DEFINE f == [k \in 1 .. n - 1 |-> IF k < j THEN k ELSE k + 1]
  <2>1. f \in [1 .. n - 1 -> 1 .. n]
    BY <1>2
  <2> QED  BY <2>1, Zenon
<1>5. \A k \in DOMAIN r : at[k] \in DOMAIN q /\ at[k] # j /\ r[k] = q[at[k]]
  BY <1>2, <1>3, <1>4
<1>6. \A k, l \in DOMAIN r : at[k] = at[l] => k = l
  BY <1>2, <1>3, <1>4
<1>7. ASSUME NEW k \in DOMAIN q, k # j PROVE \E l \in DOMAIN r : at[l] = k
  <2>1. CASE k < j
    <3>1. k \in 1 .. n - 1
      BY <1>2, <1>3, <2>1
    <3> QED  BY <1>3, <1>4, <2>1, <3>1, Zenon
  <2>2. CASE k > j
    <3>1. k - 1 \in 1 .. n - 1 /\ ~(k - 1 < j) /\ (k - 1) + 1 = k
      BY <1>2, <1>3, <2>2
    <3> QED  BY <1>3, <1>4, <3>1, Zenon
  <2> QED  BY <1>2, <1>3, <1>7, <2>1, <2>2
<1>8. DistinctFlights(r)
  <2> SUFFICES ASSUME NEW k \in DOMAIN r, NEW l \in DOMAIN r, r[k].id = r[l].id PROVE k = l
    BY Zenon DEF DistinctFlights
  <2>1. at[k] = at[l]
    BY <1>5 DEF DistinctFlights
  <2> QED  BY <1>6, <2>1, Zenon
<1>9. \A i : i \in FlightIds(r) <=> i \in FlightIds(q) /\ i # q[j].id
  <2>1. ASSUME NEW i \in FlightIds(r) PROVE i \in FlightIds(q) /\ i # q[j].id
    <3>1. PICK k \in DOMAIN r : r[k].id = i
      BY Zenon DEF FlightIds
    <3>2. at[k] \in DOMAIN q /\ at[k] # j /\ q[at[k]].id = i
      BY <1>5, <3>1, Zenon
    <3> QED  BY <3>2, Zenon DEF FlightIds, DistinctFlights
  <2>2. ASSUME NEW i \in FlightIds(q), i # q[j].id PROVE i \in FlightIds(r)
    <3>1. PICK k \in DOMAIN q : q[k].id = i /\ k # j
      BY <2>2, Zenon DEF FlightIds
    <3>2. PICK l \in DOMAIN r : at[l] = k
      BY <1>7, <3>1, Zenon
    <3>3. r[l].id = i
      BY <1>5, <3>1, <3>2, Zenon
    <3> QED  BY <3>3, Zenon DEF FlightIds
  <2> QED  BY <2>1, <2>2, Zenon
<1> QED  BY <1>1, <1>8, <1>9, Zenon DEF FlightIds

(***************************************************************************)
(* FlightInv                                                               *)
(***************************************************************************)

\* The kernel moves a send on with its id, from the submission queue to those
\* under way and from there to its completion; it takes none while the ticket
\* of one is still to be queued.
LEMMA KernelFlights ==
    ASSUME KernelTypes, FlightInv, KernelMove, Owned' = Owned,
           \/ cpc # "ticket"
           \/ sq' = sq /\ cpc' = cpc /\ sending' = sending
    PROVE  FlightInv'
<1> DEFINE A == Ids(sq)
           B == FlightIds(sends)
           C == Ids(cq)
<1>1. /\ Distinct(sq) /\ DistinctFlights(sends) /\ Distinct(cq)
      /\ \A i \in A : i \notin B /\ i \notin C
      /\ \A i \in B : i \notin C
      /\ \A i \in A : i \in Owned \/ (cpc = "ticket" /\ i = sending.id)
      /\ \A i \in B \cup C : i \in Owned
  BY Zenon DEF FlightInv
<1>2. sq \in Seq(Sqe) /\ cq \in Seq(Cqe) /\ sends \in Seq(Flight)
  BY Zenon DEF KernelTypes
<1>3. ASSUME SqSame
      PROVE  /\ Distinct(sq') /\ Ids(sq') = A
             /\ \A i \in A : i \in Owned \/ (cpc' = "ticket" /\ i = sending'.id)
  <2>1. sq' = sq => Distinct(sq') /\ Ids(sq') = A
    BY <1>1, Zenon
  <2>2. sq' # sq => Distinct(sq') /\ Ids(sq') = A /\ cpc # "ticket"
    BY <1>1, <1>2, <1>3, IdsTail, Zenon DEF SqSame
  <2> QED  BY <1>1, <2>1, <2>2, Zenon
<1>4. ASSUME NEW i \in Id, SqTakes(i)
      PROVE  /\ Distinct(sq') /\ Ids(sq') = A \ {i} /\ i \in A
             /\ cpc # "ticket" /\ \A j \in A : j \in Owned
  <2>1. Distinct(sq') /\ Ids(sq') = A \ {i} /\ i \in A
    BY <1>1, <1>2, <1>4, IdsTail, Zenon DEF SqTakes
  <2>2. sq' # sq
    BY <2>1, Zenon
  <2> QED  BY <1>1, <2>1, <2>2, Zenon
<1>5. ASSUME NEW i \in Id, i \notin C, Completes(i) PROVE Distinct(cq') /\ Ids(cq') = C \cup {i}
  <2>1. PICK x \in Cqe : x.op = "send" /\ x.id = i /\ cq' = Append(cq, x)
    BY <1>5, Zenon DEF Completes
  <2> QED  BY <1>1, <1>2, <1>5, <2>1, IdsAppend
<1>6. CASE SqSame /\ sends' = sends /\ PostsOther
  <2>1. Distinct(cq') /\ Ids(cq') = C
    <3>1. CASE cq' = cq
      BY <1>1, <3>1, Zenon
    <3>2. CASE cq' # cq
      <4>1. PICK x \in Cqe : x.op # "send" /\ cq' = Append(cq, x)
        BY <1>6, <3>2, Zenon DEF PostsOther
      <4> QED  BY <1>1, <1>2, <4>1, IdsAppend, Zenon
    <3> QED  BY <3>1, <3>2, Zenon
  <2>2. FlightIds(sends') = B /\ DistinctFlights(sends')
    BY <1>1, <1>6, Zenon
  <2> QED  BY <1>1, <1>3, <1>6, <2>1, <2>2, Zenon DEF FlightInv
<1>7. CASE \E i \in Id : SqTakes(i) /\ sends' = sends /\ Completes(i)
  <2>1. PICK i \in Id : SqTakes(i) /\ sends' = sends /\ Completes(i)
    BY <1>7, Zenon
  <2>2. /\ Distinct(sq') /\ Ids(sq') = A \ {i} /\ i \in A
        /\ cpc # "ticket" /\ \A j \in A : j \in Owned
    BY <1>4, <2>1, Zenon
  <2>3. Distinct(cq') /\ Ids(cq') = C \cup {i}
    BY <1>1, <1>5, <2>1, <2>2, Zenon
  <2>4. FlightIds(sends') = B /\ DistinctFlights(sends')
    BY <1>1, <2>1, Zenon
  <2> QED  BY <1>1, <2>2, <2>3, <2>4, Zenon DEF FlightInv
<1>8. CASE \E i \in Id : /\ SqTakes(i) /\ cq' = cq
                         /\ \E x \in Flight : x.id = i /\ sends' = Append(sends, x)
  <2>1. PICK i \in Id, x \in Flight :
              SqTakes(i) /\ cq' = cq /\ x.id = i /\ sends' = Append(sends, x)
    BY <1>8, Zenon
  <2>2. /\ Distinct(sq') /\ Ids(sq') = A \ {i} /\ i \in A
        /\ cpc # "ticket" /\ \A j \in A : j \in Owned
    BY <1>4, <2>1, Zenon
  <2>3. FlightIds(sends') = B \cup {i} /\ DistinctFlights(sends')
    BY <1>1, <1>2, <2>1, <2>2, FlightsAppend
  <2>4. Distinct(cq') /\ Ids(cq') = C
    BY <1>1, <2>1, Zenon
  <2> QED  BY <1>1, <2>2, <2>3, <2>4, Zenon DEF FlightInv
<1>9. CASE \E k \in DOMAIN sends : /\ sq' = sq /\ sends' = Without(sends, k)
                                   /\ Completes(sends[k].id)
  <2>1. PICK k \in DOMAIN sends : sq' = sq /\ sends' = Without(sends, k) /\ Completes(sends[k].id)
    BY <1>9, Zenon
  <2>2. PICK i \in Id : i = sends[k].id
    <3>1. sends[k] \in Flight
      BY <1>2
    <3>2. sends[k].id \in Id
      BY <3>1, Zenon DEF Flight
    <3> QED  BY <3>2, Zenon
  <2>3. FlightIds(sends') = B \ {i} /\ DistinctFlights(sends') /\ i \in B
    <3>1. /\ FlightIds(Without(sends, k)) = FlightIds(sends) \ {sends[k].id}
          /\ DistinctFlights(Without(sends, k)) /\ sends[k].id \in FlightIds(sends)
      BY <1>1, <1>2, FlightsWithout, Zenon
    <3> QED  BY <2>1, <2>2, <3>1, Zenon
  <2>4. Distinct(cq') /\ Ids(cq') = C \cup {i}
    BY <1>1, <1>5, <2>1, <2>2, <2>3, Zenon
  <2>5. /\ Distinct(sq') /\ Ids(sq') = A
        /\ \A j \in A : j \in Owned \/ (cpc' = "ticket" /\ j = sending'.id)
    BY <1>3, <2>1, Zenon DEF SqSame
  <2> QED  BY <1>1, <2>3, <2>4, <2>5, Zenon DEF FlightInv
<1> QED  BY <1>6, <1>7, <1>8, <1>9, Zenon DEF KernelMove

\* The complete thread reaps one completion at most: with a send's, and only
\* then, its ticket goes.
LEMMA ThreadFlights ==
    ASSUME KernelTypes, ThreadTypes, FlightInv, QuietStep \/ AnswerStep \/ RedeemStep,
           UNCHANGED <<sq, sends, cpc, sending>>
    PROVE  FlightInv'
<1> DEFINE A == Ids(sq)
           B == FlightIds(sends)
           C == Ids(cq)
<1>1. /\ Distinct(sq) /\ DistinctFlights(sends) /\ Distinct(cq)
      /\ \A i \in A : i \notin B /\ i \notin C
      /\ \A i \in B : i \notin C
      /\ \A i \in A : i \in Owned \/ (cpc = "ticket" /\ i = sending.id)
      /\ \A i \in B \cup C : i \in Owned
  BY Zenon DEF FlightInv
<1>2. /\ cq \in Seq(Cqe) /\ Ids(sq') = A /\ FlightIds(sends') = B
      /\ Distinct(sq') /\ DistinctFlights(sends')
  BY <1>1, Zenon DEF KernelTypes
<1>3. CASE QuietStep \/ AnswerStep
  <2>1. Owned' = Owned
    BY <1>3, Zenon DEF QuietStep, AnswerStep, Owned, Known
  <2>2. Distinct(cq') /\ Ids(cq') = C
    <3>1. CASE cq' = cq
      BY <1>1, <3>1, Zenon
    <3>2. CASE cq' # cq
      <4>1. cq # <<>> /\ Head(cq).op # "send" /\ cq' = Tail(cq)
        BY <1>3, <3>2, Zenon DEF QuietStep, AnswerStep, Passed
      <4> QED  BY <1>1, <1>2, <4>1, IdsTail, Zenon
    <3> QED  BY <3>1, <3>2, Zenon
  <2> QED  BY <1>1, <1>2, <2>1, <2>2, Zenon DEF FlightInv
<1>4. CASE RedeemStep
  <2>1. PICK i : i = Head(cq).id
    BY Zenon
  <2>2. Distinct(cq') /\ Ids(cq') = C \ {i} /\ i \in C
    BY <1>1, <1>2, <1>4, <2>1, IdsTail, Zenon DEF RedeemStep
  <2>3. \A j : j \in Owned' <=> j \in Owned /\ j # i
    <3>1. Known' = {t \in Known : t.id # i}
      <4>1. Range(<<>>) = {}
        BY DEF Range
      <4> QED  BY <1>4, <2>1, <4>1, Zenon DEF RedeemStep, Known
    <3> QED  BY <3>1, Zenon DEF Owned
  <2> QED  BY <1>1, <1>2, <2>2, <2>3, Zenon DEF FlightInv
<1> QED  BY <1>3, <1>4, Zenon

\* A caller that pushes no send keeps the sends of the submission queue.
CallerQueues ==
    \/ sq' = sq
    \/ \E x \in Sqe : x.op # "send" /\ sq' = Append(sq, x)
    \/ \E p \in Seq(Sqe) : (\A k \in DOMAIN p : p[k].op # "send") /\ sq' = sq \o p

\* The rearms, timeouts, removals and no-ops it pushes leave the ids alone.
LEMMA CallerQueuesIds ==
    ASSUME sq \in Seq(Sqe), Distinct(sq), CallerQueues
    PROVE  Ids(sq') = Ids(sq) /\ Distinct(sq')
<1>1. CASE sq' = sq
  BY <1>1, Zenon
<1>2. CASE \E x \in Sqe : x.op # "send" /\ sq' = Append(sq, x)
  <2>1. PICK x \in Sqe : x.op # "send" /\ sq' = Append(sq, x)
    BY <1>2, Zenon
  <2> QED  BY <2>1, IdsAppend
<1>3. CASE \E p \in Seq(Sqe) : (\A k \in DOMAIN p : p[k].op # "send") /\ sq' = sq \o p
  <2>1. PICK p \in Seq(Sqe) : (\A k \in DOMAIN p : p[k].op # "send") /\ sq' = sq \o p
    BY <1>3, Zenon
  <2>2. Ids(sq \o p) = Ids(sq) /\ Distinct(sq \o p)
    BY <2>1, IdsConcat, Zenon
  <2> QED  BY <2>1, <2>2, Zenon
<1> QED  BY <1>1, <1>2, <1>3, Zenon DEF CallerQueues

\* Nothing of the caller's but its sends and its tickets matters to the flights.
LEMMA CallerFlights ==
    ASSUME KernelTypes, FlightInv, CallerQueues, UNCHANGED <<cq, sends>>,
           \A i \in Owned : i \in Owned',
           cpc = "ticket" => \/ cpc' = "ticket" /\ sending' = sending
                             \/ sending.id \in Owned'
    PROVE  FlightInv'
<1>1. Ids(sq') = Ids(sq) /\ Distinct(sq')
  BY CallerQueuesIds, Zenon DEF KernelTypes, FlightInv
<1>2. /\ Ids(cq') = Ids(cq) /\ FlightIds(sends') = FlightIds(sends)
      /\ Distinct(cq') /\ DistinctFlights(sends')
  BY Zenon DEF FlightInv
<1> QED  BY <1>1, <1>2 DEF FlightInv

\* A send is pushed under an id that no request had.
LEMMA PushFlights ==
    ASSUME KernelTypes, FlightInv, ClaimInv, UNCHANGED <<cq, sends>>, Owned' = Owned,
           cpc = "dial", cpc' = "ticket", nextReq \in Id, sending'.id = nextReq,
           NEW f \in Fd, sq' = Append(sq, SendSqe(f, nextReq))
    PROVE  FlightInv'
<1>1. PICK x \in Sqe : x = SendSqe(f, nextReq) /\ x.op = "send" /\ x.id = nextReq
  <2>1. SendSqe(f, nextReq) \in Sqe /\ SendSqe(f, nextReq).op = "send" /\ SendSqe(f, nextReq).id = nextReq
    BY SqeIs, Zenon DEF SendSqe
  <2> QED  BY <2>1, Zenon
<1>2. nextReq \notin Owned
  <2>1. \A i \in Owned : i < nextReq
    BY Zenon DEF ClaimInv, Claimed
  <2> QED  BY <2>1, Numbers DEF Id
<1>3. /\ Distinct(sq) /\ DistinctFlights(sends) /\ Distinct(cq)
      /\ \A i \in Ids(sq) : i \notin FlightIds(sends) /\ i \notin Ids(cq)
      /\ \A i \in FlightIds(sends) : i \notin Ids(cq)
      /\ \A i \in Ids(sq) : i \in Owned
      /\ \A i \in FlightIds(sends) \cup Ids(cq) : i \in Owned
  BY Zenon DEF FlightInv
<1>4. Ids(sq') = Ids(sq) \cup {nextReq} /\ Distinct(sq')
  BY <1>1, <1>2, <1>3, IdsAppend DEF KernelTypes
<1>5. /\ Ids(cq') = Ids(cq) /\ FlightIds(sends') = FlightIds(sends)
      /\ Distinct(cq') /\ DistinctFlights(sends')
  BY <1>3, Zenon
<1> QED  BY <1>2, <1>3, <1>4, <1>5, Zenon DEF FlightInv

(***************************************************************************)
(* The places of a claim                                                   *)
(***************************************************************************)

\* A result is pushed into the response ring, for a request that has none
\* there or for none.
LEMMA RingPush ==
    ASSUME responses \in Seq(Result), OneInRing, NEW r \in Result,
           responses' = Append(responses, r), r.id = 0 \/ r.id \notin InRing
    PROVE  OneInRing' /\ InRing' = InRing \cup {r.id}
<1>1. PICK n \in Nat : n = Len(responses)
  OBVIOUS
<1>2. /\ DOMAIN responses = 1 .. n /\ DOMAIN responses' = 1 .. n + 1
      /\ responses'[n + 1] = r /\ \A k \in 1 .. n : responses'[k] = responses[k]
  BY <1>1
<1>3. \A k : k \in DOMAIN responses' <=> k \in DOMAIN responses \/ k = n + 1
  BY <1>2
<1>4. \A k \in DOMAIN responses : responses'[k] = responses[k] /\ responses[k].id \in InRing
  BY <1>2, Zenon DEF InRing
<1>5. OneInRing'
  BY <1>2, <1>3, <1>4 DEF OneInRing
<1>6. \A i : i \in InRing' <=> i \in InRing \/ i = r.id
  BY <1>2, <1>3, <1>4 DEF InRing
<1> QED  BY <1>5, <1>6, Zenon

\* response_rx.pop takes the request of the result it returns out of the ring.
LEMMA RingPop ==
    ASSUME responses \in Seq(Result), OneInRing, responses # <<>>, responses' = Tail(responses)
    PROVE  /\ OneInRing' /\ Head(responses).id \in InRing
           /\ \A i \in InRing' : i \in InRing
           /\ Head(responses).id # 0 => Head(responses).id \notin InRing'
<1>1. PICK n \in Nat : n = Len(responses) /\ n > 0
  OBVIOUS
<1>2. /\ DOMAIN responses = 1 .. n /\ DOMAIN responses' = 1 .. n - 1
      /\ responses[1] = Head(responses) /\ \A k \in 1 .. n - 1 : responses'[k] = responses[k + 1]
  BY <1>1
<1>3. \A k \in DOMAIN responses' :
         k \in Nat /\ k + 1 \in DOMAIN responses /\ k + 1 # 1 /\ responses'[k] = responses[k + 1]
  BY <1>1, <1>2
<1>4. 1 \in DOMAIN responses
  BY <1>1, <1>2
<1>5. OneInRing'
  <2> SUFFICES ASSUME NEW k \in DOMAIN responses', NEW l \in DOMAIN responses',
                      responses'[k].id = responses'[l].id, responses'[k].id # 0
               PROVE  k = l
    BY Zenon DEF OneInRing
  <2>1. k + 1 = l + 1 /\ k \in Nat /\ l \in Nat
    BY <1>3 DEF OneInRing
  <2> QED  BY <2>1
<1>6. Head(responses).id \in InRing
  BY <1>2, <1>4, Zenon DEF InRing
<1>7. \A i \in InRing' : i \in InRing
  BY <1>3 DEF InRing
<1>8. Head(responses).id # 0 => Head(responses).id \notin InRing'
  BY <1>2, <1>3, <1>4 DEF InRing, OneInRing
<1> QED  BY <1>5, <1>6, <1>7, <1>8, Zenon

\* on_send_complete gives a request a place at the end of a queue.
LEMMA PlaceTaken ==
    ASSUME ThreadTypes, OnePlace, NEW c \in ConnId, NEW i \in Id, i \notin Pending,
           cdata'[c].pending = Append(cdata[c].pending, i),
           \A d \in ConnId \ {c} : cdata'[d].pending = cdata[d].pending
    PROVE  OnePlace' /\ Pending' = Pending \cup {i}
<1>1. PICK q \in Seq(Id) : q = cdata[c].pending
  BY Zenon DEF ThreadTypes, ConnData
<1>2. PICK n \in Nat : n = Len(q)
  OBVIOUS
<1>3. PICK p \in Seq(Id) : p = cdata'[c].pending
  <2>1. Append(q, i) \in Seq(Id)
    OBVIOUS
  <2> QED  BY <1>1, <2>1, Zenon
<1>4. /\ DOMAIN q = 1 .. n /\ DOMAIN p = 1 .. n + 1
      /\ p[n + 1] = i /\ \A k \in 1 .. n : p[k] = q[k]
  BY <1>1, <1>2, <1>3
<1>5. \A k : k \in DOMAIN p <=> k \in DOMAIN q \/ k = n + 1
  BY <1>4
<1>6. \A k \in DOMAIN q : p[k] = q[k]
  BY <1>4, Zenon
<1>7. \A d \in ConnId : \A k \in DOMAIN cdata[d].pending : cdata[d].pending[k] # i
  <2> SUFFICES ASSUME NEW d \in ConnId, NEW k \in DOMAIN cdata[d].pending,
                      cdata[d].pending[k] = i
               PROVE  i \in Pending
    BY Zenon
  <2> QED  BY Zenon DEF Pending, Range
<1>8. ASSUME NEW b \in ConnId, NEW d \in ConnId,
             NEW k \in DOMAIN cdata'[b].pending, NEW l \in DOMAIN cdata'[d].pending,
             cdata'[b].pending[k] = cdata'[d].pending[l]
      PROVE  b = d /\ k = l
  <2>1. \/ k \in DOMAIN cdata[b].pending /\ cdata'[b].pending[k] = cdata[b].pending[k]
        \/ b = c /\ k = n + 1 /\ cdata'[b].pending[k] = i
    BY <1>1, <1>3, <1>4, <1>5, <1>6, Zenon
  <2>2. \/ l \in DOMAIN cdata[d].pending /\ cdata'[d].pending[l] = cdata[d].pending[l]
        \/ d = c /\ l = n + 1 /\ cdata'[d].pending[l] = i
    BY <1>1, <1>3, <1>4, <1>5, <1>6, Zenon
  <2> QED  BY <1>7, <1>8, <2>1, <2>2 DEF OnePlace
<1>9. \A j \in Id : j \in Range(p) <=> j \in Range(q) \/ j = i
  BY <1>4, <1>5, <1>6, Zenon DEF Range
<1>10. \A j : j \in Pending' <=> j \in Pending \/ j = i
  BY <1>1, <1>3, <1>9, Zenon DEF Pending
<1> QED  BY <1>8, <1>10, Zenon DEF OnePlace

\* pop_pending_id takes the request it returns out of its queue.
LEMMA PlaceLeft ==
    ASSUME ThreadTypes, OnePlace, NEW c \in ConnId,
           cdata'[c].pending = Popped(cdata[c]),
           \A d \in ConnId \ {c} : cdata'[d].pending = cdata[d].pending
    PROVE  /\ OnePlace' /\ \A i \in Pending' : i \in Pending
           /\ FrontId(cdata[c]) # 0 => /\ FrontId(cdata[c]) \in Pending
                                       /\ FrontId(cdata[c]) \notin Pending'
<1>1. PICK q \in Seq(Id) : q = cdata[c].pending
  BY Zenon DEF ThreadTypes, ConnData
<1>2. CASE q = <<>>
  <2>1. FrontId(cdata[c]) = 0 /\ \A d \in ConnId : cdata'[d].pending = cdata[d].pending
    BY <1>1, <1>2, Zenon DEF FrontId, Popped
  <2> QED  BY <2>1 DEF OnePlace, Pending
<1>3. CASE q # <<>>
  <2>1. PICK n \in Nat : n = Len(q) /\ n > 0
    BY <1>3
  <2>2. PICK p \in Seq(Id) : p = Tail(q)
    <3>1. Tail(q) \in Seq(Id)
      BY <1>3
    <3> QED  BY <3>1, Zenon
  <2>3. PICK i \in Id : i = Head(q)
    <3>1. Head(q) \in Id
      BY <1>3
    <3> QED  BY <3>1, Zenon
  <2>4. /\ DOMAIN q = 1 .. n /\ DOMAIN p = 1 .. n - 1 /\ q[1] = i
        /\ \A k \in 1 .. n - 1 : p[k] = q[k + 1]
    BY <2>1, <2>2, <2>3
  <2>5. \A k \in DOMAIN p : k \in Nat /\ k + 1 \in DOMAIN q /\ k + 1 # 1 /\ p[k] = q[k + 1]
    BY <2>1, <2>4
  <2>6. 1 \in DOMAIN q
    BY <2>1, <2>4
  <2>7. cdata'[c].pending = p /\ FrontId(cdata[c]) = i
    BY <1>1, <1>3, <2>2, <2>3, Zenon DEF FrontId, Popped
  <2>8. ASSUME NEW b \in ConnId, NEW d \in ConnId,
               NEW k \in DOMAIN cdata'[b].pending, NEW l \in DOMAIN cdata'[d].pending,
               cdata'[b].pending[k] = cdata'[d].pending[l]
        PROVE  b = d /\ k = l
    <3>1. CASE b = c /\ d = c
      <4>1. k + 1 = l + 1 /\ k \in Nat /\ l \in Nat
        BY <1>1, <2>5, <2>7, <2>8, <3>1 DEF OnePlace
      <4> QED  BY <3>1, <4>1
    <3>2. CASE ~(b = c /\ d = c)
      <4>1. CASE b # c /\ d # c
        BY <2>8, <4>1 DEF OnePlace
      <4>2. CASE b = c /\ d # c
        <5>1. k + 1 \in DOMAIN cdata[c].pending /\ cdata[c].pending[k + 1] = cdata'[b].pending[k]
          BY <1>1, <2>5, <2>7, <4>2, Zenon
        <5>2. l \in DOMAIN cdata[d].pending /\ cdata[d].pending[l] = cdata'[d].pending[l]
          BY <4>2, Zenon
        <5> QED  BY <2>8, <4>2, <5>1, <5>2 DEF OnePlace
      <4>3. CASE b # c /\ d = c
        <5>1. l + 1 \in DOMAIN cdata[c].pending /\ cdata[c].pending[l + 1] = cdata'[d].pending[l]
          BY <1>1, <2>5, <2>7, <4>3, Zenon
        <5>2. k \in DOMAIN cdata[b].pending /\ cdata[b].pending[k] = cdata'[b].pending[k]
          BY <4>3, Zenon
        <5> QED  BY <2>8, <4>3, <5>1, <5>2 DEF OnePlace
      <4> QED  BY <3>2, <4>1, <4>2, <4>3, Zenon
    <3> QED  BY <3>1, <3>2, Zenon
  <2>9. ASSUME NEW j \in Pending' PROVE j \in Pending /\ j # i
    <3>1. PICK d \in ConnId : j \in Id /\ j \in Range(cdata'[d].pending)
      BY Zenon DEF Pending
    <3>2. PICK k \in DOMAIN cdata'[d].pending : cdata'[d].pending[k] = j
      BY <3>1, Zenon DEF Range
    <3>3. CASE d = c
      <4>1. k + 1 \in DOMAIN cdata[c].pending /\ cdata[c].pending[k + 1] = j /\ k + 1 # 1
        BY <1>1, <2>5, <2>7, <3>2, <3>3, Zenon
      <4>2. j # i
        BY <1>1, <2>4, <2>6, <4>1 DEF OnePlace
      <4>3. j \in Range(cdata[c].pending)
        BY <4>1, Zenon DEF Range
      <4> QED  BY <3>1, <4>2, <4>3, Zenon DEF Pending
    <3>4. CASE d # c
      <4>1. k \in DOMAIN cdata[d].pending /\ cdata[d].pending[k] = j
        BY <3>2, <3>4, Zenon
      <4>2. j # i
        BY <1>1, <2>4, <2>6, <3>4, <4>1, Zenon DEF OnePlace
      <4>3. j \in Range(cdata[d].pending)
        BY <4>1, Zenon DEF Range
      <4> QED  BY <3>1, <4>2, <4>3, Zenon DEF Pending
    <3> QED  BY <3>3, <3>4, Zenon
  <2>10. i \in Pending
    <3>1. i \in Range(cdata[c].pending)
      BY <1>1, <2>4, <2>6, Zenon DEF Range
    <3> QED  BY <3>1, Zenon DEF Pending
  <2>11. OnePlace'
    BY <2>8, Zenon DEF OnePlace
  <2> QED  BY <2>7, <2>9, <2>10, <2>11, Zenon
<1> QED  BY <1>2, <1>3, Zenon

=============================================================================
