------------------------------- MODULE Uring --------------------------------
(***************************************************************************)
(* What xibalba-iouring/src/driver.rs sees of its environment: the         *)
(* submission and completion queues of an io_uring, the process's          *)
(* descriptor table, and the servers at the other end of each socket.      *)
(*                                                                         *)
(* A response is the unit "head" followed by the unit "rest", or a single  *)
(* unit: "open" begins a body that ends with the connection, "bad" cannot  *)
(* be parsed.  The kernel delivers any prefix of the units that arrived.   *)
(***************************************************************************)
EXTENDS Integers, Sequences, Functions

CONSTANTS
    MaxRequests,     \* requests issued, in any world
    MaxSockets,      \* connections made
    MaxTimeouts,     \* calls of recv_timeout
    MaxConns,        \* connection ids in use at once
    MaxCq,           \* completions the kernel posts ahead of the complete thread
    RING,            \* Pool's const generic: entries of the submission queue
    Worlds           \* the environments considered

\* An environment: how many requests, sockets, recv_timeout calls and
\* connection ids; the responses servers send, whether they may close at any
\* time, and whether the kernel may end a multishot recv; whether the caller
\* keeps several requests on a connection, and the methods it calls besides
\* connect and request.
World ==
    [requests : 0 .. MaxRequests, sockets : 0 .. MaxSockets, timeouts : 0 .. MaxTimeouts,
     conns : 1 .. MaxConns, kinds : SUBSET {"length", "open", "bad"},
     closes : BOOLEAN, ends : BOOLEAN, pipelined : BOOLEAN,
     methods : SUBSET {"disconnect", "poll", "recv", "recv_timeout", "drop"}]

ASSUME PoolBounds ==
    /\ {MaxRequests, MaxSockets, MaxTimeouts} \subseteq Nat
    /\ {MaxConns, MaxCq, RING} \subseteq Nat \ {0}
    /\ Worlds \subseteq World

VARIABLES
    world,      \* the environment, fixed
    sq,         \* submission queue entries the kernel has not taken
    cq,         \* completions the complete thread has not reaped
    sends,      \* sends taken and not completed, in the order taken
    armed,      \* multishot recvs
    timers,     \* running timeouts, each named by its recv_timeout call
    elapsed,    \* calls whose timeout ran to its end
    fds,        \* the descriptor table
    made,       \* number of sockets made
    peer        \* what is on its way from each socket's server

uringVars == <<world, sq, cq, sends, armed, timers, elapsed, fds, made, peer>>

Id == 1 .. MaxRequests
ConnId == 0 .. MaxConns - 1
Socket == 1 .. MaxSockets
Fd == 1 .. MaxSockets
NO_FD == 0
NO_SOCKET == 0

Unit == [req : Id, part : {"head", "rest", "open", "bad"}]

SendSqe(f, i) == [op |-> "send", fd |-> f, id |-> i]
RecvSqe(f, c) == [op |-> "recv", fd |-> f, conn |-> c]

UringInit ==
    /\ world \in Worlds
    /\ sq = <<>>
    /\ cq = <<>>
    /\ sends = <<>>
    /\ armed = {}
    /\ timers = {}
    /\ elapsed = {}
    /\ fds = [f \in Fd |-> NO_SOCKET]
    /\ made = 0
    /\ peer = [s \in Socket |-> [wire |-> <<>>, closed |-> FALSE]]

SqHasRoom == Len(sq) < RING

Post(cqe) == cq' = Append(cq, cqe)

\* The descriptor a new socket gets.
LowestFd == CHOOSE f \in Fd : fds[f] = NO_SOCKET /\ \A g \in Fd : g < f => fds[g] # NO_SOCKET

Answer(i, kind) ==
    IF kind = "length" THEN << [req |-> i, part |-> "head"], [req |-> i, part |-> "rest"] >>
    ELSE << [req |-> i, part |-> kind] >>

\* A server that reads request i answers it, or closes; what it sends arrives
\* whenever the kernel says so.
Serves(s, i) ==
    \/ /\ peer[s].closed
       /\ UNCHANGED peer
    \/ /\ ~peer[s].closed
       /\ \E kind \in world.kinds :
             peer' = [peer EXCEPT ![s] = [wire   |-> @.wire \o Answer(i, kind),
                                          closed |-> kind = "open"]]
    \/ /\ world.closes
       /\ ~peer[s].closed
       /\ peer' = [peer EXCEPT ![s].closed = TRUE]

\* A write on a connection the server closed may fail.
TakeSend(e) ==
    /\ e.op = "send"
    /\ LET s == fds[e.fd]
       IN  IF s = NO_SOCKET
           THEN /\ Post([op |-> "send", id |-> e.id, ok |-> FALSE])
                /\ UNCHANGED <<sends, peer>>
           ELSE /\ \E ok \in BOOLEAN :
                      /\ ok \/ peer[s].closed
                      /\ sends' = Append(sends, [id |-> e.id, sock |-> s, ok |-> ok])
                /\ Serves(s, e.id)
                /\ UNCHANGED cq
    /\ UNCHANGED <<armed, timers>>

\* A recv holds its socket open, whatever happens to the descriptor.
TakeRecv(e) ==
    /\ e.op = "recv"
    /\ IF fds[e.fd] = NO_SOCKET
       THEN /\ Post([op |-> "error", conn |-> e.conn, fd |-> e.fd])
            /\ UNCHANGED armed
       ELSE /\ armed' = armed \cup {[sock |-> fds[e.fd], fd |-> e.fd, conn |-> e.conn]}
            /\ UNCHANGED cq
    /\ UNCHANGED <<sends, timers, peer>>

TakeTimeout(e) ==
    /\ e.op = "timeout"
    /\ timers' = timers \cup {e.call}
    /\ UNCHANGED <<cq, sends, armed, peer>>

\* A timeout that is removed completes as well, cancelled, with its own
\* user_data.
TakeRemove(e) ==
    /\ e.op = "remove"
    /\ IF timers = {} THEN UNCHANGED <<cq, timers>>
       ELSE /\ \E t \in timers : timers' = timers \ {t}
            /\ Post([op |-> "timeout"])
    /\ UNCHANGED <<sends, armed, peer>>

TakeNop(e) ==
    /\ e.op = "nop"
    /\ Post([op |-> "shutdown"])
    /\ UNCHANGED <<sends, armed, timers, peer>>

\* submit(): the kernel takes the next entry.
TakeSqe ==
    /\ sq # <<>>
    /\ sq' = Tail(sq)
    /\ LET e == Head(sq)
       IN  TakeSend(e) \/ TakeRecv(e) \/ TakeTimeout(e) \/ TakeRemove(e) \/ TakeNop(e)
    /\ UNCHANGED <<world, elapsed, fds, made>>

CqHasRoom == Len(cq) < MaxCq

\* The entries behind position k close up.
Without(s, k) == SubSeq(s, 1, k - 1) \o SubSeq(s, k + 1, Len(s))

\* The sends of a socket complete in order, in no fixed order with the arrival
\* of their responses.
SendCompletes ==
    /\ CqHasRoom
    /\ \E k \in DOMAIN sends :
          /\ \A j \in 1 .. k - 1 : sends[j].sock # sends[k].sock
          /\ sends' = Without(sends, k)
          /\ Post([op |-> "send", id |-> sends[k].id, ok |-> sends[k].ok])
    /\ UNCHANGED <<world, sq, armed, timers, elapsed, fds, made, peer>>

\* A multishot recv completes once for some of what arrived.
DataArrives ==
    /\ CqHasRoom
    /\ \E r \in armed, more \in IF world.ends THEN BOOLEAN ELSE {TRUE} :
          \E n \in 1 .. Len(peer[r.sock].wire) :
             /\ Post([op |-> "data", conn |-> r.conn, fd |-> r.fd, more |-> more,
                      units |-> SubSeq(peer[r.sock].wire, 1, n)])
             /\ peer' = [peer EXCEPT ![r.sock].wire = SubSeq(@, n + 1, Len(@))]
             /\ armed' = IF more THEN armed ELSE armed \ {r}
    /\ UNCHANGED <<world, sq, sends, timers, elapsed, fds, made>>

\* The end of the connection, orderly or not, completes a recv for good.
EndArrives ==
    /\ CqHasRoom
    /\ \E r \in armed, op \in {"eof", "error"} :
          /\ peer[r.sock].closed
          /\ peer[r.sock].wire = <<>>
          /\ Post([op |-> op, conn |-> r.conn, fd |-> r.fd])
          /\ armed' = armed \ {r}
    /\ UNCHANGED <<world, sq, sends, timers, elapsed, fds, made, peer>>

TimerFires ==
    /\ CqHasRoom
    /\ \E t \in timers :
          /\ timers' = timers \ {t}
          /\ elapsed' = elapsed \cup {t}
    /\ Post([op |-> "timeout"])
    /\ UNCHANGED <<world, sq, sends, armed, fds, made, peer>>

\* A connection closes or is reset, at any point of a response: what follows
\* the first n units never arrives.
PeerLeaves ==
    /\ world.closes
    /\ \E s \in 1 .. made :
          /\ ~peer[s].closed
          /\ \E n \in 0 .. Len(peer[s].wire) :
                peer' = [peer EXCEPT ![s] = [wire   |-> SubSeq(@.wire, 1, n),
                                             closed |-> TRUE]]
    /\ UNCHANGED <<world, sq, cq, sends, armed, timers, elapsed, fds, made>>

Kernel == SendCompletes \/ DataArrives \/ EndArrives \/ TimerFires

=============================================================================
