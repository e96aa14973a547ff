------------------------------- MODULE Client -------------------------------
(***************************************************************************)
(* client.rs: the blocking client over one connection.  A call is a        *)
(* buffered request that follows redirects (execute), a streaming one      *)
(* (execute_streaming), or the dispatch of the async reader, which shares  *)
(* send_head_interruptible but reconnects through ensure_clean.            *)
(*                                                                         *)
(* Time is counted in socket timeouts since the call began: one I/O call   *)
(* takes at most one unit and a tick takes all of it.  The peer and the    *)
(* connector are external: a call of theirs may do anything their contract *)
(* allows.                                                                 *)
(***************************************************************************)
EXTENDS Integers, Sequences, Redirect

CONSTANTS
    Start,          \* the origin connected to first
    Limit,          \* Config::request_deadline
    ConnectLimit,   \* Config::connect_timeout
    Silence,        \* head_silence and stream_silence
    MaxInterim,     \* MAX_INTERIM_RESPONSES
    MaxReads,       \* bound: progressing I/O calls of one stage
    Setups          \* bound: the clients, and what their callers ask of them

\* A client is its Config's allow_cross_origin_redirects and max_redirects; of
\* its caller, the kinds of call made, their number and the requests passed.
Setup ==
    [cross : BOOLEAN, redirects : Nat,
     kinds : SUBSET {"execute", "stream", "async"}, calls : Nat, inputs : SUBSET RequestType]

ASSUME ClientAssumption ==
    /\ Start \in Origins
    /\ Limit \in Nat \ {0} /\ ConnectLimit \in Nat \ {0}
    /\ Silence \in Nat /\ MaxInterim \in Nat /\ MaxReads \in Nat
    /\ Setups \subseteq Setup

VARIABLES
    setup,      \* the client and its caller, fixed
    pc, kind, req,
    origin,     \* Client::origin
    peer,       \* what the stream is connected to
    timed,      \* the stream's timeouts were set
    dirty,      \* Client::dirty
    unread,     \* what the connection carries: nothing, this exchange, another
    attempt,    \* 1, or 2 for the replay
    headBuf,    \* head_buf is not empty
    seen,       \* some byte of this attempt's response arrived
    interims,   \* interim_seen
    keep,       \* the ConnectionReuse verdict
    status,     \* of the last response
    target,     \* the origin a redirect leads to
    hops,       \* hops_left
    clock,      \* time since the call began
    quiet,      \* time since the running budget saw progress
    reads,      \* progressing I/O calls of this stage
    home,       \* origin when the call was made
    sends,      \* history of this call: every request put on the wire
    dials,      \* history of this call: every origin dialled
    calls

connection == <<origin, peer, timed, dirty, unread>>
exchange == <<attempt, headBuf, seen, interims, keep, status>>
budget == <<clock, quiet, reads>>
history == <<home, sends, dials, calls>>
vars == <<setup, pc, kind, req, origin, peer, timed, dirty, unread, attempt, headBuf, seen,
          interims, keep, status, target, hops, clock, quiet, reads, home, sends,
          dials, calls>>

Pc == {"idle", "clean", "begin", "write", "head", "redial", "check", "collect",
       "advance", "hop", "streaming"}

Init ==
    /\ setup \in Setups
    /\ pc = "idle" /\ kind \in setup.kinds /\ req \in setup.inputs
    /\ origin = Start /\ peer = Start /\ timed = TRUE
    /\ dirty = FALSE /\ unread = "none"
    /\ attempt = 1 /\ headBuf = FALSE /\ seen = FALSE /\ interims = 0
    /\ keep = TRUE /\ status = "final" /\ target = Start /\ hops = setup.redirects
    /\ clock = 0 /\ quiet = 0 /\ reads = 0
    /\ home = Start /\ sends = <<>> /\ dials = {} /\ calls = 0

\* RequestDeadline::expired
Expired == clock >= Limit

Fail == pc' = "idle"

(***************************************************************************)
(* reconnect_with_deadline                                                 *)
(***************************************************************************)

\* Variant: every connect earns a fresh connect timeout.
DialLimitFresh(bounded) == ConnectLimit

\* RequestDeadline::connect_deadline: the sooner of the two.
DialLimit(bounded) ==
    IF bounded /\ Limit - clock < ConnectLimit THEN Limit - clock ELSE ConnectLimit

\* Variant: the origin is recorded before the connect is known to succeed.
DialNamesFirst(to, bounded, next) ==
    \/ bounded /\ Expired /\ Fail /\ UNCHANGED <<connection, clock, dials>>
    \/ /\ ~(bounded /\ Expired)
       /\ \E d \in 0 .. DialLimit(bounded) : clock' = clock + d
       /\ dials' = dials \cup {to}
       /\ origin' = to
       /\ \/ Fail /\ UNCHANGED <<peer, timed, dirty, unread>>
          \/ /\ peer' = to /\ unread' = "none"
             /\ timed' = TRUE /\ dirty' = FALSE /\ pc' = next

\* A connect that returns in time, then the origin, the timeouts and, last,
\* the flag.
Dial(to, bounded, next) ==
    \/ bounded /\ Expired /\ Fail /\ UNCHANGED <<connection, clock, dials>>
    \/ /\ ~(bounded /\ Expired)
       /\ \E d \in 0 .. DialLimit(bounded) : clock' = clock + d
       /\ dials' = dials \cup {to}
       /\ \/ Fail /\ UNCHANGED connection
          \/ /\ peer' = to
             /\ origin' = to
             /\ unread' = "none"
             /\ \/ timed' = TRUE /\ dirty' = FALSE /\ pc' = next
                \/ timed' = FALSE /\ Fail /\ UNCHANGED dirty

(***************************************************************************)
(* Entering a call, and the clean connection it starts from                *)
(***************************************************************************)

\* execute, execute_streaming or serve: one total for the whole call.
Call(k, r) ==
    /\ pc = "idle" /\ calls < setup.calls
    /\ pc' = "clean" /\ kind' = k /\ req' = r
    /\ hops' = setup.redirects /\ attempt' = 1
    /\ clock' = 0
    /\ home' = origin /\ sends' = <<>> /\ dials' = {} /\ calls' = calls + 1
    /\ UNCHANGED <<setup, connection, headBuf, seen, interims, keep, status, target, quiet,
                   reads>>

\* ensure_clean_with_deadline; the async dispatch calls ensure_clean, which
\* passes no deadline.
EnsureClean ==
    /\ pc = "clean"
    /\ \/ ~dirty /\ pc' = "begin" /\ UNCHANGED <<connection, clock, dials>>
       \/ dirty /\ Dial(origin, kind # "async", "begin")
    /\ UNCHANGED <<setup, kind, req, exchange, target, hops, quiet, reads, home, sends,
                   calls>>

(***************************************************************************)
(* send_head_once and read_response                                        *)
(***************************************************************************)

\* The silence and the progress of a budget made afresh.
FreshBudget == quiet' = 0 /\ reads' = 0

\* What the connection carries once another exchange starts on it.
Inherited == IF unread = "none" THEN "none" ELSE "stale"

\* Variant: the connection is not poisoned before the write.
BeginUnpoisoned ==
    /\ pc = "begin"
    /\ pc' = "write" /\ unread' = Inherited
    /\ headBuf' = FALSE /\ seen' = FALSE /\ interims' = 0
    /\ FreshBudget
    /\ UNCHANGED <<setup, kind, req, origin, peer, timed, dirty, attempt, keep, status,
                   target, hops, clock, history>>

\* The deadline, a refused CONNECT or a request that cannot be serialised
\* leave the connection untouched; otherwise it is poisoned first.
Begin ==
    /\ pc = "begin"
    /\ \/ Fail /\ UNCHANGED <<dirty, unread, headBuf, seen, interims, quiet, reads>>
       \/ /\ ~Expired /\ req.method # "CONNECT"
          /\ pc' = "write" /\ dirty' = TRUE /\ unread' = Inherited
          /\ headBuf' = FALSE /\ seen' = FALSE /\ interims' = 0
          /\ FreshBudget
    /\ UNCHANGED <<setup, kind, req, origin, peer, timed, attempt, keep, status, target,
                   hops, clock, history>>

\* One I/O call under a budget: refused once the total is spent, a tick that
\* may exhaust the silence, progress, or an error.  The last two take any part
\* of a socket timeout.
OutOfTime == Expired /\ Fail /\ UNCHANGED budget

Ticked ==
    /\ ~Expired
    /\ clock' = clock + 1 /\ quiet' = quiet + 1 /\ UNCHANGED reads
    /\ pc' = IF quiet' >= Silence THEN "idle" ELSE pc

Progress ==
    /\ ~Expired /\ reads < MaxReads
    /\ \E d \in {0, 1} : clock' = clock + d
    /\ quiet' = 0 /\ reads' = reads + 1

Answered(next) ==
    /\ ~Expired
    /\ \E d \in {0, 1} : clock' = clock + d
    /\ UNCHANGED <<quiet, reads>>
    /\ pc' = next

\* Variant: any failed attempt is retried, not only the first.
MayReplayAgain == req.replay /\ ~headBuf

\* The guard of the retry in send_head_interruptible.
MayReplay == attempt = 1 /\ req.replay /\ ~headBuf

\* A transport failure: the stale connection is replayed, or the call fails.
Stale == Answered(IF MayReplay THEN "redial" ELSE "idle")

\* What this call has put on the wire, counting an attempt from its first
\* write.
Sent ==
    [to |-> peer, host |-> origin, hop |-> setup.redirects - hops, method |-> req.method,
     body |-> req.body, creds |-> req.creds, repr |-> req.repr, at |-> clock]

Write ==
    /\ pc = "write"
    /\ \/ OutOfTime /\ UNCHANGED <<unread, sends>>
       \/ /\ \/ Ticked
             \/ Progress /\ UNCHANGED pc
             \/ Stale \/ Answered("idle")
             \/ /\ ~Expired /\ \E d \in {0, 1} : clock' = clock + d
                /\ FreshBudget /\ pc' = "head"
          /\ unread' = IF unread = "none" THEN "mine" ELSE unread
          /\ sends' = IF unread = "none" THEN Append(sends, Sent) ELSE sends
    /\ UNCHANGED <<setup, kind, req, origin, peer, timed, dirty, exchange, target, hops,
                   home, dials, calls>>

\* read_until_head_end taking bytes off the socket.
HeadRead ==
    /\ pc = "head"
    /\ \/ (OutOfTime \/ Ticked \/ Stale \/ Answered("idle")) /\ UNCHANGED <<headBuf, seen>>
       \/ Progress /\ headBuf' = TRUE /\ seen' = TRUE /\ UNCHANGED pc
    /\ UNCHANGED <<setup, kind, req, connection, attempt, interims, keep, status, target,
                   hops, history>>

\* Where a complete final head leads: send_one checks the deadline before it
\* collects the body, the streaming call hands the body to its caller, and
\* the reader drains an error body and streams the others.
AfterHead ==
    CASE kind = "execute" -> {"check"}
      [] kind = "stream" -> {"streaming"}
      [] kind = "async" -> {"collect", "streaming"}

\* A complete head in the buffer: rejected, an interim response that is
\* dropped from it, or the final one.  No read and no deadline check.
HeadParse ==
    /\ pc = "head" /\ headBuf
    /\ \/ Fail /\ UNCHANGED <<dirty, headBuf, interims, keep, status, quiet, reads>>
       \/ /\ interims' = interims + 1
          /\ \/ interims' > MaxInterim /\ Fail /\ UNCHANGED headBuf
             \/ interims' <= MaxInterim /\ headBuf' \in BOOLEAN /\ UNCHANGED pc
          /\ UNCHANGED <<dirty, keep, status, quiet, reads>>
       \/ /\ keep' \in BOOLEAN /\ status' \in Status
          /\ dirty' = (kind # "execute" \/ dirty)
          /\ pc' \in AfterHead
          /\ FreshBudget /\ UNCHANGED <<headBuf, interims>>
    /\ UNCHANGED <<setup, kind, req, origin, peer, timed, unread, attempt, seen, target,
                   hops, clock, history>>

\* The retry of send_head_interruptible: one reconnect, then the second and
\* last attempt.
Redial ==
    /\ pc = "redial"
    /\ Dial(origin, TRUE, "begin")
    /\ attempt' = 2
    /\ UNCHANGED <<setup, kind, req, headBuf, seen, interims, keep, status, target, hops,
                   quiet, reads, home, sends, calls>>

(***************************************************************************)
(* The body, and the next hop                                              *)
(***************************************************************************)

\* deadline.check between the head and the body in send_one.
Check ==
    /\ pc = "check"
    /\ pc' = IF Expired THEN "idle" ELSE "collect"
    /\ UNCHANGED <<setup, kind, req, connection, exchange, target, hops, budget, history>>

\* The body is wholly read and the connection is, or is not, fit for another
\* exchange: is_reusable of the collector and the reuse verdict of the head.
BodyDone ==
    \E reusable \in BOOLEAN :
        /\ dirty' = ~(reusable /\ keep)
        /\ unread' = IF reusable /\ keep THEN "none" ELSE unread

\* read_full_body, or drain_error_body: any failure leaves the poison.
Collect ==
    /\ pc = "collect"
    /\ \/ /\ \/ OutOfTime \/ Ticked \/ Answered("idle")
             \/ Progress /\ UNCHANGED pc
          /\ dirty' = TRUE /\ UNCHANGED unread
       \/ /\ BodyDone
          /\ \E d \in {0, 1} : clock' = clock + d /\ (Expired => d = 0)
          /\ pc' = IF kind = "execute" THEN "advance" ELSE "idle"
          /\ UNCHANGED <<quiet, reads>>
    /\ UNCHANGED <<setup, kind, req, origin, peer, timed, exchange, target, hops, history>>

\* The caller of a streaming call, or the reader, takes the body to its end or
\* drops it.  Its consumer paces it, so the call's clock does not run.
Streaming ==
    /\ pc = "streaming"
    /\ pc' = "idle"
    /\ BodyDone \/ UNCHANGED <<dirty, unread>>
    /\ UNCHANGED <<setup, kind, req, origin, peer, timed, exchange, target, hops, budget,
                   history>>

\* Variant: the budget is spent only once the next hop is dialled.
FollowUncounted(location) ==
    /\ ~Refused(origin, location)
    /\ req' = Advance(req, origin, status, location)
    /\ target' = location.to
    /\ pc' = IF LeavesOrigin(origin, location) /\ setup.cross THEN "hop" ELSE "clean"
    /\ UNCHANGED hops

\* One redirect: the budget first, then advance, then the cross-origin policy.
Follow(location) ==
    \/ hops = 0 /\ Fail /\ UNCHANGED <<req, target, hops>>
    \/ /\ hops > 0 /\ hops' = hops - 1
       /\ \/ Refused(origin, location) /\ Fail /\ UNCHANGED <<req, target>>
          \/ /\ ~Refused(origin, location)
             /\ req' = Advance(req, origin, status, location)
             /\ \/ ~LeavesOrigin(origin, location) /\ pc' = "clean" /\ UNCHANGED target
                \/ /\ LeavesOrigin(origin, location)
                   /\ target' = location.to
                   /\ pc' = IF setup.cross THEN "hop" ELSE "idle"

\* The end of one turn of the loop in execute.
NextHop ==
    /\ pc = "advance"
    /\ \/ pc' = "idle" /\ UNCHANGED <<req, target, hops>>
       \/ status # "final" /\ \E location \in Location : Follow(location)
    /\ attempt' = 1
    /\ UNCHANGED <<setup, kind, connection, headBuf, seen, interims, keep, status, budget,
                   history>>

\* reconnect_with_deadline to the origin the redirect named.
HopDial ==
    /\ pc = "hop"
    /\ Dial(target, TRUE, "clean")
    /\ UNCHANGED <<setup, kind, req, exchange, target, hops, quiet, reads, home, sends,
                   calls>>

Next ==
    \/ \E k \in setup.kinds, r \in setup.inputs : Call(k, r)
    \/ EnsureClean \/ Begin \/ Write \/ HeadRead \/ HeadParse \/ Redial
    \/ Check \/ Collect \/ Streaming \/ NextHop \/ HopDial

Spec == Init /\ [][Next]_vars

(***************************************************************************)
(* Properties                                                              *)
(***************************************************************************)

\* No call ever parses another exchange's bytes: whatever failed, was dropped,
\* redirected or replayed before, the connection a head or a body is read from
\* carries this exchange and nothing else (the dirty protocol of client.rs).
NoDesync ==
    /\ pc \in {"head", "check", "collect", "streaming"} => unread = "mine"
    /\ pc = "write" => unread # "stale"

\* The Host a request names is the origin its connection was opened to, also
\* after a redirect whose reconnect failed half way.
HostMatchesPeer == \A i \in 1 .. Len(sends) : sends[i].host = sends[i].to

\* Along any chain of redirects, credentials go only to the origin the call
\* started from, and do not come back once a hop has left it.
CredentialsStayHome ==
    \A i \in 1 .. Len(sends) : sends[i].creds =>
        /\ sends[i].to = home
        /\ \A j \in 1 .. i : sends[j].to = home

\* The redirect policy holds before anything is dialled, however many hops a
\* call takes: from https never a plaintext origin, no origin other than the
\* caller's without permission, none at all beyond it with a zero budget, and
\* never more than max_redirects + 1 exchanges.
PolicyBeforeDial ==
    /\ home \in Secure => dials \cup {sends[i].to : i \in 1 .. Len(sends)} \subseteq Secure
    /\ (~setup.cross \/ setup.redirects = 0) => dials \subseteq {home}
    /\ \A i \in 1 .. Len(sends) : sends[i].hop <= setup.redirects
    /\ Len(sends) <= 2 * (setup.redirects + 1)

\* A request whose method a redirect rewrote carries neither a body nor headers
\* describing one, at that hop and at every later one.
RewrittenIsBare ==
    \A i \in 1 .. Len(sends) : sends[i].method # sends[1].method =>
        ~sends[i].body /\ ~sends[i].repr

\* A hop is sent at most twice, and at most once when its request may not be
\* replayed, across every interleaving of stale connections and redirects; and
\* a replay that follows a byte of a response follows only whole interim ones,
\* never a part of a head (send_head_interruptible looks at head_buf alone).
OneReplayPerHop ==
    /\ \A i, j \in 1 .. Len(sends) : (i < j /\ sends[i].hop = sends[j].hop) =>
          req.replay /\ j = i + 1
    /\ (pc = "redial" /\ seen) => (interims > 0 /\ ~headBuf)

\* One total covers the whole chain of hops, replays, reconnects and uploads:
\* no request starts on the wire once it is spent, and the call ends within one
\* socket timeout of it.  Only the first reconnect of an async request, which
\* is not given the total, may outlive it, by the connect timeout at most, and
\* then nothing is sent.
CallEndsInTime ==
    /\ \/ clock <= Limit + 1
       \/ kind = "async" /\ sends = <<>> /\ clock <= ConnectLimit
    /\ \A i \in 1 .. Len(sends) : sends[i].at < Limit

(***************************************************************************)
(* What the documentation says and the code does not do                    *)
(***************************************************************************)

\* "the request retried once before any response byte is seen": no replay
\* follows a byte of a response, interim responses included.
ReplayPrecedesResponse == pc = "redial" => ~seen

\* "The total request deadline bounds uploads, flush retries, and reconnects":
\* the reconnect of an async request ends within the total.
ReconnectEndsInTime == pc = "begin" /\ dials # {} => clock <= Limit

\* "silence budgets and async cancellation both need a finite one": no request
\* is written to a stream whose timeouts were never set.
EveryExchangeIsTimed == pc = "write" => timed
=============================================================================
