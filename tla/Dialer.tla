------------------------------- MODULE Dialer -------------------------------
(***************************************************************************)
(* dial.rs and deadline.rs: one dial of a connection, against the clock.   *)
(* The bound is the sooner of the connect timeout and what is left of the  *)
(* request's total; it is an instant, shared by resolution and by every    *)
(* attempt.  Time passes inside resolution and inside an attempt, by       *)
(* whatever they take; the code between them takes none.                   *)
(***************************************************************************)
EXTENDS Integers

CONSTANTS
    AttemptTimeout,     \* TcpDialer's connect_timeout, for one address
    ConnectTimeouts,    \* values of Config's connect_timeout
    Totals,             \* what may be left of the request's total
    MaxResolve,         \* longest resolution
    MaxAddresses,       \* most addresses a name resolves to
    NEVER               \* no deadline

ASSUME DialerAssumption ==
    /\ NEVER \notin Nat
    /\ AttemptTimeout \in Nat \ {0}
    /\ ConnectTimeouts \subseteq (Nat \ {0}) \cup {NEVER}
    /\ Totals \subseteq Nat \cup {NEVER}
    /\ MaxResolve \in Nat /\ MaxAddresses \in Nat

VARIABLES
    now,        \* the clock, from the start of the dial
    expires,    \* the deadline: an instant, or NEVER
    pc,         \* where dial is
    left,       \* addresses not tried yet
    last,       \* the last attempt's failure
    resolved,   \* the instant resolution ended
    outcome     \* what dial returned

vars == <<now, expires, pc, left, last, resolved, outcome>>

\* Deadline::sooner: a bounded deadline is sooner than none.
Sooner(a, b) ==
    IF a = NEVER THEN b ELSE IF b = NEVER THEN a ELSE IF a <= b THEN a ELSE b

\* Deadline::is_expired: nothing left counts as expired.
Expired(t) == expires # NEVER /\ t >= expires

\* Variant: each attempt gets the whole of its own timeout.
ClampWhole == AttemptTimeout

\* Deadline::clamp, of the timeout for one attempt, before it expires.
Clamp ==
    IF expires # NEVER /\ expires - now < AttemptTimeout
    THEN expires - now ELSE AttemptTimeout

\* The deadline of a reconnect: RequestDeadline::connect_deadline over
\* Config::connect_deadline, both counted from now.
Init ==
    /\ \E connect \in ConnectTimeouts, total \in Totals : expires = Sooner(total, connect)
    /\ now = 0 /\ resolved = 0 /\ left = 0
    /\ pc = "check" /\ last = "none" /\ outcome = "none"

\* dial returns.
Return(what) == outcome' = what /\ pc' = "done"

\* dial_plaintext and dial, up to the resolver: an HTTPS URL or a host that is
\* not UTF-8 is refused before the deadline is looked at.
Check ==
    /\ pc = "check"
    /\ \/ Return("unusable")
       \/ Expired(now) /\ Return("deadline")
       \/ ~Expired(now) /\ pc' = "resolve" /\ UNCHANGED outcome
    /\ UNCHANGED <<now, expires, left, last, resolved>>

\* to_socket_addrs takes as long as it takes, and may fail; the deadline is
\* checked again before an address is used.
Resolve ==
    /\ pc = "resolve"
    /\ \E took \in 0 .. MaxResolve : now' = now + took
    /\ resolved' = now'
    /\ \/ Return("dns") /\ UNCHANGED left
       \/ Expired(now') /\ Return("deadline") /\ UNCHANGED left
       \/ /\ ~Expired(now')
          /\ left' \in 0 .. MaxAddresses
          /\ pc' = "attempt"
          /\ UNCHANGED outcome
    /\ UNCHANGED <<expires, last>>

\* TcpStream::connect_timeout within `allowed`: connected (after which
\* set_nodelay may fail), refused, or timed out.  "cut" marks an attempt that
\* timed out on less than its own timeout.
Connect(allowed) ==
    \/ /\ \E took \in 0 .. allowed : now' = now + took
       /\ \/ Return("connected") /\ UNCHANGED last
          \/ Return("io") /\ UNCHANGED last
          \/ last' = "refused" /\ UNCHANGED <<pc, outcome>>
    \/ /\ now' = now + allowed
       /\ last' = IF allowed < AttemptTimeout THEN "cut" ELSE "timed out"
       /\ UNCHANGED <<pc, outcome>>

\* One turn of dial_addresses' loop.
Attempt ==
    /\ pc = "attempt" /\ left > 0
    /\ \/ /\ Expired(now)
          /\ Return("deadline")
          /\ UNCHANGED <<now, left, last>>
       \/ /\ ~Expired(now)
          /\ left' = left - 1
          /\ Connect(Clamp)
    /\ UNCHANGED <<expires, resolved>>

\* Every address was tried: the last failure, or that there was none.
Exhausted ==
    /\ pc = "attempt" /\ left = 0
    /\ Return(IF last = "none" THEN "no address" ELSE "io")
    /\ UNCHANGED <<now, expires, left, last, resolved>>

\* The dial has returned.
Returned == pc = "done" /\ UNCHANGED vars

Next == Check \/ Resolve \/ Attempt \/ Exhausted \/ Returned

Spec == Init /\ [][Next]_vars

(***************************************************************************)
(* Properties                                                              *)
(***************************************************************************)

\* Every variable of the dial has its type, whatever the path through dial.
TypeOK ==
    /\ now \in Nat /\ resolved \in Nat /\ left \in Nat
    /\ expires \in Nat \cup {NEVER}
    /\ pc \in {"check", "resolve", "attempt", "done"}
    /\ last \in {"none", "refused", "timed out", "cut"}
    /\ outcome \in {"none", "unusable", "deadline", "dns", "connected", "io", "no address"}

\* However many addresses a name resolves to and whatever each attempt takes, a
\* dial is past its deadline only because the resolver took that long, and then
\* it returns without an attempt: the attempts of dial_addresses share one
\* instant and do not multiply it.
DialEndsInTime ==
    expires # NEVER /\ now > expires => now = resolved /\ outcome \in {"dns", "deadline"}

(***************************************************************************)
(* What the documentation says and the code does not do                    *)
(***************************************************************************)

\* dial: "`ConnectionError::ConnectDeadlineExceeded` if `deadline` passes, and
\* `Error::Io` carrying the last address's failure if every resolved address
\* refused": an attempt the deadline cut short refused nothing.
DeadlineIsReported == outcome = "io" /\ last = "cut" => ~Expired(now)
=============================================================================
