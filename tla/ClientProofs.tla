---------------------------- MODULE ClientProofs ----------------------------
(***************************************************************************)
(* The blocking client, for every set of origins, every chain of redirects *)
(* and every setting of its limits: the seven invariants of Client follow  *)
(* from one inductive invariant, ClientInv, whose parts are proved one     *)
(* after the other, each from the ones before it.                          *)
(***************************************************************************)
EXTENDS Client, SequenceTheorems, TLAPS

\* What the provers may take for a leaf.
USE SMTT(30), ZenonT(30)

SentType ==
    [to : Origins, host : Origins, hop : Int, method : Method, body : BOOLEAN,
     creds : BOOLEAN, repr : BOOLEAN, at : Int]

\* The types the arithmetic and the histories need.
TypeInv ==
    /\ setup \in Setup
    /\ pc \in Pc /\ kind \in {"execute", "stream", "async"} /\ req \in RequestType
    /\ origin \in Origins /\ peer \in Origins /\ target \in Origins /\ home \in Origins
    /\ dirty \in BOOLEAN /\ headBuf \in BOOLEAN /\ seen \in BOOLEAN
    /\ attempt \in {1, 2} /\ interims \in Nat /\ hops \in Nat /\ clock \in Nat
    /\ sends \in Seq(SentType)

\* Only a buffered call follows redirects.
KindInv == pc \in {"check", "advance", "hop"} => kind = "execute"

\* The dirty protocol: from the poisoning to the end of the body the flag is
\* set; wherever it is clear nothing is left unread; an exchange starts with
\* nothing unread, and once its request is written carries that alone.
WireInv ==
    /\ peer = origin
    /\ pc \in {"write", "head", "redial", "check", "collect", "streaming"} => dirty = TRUE
    /\ dirty = FALSE => unread = "none"
    /\ pc = "begin" => unread = "none"
    /\ pc = "write" => unread \in {"none", "mine"}
    /\ pc \in {"head", "check", "collect", "streaming"} => unread = "mine"

\* How many redirects this call has followed.
Hop == setup.redirects - hops

\* The attempts of this hop that are on the wire: the earlier one, if this is
\* the replay, and this one from its first write.
OnWire ==
    \/ pc \in {"head", "redial", "check", "collect", "streaming", "advance"}
    \/ pc = "write" /\ unread = "mine"
Used == IF OnWire THEN attempt ELSE attempt - 1

\* The sends of the present hop are the last Used ones, the second of them a
\* replay its request allows, and no hop sent more than two.
HopInv ==
    /\ hops <= setup.redirects
    /\ \A i \in 1 .. Len(sends) : sends[i].hop <= setup.redirects
    /\ \A i, j \in 1 .. Len(sends) : (i < j /\ sends[i].hop = sends[j].hop) =>
          req.replay = TRUE /\ j = i + 1
    /\ Len(sends) <= 2 * (setup.redirects + 1)
    /\ pc # "idle" =>
          /\ Len(sends) <= 2 * Hop + Used
          /\ \A i \in 1 .. Len(sends) : sends[i].hop <= Hop
          /\ \A i \in 1 .. Len(sends) : sends[i].hop = Hop => i > Len(sends) - Used
          /\ attempt = 2 => req.replay = TRUE
    /\ pc \in {"clean", "hop", "redial"} => attempt = 1
    /\ pc = "redial" => req.replay = TRUE

\* A byte of this attempt's response is in head_buf, or belonged to an interim
\* response that was dropped from it.
SeenInv ==
    /\ pc = "write" => seen = FALSE /\ headBuf = FALSE
    /\ pc = "head" => (seen = TRUE => headBuf = TRUE \/ interims > 0)
    /\ pc = "redial" => headBuf = FALSE /\ (seen = TRUE => interims > 0)

\* Credentials are dropped before the redirect that leaves the caller's origin
\* is followed, and a redirect is refused before its target is dialled.
OriginInv ==
    /\ HostMatchesPeer
    /\ CredentialsStayHome
    /\ pc # "idle" /\ req.creds = TRUE =>
          origin = home /\ \A i \in 1 .. Len(sends) : sends[i].to = home
    /\ pc = "hop" => req.creds = FALSE

PolicyInv ==
    /\ home \in Secure =>
          /\ dials \subseteq Secure
          /\ \A i \in 1 .. Len(sends) : sends[i].to \in Secure
          /\ pc # "idle" => origin \in Secure
          /\ pc = "hop" => target \in Secure
    /\ (setup.cross = FALSE \/ setup.redirects = 0) =>
          /\ dials \subseteq {home}
          /\ pc # "idle" => origin = home
          /\ pc # "hop"

\* A rewritten request is bare before it is sent.
BareInv ==
    /\ RewrittenIsBare
    /\ pc # "idle" /\ sends # <<>> /\ req.method # sends[1].method =>
          req.body = FALSE /\ req.repr = FALSE

\* Only a dial that was given no deadline can be past the total, and it is an
\* async call's first step.
TimeInv ==
    /\ \/ clock <= Limit
       \/ /\ kind = "async" /\ sends = <<>> /\ clock <= ConnectLimit
          /\ pc \in {"begin", "idle"}
    /\ (pc = "clean" /\ kind = "async") => clock = 0 /\ sends = <<>>
    /\ \A i \in 1 .. Len(sends) : sends[i].at < Limit

ClientInv ==
    /\ TypeInv /\ KindInv /\ WireInv /\ HopInv /\ SeenInv /\ OriginInv /\ PolicyInv
    /\ BareInv /\ TimeInv

-----------------------------------------------------------------------------

\* What one dial may do to the clock, the connection and the call.
LEMMA DialEffect ==
    ASSUME TypeInv, NEW to \in Origins, NEW bounded \in BOOLEAN, NEW next \in Pc,
           Dial(to, bounded, next)
    PROVE  /\ clock' \in Nat
           /\ bounded /\ clock <= Limit => clock' <= Limit
           /\ ~bounded => clock' <= clock + ConnectLimit
           /\ dials' \subseteq dials \cup {to}
           /\ pc' \in {next, "idle"}
           /\ \/ UNCHANGED <<origin, peer, unread, dirty>> /\ pc' = "idle"
              \/ /\ origin' = to /\ peer' = to /\ unread' = "none"
                 /\ dirty' \in BOOLEAN
                 /\ pc' # "idle" => dirty' = FALSE
                 /\ dirty' \in {dirty, FALSE}
  <1>1. clock \in Nat /\ Limit \in Nat /\ ConnectLimit \in Nat /\ dirty \in BOOLEAN
    BY ClientAssumption DEF TypeInv
  <1>2. CASE bounded /\ Expired /\ Fail /\ UNCHANGED <<connection, clock, dials>>
    BY <1>1, <1>2 DEF Fail, connection
  <1>3. CASE /\ ~(bounded /\ Expired)
             /\ \E d \in 0 .. DialLimit(bounded) : clock' = clock + d
             /\ dials' = dials \cup {to}
             /\ \/ Fail /\ UNCHANGED connection
                \/ /\ peer' = to
                   /\ origin' = to
                   /\ unread' = "none"
                   /\ \/ timed' = TRUE /\ dirty' = FALSE /\ pc' = next
                      \/ timed' = FALSE /\ Fail /\ UNCHANGED dirty
    <2>1. /\ clock' \in Nat
          /\ bounded /\ clock <= Limit => clock' <= Limit
          /\ ~bounded => clock' <= clock + ConnectLimit
      <3>1. PICK d \in 0 .. DialLimit(bounded) : clock' = clock + d
        BY <1>3
      <3>2. CASE bounded /\ Limit - clock < ConnectLimit
        BY <1>1, <3>1, <3>2 DEF DialLimit
      <3>3. CASE ~(bounded /\ Limit - clock < ConnectLimit)
        BY <1>1, <3>1, <3>3 DEF DialLimit
      <3> QED
        BY <3>2, <3>3
    <2>2. dials' \subseteq dials \cup {to} /\ pc' \in {next, "idle"}
      BY <1>3 DEF Fail
    <2>3. \/ UNCHANGED <<origin, peer, unread, dirty>> /\ pc' = "idle"
          \/ /\ origin' = to /\ peer' = to /\ unread' = "none"
             /\ dirty' \in BOOLEAN
             /\ pc' # "idle" => dirty' = FALSE
             /\ dirty' \in {dirty, FALSE}
      BY <1>1, <1>3, Zenon DEF Fail, connection
    <2> QED
      BY <2>1, <2>2, <2>3, Zenon
  <1> QED
    BY <1>2, <1>3, Zenon DEF Dial

\* What a step of the write may do: nothing goes on the wire once the total is
\* spent, and the first write of an attempt puts its request there.
LEMMA WriteEffect ==
    ASSUME TypeInv, Write
    PROVE  /\ pc = "write" /\ pc' \in {"write", "head", "redial", "idle"}
           /\ pc' = "redial" => MayReplay
           /\ clock' \in Nat /\ (clock <= Limit => clock' <= Limit)
           /\ \/ UNCHANGED <<unread, sends>> /\ (pc' = "idle" \/ unread # "none")
              \/ /\ unread = "none" /\ unread' = "mine"
                 /\ sends' = Append(sends, Sent) /\ clock < Limit
  <1>1. clock \in Nat /\ Limit \in Nat
    BY ClientAssumption DEF TypeInv
  <1>2. CASE OutOfTime /\ UNCHANGED <<unread, sends>>
    BY <1>1, <1>2 DEF Write, OutOfTime, Fail, budget
  <1>3. CASE /\ \/ Ticked
                \/ Progress /\ UNCHANGED pc
                \/ Stale \/ Answered("idle")
                \/ /\ ~Expired /\ \E d \in {0, 1} : clock' = clock + d
                   /\ FreshBudget /\ pc' = "head"
             /\ unread' = IF unread = "none" THEN "mine" ELSE unread
             /\ sends' = IF unread = "none" THEN Append(sends, Sent) ELSE sends
    <2>1. pc = "write" /\ clock < Limit
      BY <1>1, <1>3 DEF Write, Ticked, Progress, Stale, Answered, Expired
    <2>2. clock' \in {clock, clock + 1}
      BY <1>1, <1>3 DEF Ticked, Progress, Stale, Answered
    <2>3. pc' \in {"write", "head", "redial", "idle"} /\ (pc' = "redial" => MayReplay)
      BY <1>3, <2>1 DEF Ticked, Progress, Stale, Answered
    <2> QED
      BY <1>1, <1>3, <2>1, <2>2, <2>3
  <1> QED
    BY <1>2, <1>3 DEF Write

\* What a read of the head may do.
LEMMA HeadReadEffect ==
    ASSUME TypeInv, HeadRead
    PROVE  /\ pc = "head" /\ pc' \in {"head", "redial", "idle"}
           /\ pc' = "redial" => MayReplay /\ UNCHANGED <<headBuf, seen>>
           /\ \/ UNCHANGED <<headBuf, seen>>
              \/ headBuf' = TRUE /\ seen' = TRUE /\ pc' = "head"
           /\ clock' \in Nat /\ (clock <= Limit => clock' <= Limit)
  <1>1. clock \in Nat /\ Limit \in Nat
    BY ClientAssumption DEF TypeInv
  <1>2. pc = "head"
    BY DEF HeadRead
  <1>3. CASE (OutOfTime \/ Ticked \/ Stale \/ Answered("idle")) /\ UNCHANGED <<headBuf, seen>>
    <2>1. clock' = clock \/ (clock < Limit /\ clock' \in {clock, clock + 1})
      BY <1>1, <1>3 DEF OutOfTime, Ticked, Stale, Answered, Expired, budget
    <2>2. pc' \in {"head", "redial", "idle"} /\ (pc' = "redial" => MayReplay)
      BY <1>2, <1>3 DEF OutOfTime, Fail, Ticked, Stale, Answered
    <2> QED
      BY <1>1, <1>2, <1>3, <2>1, <2>2
  <1>4. CASE Progress /\ headBuf' = TRUE /\ seen' = TRUE /\ UNCHANGED pc
    BY <1>1, <1>2, <1>4 DEF Progress, Expired
  <1> QED
    BY <1>3, <1>4, Zenon DEF HeadRead

\* What a step of the body may do: the flag falls only with nothing unread.
LEMMA CollectEffect ==
    ASSUME TypeInv, Collect
    PROVE  /\ pc = "collect"
           /\ pc' \in {"collect", "idle"} \/ (pc' = "advance" /\ kind = "execute")
           /\ clock' \in Nat /\ (clock <= Limit => clock' <= Limit)
           /\ \/ dirty' = TRUE /\ unread' = unread
              \/ dirty' \in BOOLEAN /\ unread' = "none" /\ pc' # "collect"
  <1>1. clock \in Nat /\ Limit \in Nat
    BY ClientAssumption DEF TypeInv
  <1>2. pc = "collect"
    BY DEF Collect
  <1>3. CASE /\ \/ OutOfTime \/ Ticked \/ Answered("idle")
                \/ Progress /\ UNCHANGED pc
             /\ dirty' = TRUE /\ UNCHANGED unread
    <2>1. clock' = clock \/ (clock < Limit /\ clock' \in {clock, clock + 1})
      BY <1>1, <1>3 DEF OutOfTime, Ticked, Answered, Progress, Expired, budget
    <2>2. pc' \in {"collect", "idle"}
      BY <1>2, <1>3 DEF OutOfTime, Fail, Ticked, Answered
    <2> QED
      BY <1>1, <1>2, <1>3, <2>1, <2>2
  <1>4. CASE /\ BodyDone
             /\ \E d \in {0, 1} : clock' = clock + d /\ (Expired => d = 0)
             /\ pc' = IF kind = "execute" THEN "advance" ELSE "idle"
             /\ UNCHANGED <<quiet, reads>>
    <2>1. clock' = clock \/ (clock < Limit /\ clock' = clock + 1)
      BY <1>1, <1>4 DEF Expired
    <2>2. PICK reusable \in BOOLEAN :
              /\ dirty' = ~(reusable /\ keep)
              /\ unread' = IF reusable /\ keep THEN "none" ELSE unread
      BY <1>4 DEF BodyDone
    <2>3. CASE reusable /\ keep
      BY <1>1, <1>2, <1>4, <2>1, <2>2, <2>3
    <2>4. CASE ~(reusable /\ keep)
      <3>1. dirty' = TRUE /\ unread' = unread
        BY <2>2, <2>4, Zenon
      <3> QED
        BY <1>1, <1>2, <1>4, <2>1, <3>1
    <2> QED
      BY <2>3, <2>4, Zenon
  <1> QED
    BY <1>3, <1>4, Zenon DEF Collect

\* What a redirect does to the request: it never gains what it may not have.
LEMMA AdvanceEffect ==
    ASSUME NEW r \in RequestType, NEW from, NEW st, NEW location
    PROVE  LET next == Advance(r, from, st, location)
           IN /\ next \in RequestType /\ next.replay = r.replay
              /\ next.creds = TRUE => r.creds = TRUE /\ ~LeavesOrigin(from, location)
              /\ \/ next.method = r.method /\ next.body = r.body /\ next.repr = r.repr
                 \/ next.body = FALSE /\ next.repr = FALSE
  BY Zenon DEF Advance, ApplyMethodRedirect, RequestType, Method

\* The dials of a call, each with the origin it goes to.
LEMMA DialSteps ==
    ASSUME TypeInv
    PROVE  /\ EnsureClean => pc = "clean" /\ (dirty = FALSE \/ Dial(origin, kind # "async", "begin"))
           /\ Redial => pc = "redial" /\ Dial(origin, TRUE, "begin")
           /\ HopDial => pc = "hop" /\ Dial(target, TRUE, "clean")
  BY Zenon DEF TypeInv, EnsureClean, Redial, HopDial

-----------------------------------------------------------------------------

\* The clients and calls of Setups are well formed, and so is Init.
LEMMA InitInv == Init => ClientInv
  <1> SUFFICES ASSUME Init PROVE ClientInv
    OBVIOUS
  <1>1. setup \in Setup /\ kind \in setup.kinds /\ req \in setup.inputs
    BY ClientAssumption DEF Init
  <1>2. TypeInv
    <2>1. kind \in {"execute", "stream", "async"} /\ req \in RequestType
          /\ setup.redirects \in Nat
      BY <1>1 DEF Setup
    <2>2. sends \in Seq(SentType)
      BY EmptySeq DEF Init
    <2>3. dirty \in BOOLEAN /\ headBuf \in BOOLEAN /\ seen \in BOOLEAN
      BY Zenon DEF Init
    <2> QED
      BY <1>1, <2>1, <2>2, <2>3, ClientAssumption DEF Init, TypeInv, Pc
  <1>3. setup.redirects \in Nat
    BY <1>1 DEF Setup
  <1>4. KindInv /\ WireInv /\ SeenInv
    BY DEF Init, KindInv, WireInv, SeenInv
  <1>5. HopInv
    BY <1>3 DEF Init, HopInv
  <1>6. OriginInv /\ PolicyInv /\ BareInv
    BY DEF Init, OriginInv, HostMatchesPeer, CredentialsStayHome, PolicyInv, BareInv,
           RewrittenIsBare
  <1>7. TimeInv
    BY ClientAssumption DEF Init, TimeInv
  <1> QED
    BY <1>2, <1>4, <1>5, <1>6, <1>7 DEF ClientInv

\* Where a call goes after a head.
LEMMA AfterHeadIs ==
    ASSUME TypeInv, NEW next \in AfterHead
    PROVE  \/ next = "check" /\ kind = "execute"
           \/ next = "streaming" /\ kind # "execute"
           \/ next = "collect" /\ kind = "async"
  <1>1. CASE kind = "execute"
    BY <1>1 DEF AfterHead
  <1>2. CASE kind = "stream"
    BY <1>2 DEF AfterHead
  <1>3. CASE kind = "async"
    BY <1>3 DEF AfterHead
  <1> QED
    BY <1>1, <1>2, <1>3 DEF TypeInv

\* What a complete head may lead to.
LEMMA HeadParseEffect ==
    ASSUME TypeInv, HeadParse
    PROVE  /\ pc = "head"
           /\ \/ /\ pc' = "idle" /\ dirty' = dirty
                 /\ interims' \in {interims, interims + 1}
              \/ pc' = "head" /\ dirty' = dirty /\ interims' = interims + 1
              \/ /\ pc' = "check" /\ kind = "execute"
                 /\ dirty' = dirty /\ interims' = interims
              \/ /\ pc' \in {"collect", "streaming"} /\ kind # "execute"
                 /\ dirty' = TRUE /\ interims' = interims
           /\ UNCHANGED <<setup, kind, req, origin, peer, timed, unread, attempt, seen, target,
                          hops, clock, history>>
  <1>1. /\ pc = "head"
        /\ UNCHANGED <<setup, kind, req, origin, peer, timed, unread, attempt, seen, target,
                       hops, clock, history>>
    BY DEF HeadParse
  <1>2. CASE Fail /\ UNCHANGED <<dirty, headBuf, interims, keep, status, quiet, reads>>
    BY <1>1, <1>2 DEF Fail
  <1>3. CASE /\ interims' = interims + 1
             /\ \/ interims' > MaxInterim /\ Fail /\ UNCHANGED headBuf
                \/ interims' <= MaxInterim /\ headBuf' \in BOOLEAN /\ UNCHANGED pc
             /\ UNCHANGED <<dirty, keep, status, quiet, reads>>
    BY <1>1, <1>3, Zenon DEF Fail
  <1>4. CASE /\ keep' \in BOOLEAN /\ status' \in Status
             /\ dirty' = (kind # "execute" \/ dirty)
             /\ pc' \in AfterHead
             /\ FreshBudget /\ UNCHANGED <<headBuf, interims>>
    <2>1. CASE kind = "execute"
      <3>1. pc' = "check"
        BY <1>4, <2>1, AfterHeadIs
      <3>2. dirty' = dirty
        BY <1>4, <2>1 DEF TypeInv
      <3> QED
        BY <1>1, <1>4, <2>1, <3>1, <3>2
    <2>2. CASE kind # "execute"
      <3>1. pc' \in {"collect", "streaming"}
        BY <1>4, <2>2, AfterHeadIs
      <3>2. dirty' = TRUE
        BY <1>4, <2>2, Zenon
      <3> QED
        BY <1>1, <1>4, <2>2, <3>1, <3>2
    <2> QED
      BY <2>1, <2>2, Zenon
  <1> QED
    BY <1>2, <1>3, <1>4, Zenon DEF HeadParse

\* A redirect leads to an origin, with a request.
LEMMA FollowType ==
    ASSUME TypeInv, NEW location \in Location, Follow(location)
    PROVE  /\ req' \in RequestType /\ target' \in Origins /\ hops' \in Nat
           /\ pc' \in {"idle", "clean", "hop"}
  <1>1. location.to \in Origins
    BY DEF Location
  <1>2. req \in RequestType /\ Advance(req, origin, status, location) \in RequestType
    BY AdvanceEffect, Zenon DEF TypeInv
  <1> QED
    BY <1>1, <1>2 DEF TypeInv, Follow, Fail

\* Every step keeps every variable in its type.
LEMMA TypeStep == TypeInv /\ [Next]_vars => TypeInv'
  <1> SUFFICES ASSUME TypeInv, [Next]_vars PROVE TypeInv'
    OBVIOUS
  <1>1. ASSUME NEW k \in setup.kinds, NEW r \in setup.inputs, Call(k, r) PROVE TypeInv'
    <2>1. k \in {"execute", "stream", "async"} /\ r \in RequestType /\ setup.redirects \in Nat
      BY DEF TypeInv, Setup
    <2>2. sends' \in Seq(SentType)
      BY <1>1, EmptySeq DEF Call
    <2> QED
      BY <1>1, <2>1, <2>2 DEF Call, TypeInv, Pc, connection
  <1>2. CASE EnsureClean
    <2>1. UNCHANGED <<setup, kind, req, exchange, target, hops, home, sends>>
      BY <1>2 DEF EnsureClean
    <2>2. CASE UNCHANGED <<connection, clock>> /\ pc' = "begin"
      BY <2>1, <2>2 DEF TypeInv, Pc, connection, exchange
    <2>3. CASE Dial(origin, kind # "async", "begin")
      BY <2>1, <2>3, DialEffect, Zenon DEF TypeInv, Pc, exchange
    <2> QED
      BY <1>2, <2>2, <2>3 DEF EnsureClean
  <1>3. CASE Begin
    <2>1. dirty' \in BOOLEAN /\ headBuf' \in BOOLEAN /\ seen' \in BOOLEAN
      BY <1>3, Zenon DEF Begin, TypeInv
    <2>2. pc' \in Pc /\ interims' \in Nat
      BY <1>3 DEF Begin, Fail, TypeInv, Pc
    <2> QED
      BY <1>3, <2>1, <2>2 DEF Begin, TypeInv, history
  <1>4. CASE Write
    <2>1. sends' \in Seq(SentType)
      <3>1. Sent \in SentType
        BY DEF Sent, SentType, TypeInv, Setup, RequestType
      <3>2. sends \in Seq(SentType) /\ sends' \in {sends, Append(sends, Sent)}
        BY <1>4, WriteEffect DEF TypeInv
      <3> QED
        BY <3>1, <3>2, AppendProperties
    <2> QED
      BY <1>4, <2>1, WriteEffect DEF Write, TypeInv, Pc, exchange
  <1>5. CASE HeadRead
    BY <1>5, HeadReadEffect, Zenon DEF HeadRead, TypeInv, Pc, connection, history
  <1>6. CASE HeadParse
    <2>1. dirty' \in BOOLEAN /\ headBuf' \in BOOLEAN /\ seen' \in BOOLEAN
      BY <1>6, Zenon DEF HeadParse, TypeInv
    <2>2. pc' \in Pc /\ interims' \in Nat
      <3>1. /\ pc' \in {"idle", "head", "check", "collect", "streaming"}
            /\ interims' = interims \/ interims' = interims + 1
        BY <1>6, HeadParseEffect, Zenon
      <3> QED
        BY <3>1 DEF TypeInv, Pc
    <2> QED
      BY <1>6, <2>1, <2>2, HeadParseEffect, Zenon DEF TypeInv, history
  <1>7. CASE Redial
    BY <1>7, DialSteps, DialEffect, Zenon DEF Redial, TypeInv, Pc
  <1>8. CASE Check
    BY <1>8 DEF Check, TypeInv, Pc, connection, exchange, budget, history
  <1>9. CASE Collect
    BY <1>9, CollectEffect, Zenon DEF Collect, TypeInv, Pc, exchange, history
  <1>10. CASE Streaming
    <2>1. dirty' \in BOOLEAN
      BY <1>10, Zenon DEF Streaming, BodyDone, TypeInv
    <2> QED
      BY <1>10, <2>1 DEF Streaming, TypeInv, Pc, exchange, budget, history
  <1>11. CASE NextHop
    <2>1. req' \in RequestType /\ target' \in Origins /\ hops' \in Nat /\ pc' \in Pc
      BY <1>11, FollowType DEF NextHop, TypeInv, Pc
    <2> QED
      BY <1>11, <2>1 DEF NextHop, TypeInv, connection, budget, history
  <1>12. CASE HopDial
    BY <1>12, DialSteps, DialEffect, Zenon DEF HopDial, TypeInv, Pc, exchange
  <1>13. CASE UNCHANGED vars
    BY <1>13 DEF vars, TypeInv
  <1> QED
    BY <1>1, <1>2, <1>3, <1>4, <1>5, <1>6, <1>7, <1>8, <1>9, <1>10, <1>11, <1>12, <1>13
       DEF Next

\* Only a buffered call reaches the redirect loop.
LEMMA KindStep == TypeInv /\ KindInv /\ [Next]_vars => KindInv'
  <1> SUFFICES ASSUME TypeInv, KindInv, [Next]_vars PROVE KindInv'
    OBVIOUS
  <1> USE DEF KindInv
  <1>1. ASSUME NEW k \in setup.kinds, NEW r \in setup.inputs, Call(k, r) PROVE KindInv'
    BY <1>1 DEF Call
  <1>2. CASE EnsureClean
    <2>1. pc' \in {"begin", "idle"}
      BY <1>2, DialEffect, Zenon DEF EnsureClean, TypeInv, Pc
    <2> QED
      BY <2>1
  <1>3. CASE Begin
    BY <1>3 DEF Begin, Fail
  <1>4. CASE Write
    BY <1>4, WriteEffect
  <1>5. CASE HeadRead
    BY <1>5, HeadReadEffect
  <1>6. CASE HeadParse
    BY <1>6, HeadParseEffect, Zenon
  <1>7. CASE Redial
    BY <1>7, DialSteps, DialEffect, Zenon DEF TypeInv, Pc
  <1>8. CASE Check
    BY <1>8 DEF Check
  <1>9. CASE Collect
    BY <1>9, CollectEffect, Zenon DEF Collect
  <1>10. CASE Streaming
    BY <1>10 DEF Streaming
  <1>11. CASE NextHop
    BY <1>11 DEF NextHop, Follow, Fail
  <1>12. CASE HopDial
    <2>1. pc' \in {"clean", "idle"}
      BY <1>12, DialSteps, DialEffect, Zenon DEF TypeInv, Pc
    <2> QED
      BY <2>1
  <1>13. CASE UNCHANGED vars
    BY <1>13 DEF vars
  <1> QED
    BY <1>1, <1>2, <1>3, <1>4, <1>5, <1>6, <1>7, <1>8, <1>9, <1>10, <1>11, <1>12, <1>13
       DEF Next

\* A dial leaves the connection as it was, or new.
LEMMA DialKeepsWire ==
    ASSUME TypeInv, WireInv, NEW to \in Origins, NEW bounded \in BOOLEAN,
           NEW next \in {"begin", "clean"}, Dial(to, bounded, next)
    PROVE  WireInv'
  <1>1. next \in Pc
    BY DEF Pc
  <1>2. CASE UNCHANGED <<origin, peer, unread, dirty>> /\ pc' = "idle"
    BY <1>2 DEF WireInv
  <1>3. CASE /\ origin' = to /\ peer' = to /\ unread' = "none" /\ pc' \in {next, "idle"}
    BY <1>3 DEF WireInv
  <1> QED
    BY <1>1, <1>2, <1>3, DialEffect, Zenon

\* The flag is set before a byte of the exchange is on the wire, and cleared
\* only by a reconnect or by the end of a body with nothing after it.
LEMMA WireStep == TypeInv /\ WireInv /\ [Next]_vars => WireInv'
  <1> SUFFICES ASSUME TypeInv, WireInv, [Next]_vars PROVE WireInv'
    OBVIOUS
  <1>1. ASSUME NEW k \in setup.kinds, NEW r \in setup.inputs, Call(k, r) PROVE WireInv'
    BY <1>1 DEF Call, WireInv, connection
  <1>2. CASE EnsureClean
    <2>1. CASE ~dirty /\ pc' = "begin" /\ UNCHANGED <<connection, clock, dials>>
      BY <2>1 DEF WireInv, connection, TypeInv
    <2>2. CASE Dial(origin, kind # "async", "begin")
      BY <2>2, DialKeepsWire, Zenon DEF TypeInv
    <2> QED
      BY <1>2, <2>1, <2>2 DEF EnsureClean
  <1>3. CASE Begin
    BY <1>3 DEF Begin, Fail, WireInv, Inherited
  <1>4. CASE Write
    BY <1>4, WriteEffect DEF Write, WireInv
  <1>5. CASE HeadRead
    BY <1>5, HeadReadEffect, Zenon DEF HeadRead, WireInv, connection
  <1>6. CASE HeadParse
    BY <1>6, HeadParseEffect, Zenon DEF WireInv
  <1>7. CASE Redial
    BY <1>7, DialSteps, DialKeepsWire, Zenon DEF TypeInv
  <1>8. CASE Check
    BY <1>8 DEF Check, WireInv, connection
  <1>9. CASE Collect
    BY <1>9, CollectEffect, Zenon DEF Collect, WireInv
  <1>10. CASE Streaming
    <2>1. dirty' = TRUE \/ unread' = "none"
      <3>1. CASE BodyDone
        <4>1. PICK reusable \in BOOLEAN :
                  /\ dirty' = ~(reusable /\ keep)
                  /\ unread' = IF reusable /\ keep THEN "none" ELSE unread
          BY <3>1 DEF BodyDone
        <4>2. CASE reusable /\ keep
          BY <4>1, <4>2
        <4>3. CASE ~(reusable /\ keep)
          BY <4>1, <4>3, Zenon
        <4> QED
          BY <4>2, <4>3, Zenon
      <3>2. CASE UNCHANGED <<dirty, unread>>
        BY <1>10, <3>2 DEF Streaming, WireInv
      <3> QED
        BY <1>10, <3>1, <3>2, Zenon DEF Streaming
    <2> QED
      BY <1>10, <2>1 DEF Streaming, WireInv
  <1>11. CASE NextHop
    BY <1>11 DEF NextHop, Follow, Fail, WireInv, connection
  <1>12. CASE HopDial
    BY <1>12, DialSteps, DialKeepsWire, Zenon DEF TypeInv
  <1>13. CASE UNCHANGED vars
    BY <1>13 DEF vars, WireInv
  <1> QED
    BY <1>1, <1>2, <1>3, <1>4, <1>5, <1>6, <1>7, <1>8, <1>9, <1>10, <1>11, <1>12, <1>13
       DEF Next

-----------------------------------------------------------------------------

\* The steps of an exchange that are neither a write nor a dial: they touch
\* neither the request, nor where it goes, nor what was sent.
Exchanging == Begin \/ HeadRead \/ HeadParse \/ Check \/ Collect \/ Streaming

\* Reading an answer (read_head, read_body, stream) changes the exchange's own
\* state only.
LEMMA ExchangingEffect ==
    ASSUME TypeInv, Exchanging
    PROVE  /\ UNCHANGED <<setup, kind, req, origin, peer, attempt, target, hops, home, sends,
                          dials>>
           /\ pc \notin {"idle", "clean", "hop"} /\ pc' \notin {"clean", "hop"}
  <1>1. CASE Begin
    BY <1>1 DEF Begin, Fail, history
  <1>2. CASE HeadRead
    BY <1>2, HeadReadEffect, Zenon DEF HeadRead, connection, history
  <1>3. CASE HeadParse
    <2>1. pc' \in {"idle", "head", "check", "collect", "streaming"}
      BY <1>3, HeadParseEffect, Zenon
    <2> QED
      BY <1>3, <2>1, HeadParseEffect DEF history
  <1>4. CASE Check
    BY <1>4 DEF Check, connection, exchange, history
  <1>5. CASE Collect
    BY <1>5, CollectEffect, Zenon DEF Collect, exchange, history
  <1>6. CASE Streaming
    BY <1>6 DEF Streaming, exchange, history
  <1> QED
    BY <1>1, <1>2, <1>3, <1>4, <1>5, <1>6 DEF Exchanging

\* What the history gains when a request goes on the wire.
LEMMA SendsGrow ==
    ASSUME TypeInv, sends' = Append(sends, Sent)
    PROVE  /\ Len(sends) \in Nat /\ Len(sends') = Len(sends) + 1
           /\ \A i \in 1 .. Len(sends) : sends'[i] = sends[i]
           /\ LET last == sends'[Len(sends')]
              IN /\ last.to = peer /\ last.host = origin /\ last.hop = Hop
                 /\ last.method = req.method /\ last.body = req.body
                 /\ last.creds = req.creds /\ last.repr = req.repr /\ last.at = clock
  <1>1. Sent \in SentType
    BY DEF Sent, SentType, TypeInv, Setup, RequestType
  <1>2. sends \in Seq(SentType)
    BY DEF TypeInv
  <1>3. /\ Len(sends) \in Nat /\ Len(sends') = Len(sends) + 1
        /\ \A i \in 1 .. Len(sends) : sends'[i] = sends[i]
        /\ sends'[Len(sends')] = Sent
    BY <1>1, <1>2, AppendProperties, LenProperties
  <1> QED
    BY <1>3 DEF Sent, Hop

\* A byte of the response is kept, or went with an interim response.
LEMMA SeenStep == TypeInv /\ SeenInv /\ [Next]_vars => SeenInv'
  <1> SUFFICES ASSUME TypeInv, SeenInv, [Next]_vars PROVE SeenInv'
    OBVIOUS
  <1>1. CASE pc' \notin {"write", "head", "redial"}
    BY <1>1 DEF SeenInv
  <1>2. CASE Begin
    BY <1>2 DEF Begin, Fail, SeenInv
  <1>3. CASE Write
    <2>1. UNCHANGED <<headBuf, seen, interims>>
      BY <1>3 DEF Write, exchange
    <2> QED
      BY <1>3, <2>1, WriteEffect DEF SeenInv
  <1>4. CASE HeadRead
    <2>1. UNCHANGED <<interims, req, attempt>>
      BY <1>4 DEF HeadRead
    <2> QED
      BY <1>4, <2>1, HeadReadEffect, Zenon DEF SeenInv, MayReplay, TypeInv
  <1>5. CASE HeadParse
    <2>1. CASE pc' = "head" /\ interims' = interims + 1
      BY <2>1 DEF SeenInv, TypeInv
    <2> QED
      BY <1>1, <1>5, <2>1, HeadParseEffect, Zenon
  <1>6. CASE UNCHANGED vars
    BY <1>6 DEF vars, SeenInv
  <1>7. ASSUME NEW k \in setup.kinds, NEW r \in setup.inputs, Call(k, r) PROVE SeenInv'
    BY <1>1, <1>7 DEF Call
  <1>8. CASE EnsureClean \/ Redial \/ HopDial
    <2>1. pc' \in {"begin", "clean", "idle"}
      BY <1>8, DialSteps, DialEffect, Zenon DEF EnsureClean, TypeInv, Pc
    <2> QED
      BY <1>1, <2>1
  <1>9. CASE Check \/ Collect \/ Streaming \/ NextHop
    <2>1. pc' \in {"idle", "collect", "advance", "clean", "hop"}
      BY <1>9, CollectEffect, Zenon DEF Check, Streaming, NextHop, Follow, Fail
    <2> QED
      BY <1>1, <2>1
  <1> QED
    BY <1>2, <1>3, <1>4, <1>5, <1>6, <1>7, <1>8, <1>9 DEF Next

\* Credentials stay with the origin the call started from.
LEMMA OriginStep == TypeInv /\ WireInv /\ OriginInv /\ [Next]_vars => OriginInv'
  <1> SUFFICES ASSUME TypeInv, WireInv, OriginInv, [Next]_vars PROVE OriginInv'
    OBVIOUS
  <1> USE DEF OriginInv, HostMatchesPeer, CredentialsStayHome
  <1>1. ASSUME NEW k \in setup.kinds, NEW r \in setup.inputs, Call(k, r) PROVE OriginInv'
    BY <1>1 DEF Call, connection
  <1>2. CASE EnsureClean
    <2>1. UNCHANGED <<req, home, sends>> /\ pc' \in {"begin", "idle"} /\ pc # "idle" /\ origin' = origin
      BY <1>2, DialEffect, Zenon DEF EnsureClean, TypeInv, Pc, connection
    <2> QED
      BY <2>1
  <1>3. CASE Exchanging
    BY <1>3, ExchangingEffect, ZenonT(30)
  <1>4. CASE Write
    <2>1. UNCHANGED <<req, home, origin>> /\ pc = "write" /\ pc' # "hop"
      BY <1>4, WriteEffect DEF Write
    <2>2. CASE UNCHANGED sends
      BY <2>1, <2>2
    <2>3. CASE sends' = Append(sends, Sent)
      <3>1. peer = origin
        BY DEF WireInv
      <3> QED
        BY <2>1, <2>3, <3>1, SendsGrow
    <2> QED
      BY <1>4, <2>2, <2>3, WriteEffect, Zenon
  <1>5. CASE Redial
    <2>1. UNCHANGED <<req, home, sends>> /\ pc' \in {"begin", "idle"} /\ pc # "idle" /\ origin' = origin
      BY <1>5, DialSteps, DialEffect, Zenon DEF Redial, TypeInv, Pc
    <2> QED
      BY <2>1
  <1>6. CASE NextHop
    <2>1. UNCHANGED <<origin, home, sends>> /\ pc = "advance"
      BY <1>6, Zenon DEF NextHop, connection, history
    <2>2. pc' # "idle" => /\ req'.creds = TRUE => req.creds = TRUE
                          /\ pc' = "hop" => req'.creds = FALSE
      <3>1. pc' = "idle" \/ \E location \in Location : Follow(location)
        BY <1>6 DEF NextHop
      <3>2. ASSUME NEW location \in Location, Follow(location), pc' # "idle"
            PROVE /\ req'.creds = TRUE => req.creds = TRUE
                  /\ pc' = "hop" => req'.creds = FALSE
        <4>1. req' = Advance(req, origin, status, location)
              /\ (pc' = "hop" => LeavesOrigin(origin, location))
          BY <3>2, Zenon DEF Follow, Fail
        <4>2. req \in RequestType
          BY Zenon DEF TypeInv
        <4>3. /\ req' \in RequestType
              /\ req'.creds = TRUE => req.creds = TRUE /\ ~LeavesOrigin(origin, location)
          BY <4>1, <4>2, AdvanceEffect, ZenonT(30)
        <4>4. req'.creds \in BOOLEAN
          BY <4>3 DEF RequestType
        <4> QED
          BY <4>1, <4>3, <4>4
      <3> QED
        BY <3>1, <3>2, Zenon
    <2> QED
      BY <2>1, <2>2
  <1>7. CASE HopDial
    <2>1. UNCHANGED <<req, home, sends>> /\ pc' \in {"clean", "idle"} /\ pc = "hop"
      BY <1>7, DialSteps, DialEffect, Zenon DEF HopDial, TypeInv, Pc
    <2> QED
      BY <2>1
  <1>8. CASE UNCHANGED vars
    BY <1>8, Zenon DEF vars
  <1> QED
    BY <1>1, <1>2, <1>3, <1>4, <1>5, <1>6, <1>7, <1>8, Zenon DEF Next, Exchanging

\* A redirect that is followed: its budget, its target and its request.
LEMMA FollowEffect ==
    ASSUME TypeInv, NextHop, pc' # "idle"
    PROVE  /\ hops > 0 /\ hops' = hops - 1 /\ attempt' = 1
           /\ pc' \in {"clean", "hop"}
           /\ pc' = "hop" => /\ setup.cross
                             /\ target' \in Origins
                             /\ origin \in Secure => target' \in Secure
           /\ req' \in RequestType /\ req'.replay = req.replay
           /\ \/ /\ req'.method = req.method /\ req'.body = req.body
                 /\ req'.repr = req.repr
              \/ req'.body = FALSE /\ req'.repr = FALSE
  <1>1. PICK location \in Location : Follow(location)
    BY DEF NextHop
  <1>2. /\ hops > 0 /\ hops' = hops - 1 /\ ~Refused(origin, location)
        /\ req' = Advance(req, origin, status, location)
        /\ pc' \in {"clean", "hop"}
        /\ pc' = "hop" =>
              /\ setup.cross /\ target' = location.to /\ LeavesOrigin(origin, location)
    BY <1>1 DEF Follow, Fail
  <1>3. /\ req' \in RequestType /\ req'.replay = req.replay
        /\ \/ /\ req'.method = req.method /\ req'.body = req.body
              /\ req'.repr = req.repr
           \/ req'.body = FALSE /\ req'.repr = FALSE
    <2>1. req \in RequestType
      BY DEF TypeInv
    <2>2. req' \in RequestType /\ req'.replay = req.replay
      BY <1>2, <2>1, AdvanceEffect, Zenon
    <2>3. \/ req'.method = req.method /\ req'.body = req.body /\ req'.repr = req.repr
          \/ req'.body = FALSE /\ req'.repr = FALSE
      <3> DEFINE next == Advance(req, origin, status, location)
      <3>1. \/ next.method = req.method /\ next.body = req.body /\ next.repr = req.repr
            \/ next.body = FALSE /\ next.repr = FALSE
        BY <2>1, AdvanceEffect, Zenon
      <3> HIDE DEF next
      <3>2. req' = next
        BY <1>2 DEF next
      <3> QED
        BY <3>1, <3>2
    <2> QED
      BY <2>2, <2>3
  <1>4. pc' = "hop" => target' \in Origins /\ (origin \in Secure => target' \in Secure)
    BY <1>2 DEF Refused, LeavesOrigin, Downgrades, Location
  <1>5. attempt' = 1
    BY DEF NextHop
  <1> QED
    BY <1>2, <1>3, <1>4, <1>5

\* A rewritten request is bare at every hop after the redirect.
LEMMA BareStep == TypeInv /\ BareInv /\ [Next]_vars => BareInv'
  <1> SUFFICES ASSUME TypeInv, BareInv, [Next]_vars PROVE BareInv'
    OBVIOUS
  <1> USE DEF BareInv, RewrittenIsBare
  <1>1. ASSUME NEW k \in setup.kinds, NEW r \in setup.inputs, Call(k, r) PROVE BareInv'
    <2>1. sends' = <<>>
      BY <1>1, Zenon DEF Call
    <2> QED
      BY <2>1
  <1>2. CASE EnsureClean \/ Redial \/ HopDial
    BY <1>2, Zenon DEF EnsureClean, Redial, HopDial
  <1>3. CASE Exchanging
    BY <1>3, ExchangingEffect
  <1>4. CASE Write
    <2>1. UNCHANGED req /\ pc = "write"
      BY <1>4, WriteEffect DEF Write
    <2>2. CASE UNCHANGED sends
      BY <2>1, <2>2
    <2>3. CASE sends' = Append(sends, Sent)
      <3>1. Len(sends) = 0 \/ (1 \in 1 .. Len(sends) /\ sends # <<>>)
        BY EmptySeq, LenProperties DEF TypeInv
      <3>2. CASE Len(sends) = 0
        BY <2>1, <2>3, <3>2, SendsGrow
      <3>3. CASE 1 \in 1 .. Len(sends) /\ sends # <<>>
        <4>1. /\ Len(sends) \in Nat /\ Len(sends') = Len(sends) + 1
              /\ \A i \in 1 .. Len(sends) : sends'[i] = sends[i]
              /\ sends'[Len(sends')].method = req.method
              /\ sends'[Len(sends')].body = req.body
              /\ sends'[Len(sends')].repr = req.repr
          BY <2>3, SendsGrow
        <4>2. sends'[1] = sends[1]
          BY <3>3, <4>1
        <4>3. ASSUME NEW i \in 1 .. Len(sends'), sends'[i].method # sends'[1].method
              PROVE  ~sends'[i].body /\ ~sends'[i].repr
          <5>1. CASE i = Len(sends')
            BY <2>1, <3>3, <4>1, <4>2, <4>3, <5>1
          <5>2. CASE i \in 1 .. Len(sends)
            BY <4>1, <4>2, <4>3, <5>2
          <5> QED
            BY <4>1, <5>1, <5>2
        <4> QED
          BY <2>1, <3>3, <4>2, <4>3
      <3> QED
        BY <3>1, <3>2, <3>3, Zenon
    <2> QED
      BY <1>4, <2>2, <2>3, WriteEffect, Zenon
  <1>5. CASE NextHop
    <2>1. UNCHANGED sends /\ pc = "advance"
      BY <1>5 DEF NextHop, history
    <2> QED
      BY <1>5, <2>1, FollowEffect, Zenon
  <1>6. CASE UNCHANGED vars
    BY <1>6 DEF vars
  <1> QED
    BY <1>1, <1>2, <1>3, <1>4, <1>5, <1>6, Zenon DEF Next, Exchanging

\* The counts are integers.
LEMMA HopTypes ==
    ASSUME TypeInv
    PROVE  /\ Used \in 0 .. 2 /\ hops \in Nat /\ setup.redirects \in Nat
           /\ Hop \in Int /\ Hop <= setup.redirects
           /\ Len(sends) \in Nat /\ \A i \in 1 .. Len(sends) : sends[i].hop \in Int
  <1>1. hops \in Nat /\ setup.redirects \in Nat /\ Hop \in Int /\ Hop <= setup.redirects
    BY DEF TypeInv, Setup, Hop
  <1>2. Used \in 0 .. 2
    BY DEF TypeInv, Used
  <1>3. Len(sends) \in Nat
    BY LenProperties DEF TypeInv
  <1>4. \A i \in 1 .. Len(sends) : sends[i].hop \in Int
    <2>1. \A i \in 1 .. Len(sends) : sends[i] \in SentType
      BY ElementOfSeq DEF TypeInv
    <2> QED
      BY <2>1 DEF SentType
  <1> QED
    BY <1>1, <1>2, <1>3, <1>4

\* A step that sends nothing and stays at its hop keeps the count of it.
LEMMA SameHop ==
    ASSUME TypeInv, HopInv, UNCHANGED <<setup, req, hops, sends>>,
           pc # "idle", pc' # "idle" => Used' = Used,
           attempt' = 2 => req.replay = TRUE,
           pc' \in {"clean", "hop", "redial"} => attempt' = 1,
           pc' = "redial" => req.replay = TRUE
    PROVE  HopInv'
  <1>1. Hop' = Hop
    BY DEF Hop
  <1> QED
    BY <1>1 DEF HopInv

\* The place of a hop's sends in the history.
LEMMA HopStep == TypeInv /\ WireInv /\ HopInv /\ [Next]_vars => HopInv'
  <1> SUFFICES ASSUME TypeInv, WireInv, HopInv, [Next]_vars PROVE HopInv'
    OBVIOUS
  <1>1. ASSUME NEW k \in setup.kinds, NEW r \in setup.inputs, Call(k, r) PROVE HopInv'
    <2>1. /\ UNCHANGED setup /\ hops' = setup.redirects /\ sends' = <<>> /\ attempt' = 1
          /\ pc' = "clean"
      BY <1>1 DEF Call
    <2>2. Used' = 0 /\ Hop' = 0
      BY <2>1, HopTypes DEF Used, OnWire, Hop
    <2> QED
      BY <2>1, <2>2, HopTypes DEF HopInv
  <1>2. CASE EnsureClean
    <2>1. /\ UNCHANGED <<setup, req, hops, sends, attempt>> /\ pc = "clean"
          /\ pc' \in {"begin", "idle"}
      BY <1>2, DialEffect, Zenon DEF EnsureClean, TypeInv, Pc, exchange
    <2>2. pc' # "idle" => Used' = Used
      BY <2>1 DEF Used, OnWire
    <2> QED
      BY <2>1, <2>2, SameHop, Zenon DEF HopInv
  <1>3. CASE Exchanging
    <2>1. /\ UNCHANGED <<setup, req, hops, sends, attempt>>
          /\ pc \notin {"idle", "clean", "hop"} /\ pc' \notin {"clean", "hop"}
      BY <1>3, ExchangingEffect
    <2>2. pc' # "idle" => Used' = Used
      <3>1. CASE Begin
        BY <2>1, <3>1 DEF Begin, Fail, Used, OnWire, Inherited, WireInv
      <3>2. CASE HeadRead
        BY <2>1, <3>2, HeadReadEffect DEF Used, OnWire
      <3>3. CASE HeadParse
        <4>1. pc = "head" /\ pc' \in {"idle", "head", "check", "collect", "streaming"}
          BY <3>3, HeadParseEffect, Zenon
        <4> QED
          BY <2>1, <4>1 DEF Used, OnWire
      <3>4. CASE Check \/ Collect \/ Streaming
        BY <2>1, <3>4, CollectEffect, Zenon DEF Check, Streaming, Used, OnWire
      <3> QED
        BY <1>3, <3>1, <3>2, <3>3, <3>4 DEF Exchanging
    <2>3. pc' = "redial" => attempt = 1 /\ req.replay = TRUE
      <3>1. pc' = "redial" => MayReplay
        <4>1. CASE HeadRead
          BY <4>1, HeadReadEffect
        <4>2. CASE HeadParse
          BY <4>2, HeadParseEffect, Zenon
        <4>3. CASE Begin \/ Check \/ Collect \/ Streaming
          BY <4>3, CollectEffect DEF Begin, Fail, Check, Streaming
        <4> QED
          BY <1>3, <4>1, <4>2, <4>3 DEF Exchanging
      <3>2. req.replay \in BOOLEAN
        BY DEF TypeInv, RequestType
      <3> QED
        BY <3>1, <3>2 DEF MayReplay
    <2>4. attempt' = 2 => req.replay = TRUE
      BY <2>1 DEF HopInv
    <2> QED
      BY <2>1, <2>2, <2>3, <2>4, SameHop, Zenon
  <1>4. CASE Write
    <2>1. /\ UNCHANGED <<setup, req, hops, attempt>> /\ pc = "write"
          /\ pc' \in {"write", "head", "redial", "idle"}
      BY <1>4, WriteEffect DEF Write, exchange
    <2>2. pc' = "redial" => attempt = 1 /\ req.replay = TRUE
      <3>1. req.replay \in BOOLEAN
        BY DEF TypeInv, RequestType
      <3> QED
        BY <1>4, <3>1, WriteEffect DEF MayReplay
    <2>3. CASE UNCHANGED <<unread, sends>> /\ (pc' = "idle" \/ unread # "none")
      <3>1. pc' # "idle" => Used' = Used
        BY <2>1, <2>3 DEF Used, OnWire, WireInv
      <3>2. attempt' = 2 => req.replay = TRUE
        BY <2>1 DEF HopInv
      <3> QED
        BY <2>1, <2>2, <2>3, <3>1, <3>2, SameHop, Zenon
    <2>4. CASE unread = "none" /\ unread' = "mine" /\ sends' = Append(sends, Sent)
      <3>1. Used = attempt - 1 /\ (pc' # "idle" => Used' = attempt)
        BY <2>1, <2>4 DEF Used, OnWire
      <3>2. /\ Len(sends) \in Nat /\ Len(sends') = Len(sends) + 1
            /\ \A i \in 1 .. Len(sends) : sends'[i] = sends[i]
            /\ sends'[Len(sends')].hop = Hop
        BY <2>4, SendsGrow
      <3>3. Hop' = Hop /\ Hop \in Int /\ Hop <= setup.redirects
        BY <2>1, HopTypes DEF Hop
      <3>4. /\ Len(sends) <= 2 * Hop + Used
            /\ \A i \in 1 .. Len(sends) : sends[i].hop <= Hop
            /\ \A i \in 1 .. Len(sends) : sends[i].hop = Hop => i > Len(sends) - Used
            /\ attempt = 2 => req.replay = TRUE
            /\ hops <= setup.redirects
        BY <2>1 DEF HopInv
      <3>5. attempt \in {1, 2}
        BY DEF TypeInv
      <3>6. Len(sends') <= 2 * Hop + attempt
        BY <3>1, <3>2, <3>3, <3>4, <3>5
      <3>7. \A i \in 1 .. Len(sends') : sends'[i].hop <= Hop
        BY <3>2, <3>3, <3>4
      <3>8. \A i \in 1 .. Len(sends') : sends'[i].hop = Hop => i > Len(sends') - attempt
        BY <3>1, <3>2, <3>3, <3>4, <3>5
      <3>9. ASSUME NEW i \in 1 .. Len(sends'), NEW j \in 1 .. Len(sends'),
                   i < j, sends'[i].hop = sends'[j].hop
            PROVE  req.replay = TRUE /\ j = i + 1
        <4>1. CASE j = Len(sends')
          <5>1. sends'[i].hop = Hop
            BY <3>2, <3>9, <4>1
          <5>2. i > Len(sends') - attempt
            BY <3>8, <5>1
          <5>3. attempt = 2 /\ j = i + 1
            BY <3>2, <3>5, <3>9, <4>1, <5>2
          <5> QED
            BY <3>4, <5>3
        <4>2. CASE j # Len(sends')
          <5>1. i \in 1 .. Len(sends) /\ j \in 1 .. Len(sends)
            BY <3>2, <3>9, <4>2
          <5> QED
            BY <3>2, <3>9, <5>1 DEF HopInv
        <4> QED
          BY <4>1, <4>2, Zenon
      <3>10. setup.redirects \in Nat
        BY HopTypes
      <3>11. Len(sends') <= 2 * (setup.redirects + 1)
        BY <3>2, <3>3, <3>5, <3>6, <3>10
      <3>12. \A i \in 1 .. Len(sends') : sends'[i].hop <= setup.redirects
        <4>1. \A i \in 1 .. Len(sends) : sends[i].hop <= setup.redirects
          BY DEF HopInv
        <4> QED
          BY <3>2, <3>3, <4>1
      <3> QED
        BY <2>1, <2>2, <3>1, <3>3, <3>4, <3>6, <3>7, <3>8, <3>9, <3>11, <3>12, Zenon DEF HopInv
    <2> QED
      BY <1>4, <2>3, <2>4, WriteEffect
  <1>5. CASE Redial
    <2>1. /\ UNCHANGED <<setup, req, hops, sends>> /\ pc = "redial" /\ attempt' = 2
          /\ pc' \in {"begin", "idle"}
      BY <1>5, DialSteps, DialEffect, Zenon DEF Redial, TypeInv, Pc
    <2>2. attempt = 1 /\ req.replay = TRUE
      BY <2>1 DEF HopInv
    <2>3. pc' # "idle" => Used' = Used
      BY <2>1, <2>2 DEF Used, OnWire
    <2> QED
      BY <2>1, <2>2, <2>3, SameHop, Zenon
  <1>6. CASE NextHop
    <2>1. UNCHANGED <<setup, sends>> /\ pc = "advance" /\ attempt' = 1
      BY <1>6 DEF NextHop, history
    <2>2. CASE pc' = "idle"
      <3>1. hops' <= setup.redirects /\ req'.replay = req.replay
        <4>1. hops \in Nat /\ setup.redirects \in Nat /\ hops <= setup.redirects
          BY HopTypes DEF HopInv
        <4>2. CASE UNCHANGED <<hops, req>>
          BY <4>1, <4>2
        <4>3. ASSUME NEW location \in Location, Follow(location)
              PROVE  hops' <= setup.redirects /\ req'.replay = req.replay
          <5>1. hops' \in {hops, hops - 1} /\ (req' = req \/ req' = Advance(req, origin, status, location))
            BY <4>3 DEF Follow
          <5>2. Advance(req, origin, status, location).replay = req.replay
            <6>1. req \in RequestType
              BY DEF TypeInv
            <6> QED
              BY <6>1 DEF Advance, ApplyMethodRedirect, RequestType
          <5> QED
            BY <4>1, <5>1, <5>2
        <4> QED
          BY <1>6, <4>2, <4>3 DEF NextHop
      <3> QED
        BY <2>1, <2>2, <3>1 DEF HopInv
    <2>3. CASE pc' # "idle"
      <3>1. /\ hops > 0 /\ hops' = hops - 1 /\ pc' \in {"clean", "hop"}
            /\ req'.replay = req.replay
        BY <1>6, <2>3, FollowEffect
      <3>2. Hop' = Hop + 1 /\ Used' = 0
        BY <2>1, <3>1, HopTypes DEF Hop, Used, OnWire
      <3>3. /\ Len(sends) <= 2 * Hop + Used
            /\ \A i \in 1 .. Len(sends) : sends[i].hop <= Hop
        BY <2>1 DEF HopInv
      <3>4. /\ Len(sends) <= 2 * Hop'
            /\ \A i \in 1 .. Len(sends) : sends[i].hop < Hop'
        BY <3>2, <3>3, HopTypes
      <3>5. \A i \in 1 .. Len(sends) : sends[i].hop <= Hop' /\ sends[i].hop # Hop'
        BY <3>2, <3>4, HopTypes
      <3>6. hops' <= setup.redirects
        BY <3>1, HopTypes DEF HopInv
      <3> QED
        BY <2>1, <3>1, <3>2, <3>4, <3>5, <3>6 DEF HopInv
    <2> QED
      BY <2>2, <2>3
  <1>7. CASE HopDial
    <2>1. /\ UNCHANGED <<setup, req, hops, sends, attempt>> /\ pc = "hop"
          /\ pc' \in {"clean", "idle"}
      BY <1>7, DialSteps, DialEffect, Zenon DEF HopDial, TypeInv, Pc, exchange
    <2>2. pc' # "idle" => Used' = Used
      BY <2>1 DEF Used, OnWire
    <2> QED
      BY <2>1, <2>2, SameHop, Zenon DEF HopInv
  <1>8. CASE UNCHANGED vars
    <2>1. Used' = Used /\ Hop' = Hop
      BY <1>8 DEF vars, Used, OnWire, Hop
    <2> QED
      BY <1>8, <2>1, Zenon DEF vars, HopInv
  <1> QED
    BY <1>1, <1>2, <1>3, <1>4, <1>5, <1>6, <1>7, <1>8 DEF Next, Exchanging

\* A redirect against the policy ends the call before its target is dialled.
LEMMA PolicyStep == TypeInv /\ WireInv /\ HopInv /\ PolicyInv /\ [Next]_vars => PolicyInv'
  <1> SUFFICES ASSUME TypeInv, WireInv, HopInv, PolicyInv, [Next]_vars PROVE PolicyInv'
    OBVIOUS
  <1> USE DEF PolicyInv
  <1>1. ASSUME NEW k \in setup.kinds, NEW r \in setup.inputs, Call(k, r) PROVE PolicyInv'
    <2>1. /\ sends' = <<>> /\ dials' = {} /\ home' = origin /\ origin' = origin
          /\ pc' = "clean" /\ setup' = setup
      BY <1>1, Zenon DEF Call, connection
    <2> QED
      BY <2>1
  <1>2. CASE EnsureClean \/ Redial
    <2>1. UNCHANGED <<setup, home, sends, origin>> /\ pc' \in {"begin", "idle"} /\ pc # "idle"
          /\ dials' \subseteq dials \cup {origin}
      BY <1>2, DialSteps, DialEffect, Zenon DEF EnsureClean, Redial, TypeInv, Pc, connection
    <2> QED
      BY <2>1
  <1>3. CASE Exchanging
    BY <1>3, ExchangingEffect
  <1>4. CASE Write
    <2>1. UNCHANGED <<setup, home, origin, dials>> /\ pc = "write" /\ pc' # "hop"
      BY <1>4, WriteEffect DEF Write
    <2>2. CASE UNCHANGED sends
      BY <2>1, <2>2
    <2>3. CASE sends' = Append(sends, Sent)
      <3>1. peer = origin
        BY DEF WireInv
      <3> QED
        BY <2>1, <2>3, <3>1, SendsGrow
    <2> QED
      BY <1>4, <2>2, <2>3, WriteEffect, Zenon
  <1>5. CASE NextHop
    <2>1. UNCHANGED <<setup, home, origin, dials, sends>> /\ pc = "advance"
      BY <1>5 DEF NextHop, connection, history
    <2>2. pc' # "idle" => /\ pc' = "hop" => setup.cross /\ (origin \in Secure => target' \in Secure)
                          /\ setup.redirects # 0
      <3>1. hops \in Nat /\ setup.redirects \in Nat /\ hops <= setup.redirects
        BY DEF TypeInv, HopInv, Setup
      <3> QED
        BY <1>5, <3>1, FollowEffect
    <2> QED
      BY <2>1, <2>2
  <1>6. CASE HopDial
    <2>1. UNCHANGED <<setup, home, sends>> /\ pc' \in {"clean", "idle"} /\ pc = "hop"
          /\ dials' \subseteq dials \cup {target} /\ origin' \in {origin, target}
      BY <1>6, DialSteps, DialEffect, Zenon DEF HopDial, TypeInv, Pc
    <2> QED
      BY <2>1
  <1>7. CASE UNCHANGED vars
    BY <1>7 DEF vars
  <1> QED
    BY <1>1, <1>2, <1>3, <1>4, <1>5, <1>6, <1>7, Zenon DEF Next, Exchanging

\* Every wait is cut to what is left of the total, but for an async call's first
\* dial, after which an expired call ends unsent.
LEMMA TimeStep == TypeInv /\ KindInv /\ TimeInv /\ [Next]_vars => TimeInv'
  <1> SUFFICES ASSUME TypeInv, KindInv, TimeInv, [Next]_vars PROVE TimeInv'
    OBVIOUS
  <1> USE DEF TimeInv
  <1>0. clock \in Nat /\ Limit \in Nat \ {0} /\ ConnectLimit \in Nat
    BY ClientAssumption DEF TypeInv
  <1>1. ASSUME NEW k \in setup.kinds, NEW r \in setup.inputs, Call(k, r) PROVE TimeInv'
    BY <1>0, <1>1 DEF Call
  <1>2. CASE EnsureClean
    <2>1. UNCHANGED <<kind, sends>> /\ pc = "clean" /\ pc' \in {"begin", "idle"}
      BY <1>2, DialEffect, Zenon DEF EnsureClean, TypeInv, Pc
    <2>2. CASE UNCHANGED clock
      BY <1>0, <2>1, <2>2
    <2>3. CASE Dial(origin, kind # "async", "begin")
      <3>1. /\ clock' \in Nat
            /\ kind # "async" /\ clock <= Limit => clock' <= Limit
            /\ kind = "async" => clock' <= clock + ConnectLimit
        BY <2>3, DialEffect, Zenon DEF TypeInv, Pc
      <3> QED
        BY <1>0, <2>1, <3>1
    <2> QED
      BY <1>2, <2>2, <2>3 DEF EnsureClean
  <1>3. CASE Begin
    <2>1. UNCHANGED <<kind, sends, clock>>
      BY <1>3 DEF Begin, history
    <2>2. pc' = "idle" \/ (pc' = "write" /\ ~(clock >= Limit))
      BY <1>3 DEF Begin, Expired, Fail
    <2> QED
      BY <1>0, <1>3, <2>1, <2>2 DEF Begin
  <1>4. CASE Write
    <2>1. UNCHANGED kind /\ pc = "write" /\ pc' # "clean"
      BY <1>4, WriteEffect DEF Write
    <2>2. clock' \in Nat /\ clock' <= Limit
      BY <1>4, <2>1, WriteEffect
    <2>3. CASE UNCHANGED sends
      BY <2>1, <2>2, <2>3
    <2>4. CASE sends' = Append(sends, Sent) /\ clock < Limit
      BY <2>1, <2>2, <2>4, SendsGrow
    <2> QED
      BY <1>4, <2>3, <2>4, WriteEffect
  <1>5. CASE HeadRead \/ HeadParse \/ Check \/ Collect \/ Streaming
    <2>1. /\ UNCHANGED <<kind, sends>> /\ pc' # "clean"
      BY <1>5, ExchangingEffect DEF Exchanging
    <2>2. clock <= Limit
      BY <1>5 DEF HeadRead, HeadParse, Check, Collect, Streaming
    <2>3. clock' <= Limit
      <3>1. CASE HeadRead \/ Collect
        BY <2>2, <3>1, HeadReadEffect, CollectEffect, Zenon
      <3>2. CASE HeadParse \/ Check \/ Streaming
        BY <2>2, <3>2, Zenon DEF HeadParse, Check, Streaming, budget
      <3> QED
        BY <1>5, <3>1, <3>2
    <2> QED
      BY <2>1, <2>3
  <1>6. CASE Redial
    <2>1. UNCHANGED <<kind, sends>> /\ pc = "redial" /\ pc' \in {"begin", "idle"}
          /\ clock' \in Nat /\ (clock <= Limit => clock' <= Limit)
      BY <1>6, DialSteps, DialEffect, Zenon DEF Redial, TypeInv, Pc
    <2> QED
      BY <2>1
  <1>7. CASE NextHop
    <2>1. UNCHANGED <<kind, sends, clock>> /\ pc = "advance"
      BY <1>7, Zenon DEF NextHop, budget, history
    <2> QED
      BY <2>1, ZenonT(30) DEF KindInv
  <1>8. CASE HopDial
    <2>1. UNCHANGED <<kind, sends>> /\ pc = "hop" /\ pc' \in {"clean", "idle"}
          /\ clock' \in Nat /\ (clock <= Limit => clock' <= Limit)
      BY <1>8, DialSteps, DialEffect, Zenon DEF HopDial, TypeInv, Pc
    <2> QED
      BY <2>1 DEF KindInv
  <1>9. CASE UNCHANGED vars
    BY <1>9, Zenon DEF vars
  <1> QED
    BY <1>1, <1>2, <1>3, <1>4, <1>5, <1>6, <1>7, <1>8, <1>9 DEF Next

-----------------------------------------------------------------------------

\* The parts together are inductive.
LEMMA InvStep == ClientInv /\ [Next]_vars => ClientInv'
  BY TypeStep, KindStep, WireStep, HopStep, SeenStep, OriginStep, PolicyStep, BareStep,
     TimeStep DEF ClientInv

\* Every reachable state of the client satisfies them.
THEOREM ClientInvariant == Spec => []ClientInv
  BY InitInv, InvStep, PTL DEF Spec

\* The dirty protocol of client.rs: no call parses another exchange's bytes,
\* whatever was dropped, redirected, replayed or failed before it.
THEOREM ClientNoDesync == Spec => []NoDesync
  <1>1. ClientInv => NoDesync
    BY DEF ClientInv, WireInv, NoDesync
  <1> QED
    BY <1>1, ClientInvariant, PTL

\* reconnect_with_deadline records an origin only with the stream connected to
\* it: a request's Host is always where it is sent.
THEOREM HostIsPeer == Spec => []HostMatchesPeer
  <1>1. ClientInv => HostMatchesPeer
    BY DEF ClientInv, OriginInv
  <1> QED
    BY <1>1, ClientInvariant, PTL

\* apply_location strips credentials once and for all: they reach no origin but
\* the one the call was made to.
THEOREM CredentialsKept == Spec => []CredentialsStayHome
  <1>1. ClientInv => CredentialsStayHome
    BY DEF ClientInv, OriginInv
  <1> QED
    BY <1>1, ClientInvariant, PTL

\* The redirect policy of execute holds before anything is dialled, for every
\* max_redirects and every set of origins.
THEOREM PolicyHolds == Spec => []PolicyBeforeDial
  <1>1. ASSUME ClientInv PROVE PolicyBeforeDial
    <2>1. home \in Secure => dials \cup {sends[i].to : i \in 1 .. Len(sends)} \subseteq Secure
      BY <1>1, Zenon DEF ClientInv, PolicyInv
    <2>2. setup.cross \in BOOLEAN
      BY <1>1 DEF ClientInv, TypeInv, Setup
    <2>3. (~setup.cross \/ setup.redirects = 0) => dials \subseteq {home}
      BY <1>1, <2>2 DEF ClientInv, PolicyInv
    <2>4. /\ \A i \in 1 .. Len(sends) : sends[i].hop <= setup.redirects
          /\ Len(sends) <= 2 * (setup.redirects + 1)
      BY <1>1 DEF ClientInv, HopInv
    <2> QED
      BY <2>1, <2>3, <2>4, Zenon DEF PolicyBeforeDial
  <1> QED
    BY <1>1, ClientInvariant, PTL

\* apply_method_redirect leaves nothing of a body it dropped, at any later hop.
THEOREM RewrittenStaysBare == Spec => []RewrittenIsBare
  <1>1. ClientInv => RewrittenIsBare
    BY DEF ClientInv, BareInv
  <1> QED
    BY <1>1, ClientInvariant, PTL

\* send_head_interruptible replays a hop at most once, only when its request
\* allows it, and never after a part of a head.
THEOREM ReplaysOnce == Spec => []OneReplayPerHop
  <1>1. ASSUME ClientInv PROVE OneReplayPerHop
    <2>1. \A i, j \in 1 .. Len(sends) : (i < j /\ sends[i].hop = sends[j].hop) =>
              req.replay = TRUE /\ j = i + 1
      BY <1>1 DEF ClientInv, HopInv
    <2>2. (pc = "redial" /\ seen) => (interims > 0 /\ ~headBuf)
      BY <1>1 DEF ClientInv, SeenInv, TypeInv
    <2> QED
      BY <2>1, <2>2 DEF OneReplayPerHop
  <1> QED
    BY <1>1, ClientInvariant, PTL

\* One RequestDeadline bounds the whole call, for every value of the limits.
THEOREM CallIsBounded == Spec => []CallEndsInTime
  <1>1. ASSUME ClientInv PROVE CallEndsInTime
    <2>1. clock \in Nat /\ Limit \in Nat
      BY <1>1, ClientAssumption DEF ClientInv, TypeInv
    <2>2. clock <= Limit \/ (kind = "async" /\ sends = <<>> /\ clock <= ConnectLimit)
      BY <1>1 DEF ClientInv, TimeInv
    <2>3. \A i \in 1 .. Len(sends) : sends[i].at < Limit
      BY <1>1 DEF ClientInv, TimeInv
    <2> QED
      BY <2>1, <2>2, <2>3 DEF CallEndsInTime
  <1> QED
    BY <1>1, ClientInvariant, PTL
=============================================================================
