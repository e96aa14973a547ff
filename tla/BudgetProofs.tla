---------------------------- MODULE BudgetProofs ----------------------------
(***************************************************************************)
(* An exchange against the clock, for every timeout, limit, request and    *)
(* resolution time.  Of the dial: it ends in time (DialEndsInTime).  Of    *)
(* the whole exchange: it ends in time (EndsInTime), a silent peer was     *)
(* silent (SilenceIsReal), and the request is written once (WritesOnce).   *)
(***************************************************************************)
EXTENDS Budgets, TLAPS, SequenceTheorems

\* What the provers may take for a leaf.
USE SMTT(30), ZenonT(30)

\* Where the dial is says what its clock may show: nothing has been waited for
\* before the resolver, and an attempt is only made, or ends, in time.
DialInv ==
    /\ TypeOK
    /\ DialEndsInTime
    /\ pc \in {"check", "resolve"} => now = 0
    /\ pc # "done" => outcome = "none"

\* Deadline::sooner is one of its two deadlines, and no later than either that
\* has an end.
LEMMA SoonerIsSooner ==
  ASSUME NEW a \in Nat \cup {NEVER}, NEW b \in Nat \cup {NEVER}
  PROVE  /\ Sooner(a, b) \in {a, b}
         /\ a # NEVER => Sooner(a, b) # NEVER /\ Sooner(a, b) <= a
         /\ b # NEVER => Sooner(a, b) # NEVER /\ Sooner(a, b) <= b
BY DialerAssumption DEF Sooner

\* Deadline::clamp, of a deadline that has not expired, is never zero, never
\* longer than the attempt's own timeout, and never past the deadline.
LEMMA ClampFits ==
  ASSUME TypeOK, ~Expired(now)
  PROVE  /\ Clamp \in Nat \ {0}
         /\ Clamp <= AttemptTimeout
         /\ expires # NEVER => now + Clamp <= expires
<1>1. CASE expires = NEVER
  BY <1>1, DialerAssumption DEF Clamp
<1>2. CASE expires # NEVER
  <2>1. expires \in Nat /\ now \in Nat /\ now < expires
    <3>1. expires \in Nat /\ now \in Nat
      BY <1>2, Zenon DEF TypeOK
    <3>2. ~(now >= expires)
      BY <1>2 DEF Expired
    <3> QED
      BY <3>1, <3>2
  <2>2. expires - now \in Nat \ {0} /\ now + (expires - now) = expires
    BY <2>1
  <2>3. CASE expires - now < AttemptTimeout
    BY <1>2, <2>1, <2>2, <2>3, DialerAssumption DEF Clamp
  <2>4. CASE ~(expires - now < AttemptTimeout)
    <3>1. Clamp = AttemptTimeout
      BY <2>4 DEF Clamp
    <3> QED
      BY <1>2, <2>1, <2>2, <2>4, <3>1, DialerAssumption
  <2> QED
    BY <2>3, <2>4
<1> QED
  BY <1>1, <1>2

\* The dial starts with nothing waited for and the sooner of its two bounds.
LEMMA DialInit == Init => DialInv
<1> SUFFICES ASSUME Init PROVE DialInv
  OBVIOUS
<1>1. expires \in Nat \cup {NEVER}
  BY SoonerIsSooner, DialerAssumption DEF Init
<1> QED
  BY <1>1, DialerAssumption DEF Init, DialInv, TypeOK, DialEndsInTime

\* An attempt, begun in time on a clamped timeout, leaves the clock within the
\* deadline.
LEMMA AttemptInTime ==
  ASSUME DialInv, Attempt
  PROVE  DialInv'
<1>1. CASE Expired(now)
  BY <1>1, Zenon DEF Attempt, DialInv, TypeOK, DialEndsInTime, Expired, Return
<1>2. CASE ~Expired(now)
  <2>1. Clamp \in Nat /\ (expires # NEVER => now + Clamp <= expires)
    BY <1>2, ClampFits DEF DialInv
  <2>2. left' = left - 1 /\ left > 0 /\ pc = "attempt" /\ Connect(Clamp)
        /\ UNCHANGED <<expires, resolved>>
    BY <1>2 DEF Attempt
  <2>3. now' \in Nat /\ now' <= now + Clamp
    <3>1. now \in Nat
      BY Zenon DEF DialInv, TypeOK
    <3>2. CASE \E took \in 0 .. Clamp : now' = now + took
      BY <2>1, <3>1, <3>2
    <3>3. CASE now' = now + Clamp
      BY <2>1, <3>1, <3>3
    <3> QED
      BY <2>2, <3>2, <3>3, Zenon DEF Connect
  <2>4. TypeOK'
    <3>1. left' \in Nat
      <4>1. left \in Nat
        BY Zenon DEF DialInv, TypeOK
      <4> QED
        BY <2>2, <4>1
    <3>2. pc' \in {"attempt", "done"}
      BY <2>2, Zenon DEF Connect, Return
    <3>3. last' \in {last, "refused", "timed out", "cut"}
      BY <2>2, Zenon DEF Connect
    <3>4. outcome' \in {outcome, "connected", "io"}
      BY <2>2, Zenon DEF Connect, Return
    <3> QED
      BY <2>2, <2>3, <3>1, <3>2, <3>3, <3>4, Zenon DEF DialInv, TypeOK
  <2>5. expires' # NEVER => ~(now' > expires')
    <3>1. now \in Nat /\ expires' = expires /\ (expires # NEVER => expires \in Nat)
      BY <2>2, Zenon DEF DialInv, TypeOK
    <3>2. CASE expires = NEVER
      BY <3>1, <3>2
    <3>3. CASE expires # NEVER
      BY <2>1, <2>3, <3>1, <3>3
    <3> QED
      BY <3>2, <3>3
  <2>6. pc' # "check" /\ pc' # "resolve" /\ (pc' # "done" => outcome' = "none")
    BY <2>2, Zenon DEF Connect, Return, DialInv
  <2> QED
    BY <2>4, <2>5, <2>6 DEF DialInv, DialEndsInTime
<1> QED
  BY <1>1, <1>2

\* Every step of the dial keeps its clock in the place it is at.
LEMMA DialStep == DialInv /\ [Next]_vars => DialInv'
<1> SUFFICES ASSUME DialInv, [Next]_vars PROVE DialInv'
  OBVIOUS
<1>1. CASE Check
  BY <1>1, Zenon DEF Check, Return, DialInv, TypeOK, DialEndsInTime
<1>2. CASE Resolve
  <2>1. now' \in Nat /\ resolved' = now' /\ UNCHANGED <<expires, last>>
    <3>1. now \in Nat
      BY Zenon DEF DialInv, TypeOK
    <3>2. PICK took \in 0 .. MaxResolve : now' = now + took
      BY <1>2 DEF Resolve
    <3>3. now' \in Nat
      BY <3>1, <3>2, DialerAssumption
    <3> QED
      BY <1>2, <3>3 DEF Resolve
  <2>2. TypeOK'
    <3>1. left' \in Nat
      <4>1. left \in Nat
        BY Zenon DEF DialInv, TypeOK
      <4>2. left' = left \/ left' \in 0 .. MaxAddresses
        BY <1>2 DEF Resolve
      <4> QED
        BY <4>1, <4>2, DialerAssumption
    <3>2. pc' \in {"attempt", "done"} /\ outcome' \in {outcome, "dns", "deadline"}
      BY <1>2 DEF Resolve, Return
    <3> QED
      BY <2>1, <3>1, <3>2, Zenon DEF DialInv, TypeOK
  <2>3. DialEndsInTime'
    <3>1. CASE outcome' \in {"dns", "deadline"}
      BY <2>1, <3>1 DEF DialEndsInTime
    <3>2. CASE ~Expired(now')
      <4>1. expires # NEVER => expires \in Nat /\ ~(now' >= expires)
        BY <3>2, Zenon DEF Expired, DialInv, TypeOK
      <4> QED
        BY <2>1, <4>1 DEF DialEndsInTime
    <3> QED
      BY <1>2, <3>1, <3>2 DEF Resolve, Return
  <2> QED
    BY <1>2, <2>2, <2>3 DEF Resolve, Return, DialInv
<1>3. CASE Attempt
  BY <1>3, AttemptInTime
<1>4. CASE Exhausted
  BY <1>4, Zenon DEF Exhausted, Return, DialInv, TypeOK, DialEndsInTime
<1>5. CASE Returned \/ UNCHANGED vars
  BY <1>5, Zenon DEF Returned, vars, DialInv, TypeOK, DialEndsInTime
<1> QED
  BY <1>1, <1>2, <1>3, <1>4, <1>5 DEF Next

\* A dial is past its deadline only inside the resolver and then attempts
\* nothing, for every number of addresses and every attempt timeout.
THEOREM DialIsBounded == Spec => []DialEndsInTime
<1>1. DialInv => DialEndsInTime
  BY DEF DialInv
<1> QED
  BY <1>1, DialInit, DialStep, PTL DEF Spec

-----------------------------------------------------------------------------

Doing == {"dial", "write", "flush", "head", "body", "pause", "done"}

BudgetTypes ==
    /\ total \in Nat \cup {NEVER} /\ streamed \in BOOLEAN /\ timeout \in Nat
    /\ request \in Requests /\ op \in Doing
    /\ clock \in Nat /\ began \in Nat /\ progress \in Nat
    /\ off \in Nat /\ wire \in Seq(Nat \X Nat) /\ inbox \in BOOLEAN /\ arrived \in Nat

\* The dial runs on the sooner of its own deadline and the total, before the
\* exchange's clock; only a stream is left between two reads.
DialPart ==
    /\ DialInv
    /\ op = "dial" => /\ clock = 0 /\ arrived = 0 /\ off = 0 /\ wire = <<>>
                      /\ total # NEVER => expires # NEVER /\ expires <= total
    /\ op = "pause" => streamed = TRUE

\* What is in the socket arrived by now, and what is not in it any more was
\* counted as progress when it was read.
SilenceInv ==
    /\ arrived <= clock
    /\ (op \in {"head", "body", "pause"} /\ inbox = FALSE) => arrived <= progress
    /\ op # "done" => ended[1] = "none"
    /\ SilenceIsReal

\* The next byte to write is the one after the last accepted.
Following == IF wire = <<>> THEN <<1, 1>> ELSE After(wire[Len(wire)])

SentInv ==
    /\ \A k \in DOMAIN wire : wire[k][1] \in DOMAIN request /\ wire[k][2] \in 1 .. request[wire[k][1]]
    /\ op = "write" => /\ Piece \in DOMAIN request /\ off < request[Piece]
                       /\ Following = <<Piece, off + 1>>
    /\ WritesOnce

BudgetInv == BudgetTypes /\ DialPart /\ EndsInTime /\ SilenceInv /\ SentInv

-----------------------------------------------------------------------------

\* Tick::pace: a tick takes the socket timeout, and at least Tick::MIN.
LEMMA StepFacts ==
    ASSUME timeout \in Nat
    PROVE  /\ Step \in Nat \ {0} /\ timeout <= Step /\ Pace = Step
           /\ \A doing : LimitOf(doing) \in Nat
  BY BudgetsAssumption DEF Step, Pace, LimitOf

\* The socket call timed out and is made again.
Ticks ==
    /\ op' = op /\ clock' = clock + Step /\ UNCHANGED <<progress, began>>
    /\ clock + timeout - progress < LimitOf(op)

\* What one turn of a loop on the socket does to the clock and to the budget:
\* it takes a tick at most, and ends the exchange, makes progress, hands a chunk
\* to the caller of a stream or is a tick within the limit.
Turn ==
    /\ Busy /\ ~Overdue(op, clock) /\ UNCHANGED <<vars, exchange>>
    /\ clock' \in Nat /\ clock <= clock' /\ clock' <= clock + Step
    /\ op = "body" => op' \in {"body", "pause", "done"}
    /\ \/ op' = "done"
       \/ op' = "pause" /\ streamed = TRUE /\ progress' = clock'
       \/ op' \in Doing \ {"dial", "pause", "done"} /\ progress' = clock'
       \/ Ticks
    /\ began' \in {began, clock'} /\ progress' \in {progress, clock'}

\* A tick either ends the budget or is paced.
LEMMA TickedTurns ==
    ASSUME BudgetTypes, NEW doing, doing = op, Ticked(doing)
    PROVE  /\ clock' \in Nat /\ clock <= clock' /\ clock' <= clock + Step /\ began' = began
           /\ \/ op' = "done"
              \/ op' = op /\ clock' = clock + Step /\ clock + timeout - progress < LimitOf(op)
  <1>1. /\ clock \in Nat /\ timeout \in Nat /\ Step \in Nat /\ timeout <= Step /\ Pace = Step
        /\ progress \in Nat /\ LimitOf(op) \in Nat
    BY StepFacts DEF BudgetTypes
  <1>2. CASE clock + timeout - progress >= LimitOf(op)
    <2>1. clock' = clock + timeout /\ op' = "done" /\ began' = began
      BY <1>2 DEF Ticked, End
    <2> QED
      BY <1>1, <2>1
  <1>3. CASE ~(clock + timeout - progress >= LimitOf(op))
    <2>1. clock' = clock + Step /\ op' = op /\ began' = began
      BY <1>1, <1>3 DEF Ticked
    <2>2. clock + timeout - progress < LimitOf(op)
      BY <1>1, <1>3
    <2> QED
      BY <1>1, <2>1, <2>2
  <1> QED
    BY <1>2, <1>3

\* A call that returns takes the socket timeout at most.
LEMMA CallTakes ==
    ASSUME BudgetTypes, \E t \in Took : clock' = clock + t
    PROVE  clock' \in Nat /\ clock <= clock' /\ clock' <= clock + Step
  <1>1. clock \in Nat /\ timeout \in Nat /\ Step \in Nat /\ timeout <= Step
    BY StepFacts DEF BudgetTypes
  <1>2. PICK t \in 0 .. timeout : clock' = clock + t
    BY DEF Took
  <1> QED
    BY <1>1, <1>2

\* Every turn of write_all_raw is such a turn.
LEMMA WriteTurns == ASSUME BudgetTypes, Write PROVE Turn
  <1>1. /\ op = "write" /\ Busy /\ ~Overdue(op, clock) /\ UNCHANGED <<vars, exchange>>
    BY DEF Write, Busy
  <1>2. ASSUME NEW t \in Took, NEW n \in 1 .. request[Piece] - off,
               clock' = clock + t, progress' = clock', op' \in {op, "flush", "write"},
               began' = began
        PROVE  Turn
    <2>1. clock' \in Nat /\ clock <= clock' /\ clock' <= clock + Step
      BY <1>2, CallTakes
    <2> QED
      BY <1>1, <1>2, <2>1 DEF Turn, Doing
  <1>3. CASE Ticked("write") /\ UNCHANGED progress
    BY <1>1, <1>3, TickedTurns DEF Turn, Ticks
  <1>4. CASE Failed /\ UNCHANGED progress
    <2>1. clock' \in Nat /\ clock <= clock' /\ clock' <= clock + Step
      BY <1>4, CallTakes DEF Failed
    <2> QED
      BY <1>1, <1>4, <2>1 DEF Turn, Failed, End
  <1> QED
    BY <1>2, <1>3, <1>4 DEF Write

\* So is every turn of flush.
LEMMA FlushTurns == ASSUME BudgetTypes, Flush PROVE Turn
  <1>1. /\ op = "flush" /\ Busy /\ ~Overdue(op, clock) /\ UNCHANGED <<vars, exchange>>
    BY DEF Flush, Busy
  <1>2. CASE \E t \in Took : clock' = clock + t /\ Start("head", clock') /\ MayArrive(clock')
    <2>1. clock' \in Nat /\ clock <= clock' /\ clock' <= clock + Step
      BY <1>2, CallTakes
    <2>2. op' = "head" /\ began' = clock' /\ progress' = clock'
      BY <1>2 DEF Start
    <2> QED
      BY <1>1, <2>1, <2>2 DEF Turn, Doing
  <1>3. CASE Ticked("flush") /\ UNCHANGED progress
    BY <1>1, <1>3, TickedTurns DEF Turn, Ticks
  <1>4. CASE Failed /\ UNCHANGED progress
    <2>1. clock' \in Nat /\ clock <= clock' /\ clock' <= clock + Step
      BY <1>4, CallTakes DEF Failed
    <2> QED
      BY <1>1, <1>4, <2>1 DEF Turn, Failed, End
  <1> QED
    BY <1>2, <1>3, <1>4 DEF Flush

\* And every turn of SilenceBudget::read.
LEMMA ReadTurns == ASSUME BudgetTypes, Read PROVE Turn
  <1>1. /\ op \in {"head", "body"} /\ Busy /\ ~Overdue(op, clock) /\ UNCHANGED <<vars, exchange>>
    BY DEF Read, Busy
  <1>2. CASE /\ clock' = clock \/ \E t \in Took : clock' = clock + t
             /\ ReadOn(op, clock')
    <2>1. clock' \in Nat /\ clock <= clock' /\ clock' <= clock + Step
      <3>1. CASE clock' = clock
        <4>1. clock \in Nat /\ Step \in Nat
          BY StepFacts DEF BudgetTypes
        <4> QED
          BY <3>1, <4>1
      <3> QED
        BY <1>2, <3>1, CallTakes
    <2>2. /\ progress' = clock' /\ began' \in {began, clock'}
          /\ \/ op = "head" /\ op' \in {"body", "head"}
             \/ op = "body" /\ op' = "pause" /\ streamed = TRUE
             \/ op = "body" /\ op' \in {"body", "done"}
      BY <1>1, <1>2 DEF ReadOn, Start, Progressed, End, BudgetTypes
    <2> QED
      BY <1>1, <2>1, <2>2 DEF Turn, Doing
  <1>3. CASE Ticked(op) /\ UNCHANGED progress
    BY <1>1, <1>3, TickedTurns DEF Turn, Ticks
  <1>4. CASE Failed /\ UNCHANGED progress
    <2>1. clock' \in Nat /\ clock <= clock' /\ clock' <= clock + Step
      BY <1>4, CallTakes DEF Failed
    <2> QED
      BY <1>1, <1>4, <2>1 DEF Turn, Failed, End
  <1> QED
    BY <1>2, <1>3, <1>4 DEF Read

\* A turn is made before the total has passed and takes a tick at most, so the
\* clock passes the total by a tick at most; and a turn that leaves the budget
\* in use made progress or found it within its limit.
LEMMA TurnInTime == ASSUME BudgetTypes, DialPart, Turn PROVE EndsInTime'
  <1>1. /\ clock \in Nat /\ clock' \in Nat /\ clock' <= clock + Step /\ Step \in Nat
        /\ timeout \in Nat /\ timeout <= Step /\ progress \in Nat
        /\ Step' = Step /\ total' = total /\ streamed' = streamed /\ streamed \in BOOLEAN
        /\ total \in Nat \cup {NEVER} /\ op \in Doing
        /\ \A doing : LimitOf(doing) \in Nat
    BY StepFacts DEF BudgetTypes, Turn, exchange, Step
  <1>2. ASSUME total # NEVER, op' \in {"write", "flush", "head"} \/ streamed = FALSE
        PROVE  clock' <= total + Step
    <2>1. DeadlineOf(op) = total
      BY <1>1, <1>2 DEF DeadlineOf, Turn
    <2>2. clock < total /\ total \in Nat
      BY <1>1, <1>2, <2>1 DEF Turn, Overdue
    <2> QED
      BY <1>1, <2>2
  <1>3. ASSUME Busy' PROVE clock' <= progress' + LimitOf(op') + Step
    <2>1. CASE progress' = clock'
      BY <1>1, <2>1
    <2>2. CASE Ticks
      BY <1>1, <2>2 DEF Ticks
    <2> QED
      BY <1>3, <2>1, <2>2 DEF Turn, Busy
  <1> QED
    BY <1>1, <1>2, <1>3, Zenon DEF EndsInTime, LimitOf

\* A dial that has connected did so before the total; one that has not is past
\* it only because the resolver was.
LEMMA BeginInTime == ASSUME BudgetTypes, DialPart, Begin PROVE DialPart' /\ EndsInTime'
  <1>1. /\ op = "dial" /\ pc = "done" /\ clock' = now /\ now \in Nat /\ resolved \in Nat
        /\ total' = total /\ streamed' = streamed /\ total \in Nat \cup {NEVER}
        /\ Step \in Nat /\ Step' = Step /\ expires \in Nat \cup {NEVER}
        /\ \A doing : LimitOf(doing) \in Nat
    BY StepFacts, Zenon DEF Begin, BudgetTypes, DialPart, DialInv, TypeOK, exchange, Step
  <1>2. CASE op' = "done" /\ UNCHANGED vars
    <2>1. total # NEVER => (now <= total + Step \/ now = resolved)
      <3>1. total # NEVER => expires # NEVER /\ expires <= total
        BY <1>1 DEF DialPart
      <3>2. expires # NEVER /\ now > expires => now = resolved
        BY DEF DialPart, DialInv, DialEndsInTime
      <3> QED
        BY <1>1, <3>1, <3>2
    <2>2. EndsInTime'
      BY <1>1, <1>2, <2>1 DEF EndsInTime, Busy, vars
    <2>3. DialInv'
      BY <1>2, DialStep DEF DialPart
    <2> QED
      BY <1>2, <2>2, <2>3 DEF DialPart
  <1>3. CASE /\ ~Overdue("write", now) /\ Start("write", now) /\ Forget
             /\ UNCHANGED <<now, pc, outcome>>
    <2>1. op' = "write" /\ began' = now /\ progress' = now
      BY <1>3 DEF Start
    <2>2. total # NEVER => now < total
      BY <1>1, <1>3 DEF Overdue, DeadlineOf
    <2>3. EndsInTime'
      BY <1>1, <2>1, <2>2 DEF EndsInTime, Busy, LimitOf
    <2>4. DialInv'
      BY <1>1, <1>3, DialerAssumption, Zenon DEF DialPart, DialInv, TypeOK, DialEndsInTime, Forget
    <2> QED
      BY <2>1, <2>3, <2>4 DEF DialPart
  <1> QED
    BY <1>2, <1>3 DEF Begin, End

\* No step breaks the bounds on the clock.
LEMMA InTimeStep ==
    ASSUME BudgetTypes, DialPart, EndsInTime, BudgetsNext
    PROVE  DialPart' /\ EndsInTime'
  <1>1. CASE Dial
    <2>1. DialInv' /\ expires' = expires
      BY <1>1, DialStep, Zenon DEF Dial, DialPart, Next, Check, Resolve, Attempt, Exhausted
    <2>2. /\ op = "dial"
          /\ UNCHANGED <<op, clock, arrived, off, wire, total, streamed, began, progress, timeout>>
      BY <1>1 DEF Dial, exchange, sent, received
    <2>3. clock = 0 /\ total \in Nat \cup {NEVER} /\ Step \in Nat /\ Step' = Step
      BY <2>2, StepFacts DEF DialPart, BudgetTypes, Step
    <2> QED
      BY <2>1, <2>2, <2>3 DEF DialPart, EndsInTime, Busy
  <1>2. CASE Begin
    BY <1>2, BeginInTime
  <1>3. CASE Turn
    <2>1. DialInv'
      BY <1>3, DialStep DEF Turn, DialPart
    <2>2. op' # "dial" /\ (op' = "pause" => streamed' = TRUE)
      BY <1>3 DEF Turn, Ticks, Busy, Doing, exchange
    <2> QED
      BY <1>3, <2>1, <2>2, TurnInTime, Zenon DEF DialPart
  <1>4. CASE Expire
    <2>1. /\ op' = "done" /\ UNCHANGED <<clock, total, streamed, timeout, resolved, vars>> /\ Busy
      BY <1>4 DEF Expire, End, exchange, Busy, vars
    <2>2. DialInv'
      BY <2>1, DialStep DEF DialPart
    <2>3. EndsInTime'
      BY <2>1 DEF EndsInTime, Busy, Step
    <2> QED
      BY <2>1, <2>2, <2>3 DEF DialPart
  <1>5. CASE Pause
    <2>1. /\ op = "pause" /\ op' = "body" /\ began' = clock' /\ UNCHANGED <<streamed, timeout, vars>>
      BY <1>5 DEF Pause, exchange
    <2>2. clock' \in Nat
      <3>1. PICK t \in 0 .. MaxPause : clock' = clock + t
        BY <1>5 DEF Pause
      <3> QED
        BY <3>1, BudgetsAssumption DEF BudgetTypes
    <2>3. DialInv'
      BY <2>1, DialStep DEF DialPart
    <2>4. EndsInTime'
      <3>1. streamed' = TRUE
        BY <2>1 DEF DialPart
      <3>2. clock' <= began' + LimitOf(op') + Step'
        <4>1. Step' \in Nat /\ LimitOf(op') \in Nat
          BY <2>1, BudgetsAssumption DEF BudgetTypes, LimitOf, Step
        <4>2. \A a, b, c \in Nat : a <= a + b + c
          OBVIOUS
        <4> QED
          BY <2>1, <2>2, <4>1, <4>2
      <3> QED
        BY <2>1, <3>1, <3>2 DEF EndsInTime, LimitOf
    <2> QED
      BY <2>1, <2>3, <2>4 DEF DialPart
  <1>6. CASE Over
    BY <1>6, Zenon DEF Over, allVars, vars, exchange, sent, received, DialPart, DialInv, TypeOK,
                DialEndsInTime, EndsInTime, Busy, LimitOf, Step
  <1> QED
    BY <1>1, <1>2, <1>3, <1>4, <1>5, <1>6, WriteTurns, FlushTurns, ReadTurns
       DEF BudgetsNext, Call

\* Bytes that arrive by the end of a step wait in the socket.
LEMMA MayArriveFacts ==
    ASSUME BudgetTypes, arrived <= clock, clock' \in Nat, clock <= clock', MayArrive(clock')
    PROVE  /\ inbox' \in BOOLEAN /\ arrived' \in Nat /\ arrived' <= clock'
           /\ inbox' = FALSE => inbox = FALSE /\ arrived' = arrived
  <1>1. CASE UNCHANGED received
    BY <1>1 DEF BudgetTypes, received
  <1>2. CASE inbox' = TRUE /\ arrived' = clock'
    BY <1>2
  <1> QED
    BY <1>1, <1>2, Zenon DEF MayArrive

\* A tick: the budget ends on a whole limit without a byte, or goes on.
LEMMA TickedIsSilent ==
    ASSUME BudgetTypes, SilenceInv, NEW doing, doing = op, Ticked(doing), Busy,
           op \in {"head", "body"} => inbox = FALSE,
           UNCHANGED progress
    PROVE  SilenceInv' /\ inbox' \in BOOLEAN /\ arrived' \in Nat
  <1>1. /\ clock \in Nat /\ timeout \in Nat /\ progress \in Nat /\ arrived \in Nat
        /\ LimitOf(op) \in Nat /\ arrived <= clock
        /\ clock' \in Nat /\ clock <= clock'
    BY StepFacts, TickedTurns DEF BudgetTypes, SilenceInv
  <1>2. CASE clock + timeout - progress >= LimitOf(op)
    <2>1. /\ clock' = clock + timeout /\ op' = "done" /\ ended' = <<"silent", op>>
          /\ UNCHANGED <<inbox, arrived>>
      BY <1>2 DEF Ticked, End, received
    <2>2. ASSUME op \in {"head", "body"}
          PROVE  inbox' = FALSE /\ clock' - arrived' >= LimitOf(op)
      <3>1. inbox = FALSE /\ arrived <= progress
        BY <2>2 DEF SilenceInv
      <3> QED
        BY <1>1, <1>2, <2>1, <3>1
    <2>3. SilenceIsReal'
      BY <2>1, <2>2, Zenon DEF SilenceIsReal, LimitOf
    <2>4. arrived' <= clock'
      BY <1>1, <2>1
    <2> QED
      BY <2>1, <2>3, <2>4 DEF SilenceInv, BudgetTypes
  <1>3. CASE ~(clock + timeout - progress >= LimitOf(op))
    <2>1. /\ op' = op /\ ended' = ended
          /\ MayArrive(clock') \/ UNCHANGED received
      BY <1>3 DEF Ticked
    <2>2. MayArrive(clock')
      BY <2>1 DEF MayArrive
    <2>3. /\ inbox' \in BOOLEAN /\ arrived' \in Nat /\ arrived' <= clock'
          /\ inbox' = FALSE => inbox = FALSE /\ arrived' = arrived
      BY <1>1, <2>2, MayArriveFacts, Zenon
    <2>4. op # "done" /\ ended[1] = "none"
      BY DEF Busy, SilenceInv
    <2> QED
      BY <2>1, <2>3, <2>4 DEF SilenceInv, SilenceIsReal
  <1> QED
    BY <1>2, <1>3

\* A call that fails ends the exchange, and not as a silence.
LEMMA FailedIsNotSilent ==
    ASSUME BudgetTypes, SilenceInv, Failed
    PROVE  SilenceInv' /\ inbox' \in BOOLEAN /\ arrived' \in Nat
  <1>1. clock' \in Nat /\ clock <= clock'
    BY CallTakes DEF Failed
  <1>2. op' = "done" /\ ended' = <<"error", op>> /\ UNCHANGED <<inbox, arrived>>
    BY DEF Failed, End, received
  <1>3. arrived' <= clock'
    BY <1>1, <1>2 DEF BudgetTypes, SilenceInv
  <1> QED
    BY <1>2, <1>3 DEF SilenceInv, SilenceIsReal, BudgetTypes

\* A byte that leaves the socket is progress, so that the budget of a read
\* counts from no earlier than the last byte seen.
LEMMA SilenceStep ==
    ASSUME BudgetTypes, DialPart, SilenceInv, BudgetsNext
    PROVE  SilenceInv' /\ inbox' \in BOOLEAN /\ arrived' \in Nat
  <1>1. /\ clock \in Nat /\ arrived \in Nat /\ arrived <= clock /\ inbox \in BOOLEAN
        /\ op \in Doing /\ (op # "done" => ended[1] = "none")
    BY DEF BudgetTypes, SilenceInv
  <1>2. CASE Dial
    <2>1. op = "dial" /\ UNCHANGED <<op, clock, progress, inbox, arrived, ended>>
      BY <1>2 DEF Dial, received
    <2> QED
      BY <1>1, <2>1 DEF SilenceInv, SilenceIsReal, LimitOf
  <1>3. CASE Begin
    <2>1. /\ clock' \in Nat /\ arrived' = 0 /\ inbox' = inbox
          /\ \/ op' = "done" /\ ended' = <<outcome, op>>
             \/ op' = "done" /\ ended' = <<"deadline", op>>
             \/ op' = "write" /\ ended' = ended
          /\ op = "dial"
      BY <1>3, Zenon DEF Begin, DialPart, DialInv, TypeOK, received, Start, End
    <2> QED
      BY <1>1, <2>1 DEF SilenceInv, SilenceIsReal
  <1>4. CASE Write
    <2>1. CASE Ticked("write") /\ UNCHANGED progress
      BY <1>4, <2>1, TickedIsSilent DEF Write, Busy
    <2>2. ASSUME NEW t \in Took, clock' = clock + t, MayArrive(clock'),
                 op' \in {"write", "flush"}, ended' = ended
          PROVE  SilenceInv' /\ inbox' \in BOOLEAN /\ arrived' \in Nat
      <3>1. clock' \in Nat /\ clock <= clock'
        BY <2>2, CallTakes
      <3>2. inbox' \in BOOLEAN /\ arrived' \in Nat /\ arrived' <= clock'
        BY <1>1, <2>2, <3>1, MayArriveFacts
      <3> QED
        BY <1>1, <1>4, <2>2, <3>2 DEF SilenceInv, SilenceIsReal, Write
    <2> QED
      BY <1>4, <2>1, <2>2, FailedIsNotSilent DEF Write
  <1>5. CASE Flush
    <2>1. CASE Ticked("flush") /\ UNCHANGED progress
      BY <1>5, <2>1, TickedIsSilent DEF Flush, Busy
    <2>2. ASSUME NEW t \in Took, clock' = clock + t, MayArrive(clock'), Start("head", clock')
          PROVE  SilenceInv' /\ inbox' \in BOOLEAN /\ arrived' \in Nat
      <3>1. clock' \in Nat /\ clock <= clock'
        BY <2>2, CallTakes
      <3>2. inbox' \in BOOLEAN /\ arrived' \in Nat /\ arrived' <= clock'
        BY <1>1, <2>2, <3>1, MayArriveFacts
      <3>3. op' = "head" /\ progress' = clock' /\ ended' = ended
        BY <2>2 DEF Start
      <3> QED
        BY <1>1, <1>5, <3>2, <3>3 DEF SilenceInv, SilenceIsReal, Flush
    <2> QED
      BY <1>5, <2>1, <2>2, FailedIsNotSilent DEF Flush
  <1>6. CASE Read
    <2>1. CASE ~inbox /\ Ticked(op) /\ UNCHANGED progress
      BY <1>1, <1>6, <2>1, TickedIsSilent, Zenon DEF Read, Busy
    <2>2. ASSUME \/ clock' = clock /\ UNCHANGED arrived
                 \/ /\ \E t \in Took : clock' = clock + t
                    /\ arrived' = clock',
                 inbox' \in BOOLEAN, ReadOn(op, clock')
          PROVE  SilenceInv' /\ inbox' \in BOOLEAN /\ arrived' \in Nat
      <3>1. arrived' \in Nat /\ arrived' <= clock'
        <4>1. CASE clock' = clock /\ UNCHANGED arrived
          BY <1>1, <4>1
        <4>2. CASE (\E t \in Took : clock' = clock + t) /\ arrived' = clock'
          <5>1. clock' \in Nat
            BY <4>2, CallTakes
          <5> QED
            BY <4>2, <5>1
        <4> QED
          BY <2>2, <4>1, <4>2
      <3>2. /\ progress' = clock'
            /\ \/ op' # "done" /\ ended' = ended
               \/ op' = "done" /\ ended' = <<"complete", op>>
        BY <1>6, <2>2 DEF ReadOn, Start, Progressed, End, Read
      <3> QED
        BY <1>1, <1>6, <2>2, <3>1, <3>2 DEF SilenceInv, SilenceIsReal, Read
    <2> QED
      BY <1>6, <2>1, <2>2, FailedIsNotSilent DEF Read
  <1>7. CASE Expire
    <2>1. op' = "done" /\ ended' = <<"deadline", op>> /\ UNCHANGED <<clock, progress, inbox, arrived>>
      BY <1>7 DEF Expire, End, received
    <2> QED
      BY <1>1, <2>1 DEF SilenceInv, SilenceIsReal
  <1>8. CASE Pause
    <2>1. clock' \in Nat /\ clock <= clock'
      <3>1. PICK t \in 0 .. MaxPause : clock' = clock + t
        BY <1>8 DEF Pause
      <3> QED
        BY <1>1, <3>1, BudgetsAssumption
    <2>2. /\ op = "pause" /\ op' = "body" /\ UNCHANGED <<progress, ended>> /\ MayArrive(clock')
      BY <1>8 DEF Pause
    <2>3. /\ inbox' \in BOOLEAN /\ arrived' \in Nat /\ arrived' <= clock'
          /\ inbox' = FALSE => inbox = FALSE /\ arrived' = arrived
      BY <1>1, <2>1, <2>2, MayArriveFacts, Zenon
    <2> QED
      BY <1>1, <2>2, <2>3 DEF SilenceInv, SilenceIsReal
  <1>9. CASE Over
    BY <1>1, <1>9 DEF Over, allVars, received, SilenceInv, SilenceIsReal, LimitOf
  <1> QED
    BY <1>2, <1>3, <1>4, <1>5, <1>6, <1>7, <1>8, <1>9 DEF BudgetsNext, Call

\* Every byte of w is one of the request's, and is the first or the one after
\* its predecessor.
Chain(w) ==
    \A k \in DOMAIN w :
        /\ w[k] = IF k = 1 THEN <<1, 1>> ELSE After(w[k - 1])
        /\ w[k][1] \in DOMAIN request /\ w[k][2] \in 1 .. request[w[k][1]]

\* The request has a buffer, and every buffer of it a byte.
LEMMA RequestFacts ==
    ASSUME BudgetTypes
    PROVE  /\ request \in Seq(Nat \ {0}) /\ Len(request) \in Nat \ {0}
           /\ DOMAIN request = 1 .. Len(request)
           /\ \A p \in DOMAIN request : request[p] \in Nat \ {0}
  <1>1. request \in Seq(Nat \ {0}) /\ request # <<>>
    BY BudgetsAssumption DEF BudgetTypes
  <1>2. Len(request) \in Nat /\ DOMAIN request = 1 .. Len(request)
    BY <1>1, LenProperties
  <1>3. Len(request) # 0
    BY <1>1, EmptySeq
  <1>4. \A p \in DOMAIN request : request[p] \in Nat \ {0}
    BY <1>1, <1>2, ElementOfSeq
  <1> QED
    BY <1>1, <1>2, <1>3, <1>4

\* w is what was written and n bytes from position o of buffer p on.
Accepted(w, p, o, n) == w = wire \o [i \in 1 .. n |-> <<p, o + i>>]

\* The same, byte by byte.
Grown(w, p, o, n) ==
    /\ w \in Seq(Nat \X Nat) /\ Len(w) = Len(wire) + n /\ Len(wire) \in Nat
    /\ DOMAIN wire = 1 .. Len(wire) /\ DOMAIN w = 1 .. Len(wire) + n
    /\ \A k \in 1 .. Len(wire) : w[k] = wire[k]
    /\ \A k \in Len(wire) + 1 .. Len(wire) + n : w[k] = <<p, o + (k - Len(wire))>>

\* What a write that accepts some bytes leaves on the wire.
LEMMA AcceptFacts ==
    ASSUME BudgetTypes, NEW p \in Nat, NEW o \in Nat, NEW n \in Nat \ {0},
           NEW w, Accepted(w, p, o, n)
    PROVE  Grown(w, p, o, n)
  <1> DEFINE s == [i \in 1 .. n |-> <<p, o + i>>]
  <1>1. wire \in Seq(Nat \X Nat) /\ Len(wire) \in Nat /\ DOMAIN wire = 1 .. Len(wire)
    BY LenProperties DEF BudgetTypes
  <1>2. s \in Seq(Nat \X Nat) /\ Len(s) = n
    <2>1. \A i \in 1 .. n : s[i] \in Nat \X Nat
      OBVIOUS
    <2> QED
      BY <2>1, SeqDef, LenProperties
  <1>3. \A i \in 1 .. n : s[i] = <<p, o + i>>
    OBVIOUS
  <1>4. w = wire \o s
    BY DEF Accepted
  <1> HIDE DEF s
  <1>5. /\ w \in Seq(Nat \X Nat) /\ Len(w) = Len(wire) + n
        /\ \A k \in 1 .. Len(wire) + n : w[k] = IF k <= Len(wire) THEN wire[k] ELSE s[k - Len(wire)]
    <2>1. /\ wire \o s \in Seq(Nat \X Nat) /\ Len(wire \o s) = Len(wire) + Len(s)
          /\ \A k \in 1 .. Len(wire) + Len(s) :
                (wire \o s)[k] = IF k <= Len(wire) THEN wire[k] ELSE s[k - Len(wire)]
      BY <1>1, <1>2, ConcatProperties, Zenon
    <2> QED
      BY <1>2, <1>4, <2>1
  <1>6. DOMAIN w = 1 .. Len(wire) + n
    BY <1>5, LenProperties
  <1>7. \A k \in Len(wire) + 1 .. Len(wire) + n :
           k \in 1 .. Len(wire) + n /\ ~(k <= Len(wire)) /\ k - Len(wire) \in 1 .. n
    BY <1>1
  <1>8. \A k \in 1 .. Len(wire) : k \in 1 .. Len(wire) + n /\ k <= Len(wire)
    BY <1>1
  <1> QED
    BY <1>1, <1>3, <1>5, <1>6, <1>7, <1>8, Zenon DEF Grown

\* n more bytes of the buffer the write is in carry the chain on.
LEMMA ChainGrows ==
    ASSUME BudgetTypes, Chain(wire), NEW p \in DOMAIN request, NEW o \in Nat,
           NEW n \in Nat \ {0}, o + n <= request[p], Following = <<p, o + 1>>,
           NEW w, Grown(w, p, o, n)
    PROVE  Chain(w) /\ w # <<>> /\ w[Len(w)] = <<p, o + n>>
  <1>m. PICK m \in Nat : m = Len(wire)
    BY DEF Grown
  <1>w. /\ Len(w) = m + n /\ DOMAIN w = 1 .. m + n
        /\ \A k \in 1 .. m : w[k] = wire[k]
        /\ \A k \in m + 1 .. m + n : w[k] = <<p, o + (k - m)>>
    BY <1>m, Zenon DEF Grown
  <1>1. request[p] \in Nat /\ p \in Nat
    BY RequestFacts
  <1>2. wire \in Seq(Nat \X Nat) /\ DOMAIN wire = 1 .. m
    BY <1>m, LenProperties DEF BudgetTypes
  <1>3. ASSUME NEW k \in 1 .. m + n
        PROVE  /\ w[k] = IF k = 1 THEN <<1, 1>> ELSE After(w[k - 1])
               /\ w[k][1] \in DOMAIN request /\ w[k][2] \in 1 .. request[w[k][1]]
    <2>1. CASE k <= m
      <3>1. k \in 1 .. m /\ (k # 1 => k - 1 \in 1 .. m)
        BY <1>m, <2>1
      <3>2. k \in DOMAIN wire /\ w[k] = wire[k] /\ (k # 1 => w[k - 1] = wire[k - 1])
        BY <1>2, <1>w, <3>1, Zenon
      <3> QED
        BY <3>2 DEF Chain
    <2>2. CASE k = m + 1
      <3>1. w[k] = <<p, o + 1>>
        <4>1. k \in m + 1 .. m + n /\ o + (k - m) = o + 1
          BY <2>2
        <4> QED
          BY <1>w, <4>1
      <3>2. o + 1 \in 1 .. request[p]
        BY <1>1
      <3>3. CASE m = 0
        <4>1. wire = <<>>
          BY <1>2, <1>m, <3>3, EmptySeq
        <4> QED
          BY <2>2, <3>1, <3>2, <3>3, <4>1 DEF Following
      <3>4. CASE m # 0
        <4>1. wire # <<>>
          BY <1>2, <3>4
        <4>2. k # 1 /\ w[k - 1] = wire[m]
          <5>1. k # 1 /\ k - 1 = m /\ m \in 1 .. m
            BY <2>2, <3>4
          <5> QED
            BY <1>w, <5>1
        <4>3. After(w[k - 1]) = <<p, o + 1>>
          BY <1>m, <4>1, <4>2, Zenon DEF Following
        <4> QED
          BY <3>1, <3>2, <4>2, <4>3
      <3> QED
        BY <3>3, <3>4
    <2>3. CASE k > m + 1
      <3>1. w[k] = <<p, o + (k - m)>> /\ w[k - 1] = <<p, o + (k - 1 - m)>> /\ k # 1
        BY <1>w, <2>3
      <3>2. /\ o + (k - 1 - m) # request[p] /\ o + (k - m) \in 1 .. request[p]
            /\ o + (k - 1 - m) + 1 = o + (k - m)
        BY <1>1, <2>3
      <3> QED
        BY <3>1, <3>2 DEF After
    <2> QED
      BY <2>1, <2>2, <2>3
  <1>4. w # <<>> /\ w[Len(w)] = <<p, o + n>>
    <2>1. m + n \in m + 1 .. m + n /\ m + n \in 1 .. m + n /\ o + (m + n - m) = o + n
      OBVIOUS
    <2> QED
      BY <1>w, <2>1
  <1> QED
    BY <1>3, <1>4, <1>w DEF Chain

\* While nothing is accepted, what was written is what was written.
LEMMA SentRests ==
    ASSUME BudgetTypes, SentInv, UNCHANGED <<wire, request>>,
           op' \in {"flush", "head", "body", "pause"} => op \in {"flush", "head", "body", "pause"},
           op' = "write" => op = "write" /\ off' = off
    PROVE  SentInv'
  <1>1. Piece' = Piece /\ Following' = Following
    BY DEF Piece, Following, After
  <1>2. WritesOnce'
    BY DEF SentInv, WritesOnce, After
  <1> QED
    BY <1>1, <1>2 DEF SentInv

\* The peer accepts n bytes of what is left of the buffer.
Accept(n) ==
    /\ op = "write" /\ n \in 1 .. request[Piece] - off /\ request' = request
    /\ wire' = wire \o [i \in 1 .. n |-> <<Piece, off + i>>]
    /\ IF off + n < request[Piece] THEN off' = off + n /\ UNCHANGED op
       ELSE off' = 0 /\ op' = IF Piece = Len(request) THEN "flush" ELSE "write"

\* What it accepts follows what it had, and the write goes on where that ends.
LEMMA AcceptStep ==
    ASSUME BudgetTypes, SentInv, NEW n, Accept(n)
    PROVE  SentInv' /\ off' \in Nat /\ wire' \in Seq(Nat \X Nat)
  <1>1. PICK p \in DOMAIN request : p = Piece
    BY DEF SentInv, Accept
  <1>2. PICK o \in Nat : o = off
    BY DEF BudgetTypes
  <1>3. /\ request[p] \in Nat \ {0} /\ p \in Nat \ {0} /\ o < request[p]
        /\ Following = <<p, o + 1>>
        /\ DOMAIN request = 1 .. Len(request) /\ Len(request) \in Nat \ {0}
    BY <1>1, <1>2, RequestFacts DEF SentInv, Accept
  <1>4. n \in Nat \ {0} /\ o + n <= request[p]
    BY <1>1, <1>2, <1>3 DEF Accept
  <1>5. PICK w : w = wire'
    OBVIOUS
  <1>6. Accepted(w, p, o, n)
    BY <1>1, <1>2, <1>5 DEF Accept, Accepted
  <1>7. Grown(w, p, o, n)
    BY <1>3, <1>4, <1>6, AcceptFacts
  <1>8. w \in Seq(Nat \X Nat)
    BY <1>7 DEF Grown
  <1>9. Chain(wire)
    BY DEF SentInv, WritesOnce, Chain
  <1>10. Chain(w) /\ w # <<>> /\ w[Len(w)] = <<p, o + n>>
    BY <1>3, <1>4, <1>7, <1>9, ChainGrows
  <1>12. /\ \A k \in DOMAIN wire' : /\ wire'[k][1] \in DOMAIN request'
                                    /\ wire'[k][2] \in 1 .. request'[wire'[k][1]]
         /\ \A k \in DOMAIN wire' : /\ wire'[k] = IF k = 1 THEN <<1, 1>> ELSE After(wire'[k - 1])
                                    /\ wire'[k][1] <= Len(request)
    <2>1. \A k \in DOMAIN w : /\ w[k][1] \in DOMAIN request /\ w[k][2] \in 1 .. request[w[k][1]]
                              /\ w[k] = IF k = 1 THEN <<1, 1>> ELSE After(w[k - 1])
      BY <1>10 DEF Chain
    <2>2. \A k \in DOMAIN w : w[k][1] <= Len(request)
      BY <1>3, <2>1
    <2>3. request' = request
      BY DEF Accept
    <2> QED
      BY <1>5, <2>1, <2>2, <2>3
  <1>14. Following' = After(<<p, o + n>>) /\ Piece' = After(<<p, o + n>>)[1]
    BY <1>5, <1>10, Zenon DEF Following, Piece, After, Accept
  <1>15. CASE o + n < request[p]
    <2>1. off' = o + n /\ op' = "write"
      BY <1>1, <1>2, <1>15 DEF Accept
    <2>2. After(<<p, o + n>>) = <<p, o + n + 1>>
      BY <1>3, <1>4, <1>15 DEF After
    <2>3. WritesOnce'
      BY <1>12, <2>1, Zenon DEF WritesOnce, After, Accept
    <2> QED
      <3>1. Piece' = p /\ Following' = <<p, off' + 1>> /\ off' \in Nat
        BY <1>2, <1>4, <1>14, <2>1, <2>2
      <3>2. Piece' \in DOMAIN request' /\ off' < request'[Piece']
        BY <1>15, <2>1, <3>1 DEF Accept
      <3> QED
        BY <1>5, <1>8, <1>12, <2>3, <3>1, <3>2 DEF SentInv
  <1>16. CASE ~(o + n < request[p])
    <2>1. off' = 0 /\ op' = IF p = Len(request) THEN "flush" ELSE "write"
      BY <1>1, <1>2, <1>16 DEF Accept
    <2>2. After(<<p, o + n>>) = <<p + 1, 1>>
      <3>1. o + n = request[p]
        BY <1>3, <1>4, <1>16
      <3> QED
        BY <3>1 DEF After
    <2>3. After(wire'[Len(wire')]) = <<p + 1, 1>> /\ wire' # <<>>
      BY <1>5, <1>10, <2>2
    <2>4. WritesOnce'
      BY <1>12, <2>1, <2>3, ZenonT(30) DEF WritesOnce, After, Accept
    <2>5. p # Len(request) => p + 1 \in DOMAIN request /\ 0 < request[p + 1]
      BY <1>3, RequestFacts
    <2> QED
      <3>1. Piece' = p + 1 /\ Following' = <<p + 1, off' + 1>>
        BY <1>14, <2>1, <2>2
      <3>2. op' = "write" => Piece' \in DOMAIN request' /\ off' < request'[Piece']
        BY <2>1, <2>5, <3>1 DEF Accept
      <3> QED
        BY <1>5, <1>8, <1>12, <2>1, <2>4, <3>1, <3>2 DEF SentInv
  <1> QED
    BY <1>15, <1>16

\* The wire only changes by what the peer accepts.
LEMMA SentStep ==
    ASSUME BudgetTypes, DialPart, SentInv, BudgetsNext
    PROVE  SentInv' /\ off' \in Nat /\ wire' \in Seq(Nat \X Nat)
  <1>1. off \in Nat /\ wire \in Seq(Nat \X Nat) /\ op \in Doing
    BY DEF BudgetTypes
  <1>2. CASE Begin
    <2>1. /\ wire = <<>> /\ off = 0 /\ UNCHANGED <<wire, off, request>>
          /\ op' \in {"done", "write"}
      BY <1>2 DEF Begin, DialPart, sent, exchange, Start, End
    <2>2. Piece' = 1 /\ Following' = <<1, 1>>
      BY <2>1 DEF Piece, Following
    <2>3. 1 \in DOMAIN request /\ 0 < request[1]
      BY RequestFacts
    <2>4. WritesOnce'
      BY <2>1 DEF WritesOnce
    <2> QED
      BY <1>1, <2>1, <2>2, <2>3, <2>4 DEF SentInv
  <1>3. CASE Write
    <2>1. op = "write" /\ request' = request
      BY <1>3 DEF Write, exchange
    <2>2. CASE \E n \in 1 .. request[Piece] - off : Accept(n)
      BY <2>2, AcceptStep
    <2>3. CASE op' \in {op, "done"} /\ UNCHANGED <<off, wire>>
      BY <1>1, <2>1, <2>3, SentRests
    <2> QED
      BY <1>3, <2>1, <2>2, <2>3, Zenon DEF Write, Accept, Ticked, Failed, End, Resume, sent
  <1>4. CASE UNCHANGED <<wire, off, request>> /\ op \in {"flush", "head", "body", "pause"}
             /\ op' \in {"flush", "head", "body", "pause", "done"}
    BY <1>1, <1>4, SentRests
  <1>5. CASE UNCHANGED <<wire, off, request>> /\ op' \in {op, "done"}
    BY <1>1, <1>5, SentRests
  <1> QED
    BY <1>2, <1>3, <1>4, <1>5, Zenon DEF BudgetsNext, Call, Dial, Flush, Read, Expire, Pause,
       Over,
          Ticked, Failed, End, Start, ReadOn, sent, exchange, allVars

\* Every step keeps the types of what the three rest on.
LEMMA BudgetTypeStep == ASSUME BudgetInv, BudgetsNext PROVE BudgetTypes'
  <1>1. BudgetTypes /\ DialPart /\ SilenceInv /\ SentInv
    BY DEF BudgetInv
  <1>2. /\ off' \in Nat /\ wire' \in Seq(Nat \X Nat) /\ inbox' \in BOOLEAN /\ arrived' \in Nat
    BY <1>1, SentStep, SilenceStep
  <1>3. UNCHANGED exchange
    BY DEF BudgetsNext, Call, Dial, Begin, Write, Flush, Read, Expire, Pause, Over, allVars
  <1>4. ASSUME clock' \in Nat, began' \in Nat, progress' \in Nat, op' \in Doing
        PROVE  BudgetTypes'
    BY <1>1, <1>2, <1>3, <1>4 DEF BudgetTypes, exchange
  <1>5. clock \in Nat /\ began \in Nat /\ progress \in Nat /\ op \in Doing
    BY <1>1 DEF BudgetTypes
  <1>6. CASE Turn
    BY <1>4, <1>5, <1>6 DEF Turn, Ticks, Doing
  <1>7. CASE Begin
    <2>1. now \in Nat
      BY <1>1, Zenon DEF DialPart, DialInv, TypeOK
    <2> QED
      BY <1>4, <1>5, <1>7, <2>1 DEF Begin, Start, End, Doing
  <1>8. CASE Pause
    <2>1. PICK t \in 0 .. MaxPause : clock' = clock + t
      BY <1>8 DEF Pause
    <2>2. clock' \in Nat
      BY <1>5, <2>1, BudgetsAssumption
    <2> QED
      BY <1>4, <1>5, <1>8, <2>2 DEF Pause, Doing
  <1>9. CASE Dial \/ Expire \/ Over
    BY <1>4, <1>5, <1>9 DEF Dial, Expire, Over, End, Doing, allVars
  <1> QED
    BY <1>1, <1>6, <1>7, <1>8, <1>9, WriteTurns, FlushTurns, ReadTurns DEF BudgetsNext, Call

-----------------------------------------------------------------------------

\* The dial is about to start and nothing was written or read.
LEMMA InitBudget == BudgetsInit => BudgetInv
  <1> SUFFICES ASSUME BudgetsInit PROVE BudgetInv
    OBVIOUS
  <1>1. BudgetTypes
    <2>1. <<>> \in Seq(Nat \X Nat)
      BY EmptySeq
    <2> QED
      BY <2>1, BudgetsAssumption, DialerAssumption, Zenon DEF BudgetsInit, BudgetTypes, Doing
  <1>2. DialPart
    <2>1. DialInv
      BY DialInit DEF BudgetsInit
    <2>2. PICK connect \in ConnectTimeouts : expires = Sooner(total, connect)
      BY DEF BudgetsInit
    <2>3. total # NEVER => expires # NEVER /\ expires <= total
      BY <1>1, <2>2, SoonerIsSooner, DialerAssumption DEF BudgetTypes
    <2> QED
      BY <2>1, <2>3 DEF DialPart, BudgetsInit
  <1>3. EndsInTime
    BY <1>1, StepFacts DEF EndsInTime, Busy, BudgetsInit, BudgetTypes
  <1>4. SilenceInv /\ SentInv
    BY DEF SilenceInv, SilenceIsReal, SentInv, WritesOnce, BudgetsInit
  <1> QED
    BY <1>1, <1>2, <1>3, <1>4 DEF BudgetInv

\* No step breaks them together.
LEMMA BudgetStep == BudgetInv /\ [BudgetsNext]_allVars => BudgetInv'
  <1> SUFFICES ASSUME BudgetInv, [BudgetsNext]_allVars PROVE BudgetInv'
    OBVIOUS
  <1>1. CASE BudgetsNext
    BY <1>1, BudgetTypeStep, InTimeStep, SilenceStep, SentStep DEF BudgetInv
  <1>2. CASE UNCHANGED allVars
    <2>2. /\ UNCHANGED <<total, streamed, timeout, request, op, clock, began, progress, off, wire>>
          /\ UNCHANGED <<inbox, arrived, ended, vars, resolved, expires>>
      BY <1>2 DEF allVars, vars, exchange, sent, received
    <2>3. BudgetTypes'
      BY <2>2 DEF BudgetInv, BudgetTypes
    <2>4. DialInv'
      BY <2>2, DialStep DEF BudgetInv, DialPart
    <2>5. DialPart'
      BY <2>2, <2>4 DEF BudgetInv, DialPart
    <2>6. EndsInTime' /\ SilenceInv'
      BY <2>2 DEF BudgetInv, EndsInTime, Busy, LimitOf, Step, SilenceInv, SilenceIsReal
    <2>7. SentInv'
      BY <2>2, SentRests DEF BudgetInv
    <2> QED
      BY <2>3, <2>5, <2>6, <2>7 DEF BudgetInv
  <1> QED
    BY <1>1, <1>2

\* The inductive invariant holds in every reachable state.
THEOREM BudgetInvariant == BudgetsSpec => []BudgetInv
  BY InitBudget, BudgetStep, PTL DEF BudgetsSpec

\* One total covers the dial, the write, the head and a collected body, and is
\* outlived by a tick at most; without one, no call goes on for longer than its
\* silence limit and a tick after it began or last made progress.
THEOREM ExchangeEndsInTime == BudgetsSpec => []EndsInTime
  <1>1. BudgetInv => EndsInTime
    BY DEF BudgetInv
  <1> QED
    BY <1>1, BudgetInvariant, PTL

\* When SilenceBudget::read gives up, no byte arrived for the whole limit,
\* although last_progress stands still while the caller of a stream is away.
THEOREM SilenceWasReal == BudgetsSpec => []SilenceIsReal
  <1>1. BudgetInv => SilenceIsReal
    BY DEF BudgetInv, SilenceInv
  <1> QED
    BY <1>1, BudgetInvariant, PTL

\* The peer gets the bytes of the request once and in order, however it splits
\* them and however many ticks come between, and all of them before anything
\* is read.
THEOREM RequestWrittenOnce == BudgetsSpec => []WritesOnce
  <1>1. BudgetInv => WritesOnce
    BY DEF BudgetInv, SentInv
  <1> QED
    BY <1>1, BudgetInvariant, PTL

\* The dial an exchange makes is past its deadline only inside the resolver.
THEOREM ExchangeDialIsBounded == BudgetsSpec => []DialEndsInTime
  <1>1. BudgetInv => DialEndsInTime
    BY DEF BudgetInv, DialPart, DialInv
  <1> QED
    BY <1>1, BudgetInvariant, PTL
=============================================================================
