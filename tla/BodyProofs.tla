----------------------------- MODULE BodyProofs -----------------------------
(***************************************************************************)
(* The bytes a response's body is read as, for every body length, every    *)
(* surplus, every buffer size and every limit: the two readers give the    *)
(* body that was sent, and hand the connection back only at its end.  Both *)
(* hold of a consumer that stops at an error (Retries = FALSE); one that   *)
(* reads again is given bytes that never were on the connection.           *)
(***************************************************************************)
EXTENDS ResponseBody, TLAPS, SequenceTheorems

\* What the provers may take for a leaf.
USE SMTT(30), ZenonT(30)

\* What the variables hold.
BodyTypes ==
    /\ framing \in Framing
    /\ taken \in Nat /\ pulled \in Nat
    /\ keep \in BOOLEAN /\ dirty \in BOOLEAN
    /\ done \in BOOLEAN /\ failed \in BOOLEAN
    /\ raw \in Seq(Nat) /\ rawPos \in Nat /\ delivered \in Seq(Nat)
    /\ max_body \in Nat
    /\ result \in {"new", "reading", "ok", "error"}
    /\ input \in Seq(Nat) /\ body \in Seq(Nat)
    /\ reusable \in BOOLEAN

\* The bytes of s are the first ones of the body, and as many as the units
\* decoded so far carry.
IsBody(s) ==
    /\ \A i \in 1 .. Len(s) : s[i] = DataUnit(i)
    /\ IF framing = "Chunked" THEN taken = 2 * Len(s) \/ taken = 2 * Len(s) + 1
       ELSE taken = Len(s)

\* What buf holds past pos is what follows the units decoded so far, up to the
\* last one taken off the connection.
Continues(buf, pos) ==
    /\ pos <= Len(buf)
    /\ \A k \in 1 .. Len(buf) : k > pos => buf[k] = taken + (k - pos)
    /\ pulled = taken + (Len(buf) - pos)

\* The streaming reader: until it fails, its buffer continues what it decoded;
\* the flag is cleared by finish alone.
StreamInv ==
    /\ result = "new" /\ body = <<>>
    /\ IsBody(delivered)
    /\ done \/ failed \/ Continues(raw, rawPos)
    /\ ~done => dirty = TRUE

\* The collector while it reads, with what each framing has checked so far.
ReadingInv ==
    /\ IsBody(body)
    /\ Continues(input, 0)
    /\ framing # "None"
    /\ Len(body) <= max_body
    /\ framing = "ContentLength" => input = <<>> /\ taken < BodyLen /\ BodyLen <= max_body
    /\ framing = "UntilClose" => input = <<>> /\ reusable = FALSE

\* The collector: nothing is decoded before read starts, and the flag is set
\* until the body is whole.
CollectInv ==
    /\ delivered = <<>>
    /\ result = "new" => taken = 0 /\ body = <<>> /\ Continues(input, 0)
    /\ result = "reading" => ReadingInv
    /\ result # "ok" => dirty = TRUE

BodyInv ==
    /\ BodyTypes
    /\ reader \in {"stream", "collect"}
    /\ reader = "stream" => StreamInv
    /\ reader = "collect" => CollectInv
    /\ ReturnsTheBody
    /\ CleanMeansExact

USE FramingAssumption, CollectorAssumption

\* A read of n units that follows p others: what BodyCollector and
\* StreamingBody take off the connection at once.
LEMMA UnitsRead ==
    ASSUME NEW p \in Nat, NEW n \in Nat
    PROVE  /\ Units(p + 1, p + n) \in Seq(Nat)
           /\ Len(Units(p + 1, p + n)) = n
           /\ \A k \in 1 .. n : Units(p + 1, p + n)[k] = p + k
<1>1. Units(p + 1, p + n) = [i \in 1 .. n |-> p + i]
  <2>1. (p + n) - (p + 1) + 1 = n
    OBVIOUS
  <2>2. \A i \in 1 .. n : (p + 1) + i - 1 = p + i
    OBVIOUS
  <2> QED  BY <2>1, <2>2 DEF Units
<1>2. \A i \in 1 .. n : p + i \in Nat
  OBVIOUS
<1>3. [i \in 1 .. n |-> p + i] \in [1 .. n -> Nat]
  BY <1>2
<1> QED  BY <1>1, <1>3

\* The tail of the head read, which is the first content of either buffer.
LEMMA UnitsTail ==
    ASSUME NEW n \in Nat
    PROVE  /\ Units(1, n) \in Seq(Nat)
           /\ Len(Units(1, n)) = n
           /\ \A k \in 1 .. n : Units(1, n)[k] = k
<1>1. Units(1, n) = Units(0 + 1, 0 + n)
  OBVIOUS
<1>2. \A k \in 1 .. n : 0 + k = k
  OBVIOUS
<1> QED  BY <1>1, <1>2, UnitsRead

\* Where a response ends, by its framing (BodyFraming).
LEMMA LastUnitIs ==
    ASSUME framing \in Framing
    PROVE  /\ LastUnit \in Nat
           /\ framing = "None" => LastUnit = 0
           /\ framing \in {"ContentLength", "UntilClose"} => LastUnit = BodyLen
           /\ framing = "Chunked" => LastUnit = 2 * BodyLen + 1
BY DEF LastUnit, Framing

\* Either reader starts with the tail of the head read and nothing decoded.
LEMMA InitBody == Init => BodyInv
<1> SUFFICES ASSUME Init PROVE BodyInv
  OBVIOUS
<1> USE DEF Init, ResponseInit, StreamInit, CollectorInit
<1>1. pulled \in Nat /\ taken = 0 /\ framing \in Framing
  OBVIOUS
<1>2. BodyTypes
  <2>1. raw \in Seq(Nat) /\ input \in Seq(Nat)
    BY <1>1, UnitsTail
  <2>2. dirty \in BOOLEAN /\ done \in BOOLEAN /\ failed \in BOOLEAN /\ keep \in BOOLEAN
    BY Zenon DEF StreamDirty
  <2> QED  BY <1>1, <2>1, <2>2 DEF BodyTypes
<1>3. Continues(raw, rawPos) /\ Continues(input, 0)
  BY <1>1, UnitsTail DEF Continues
<1>4. IsBody(<<>>)
  BY <1>1 DEF IsBody
<1>5. reader = "stream" => StreamInv
  BY <1>3, <1>4, Zenon DEF StreamInv, StreamDirty
<1>6. reader = "collect" => CollectInv
  BY <1>1, <1>3, Zenon DEF CollectInv
<1>7. ReturnsTheBody
  BY DEF ReturnsTheBody
<1>8. CleanMeansExact
  BY <1>1, LastUnitIs, Zenon DEF CleanMeansExact, StreamDirty
<1> QED  BY <1>2, <1>5, <1>6, <1>7, <1>8 DEF BodyInv

\* The position of a byte of the body depends on the framing alone, and the
\* framing never changes.
LEMMA SameFraming ==
    ASSUME UNCHANGED framing
    PROVE  (\A i : DataUnit(i)' = DataUnit(i)) /\ LastUnit' = LastUnit
BY DEF DataUnit, LastUnit

\* A step that changes nothing keeps the invariant.
LEMMA IdleBody == BodyInv /\ UNCHANGED vars => BodyInv'
<1> SUFFICES ASSUME BodyInv, UNCHANGED vars PROVE BodyInv'
  OBVIOUS
<1> USE DEF vars, responseVars, streamVars, collectorVars
<1>1. /\ UNCHANGED <<reader, framing, taken, pulled, keep, dirty, done, raw, rawPos, failed>>
      /\ UNCHANGED <<delivered, max_body, result, input, body, reusable>>
  OBVIOUS
<1>2. (\A i : DataUnit(i)' = DataUnit(i)) /\ LastUnit' = LastUnit
  BY <1>1, SameFraming
<1>3. BodyTypes'
  BY <1>1 DEF BodyInv, BodyTypes
<1>4. ReturnsTheBody' /\ CleanMeansExact'
  BY <1>1, <1>2 DEF BodyInv, ReturnsTheBody, CleanMeansExact
<1>5. (IsBody(delivered) => IsBody(delivered)') /\ (IsBody(body) => IsBody(body)')
  BY <1>1, <1>2 DEF IsBody
<1>6. (Continues(raw, rawPos) => Continues(raw, rawPos)') /\ (Continues(input, 0) => Continues(input, 0)')
  BY <1>1 DEF Continues
<1>7. StreamInv => StreamInv'
  BY <1>1, <1>5, <1>6 DEF StreamInv
<1>8. CollectInv => CollectInv'
  BY <1>1, <1>5, <1>6 DEF CollectInv, ReadingInv
<1> QED  BY <1>1, <1>3, <1>4, <1>7, <1>8 DEF BodyInv

\* The next byte of the body, added when its unit is decoded; a unit that only
\* delimits adds none (Take, Decode).
LEMMA BodyGrows ==
    ASSUME BodyTypes, UNCHANGED framing, taken' = taken + 1,
           NEW s \in Seq(Nat), IsBody(s),
           NEW t, t = IF IsData(taken + 1) THEN Append(s, taken + 1) ELSE s
    PROVE  /\ t \in Seq(Nat)
           /\ \A i \in 1 .. Len(t) : t[i] = DataUnit(i)
           /\ IF framing = "Chunked" THEN taken + 1 = 2 * Len(t) \/ taken + 1 = 2 * Len(t) + 1
              ELSE taken + 1 = Len(t)
<1>1. taken \in Nat /\ Len(s) \in Nat
  BY DEF BodyTypes
<1>2. CASE framing # "Chunked"
  <2>1. t = Append(s, taken + 1) /\ taken = Len(s)
    BY <1>2 DEF IsData, IsBody
  <2> QED  BY <1>1, <1>2, <2>1 DEF DataUnit, IsBody
<1>3. CASE framing = "Chunked" /\ taken = 2 * Len(s) + 1
  <2>1. (taken + 1) % 2 = 0
    BY <1>1, <1>3
  <2>2. t = Append(s, taken + 1)
    BY <1>3, <2>1 DEF IsData
  <2>3. Len(t) = Len(s) + 1 /\ t \in Seq(Nat)
    BY <1>1, <2>2
  <2>4. taken + 1 = 2 * (Len(s) + 1)
    BY <1>1, <1>3
  <2>5. \A i \in 1 .. Len(t) : t[i] = DataUnit(i)
    <3> SUFFICES ASSUME NEW i \in 1 .. Len(t) PROVE t[i] = 2 * i
      BY <1>3 DEF DataUnit
    <3>1. CASE i \in 1 .. Len(s)
      BY <1>3, <2>2, <3>1 DEF DataUnit, IsBody
    <3>2. CASE i = Len(s) + 1
      BY <2>2, <2>4, <3>2
    <3> QED  BY <1>1, <2>3, <3>1, <3>2
  <2> QED  BY <1>3, <2>3, <2>4, <2>5
<1>4. CASE framing = "Chunked" /\ taken = 2 * Len(s)
  <2>1. (taken + 1) % 2 # 0
    BY <1>1, <1>4
  <2>2. t = s
    BY <1>4, <2>1 DEF IsData
  <2> QED  BY <1>1, <1>4, <2>2 DEF IsBody
<1> QED  BY <1>2, <1>3, <1>4 DEF IsBody

\* refill: what is read continues what was decoded; the end of the connection
\* and an error leave the flag set.
LEMMA RefillBody ==
    ASSUME Retries = FALSE, BodyInv, reader = "stream", Refill, UNCHANGED <<reader, collectorVars>>
    PROVE  BodyInv'
<1>1. /\ UNCHANGED <<reader, framing, taken, keep, dirty, delivered>>
      /\ UNCHANGED <<max_body, result, input, body, reusable>>
  BY DEF Refill, collectorVars
<1>2. BodyTypes /\ StreamInv
  BY DEF BodyInv
<1>3. done = FALSE /\ failed = FALSE /\ rawPos = Len(raw)
  BY <1>2 DEF Refill, Reading, BodyTypes
<1>4. pulled = taken /\ dirty = TRUE
  <2>1. Continues(raw, rawPos) /\ dirty = TRUE
    BY <1>2, <1>3 DEF StreamInv
  <2> QED  BY <1>2, <1>3, <2>1 DEF Continues, BodyTypes
<1>5. IsBody(delivered)'
  BY <1>1, <1>2, SameFraming DEF StreamInv, IsBody
<1>6. /\ raw' \in Seq(Nat) /\ rawPos' \in Nat /\ pulled' \in Nat
      /\ done' \in BOOLEAN /\ failed' \in BOOLEAN
      /\ done' = TRUE \/ failed' = TRUE \/ Continues(raw, rawPos)'
  <2>1. CASE \E n \in 1 .. HEAD_BUF_SIZE :
                /\ raw' = Units(pulled + 1, pulled + n) /\ rawPos' = 0
                /\ pulled' = pulled + n
                /\ failed' = FALSE /\ UNCHANGED done
    <3> PICK n \in 1 .. HEAD_BUF_SIZE :
                /\ raw' = Units(pulled + 1, pulled + n) /\ rawPos' = 0
                /\ pulled' = pulled + n
                /\ failed' = FALSE /\ UNCHANGED done
      BY <2>1
    <3>1. n \in Nat /\ pulled \in Nat /\ taken \in Nat
      BY <1>2 DEF BodyTypes
    <3>2. raw' \in Seq(Nat) /\ Len(raw') = n /\ \A k \in 1 .. n : raw'[k] = pulled + k
      BY <3>1, UnitsRead, Zenon
    <3>3. Continues(raw, rawPos)'
      BY <1>1, <1>4, <3>1, <3>2 DEF Continues
    <3>4. pulled' \in Nat /\ rawPos' \in Nat
      BY <3>1
    <3>5. done' \in BOOLEAN /\ failed' \in BOOLEAN
      BY <1>2, Zenon DEF BodyTypes
    <3> QED  BY <3>2, <3>3, <3>4, <3>5
  <2>2. CASE /\ raw' = <<>> /\ rawPos' = 0
             /\ done' = (framing = "UntilClose")
             /\ failed' = ~done'
             /\ UNCHANGED pulled
    <3>1. raw' \in Seq(Nat) /\ rawPos' \in Nat /\ pulled' \in Nat
      BY <1>2, <2>2 DEF BodyTypes
    <3>2. done' \in BOOLEAN /\ failed' \in BOOLEAN /\ (done' = TRUE \/ failed' = TRUE)
      BY <2>2, Zenon
    <3> QED  BY <3>1, <3>2
  <2>3. CASE raw' = Resized /\ failed' = TRUE /\ UNCHANGED <<rawPos, pulled, done>>
    <3>1. Resized \in Seq(Nat)
      <4> DEFINE fill == [i \in 1 .. HEAD_BUF_SIZE - Len(raw) |-> FILL]
      <4>1. raw \in Seq(Nat) /\ Len(raw) \in Nat
        BY <1>2 DEF BodyTypes
      <4>2. fill \in Seq(Nat)
        <5>1. CASE HEAD_BUF_SIZE >= Len(raw)
          <6>1. HEAD_BUF_SIZE - Len(raw) \in Nat
            BY <4>1, <5>1
          <6> QED  BY <6>1 DEF FILL
        <5>2. CASE HEAD_BUF_SIZE < Len(raw)
          <6>1. 1 .. HEAD_BUF_SIZE - Len(raw) = 1 .. 0
            BY <4>1, <5>2
          <6> QED  BY <6>1 DEF FILL
        <5> QED  BY <4>1, <5>1, <5>2
      <4>3. Resized = raw \o fill
        BY DEF Resized
      <4> HIDE DEF fill
      <4> QED  BY <4>1, <4>2, <4>3
    <3> QED  BY <1>2, <2>3, <3>1 DEF BodyTypes
  <2> QED  BY <2>1, <2>2, <2>3, Zenon DEF Refill
<1>7. BodyTypes'
  BY <1>1, <1>2, <1>6 DEF BodyTypes
<1>8. StreamInv'
  BY <1>1, <1>2, <1>4, <1>5, <1>6 DEF StreamInv
<1>9. ReturnsTheBody' /\ CleanMeansExact'
  BY <1>1, <1>2, <1>4 DEF StreamInv, ReturnsTheBody, CleanMeansExact
<1> QED  BY <1>1, <1>7, <1>8, <1>9 DEF BodyInv

\* Take: a reader that has not failed decodes the unit that follows those it
\* decoded before, and finish clears the flag only when the buffer ends with
\* the response.
LEMMA TakeBody ==
    ASSUME Retries = FALSE, BodyInv, reader = "stream", Take, UNCHANGED <<reader, collectorVars>>
    PROVE  BodyInv'
<1>1. /\ UNCHANGED <<reader, framing, raw, pulled, keep>>
      /\ UNCHANGED <<max_body, result, input, body, reusable>>
  BY DEF Take, collectorVars
<1>2. BodyTypes /\ StreamInv
  BY DEF BodyInv
<1>3. done = FALSE /\ failed = FALSE
  BY <1>2 DEF Take, Reading, BodyTypes
<1>4. Continues(raw, rawPos) /\ dirty = TRUE /\ IsBody(delivered)
  BY <1>2, <1>3 DEF StreamInv
<1>5. /\ rawPos \in Nat /\ taken \in Nat /\ Len(raw) \in Nat /\ rawPos < Len(raw)
      /\ delivered \in Seq(Nat) /\ pulled \in Nat
  BY <1>2 DEF BodyTypes, Take
<1>6. raw[rawPos + 1] = taken + 1
  BY <1>4, <1>5 DEF Continues
<1>7. raw[rawPos + 1] # FILL
  BY <1>5, <1>6 DEF FILL
<1> DEFINE last == framing # "UntilClose" /\ taken + 1 = LastUnit
<1>8. /\ delivered' = IF IsData(taken + 1) THEN Append(delivered, taken + 1) ELSE delivered
      /\ rawPos' = rawPos + 1 /\ taken' = taken + 1
      /\ done' = last /\ failed' = FALSE
      /\ IF last THEN Finish(rawPos', raw) ELSE UNCHANGED dirty
  BY <1>6, <1>7 DEF Take
<1>9. /\ delivered' \in Seq(Nat)
      /\ \A i \in 1 .. Len(delivered') : delivered'[i] = DataUnit(i)
      /\ IF framing = "Chunked"
         THEN taken + 1 = 2 * Len(delivered') \/ taken + 1 = 2 * Len(delivered') + 1
         ELSE taken + 1 = Len(delivered')
  <2> HIDE DEF last
  <2> QED  BY <1>1, <1>2, <1>4, <1>5, <1>8, BodyGrows, Zenon
<1>10. IsBody(delivered)'
  BY <1>1, <1>8, <1>9, SameFraming DEF IsBody
<1>11. Continues(raw, rawPos)'
  <2>1. rawPos' <= Len(raw) /\ rawPos' = rawPos + 1 /\ taken' = taken + 1
    BY <1>5, <1>8
  <2>2. \A k \in 1 .. Len(raw) : k > rawPos + 1 => raw[k] = (taken + 1) + (k - (rawPos + 1))
    BY <1>4, <1>5 DEF Continues
  <2>3. pulled = (taken + 1) + (Len(raw) - (rawPos + 1))
    BY <1>4, <1>5 DEF Continues
  <2> QED  BY <1>1, <2>1, <2>2, <2>3 DEF Continues
<1>12. dirty' \in BOOLEAN /\ done' \in BOOLEAN
  BY <1>2, <1>8, Zenon DEF Finish, BodyTypes
<1>13. BodyTypes'
  <2>1. rawPos' \in Nat /\ taken' \in Nat
    BY <1>5, <1>8
  <2> HIDE DEF last
  <2> QED  BY <1>1, <1>2, <1>8, <1>9, <1>12, <2>1, Zenon DEF BodyTypes
<1>14. dirty' = FALSE => keep /\ pulled = LastUnit /\ done' = TRUE
  <2> SUFFICES ASSUME dirty' = FALSE PROVE keep /\ pulled = LastUnit /\ done' = TRUE
    BY Zenon
  <2>1. last
    BY <1>4, <1>8, Zenon
  <2>2. keep /\ rawPos' = Len(raw)
    BY <1>8, <2>1, Zenon DEF Finish
  <2>3. pulled = taken + 1
    <3>1. Len(raw) = rawPos + 1
      BY <1>8, <2>2
    <3> QED  BY <1>4, <1>5, <3>1 DEF Continues
  <2> QED  BY <1>8, <2>1, <2>2, <2>3, Zenon
<1>15. StreamInv'
  <2>1. done' = FALSE => dirty' = TRUE
    BY <1>12, <1>14
  <2> HIDE DEF last
  <2> QED  BY <1>1, <1>2, <1>10, <1>11, <1>12, <2>1 DEF StreamInv
<1>16. CleanMeansExact'
  <2> HIDE DEF last
  <2> QED  BY <1>1, <1>12, <1>14, SameFraming DEF CleanMeansExact
<1>17. ReturnsTheBody'
  BY <1>1, <1>2 DEF StreamInv, ReturnsTheBody
<1> HIDE DEF last
<1> QED  BY <1>1, <1>13, <1>15, <1>16, <1>17 DEF BodyInv

\* What a step of the collector has to show: that the body goes on as it began,
\* that a body returned is whole, and that a connection reported reusable was
\* read to the end of the response.  Settle does the rest.
LEMMA CollectorStep ==
    ASSUME BodyInv, reader = "collect", result # "ok", Settle,
           UNCHANGED <<reader, streamVars, framing, max_body, keep>>,
           result' \in {"reading", "ok", "error"},
           taken' \in Nat, pulled' \in Nat, input' \in Seq(Nat), body' \in Seq(Nat),
           reusable' \in BOOLEAN,
           result' = "reading" => ReadingInv',
           ReturnsTheBody',
           result' = "ok" /\ reusable' = TRUE => pulled' = LastUnit
    PROVE  BodyInv'
<1>1. BodyTypes /\ CollectInv /\ dirty = TRUE
  BY DEF BodyInv, CollectInv
<1>2. UNCHANGED <<done, raw, rawPos, failed, delivered>>
  BY DEF streamVars
<1>3. dirty' \in BOOLEAN
  BY <1>1, Zenon DEF Settle, BodyTypes
<1>4. BodyTypes'
  BY <1>1, <1>2, <1>3 DEF BodyTypes
<1>5. result' # "ok" => dirty' = TRUE
  BY <1>1 DEF Settle
<1>6. CollectInv'
  BY <1>1, <1>2, <1>5 DEF CollectInv
<1>7. dirty' = FALSE => result' = "ok" /\ keep = TRUE /\ pulled' = LastUnit
  BY <1>1, <1>5, Zenon DEF Settle, BodyTypes
<1>8. CleanMeansExact'
  BY <1>3, <1>7, SameFraming DEF CleanMeansExact
<1> QED  BY <1>4, <1>6, <1>8 DEF BodyInv

\* read, up to its first read of the connection: the limit is checked before a
\* declared length is trusted, and the tail of the head read is taken.
LEMMA StartBody ==
    ASSUME BodyInv, reader = "collect", Start, Settle, UNCHANGED <<reader, streamVars>>
    PROVE  BodyInv'
<1>1. UNCHANGED <<reader, streamVars, framing, max_body, pulled, keep>> /\ result = "new"
  BY DEF Start
<1>2. /\ BodyTypes /\ taken = 0 /\ body = <<>>
      /\ Continues(input, 0)
  BY <1>1 DEF BodyInv, CollectInv
<1>3. /\ pulled = Len(input) /\ (\A k \in 1 .. Len(input) : input[k] = k)
      /\ input \in Seq(Nat) /\ Len(input) \in Nat /\ max_body \in Nat /\ pulled \in Nat
      /\ framing \in Framing /\ reusable \in BOOLEAN
  BY <1>2 DEF Continues, BodyTypes
<1>4. CASE framing = "None"
  <2>1. result' = "ok" /\ reusable' = (input = <<>>) /\ UNCHANGED <<input, taken, body>>
    BY <1>4 DEF Start, StartLength
  <2>2. ReturnsTheBody'
    BY <1>1, <1>2, <1>3, <1>4, <2>1 DEF ReturnsTheBody
  <2>3. reusable' = TRUE => pulled' = LastUnit
    BY <1>1, <1>3, <1>4, <2>1, LastUnitIs, Zenon
  <2>4. reusable' \in BOOLEAN
    BY <2>1, Zenon
  <2>5. taken' \in Nat /\ pulled' \in Nat /\ input' \in Seq(Nat) /\ body' \in Seq(Nat)
    BY <1>1, <1>2, <1>3, <2>1
  <2> QED  BY <1>1, <2>1, <2>2, <2>3, <2>4, <2>5, CollectorStep, Zenon
<1>5. CASE framing = "ContentLength" /\ BodyLen > max_body
  <2>1. result' = "error" /\ UNCHANGED <<input, taken, body, reusable>>
    BY <1>3, <1>5 DEF Start, StartLength
  <2>2. ReturnsTheBody'
    BY <2>1 DEF ReturnsTheBody
  <2> QED  BY <1>1, <1>2, <1>3, <2>1, <2>2, CollectorStep
<1>6. CASE framing = "ContentLength" /\ BodyLen <= max_body
  <2> DEFINE n == IF Len(input) < BodyLen THEN Len(input) ELSE BodyLen
  <2>1. /\ body' = SubSeq(input, 1, n) /\ taken' = n
        /\ result' = IF Len(input) < BodyLen THEN "reading" ELSE "ok"
        /\ input' = <<>> /\ reusable' = (Len(input) <= BodyLen)
    BY <1>3, <1>6 DEF Start, StartLength
  <2>2. n \in Nat /\ n <= Len(input) /\ n <= BodyLen
    BY <1>3
  <2>3. body' \in Seq(Nat) /\ Len(body') = n /\ \A i \in 1 .. n : body'[i] = i
    BY <1>3, <2>1, <2>2
  <2>4. \A i \in 1 .. Len(body') : body'[i] = DataUnit(i)'
    BY <1>1, <1>6, <2>3 DEF DataUnit
  <2>5. result' = "reading" => ReadingInv'
    <3> SUFFICES ASSUME result' = "reading" PROVE ReadingInv'
      OBVIOUS
    <3>1. Len(input) < BodyLen /\ n = Len(input)
      BY <2>1
    <3>2. IsBody(body)'
      BY <1>1, <1>6, <2>1, <2>3, <2>4 DEF IsBody
    <3>3. Continues(input, 0)'
      BY <1>1, <1>3, <2>1, <3>1 DEF Continues
    <3> QED  BY <1>1, <1>3, <1>6, <2>1, <2>2, <2>3, <3>1, <3>2, <3>3 DEF ReadingInv
  <2>6. ReturnsTheBody'
    BY <1>1, <1>3, <1>6, <2>1, <2>2, <2>3, <2>4 DEF ReturnsTheBody
  <2>7. result' = "ok" /\ reusable' = TRUE => pulled' = LastUnit
    <3> SUFFICES ASSUME result' = "ok", reusable' = TRUE PROVE pulled' = LastUnit
      OBVIOUS
    <3>1. Len(input) <= BodyLen
      BY <2>1, Zenon
    <3>2. ~(Len(input) < BodyLen)
      BY <2>1
    <3>3. pulled = BodyLen
      BY <1>3, <3>1, <3>2
    <3> QED  BY <1>1, <1>3, <1>6, <3>3, LastUnitIs
  <2>8. reusable' \in BOOLEAN /\ result' \in {"reading", "ok", "error"} /\ taken' \in Nat /\ input' \in Seq(Nat)
    BY <2>1, <2>2
  <2> HIDE DEF n
  <2> QED  BY <1>1, <1>3, <2>3, <2>5, <2>6, <2>7, <2>8, CollectorStep, Zenon
<1>7. CASE framing = "Chunked"
  <2>1. result' = "reading" /\ UNCHANGED <<input, taken, body, reusable>>
    BY <1>7 DEF Start, StartLength
  <2>2. IsBody(body)' /\ Continues(input, 0)'
    BY <1>1, <1>2, <2>1 DEF IsBody, Continues
  <2>3. ReadingInv'
    BY <1>1, <1>2, <1>3, <1>7, <2>1, <2>2 DEF ReadingInv
  <2>4. ReturnsTheBody'
    BY <2>1 DEF ReturnsTheBody
  <2> QED  BY <1>1, <1>2, <1>3, <2>1, <2>3, <2>4, CollectorStep
<1>8. CASE framing = "UntilClose"
  <2>1. /\ result' = IF Len(input) > max_body THEN "error" ELSE "reading"
        /\ body' = input /\ taken' = Len(input) /\ input' = <<>> /\ reusable' = FALSE
    BY <1>8 DEF Start, StartLength
  <2>2. \A i \in 1 .. Len(body') : body'[i] = DataUnit(i)'
    BY <1>1, <1>3, <1>8, <2>1 DEF DataUnit
  <2>3. IsBody(body)'
    BY <1>1, <1>8, <2>1, <2>2 DEF IsBody
  <2>4. Continues(input, 0)'
    BY <1>1, <1>3, <2>1 DEF Continues
  <2>5. result' = "reading" => ReadingInv'
    BY <1>1, <1>3, <1>8, <2>1, <2>3, <2>4 DEF ReadingInv
  <2>6. ReturnsTheBody'
    BY <2>1 DEF ReturnsTheBody
  <2>7. /\ result' \in {"reading", "ok", "error"} /\ input' \in Seq(Nat)
        /\ taken' \in Nat /\ pulled' \in Nat /\ body' \in Seq(Nat)
    BY <1>1, <1>3, <2>1
  <2> QED  BY <1>1, <2>1, <2>5, <2>6, <2>7, CollectorStep, Zenon
<1> QED  BY <1>3, <1>4, <1>5, <1>6, <1>7, <1>8 DEF Framing

\* A read: what it adds follows what was pulled before, a declared body is over
\* at its length, and the end of the connection ends a close-delimited one.
LEMMA ReadMoreBody ==
    ASSUME BodyInv, reader = "collect", ReadMore, Settle, UNCHANGED <<reader, streamVars>>
    PROVE  BodyInv'
<1>1. /\ UNCHANGED <<reader, streamVars, framing, max_body, keep, reusable>>
      /\ result = "reading" /\ input = <<>>
  BY DEF ReadMore
<1>2. BodyTypes /\ ReadingInv
  BY <1>1 DEF BodyInv, CollectInv
<1>3. /\ taken \in Nat /\ pulled \in Nat /\ max_body \in Nat /\ body \in Seq(Nat) /\ Len(body) \in Nat
      /\ framing \in {"ContentLength", "Chunked", "UntilClose"} /\ reusable \in BOOLEAN
      /\ framing \in Framing
  BY <1>2 DEF BodyTypes, ReadingInv, Framing
<1>4. pulled = taken
  BY <1>1, <1>2, <1>3 DEF ReadingInv, Continues
<1>5. CASE \E n \in 1 .. ReadSize :
              /\ pulled' = pulled + n
              /\ LET got == Units(pulled + 1, pulled + n)
                 IN IF framing = "Chunked"
                    THEN input' = got /\ UNCHANGED <<taken, body, result>>
                    ELSE /\ body' = body \o got /\ taken' = taken + n
                         /\ result' =
                              CASE framing = "ContentLength" /\ taken' = BodyLen -> "ok"
                                [] framing = "UntilClose" /\ Len(body') > max_body -> "error"
                                [] OTHER -> "reading"
                         /\ UNCHANGED input
  <2> DEFINE Got(n) == Units(pulled + 1, pulled + n)
             Ends(n) == CASE framing = "ContentLength" /\ taken' = BodyLen -> "ok"
                          [] framing = "UntilClose" /\ Len(body') > max_body -> "error"
                          [] OTHER -> "reading"
  <2> PICK n \in 1 .. ReadSize :
              /\ pulled' = pulled + n
              /\ IF framing = "Chunked"
                 THEN input' = Got(n) /\ UNCHANGED <<taken, body, result>>
                 ELSE /\ body' = body \o Got(n) /\ taken' = taken + n
                      /\ result' = Ends(n)
                      /\ UNCHANGED input
    BY <1>5, Zenon
  <2>1. n \in Nat /\ n > 0 /\ (framing = "ContentLength" => taken + n <= BodyLen)
    <3>1. ReadSize \in Int /\ (framing = "ContentLength" => ReadSize = BodyLen - taken)
      BY <1>3 DEF ReadSize
    <3> QED  BY <1>3, <3>1
  <2>2. Got(n) \in Seq(Nat) /\ Len(Got(n)) = n /\ \A k \in 1 .. n : Got(n)[k] = pulled + k
    BY <1>3, <2>1, UnitsRead, Zenon
  <2>3. pulled' \in Nat /\ pulled' = taken + n
    BY <1>3, <1>4, <2>1
  <2>4. CASE framing = "Chunked"
    <3>1. input' = Got(n) /\ UNCHANGED <<taken, body, result>>
      BY <2>4
    <3>2. Continues(input, 0)'
      BY <1>3, <1>4, <2>1, <2>2, <2>3, <3>1 DEF Continues
    <3>3. IsBody(body)'
      BY <1>1, <1>2, <3>1, SameFraming DEF ReadingInv, IsBody
    <3>4. ReadingInv'
      BY <1>1, <1>2, <2>4, <3>1, <3>2, <3>3 DEF ReadingInv
    <3>5. ReturnsTheBody'
      BY <1>1, <3>1 DEF ReturnsTheBody
    <3>6. input' \in Seq(Nat) /\ taken' \in Nat /\ body' \in Seq(Nat) /\ reusable' \in BOOLEAN /\ result' = "reading"
      BY <1>1, <1>3, <2>2, <3>1
    <3> QED  BY <1>1, <2>3, <3>4, <3>5, <3>6, CollectorStep
  <2>5. CASE framing # "Chunked"
    <3>1. body' = body \o Got(n) /\ taken' = taken + n /\ input' = <<>> /\ result' = Ends(n)
      BY <1>1, <2>5
    <3>2. taken = Len(body) /\ \A i \in 1 .. Len(body) : body[i] = i
      BY <1>2, <2>5 DEF ReadingInv, IsBody, DataUnit
    <3> HIDE DEF Got
    <3> HIDE DEF Ends
    <3>3. /\ body' \in Seq(Nat) /\ Len(body') = taken + n
          /\ \A i \in 1 .. taken + n : body'[i] = IF i <= Len(body) THEN body[i] ELSE Got(n)[i - Len(body)]
      <4>1. PICK g \in Seq(Nat) : g = Got(n)
        BY <2>2
      <4>2. body' = body \o g /\ Len(g) = n
        BY <2>2, <3>1, <4>1
      <4>3. /\ body \o g \in Seq(Nat) /\ Len(body \o g) = Len(body) + Len(g)
            /\ \A i \in 1 .. Len(body) + Len(g) :
                  (body \o g)[i] = IF i <= Len(body) THEN body[i] ELSE g[i - Len(body)]
        BY <1>3, ConcatProperties
      <4> QED  BY <3>2, <4>1, <4>2, <4>3
    <3> USE DEF Ends
    <3>4. \A i \in 1 .. Len(body') : body'[i] = i
      <4> SUFFICES ASSUME NEW i \in 1 .. (taken + n) PROVE body'[i] = i
        BY <3>3
      <4>1. CASE i <= Len(body)
        BY <1>3, <3>2, <3>3, <4>1
      <4>2. CASE i > Len(body)
        <5>1. i - Len(body) \in 1 .. n
          BY <1>3, <2>1, <3>2, <4>2
        <5>2. body'[i] = Got(n)[i - Len(body)]
          BY <1>3, <3>3, <4>2
        <5>3. Got(n)[i - Len(body)] = pulled + (i - Len(body))
          BY <2>2, <5>1
        <5> QED  BY <1>3, <1>4, <3>2, <5>2, <5>3
      <4> QED  BY <1>3, <4>1, <4>2
    <3>5. \A i \in 1 .. Len(body') : body'[i] = DataUnit(i)'
      BY <1>1, <2>5, <3>4 DEF DataUnit
    <3>6. IsBody(body)'
      BY <1>1, <2>5, <3>1, <3>3, <3>5 DEF IsBody
    <3>7. Continues(input, 0)'
      BY <1>3, <2>1, <2>3, <3>1 DEF Continues
    <3>8. result' \in {"reading", "ok", "error"}
      BY <3>1
    <3>9. result' = "reading" => ReadingInv'
      <4> SUFFICES ASSUME result' = "reading" PROVE ReadingInv'
        OBVIOUS
      <4>1. CASE framing = "ContentLength"
        <5>1. taken' # BodyLen
          BY <3>1, <4>1
        <5>2. taken' < BodyLen /\ BodyLen <= max_body
          BY <1>2, <1>3, <2>1, <3>1, <4>1, <5>1 DEF ReadingInv
        <5>3. Len(body') <= max_body
          BY <1>3, <2>1, <3>1, <3>3, <5>2
        <5> QED  BY <1>1, <3>1, <3>6, <3>7, <4>1, <5>2, <5>3 DEF ReadingInv
      <4>2. CASE framing = "UntilClose"
        <5>1. Len(body') <= max_body
          BY <1>3, <2>1, <3>1, <3>3, <4>2
        <5> QED  BY <1>1, <1>2, <3>1, <3>6, <3>7, <4>2, <5>1 DEF ReadingInv
      <4> QED  BY <1>3, <2>5, <4>1, <4>2
    <3>10. result' = "ok" => framing = "ContentLength" /\ taken' = BodyLen
      BY <3>1
    <3>11. ReturnsTheBody'
      BY <1>1, <1>2, <1>3, <3>1, <3>3, <3>5, <3>10 DEF ReturnsTheBody, ReadingInv
    <3>12. result' = "ok" => pulled' = LastUnit
      BY <1>3, <2>3, <3>1, <3>10, LastUnitIs
    <3>13. taken' \in Nat /\ input' \in Seq(Nat) /\ reusable' \in BOOLEAN
      BY <1>1, <1>3, <2>1, <3>1
    <3> QED  BY <1>1, <2>3, <3>3, <3>8, <3>9, <3>11, <3>12, <3>13, CollectorStep, Zenon
  <2> QED  BY <2>4, <2>5
<1>6. CASE /\ result' = IF framing = "UntilClose" THEN "ok" ELSE "error"
           /\ UNCHANGED <<input, taken, pulled, body>>
  <2>1. result' = "ok" => framing = "UntilClose" /\ reusable = FALSE
    BY <1>2, <1>6 DEF ReadingInv
  <2>2. ReturnsTheBody'
    BY <1>1, <1>2, <1>6, <2>1, SameFraming DEF ReturnsTheBody, ReadingInv, IsBody
  <2>3. result' \in {"reading", "ok", "error"} /\ result' # "reading"
    BY <1>6
  <2>4. taken' \in Nat /\ pulled' \in Nat /\ input' \in Seq(Nat) /\ body' \in Seq(Nat) /\ reusable' \in BOOLEAN
    BY <1>1, <1>2, <1>6 DEF BodyTypes
  <2> QED  BY <1>1, <2>1, <2>2, <2>3, <2>4, CollectorStep, Zenon
<1>7. CASE result' = "error" /\ UNCHANGED <<input, taken, pulled, body>>
  <2>1. ReturnsTheBody'
    BY <1>7 DEF ReturnsTheBody
  <2>2. taken' \in Nat /\ pulled' \in Nat /\ input' \in Seq(Nat) /\ body' \in Seq(Nat) /\ reusable' \in BOOLEAN
    BY <1>1, <1>2, <1>7 DEF BodyTypes
  <2> QED  BY <1>1, <1>7, <2>1, <2>2, CollectorStep
<1> QED  BY <1>5, <1>6, <1>7 DEF ReadMore

\* read_chunked on one unit of its input: the last chunk ends the body, and the
\* connection is reusable only when the input ends with it.
LEMMA DecodeUnitBody ==
    ASSUME BodyInv, reader = "collect", result = "reading", input # <<>>, DecodeUnit, Settle,
           UNCHANGED <<framing, max_body, pulled, keep>>, UNCHANGED <<reader, streamVars>>
    PROVE  BodyInv'
<1>1. /\ UNCHANGED <<reader, streamVars, framing, max_body, pulled, keep>>
      /\ result = "reading" /\ input # <<>>
      /\ taken' = taken + 1 /\ input' = Tail(input)
      /\ body' = IF IsData(taken') THEN Append(body, Head(input)) ELSE body
      /\ reusable' = IF result' = "ok" THEN input' = <<>> ELSE reusable
  BY DEF DecodeUnit
<1>2. result' = CASE Len(body') > max_body -> "error"
                  [] Len(body') <= max_body /\ taken' = LastUnit -> "ok"
                  [] OTHER -> "reading"
  BY DEF DecodeUnit
<1>3. BodyTypes /\ ReadingInv
  BY <1>1 DEF BodyInv, CollectInv
<1>4. /\ taken \in Nat /\ pulled \in Nat /\ max_body \in Nat /\ body \in Seq(Nat)
      /\ input \in Seq(Nat) /\ Len(input) \in Nat /\ Len(input) > 0
      /\ framing \in Framing /\ reusable \in BOOLEAN
  BY <1>1, <1>3 DEF BodyTypes
<1>5. framing = "Chunked"
  BY <1>1, <1>3, <1>4 DEF ReadingInv, Framing
<1>6. /\ \A k \in 1 .. Len(input) : input[k] = taken + k
      /\ pulled = taken + Len(input)
  <2>1. \A k \in 1 .. Len(input) : k > 0 => input[k] = taken + (k - 0)
    BY <1>3 DEF ReadingInv, Continues
  <2>2. pulled = taken + (Len(input) - 0)
    BY <1>3 DEF ReadingInv, Continues
  <2> QED  BY <1>4, <2>1, <2>2
<1>7. Head(input) = taken + 1
  BY <1>4, <1>6
<1>8. /\ input' \in Seq(Nat) /\ Len(input') = Len(input) - 1
      /\ \A k \in 1 .. Len(input') : input'[k] = (taken + 1) + k
  BY <1>1, <1>4, <1>6
<1>9. /\ body' \in Seq(Nat)
      /\ \A i \in 1 .. Len(body') : body'[i] = DataUnit(i)
      /\ taken + 1 = 2 * Len(body') \/ taken + 1 = 2 * Len(body') + 1
  <2>1. body' = IF IsData(taken + 1) THEN Append(body, taken + 1) ELSE body
    BY <1>1, <1>7
  <2>2. IsBody(body)
    BY <1>3 DEF ReadingInv
  <2> QED  BY <1>1, <1>3, <1>4, <1>5, <2>1, <2>2, BodyGrows, Zenon
<1>10. IsBody(body)'
  BY <1>1, <1>5, <1>9, SameFraming DEF IsBody
<1>11. Continues(input, 0)'
  <2>1. pulled = (taken + 1) + (Len(input') - 0)
    BY <1>4, <1>6, <1>8
  <2>2. \A k \in 1 .. Len(input') : input'[k] = (taken + 1) + (k - 0)
    BY <1>4, <1>8
  <2>3. 0 <= Len(input')
    BY <1>8
  <2> QED  BY <1>1, <2>1, <2>2, <2>3 DEF Continues
<1>12. Len(body') \in Nat /\ LastUnit = 2 * BodyLen + 1
  BY <1>4, <1>5, <1>9, LastUnitIs
<1>13. /\ result' \in {"reading", "ok", "error"}
       /\ result' = "reading" => Len(body') <= max_body
       /\ result' = "ok" => Len(body') <= max_body /\ taken' = LastUnit
  BY <1>2, <1>4, <1>12
<1>14. result' = "reading" => ReadingInv'
  BY <1>1, <1>5, <1>10, <1>11, <1>13 DEF ReadingInv
<1>15. ReturnsTheBody'
  <2> SUFFICES ASSUME result' = "ok" PROVE Len(body') = BodyLen
    BY <1>1, <1>9, <1>13, SameFraming DEF ReturnsTheBody
  <2>1. taken + 1 = 2 * BodyLen + 1
    BY <1>1, <1>12, <1>13
  <2> QED  BY <1>9, <1>12, <2>1
<1>16. result' = "ok" /\ reusable' = TRUE => pulled' = LastUnit
  <2> SUFFICES ASSUME result' = "ok", reusable' = TRUE PROVE pulled' = LastUnit
    OBVIOUS
  <2>1. input' = <<>>
    BY <1>1, Zenon
  <2>2. Len(input) = 1
    BY <1>4, <1>8, <2>1
  <2> QED  BY <1>1, <1>6, <1>13, <2>2
<1>17. reusable' \in BOOLEAN
  BY <1>1, <1>4, Zenon
<1>18. taken' \in Nat /\ pulled' \in Nat
  BY <1>1, <1>4
<1> QED  BY <1>1, <1>8, <1>9, <1>13, <1>14, <1>15, <1>16, <1>17, <1>18, CollectorStep, Zenon

\* One pass of read_chunked: a unit is decoded, or it is malformed and the body
\* ends with an error that returns nothing.
LEMMA DecodeBody ==
    ASSUME BodyInv, reader = "collect", Decode, Settle, UNCHANGED <<reader, streamVars>>
    PROVE  BodyInv'
<1>1. /\ UNCHANGED <<reader, streamVars>> /\ UNCHANGED <<framing, max_body, pulled, keep>>
      /\ result = "reading" /\ input # <<>>
  BY DEF Decode
<1>2. CASE DecodeUnit
  BY <1>1, <1>2, DecodeUnitBody, Zenon
<1>3. CASE result' = "error" /\ UNCHANGED <<taken, input, body, reusable>>
  <2>1. BodyTypes
    BY DEF BodyInv
  <2>2. ReturnsTheBody'
    BY <1>3 DEF ReturnsTheBody
  <2>3. taken' \in Nat /\ pulled' \in Nat /\ input' \in Seq(Nat) /\ body' \in Seq(Nat) /\ reusable' \in BOOLEAN
    BY <1>1, <1>3, <2>1 DEF BodyTypes
  <2> QED  BY <1>1, <1>3, <2>2, <2>3, CollectorStep
<1> QED  BY <1>2, <1>3 DEF Decode

\* Every step of either reader keeps the invariant, for a consumer that stops
\* at an error.
LEMMA BodyStep == Retries = FALSE /\ BodyInv /\ [Next]_vars => BodyInv'
<1> SUFFICES ASSUME Retries = FALSE, BodyInv, [Next]_vars PROVE BodyInv'
  BY Zenon
<1>1. CASE Stream
  BY <1>1, RefillBody, TakeBody, Zenon DEF Stream, Streaming
<1>2. CASE Collect
  BY <1>2, StartBody, ReadMoreBody, DecodeBody DEF Collect, Collecting
<1>3. CASE UNCHANGED vars
  BY <1>3, IdleBody
<1> QED  BY <1>1, <1>2, <1>3 DEF Next

\* The invariant of the two body readers (body/streaming.rs, body/collect.rs).
THEOREM BodyInvariant == ASSUME Retries = FALSE PROVE Spec => []BodyInv
<1>1. Init => BodyInv
  BY InitBody
<1>2. BodyInv /\ [Next]_vars => BodyInv'
  BY BodyStep
<1> QED  BY <1>1, <1>2, PTL DEF Spec

\* Whichever reader takes the body and however the connection splits it, the
\* bytes given to a consumer that stops at an error are those of the body, in
\* order, and a body returned by the collector is whole and within
\* max_response_body: for every length, surplus, buffer and limit.
THEOREM BodyIsExact == ASSUME Retries = FALSE PROVE Spec => []BodyIsTheMessages
<1>1. BodyInv => BodyIsTheMessages
  BY DEF BodyInv, StreamInv, CollectInv, IsBody, BodyIsTheMessages, DeliversTheBody
<1> QED  BY <1>1, BodyInvariant, PTL

\* A connection is handed back for another request (Client::dirty cleared) only
\* when the head allowed it and exactly the units of this response were taken
\* off it.
THEOREM CleanIsExact == ASSUME Retries = FALSE PROVE Spec => []CleanMeansExact
<1>1. BodyInv => CleanMeansExact
  BY DEF BodyInv
<1> QED  BY <1>1, BodyInvariant, PTL

=============================================================================
