---------------------------- MODULE RingBufProofs ----------------------------
(***************************************************************************)
(* RingBuf is correct for every capacity, every set of sizes and every     *)
(* length of run: the indices stay ordered, a write handle never reaches   *)
(* an unread byte, and the ring implements FifoPipe.                       *)
(***************************************************************************)
EXTENDS RingBuf, Sequences, TLAPS

\* What the caller of write has stored so far is in place.
FilledSoFar ==
    /\ prod.filled <= prod.n
    /\ prod.pc = "held" =>
         \A p \in tail .. tail + prod.filled - 1 : slots[Slot(p)] = p

\* A read handle is covered by the cached tail it was granted from.
ReadCovered ==
    cons.pc = "held" => head + cons.n <= shadow_tail

\* The inductive invariant.
RingInv ==
    /\ TypeOK
    /\ ShadowsLag
    /\ NoOverrun
    /\ ReadCovered
    /\ FilledSoFar
    /\ BytesIntact

-----------------------------------------------------------------------------
(* Arithmetic of slots *)

\* Division with remainder.
LEMMA DivMod ==
    ASSUME NEW a \in Nat, NEW c \in Nat \ {0}
    PROVE  /\ a = c * (a \div c) + (a % c)
           /\ a % c \in 0 .. c - 1
           /\ a \div c \in Nat
OBVIOUS

\* A multiple by a positive integer is no smaller than the number.
LEMMA MultipleGrows ==
    ASSUME NEW c \in Nat \ {0}, NEW k \in Int, k >= 1
    PROVE  c * k >= c
OBVIOUS

\* Two positions less than a capacity apart have different slots.
LEMMA SlotsDiffer ==
    ASSUME NEW a \in Nat, NEW b \in Nat, a < b, b < a + Capacity
    PROVE  Slot(a) # Slot(b)
<1> DEFINE c == Capacity
           qa == a \div c
           qb == b \div c
<1> SUFFICES ASSUME a % c = b % c PROVE FALSE
  BY DEF Slot
<1>1. c \in Nat \ {0}
  BY RingAssumption
<1>2. /\ a = c * qa + (a % c) /\ qa \in Nat
      /\ b = c * qb + (b % c) /\ qb \in Nat
      /\ a % c \in 0 .. c - 1
  BY <1>1, DivMod
<1> HIDE DEF c, qa, qb
<1>3. b - a = c * (qb - qa)
  <2>1. c * (qb - qa) = c * qb - c * qa
    BY <1>1, <1>2
  <2> QED BY <1>1, <1>2, <2>1
<1>4. CASE qb - qa <= 0
  <2>1. c * (qb - qa) <= 0
    BY <1>1, <1>2, <1>4
  <2> QED BY <1>3, <2>1
<1>5. CASE qb - qa >= 1
  <2>1. c * (qb - qa) >= c
    BY <1>1, <1>2, <1>5, MultipleGrows
  <2> QED BY <1>1, <1>3, <2>1 DEF c
<1> QED BY <1>2, <1>4, <1>5

\* A position has a slot of the array.
LEMMA SlotType ==
    ASSUME NEW a \in Nat
    PROVE  Slot(a) \in 0 .. Capacity - 1
BY RingAssumption, DivMod DEF Slot

-----------------------------------------------------------------------------
\* A freshly initialised ring satisfies the inductive invariant.
LEMMA RingInit == Init => RingInv
BY RingAssumption
   DEF Init, RingInv, TypeOK, ShadowsLag, NoOverrun, ReadCovered, FilledSoFar,
       BytesIntact, ProdIdle, ConsIdle, ProdAt, ConsAt, Nobyte

\* Storing a byte through a handle touches neither an unread byte nor a byte
\* the same handle has stored before.
LEMMA FillKeeps ==
    ASSUME RingInv, Fill
    PROVE  /\ slots' \in [0 .. Capacity - 1 -> Nat \cup {Nobyte}]
           /\ slots'[Slot(tail + prod.filled)] = tail + prod.filled
           /\ \A p \in head .. tail + prod.filled - 1 :
                 slots'[Slot(p)] = slots[Slot(p)]
<1> USE DEF RingInv, TypeOK
<1> DEFINE q == tail + prod.filled
<1>1. q \in Nat /\ Slot(q) \in 0 .. Capacity - 1
  <2>1. q \in Nat
    OBVIOUS
  <2> HIDE DEF q
  <2> QED BY <2>1, SlotType
<1>2. slots' = [slots EXCEPT ![Slot(q)] = q]
  BY DEF Fill
<1>3. ASSUME NEW p \in head .. q - 1
      PROVE  slots'[Slot(p)] = slots[Slot(p)]
  <2>0. /\ head \in Nat /\ tail \in Nat /\ prod.filled \in Nat /\ prod.n \in Nat
        /\ Capacity \in Nat /\ prod.filled < prod.n
        /\ tail + prod.n - head < Capacity
    BY RingAssumption DEF Fill, NoOverrun
  <2>1. p \in Nat /\ p < q /\ q < p + Capacity
    BY <2>0, <1>3, SMTT(30)
  <2>2. Slot(p) # Slot(q) /\ Slot(p) \in 0 .. Capacity - 1
    BY <1>1, <2>1, SlotsDiffer, SlotType
  <2> QED BY <1>2, <2>2
<1>4. /\ slots' \in [0 .. Capacity - 1 -> Nat \cup {Nobyte}]
      /\ slots'[Slot(q)] = q
  BY <1>1, <1>2
<1> QED BY <1>3, <1>4

\* Every operation of either side keeps the inductive invariant.
LEMMA RingStep == RingInv /\ [Next]_vars => RingInv'
<1> SUFFICES ASSUME RingInv, [Next]_vars PROVE RingInv'
  OBVIOUS
<1> USE RingAssumption
        DEF RingInv, TypeOK, ShadowsLag, NoOverrun, ReadCovered, FilledSoFar,
            ProdIdle, ConsIdle, ProdAt, ConsAt
<1>1. ASSUME NEW n \in WriteSizes, TryWrite(n) PROVE RingInv'
  BY <1>1 DEF TryWrite, Full, BytesIntact
<1>2. ASSUME NEW n \in WriteSizes, Write(n) PROVE RingInv'
  BY <1>2 DEF Write, Full, BytesIntact
<1>3. CASE WriteSpin
  BY <1>3 DEF WriteSpin, Full, BytesIntact
<1>4. CASE Fill
  <2>1. /\ slots' \in [0 .. Capacity - 1 -> Nat \cup {Nobyte}]
        /\ slots'[Slot(tail + prod.filled)] = tail + prod.filled
        /\ \A p \in head .. tail + prod.filled - 1 :
              slots'[Slot(p)] = slots[Slot(p)]
    BY <1>4, FillKeeps
  <2>2. BytesIntact'
    <3> SUFFICES ASSUME NEW p \in head .. tail - 1
                 PROVE  p \in torn \/ slots'[Slot(p)] = p
      BY <1>4 DEF Fill, BytesIntact
    <3>1. slots'[Slot(p)] = slots[Slot(p)]
      BY <2>1
    <3> QED BY <3>1 DEF BytesIntact
  <2>3. FilledSoFar'
    <3>1. prod'.filled = prod.filled + 1 /\ prod'.n = prod.n /\ tail' = tail
      BY <1>4 DEF Fill
    <3>2. ASSUME NEW p \in tail .. tail + prod.filled
          PROVE  slots'[Slot(p)] = p
      <4>1. CASE p = tail + prod.filled
        BY <2>1, <4>1, Zenon
      <4>2. CASE p < tail + prod.filled
        <5>1. p \in head .. tail + prod.filled - 1
          BY <4>2
        <5>2. slots[Slot(p)] = p
          BY <1>4, <4>2 DEF Fill
        <5> QED BY <2>1, <5>1, <5>2, Zenon
      <4> QED BY <4>1, <4>2
    <3>3. prod.filled + 1 <= prod.n
      BY <1>4 DEF Fill
    <3>4. tail .. tail + (prod.filled + 1) - 1 = tail .. tail + prod.filled
      OBVIOUS
    <3> QED BY <3>1, <3>2, <3>3, <3>4, Zenon DEF FilledSoFar
  <2>4. TypeOK'
    <3>1. prod' = ProdAt("held", prod.n, prod.filled + 1) /\ prod.filled + 1 \in Nat
      BY <1>4 DEF Fill
    <3>2. UNCHANGED <<head, tail, shadow_head, shadow_tail, cons, torn>>
      BY <1>4 DEF Fill
    <3> QED BY <2>1, <3>1, <3>2
  <2> QED BY <1>4, <2>2, <2>3, <2>4 DEF Fill
<1>5. CASE WritePanic
  <2>1. CASE /\ tail' = tail + prod.n
              /\ torn' = torn \cup (tail .. tail + prod.n - 1)
              /\ prod' = ProdIdle
    <3>1. BytesIntact'
      <4> SUFFICES ASSUME NEW p \in head .. tail + prod.n - 1
                   PROVE  p \in torn' \/ slots'[Slot(p)] = p
        BY <1>5, <2>1 DEF WritePanic, BytesIntact
      <4>1. CASE p < tail
        BY <1>5, <2>1, <4>1 DEF WritePanic, BytesIntact
      <4>2. CASE p >= tail
        BY <2>1, <4>2
      <4> QED BY <4>1, <4>2
    <3>2. TypeOK' /\ ShadowsLag'
      <4>1. torn' \subseteq Nat
        <5>1. tail .. tail + prod.n - 1 \subseteq Nat
          OBVIOUS
        <5> QED BY <2>1, <5>1
      <4>2. tail' \in Nat /\ tail' >= tail
        BY <2>1
      <4> QED BY <1>5, <2>1, <4>1, <4>2 DEF WritePanic
    <3>3. NoOverrun' /\ FilledSoFar' /\ ReadCovered'
      BY <1>5, <2>1 DEF WritePanic
    <3> QED BY <3>1, <3>2, <3>3
  <2>2. CASE prod' = ProdAt("dead", prod.n, prod.filled) /\ UNCHANGED <<tail, torn>>
    BY <1>5, <2>2 DEF WritePanic, BytesIntact
  <2> QED BY <1>5, <2>1, <2>2 DEF WritePanic
<1>6. CASE DropWrite
  <2>1. BytesIntact'
    BY <1>6 DEF DropWrite, BytesIntact
  <2> QED BY <1>6, <2>1 DEF DropWrite
<1>7. ASSUME NEW n \in ReadSizes, Read(n) PROVE RingInv'
  BY <1>7 DEF Read, Short, BytesIntact
<1>8. ASSUME NEW n \in ReadSizes, SkipN(n) PROVE RingInv'
  BY <1>8, SMTT(30) DEF SkipN, BytesIntact
<1>9. ASSUME NEW n \in ReadSizes, NEW times \in Tries, TryRead(n, times) PROVE RingInv'
  BY <1>9 DEF TryRead, Short, BytesIntact
<1>10. CASE ReadSpin
  BY <1>10 DEF ReadSpin, Short, BytesIntact
<1>11. CASE TryReadTurn
  BY <1>11 DEF TryReadTurn, Short, BytesIntact
<1>12. CASE ReadPanic
  <2>1. CASE head' = head + cons.n /\ cons' = ConsIdle
    <3>1. BytesIntact'
      BY <1>12, <2>1 DEF ReadPanic, BytesIntact
    <3>2. TypeOK' /\ ShadowsLag'
      BY <1>12, <2>1 DEF ReadPanic
    <3>3. FilledSoFar'
      BY <1>12, <2>1 DEF ReadPanic
    <3>4. NoOverrun'
      <4>1. head' = head + cons.n /\ tail' = tail /\ prod' = prod
        BY <1>12, <2>1 DEF ReadPanic
      <4>2. /\ tail - (head + cons.n) < Capacity
            /\ prod.pc = "held" => tail + prod.n - (head + cons.n) < Capacity
        OBVIOUS
      <4> QED BY <4>1, <4>2, Zenon
    <3> QED BY <1>12, <2>1, <3>1, <3>2, <3>3, <3>4 DEF ReadPanic
  <2>2. CASE cons' = ConsAt("dead", cons.n, cons.times) /\ UNCHANGED head
    BY <1>12, <2>2 DEF ReadPanic, BytesIntact
  <2> QED BY <1>12, <2>1, <2>2 DEF ReadPanic
<1>13. CASE DropRead
  <2>1. BytesIntact'
    BY <1>13 DEF DropRead, BytesIntact
  <2>2. TypeOK' /\ ShadowsLag'
    BY <1>13 DEF DropRead
  <2>3. FilledSoFar'
    BY <1>13 DEF DropRead
  <2>4. NoOverrun'
    <3>1. head' = head + cons.n /\ tail' = tail /\ prod' = prod
      BY <1>13 DEF DropRead
    <3>2. /\ tail - (head + cons.n) < Capacity
          /\ prod.pc = "held" => tail + prod.n - (head + cons.n) < Capacity
      OBVIOUS
    <3> QED BY <3>1, <3>2, Zenon
  <2>5. ReadCovered'
    BY <1>13 DEF DropRead
  <2> QED BY <2>1, <2>2, <2>3, <2>4, <2>5
<1>14. CASE UNCHANGED vars
  BY <1>14 DEF vars, BytesIntact
<1> QED
  BY <1>1, <1>2, <1>3, <1>4, <1>5, <1>6, <1>7, <1>8, <1>9, <1>10, <1>11,
     <1>12, <1>13, <1>14 DEF Next, Producer, Consumer

\* The inductive invariant of the ring holds for every capacity, every mix of
\* write and read sizes and every interleaving of the two sides.
THEOREM RingInvariant == Spec => []RingInv
<1>1. Init => RingInv
  BY RingInit
<1>2. RingInv /\ [Next]_vars => RingInv'
  BY RingStep
<1> QED BY <1>1, <1>2, PTL DEF Spec

\* The variables of the ring keep their types for ever.
THEOREM TypeCorrect == Spec => []TypeOK
BY RingInvariant, PTL DEF RingInv

\* The cached indices never overtake what they cache, so the byte counts that
\* read and try_read compute with wrapping_sub are exact.
THEOREM ShadowsCorrect == Spec => []ShadowsLag
BY RingInvariant, PTL DEF RingInv

\* The ring is never full to the last byte, with or without a live write
\* handle: the test with <= in write and try_write is the right one.
THEOREM NeverOverrun == Spec => []NoOverrun
BY RingInvariant, PTL DEF RingInv

\* A read handle only covers bytes whose producer has published them.
THEOREM ReadsPublished == Spec => []ReadPublished
<1>1. RingInv => ReadPublished
  BY DEF RingInv, TypeOK, ShadowsLag, ReadCovered, ReadPublished
<1> QED BY <1>1, RingInvariant, PTL

\* Producer and consumer never hold slices that share a byte.
THEOREM RaceFree == Spec => []NoDataRace
<1>1. RingInv => NoDataRace
  <2> SUFFICES ASSUME RingInv, prod.pc = "held", cons.pc = "held",
                      NEW p \in tail .. tail + prod.n - 1,
                      NEW q \in head .. head + cons.n - 1
               PROVE  Slot(p) # Slot(q)
    BY DEF NoDataRace
  <2>1. /\ head \in Nat /\ tail \in Nat /\ shadow_tail \in Nat
        /\ prod.n \in Nat /\ cons.n \in Nat /\ Capacity \in Nat
    BY RingAssumption DEF RingInv, TypeOK
  <2>2. head + cons.n <= tail
    BY <2>1 DEF RingInv, ShadowsLag, ReadCovered
  <2>3. tail + prod.n - head < Capacity
    BY DEF RingInv, NoOverrun
  <2>4. p \in Nat /\ q \in Nat /\ q < p
    BY <2>1, <2>2
  <2>5. p < q + Capacity
    BY <2>1, <2>3
  <2> QED BY <2>4, <2>5, SlotsDiffer
<1> QED BY <1>1, RingInvariant, PTL

\* Every unread byte is the one its writer stored, whatever the interleaving
\* of fills, drops and reads; only a panicking writer can publish garbage.
THEOREM BytesStayIntact == Spec => []BytesIntact
BY RingInvariant, PTL DEF RingInv

-----------------------------------------------------------------------------
(* Refinement *)

\* The three kinds of step a user of the ring can tell apart.
Silent ==
    /\ UNCHANGED <<head, tail>>
    /\ \A p \in head .. tail - 1 : slots'[Slot(p)] = slots[Slot(p)]

Publish == UNCHANGED <<head, slots>> /\ tail < tail'

Consume == UNCHANGED <<tail, slots>> /\ head < head'

\* Every step of either side is one of the three.
LEMMA StepKinds ==
    ASSUME RingInv, [Next]_vars
    PROVE  Silent \/ Publish \/ Consume
<1> USE RingAssumption DEF RingInv, TypeOK
<1>1. CASE Fill
  <2>1. ASSUME NEW p \in head .. tail - 1
        PROVE  slots'[Slot(p)] = slots[Slot(p)]
    <3>1. p \in head .. tail + prod.filled - 1
      OBVIOUS
    <3> QED BY <1>1, <3>1, FillKeeps
  <2> QED BY <1>1, <2>1 DEF Fill, Silent
<1>2. CASE DropWrite
  BY <1>2 DEF DropWrite, Publish, Silent, FilledSoFar
<1>3. CASE WritePanic
  <2>1. CASE tail' = tail + prod.n
    BY <1>3, <2>1 DEF WritePanic, Publish, Silent
  <2>2. CASE UNCHANGED tail
    BY <1>3, <2>2 DEF WritePanic, Silent
  <2> QED BY <1>3, <2>1, <2>2 DEF WritePanic
<1>4. CASE DropRead
  BY <1>4 DEF DropRead, Consume, Silent
<1>5. CASE ReadPanic
  <2>1. CASE head' = head + cons.n
    BY <1>5, <2>1 DEF ReadPanic, Consume, Silent
  <2>2. CASE UNCHANGED head
    BY <1>5, <2>2 DEF ReadPanic, Silent
  <2> QED BY <1>5, <2>1, <2>2 DEF ReadPanic
<1>6. ASSUME NEW n \in ReadSizes, SkipN(n) PROVE Silent \/ Publish \/ Consume
  BY <1>6 DEF SkipN, Consume, Silent, ShadowsLag
<1>7. CASE UNCHANGED <<head, tail, slots>>
  BY <1>7 DEF Silent
<1> QED
  BY <1>1, <1>2, <1>3, <1>4, <1>5, <1>6, <1>7
     DEF Next, vars, Producer, Consumer, TryWrite, Write, WriteSpin, Read,
         TryRead, ReadSpin, TryReadTurn

\* Sequence b is a with something appended.
Longer(a, b) == Len(a) < Len(b) /\ \A i \in 1 .. Len(a) : b[i] = a[i]

\* Sequence b is a with something taken from its front.
Rest(a, b) ==
    Len(b) < Len(a) /\ \A i \in 1 .. Len(b) : b[i] = a[i + Len(a) - Len(b)]

\* Publishing positions t .. t2 - 1 appends to the unread bytes.
LEMMA BytesPut ==
    ASSUME NEW h \in Nat, NEW t \in Nat, NEW t2 \in Nat, h <= t, t < t2, NEW s
    PROVE  Longer(Bytes(h, t, s), Bytes(h, t2, s)) /\ Len(Bytes(h, t2, s)) = t2 - h
BY DEF Bytes, Longer

\* Consuming positions h .. h2 - 1 drops the oldest unread bytes.
LEMMA BytesTake ==
    ASSUME NEW h \in Nat, NEW h2 \in Nat, NEW t \in Nat, h < h2, h2 <= t, NEW s
    PROVE  Rest(Bytes(h, t, s), Bytes(h2, t, s))
<1>1. Len(Bytes(h, t, s)) = t - h /\ Len(Bytes(h2, t, s)) = t - h2
  BY DEF Bytes
<1>2. ASSUME NEW i \in 1 .. t - h2
      PROVE  Bytes(h2, t, s)[i] = Bytes(h, t, s)[i + (t - h) - (t - h2)]
  <2>1. i + (t - h) - (t - h2) \in 1 .. t - h
    OBVIOUS
  <2>2. h2 + i - 1 = h + (i + (t - h) - (t - h2)) - 1
    OBVIOUS
  <2> QED BY <2>1, <2>2 DEF Bytes
<1>3. t - h2 < t - h
  OBVIOUS
<1> QED BY <1>1, <1>2, <1>3, Zenon DEF Rest

\* Bytes that differ only outside the unread positions are the same bytes.
LEMMA BytesSame ==
    ASSUME NEW h \in Nat, NEW t \in Nat, NEW s, NEW s2,
           \A p \in h .. t - 1 : s2[Slot(p)] = s[Slot(p)]
    PROVE  Bytes(h, t, s2) = Bytes(h, t, s)
<1>1. \A i \in 1 .. t - h : s2[Slot(h + i - 1)] = s[Slot(h + i - 1)]
  OBVIOUS
<1> QED BY <1>1, Zenon DEF Bytes

\* A step of the ring is a step of the pipe or leaves the pipe alone.
LEMMA PipeStep ==
    ASSUME RingInv, RingInv', [Next]_vars
    PROVE  [Pipe!Put \/ Pipe!Take]_Unread
<1>u. Unread = Bytes(head, tail, slots) /\ Unread' = Bytes(head', tail', slots')
  BY DEF Unread, Bytes
<1>1. /\ head \in Nat /\ tail \in Nat /\ head <= tail
      /\ head' \in Nat /\ tail' \in Nat /\ head' <= tail'
      /\ tail' - head' < Capacity
  <2>1. ASSUME RingInv PROVE head \in Nat /\ tail \in Nat /\ head <= tail
    BY <2>1 DEF RingInv, TypeOK, ShadowsLag
  <2>2. ASSUME RingInv' PROVE head' \in Nat /\ tail' \in Nat /\ head' <= tail'
    BY <2>2 DEF RingInv, TypeOK, ShadowsLag
  <2>3. tail' - head' < Capacity
    BY DEF RingInv, NoOverrun
  <2> QED BY <2>1, <2>2, <2>3
<1>2. CASE Silent
  <2>1. head' = head /\ tail' = tail
    BY <1>2 DEF Silent
  <2>2. \A p \in head .. tail - 1 : slots'[Slot(p)] = slots[Slot(p)]
    BY <1>2 DEF Silent
  <2>3. Bytes(head, tail, slots') = Bytes(head, tail, slots)
    BY <1>1, <2>2, BytesSame
  <2> QED BY <1>u, <2>1, <2>3, Zenon
<1>3. CASE Publish
  <2>1. head' = head /\ slots' = slots /\ tail < tail'
    BY <1>3 DEF Publish
  <2>2. /\ Longer(Bytes(head, tail, slots), Bytes(head, tail', slots))
        /\ Len(Bytes(head, tail', slots)) = tail' - head
    BY <1>1, <2>1, BytesPut
  <2>3. Unread' = Bytes(head, tail', slots) /\ tail' - head < Capacity
    BY <1>u, <1>1, <2>1, Zenon
  <2> QED BY <1>u, <2>2, <2>3, Zenon DEF Pipe!Put, Longer
<1>4. CASE Consume
  <2>1. tail' = tail /\ slots' = slots /\ head < head'
    BY <1>4 DEF Consume
  <2>2. Rest(Bytes(head, tail, slots), Bytes(head', tail, slots))
    BY <1>1, <2>1, BytesTake
  <2>3. Unread' = Bytes(head', tail, slots)
    BY <1>u, <2>1, Zenon
  <2> QED BY <1>u, <2>2, <2>3, Zenon DEF Pipe!Take, Rest
<1> QED BY <1>2, <1>3, <1>4, StepKinds

\* For every capacity, the ring is a bounded first-in first-out byte pipe.
THEOREM RingIsPipe == Spec => ImplementsPipe
<1>1. Init => Pipe!Init
  BY DEF Init, Pipe!Init, Unread, Bytes
<1>2. RingInv /\ RingInv' /\ [Next]_vars => [Pipe!Put \/ Pipe!Take]_Unread
  BY PipeStep
<1> QED BY <1>1, <1>2, RingInvariant, PTL DEF Spec, ImplementsPipe, Pipe!Spec
=============================================================================
