----------------------- MODULE GFifoConsumerProofs -----------------------
(* Arithmetic on the indices of the graphics ring, what its inductive        *)
(* invariant says of one head, one producer and a step that moves no index,  *)
(* and that the steps of a consumer preserve it; what a whole batch is, and  *)
(* that a drain takes the count its token promises.                          *)
EXTENDS GFifo, TLAPS

USE DepthAssumption, HeadsAssumption, PublishAssumption, SizeAssumption

-----------------------------------------------------------------------------
(* Index arithmetic *)

\* A masked index is an index.
LEMMA WrapType == ASSUME NEW x \in Int PROVE Wrap(x) \in Idx
  BY DEF Wrap, Idx, MASK

\* Masking a number less than one lap outside the ring adds or removes a lap.
LEMMA WrapIs ==
  ASSUME NEW x \in Int
  PROVE  /\ 0 <= x /\ x < DEPTH => Wrap(x) = x
         /\ DEPTH <= x /\ x < 2 * DEPTH => Wrap(x) = x - DEPTH
         /\ -DEPTH <= x /\ x < 0 => Wrap(x) = x + DEPTH
  BY DEF Wrap

\* wrapping_sub of two indices, masked.
LEMMA DistIs ==
  ASSUME NEW a \in Idx, NEW b \in Idx
  PROVE  Dist(a, b) = IF a <= b THEN b - a ELSE b - a + DEPTH
<1>1. CASE a <= b BY <1>1 DEF Dist, Wrap, Idx, MASK
<1>2. CASE a > b BY <1>2 DEF Dist, Wrap, Idx, MASK
<1> QED BY <1>1, <1>2 DEF Idx

\* A distance is at most MASK, and 0 exactly between equal indices.
LEMMA DistType ==
  ASSUME NEW a \in Idx, NEW b \in Idx
  PROVE  Dist(a, b) \in 0 .. MASK /\ (Dist(a, b) = 0 <=> a = b)
  BY DistIs DEF Idx, MASK

\* Two indices at the same distance from a third are equal.
LEMMA DistInjective ==
  ASSUME NEW a \in Idx, NEW b \in Idx, NEW c \in Idx, Dist(a, c) = Dist(b, c)
  PROVE  a = b
  BY DistIs DEF Idx, MASK

\* Two indices at the same distance past a third are equal.
LEMMA DistInjectiveAhead ==
  ASSUME NEW a \in Idx, NEW b \in Idx, NEW c \in Idx, Dist(a, b) = Dist(a, c)
  PROVE  b = c
  BY DistIs DEF Idx, MASK

\* The distance to an index k further on is k.
LEMMA DistOf ==
  ASSUME NEW a \in Idx, NEW k \in 0 .. MASK
  PROVE  Dist(a, Wrap(a + k)) = k
<1>1. Wrap(a + k) \in Idx BY WrapType DEF Idx, MASK
<1>2. k \in 0 .. DEPTH BY DEF MASK
<1> QED BY <1>1, <1>2, DistIs, WrapIs DEF Idx, MASK

\* Moving the far index on lengthens the distance, while there is room.
LEMMA DistTail ==
  ASSUME NEW a \in Idx, NEW t \in Idx, NEW n \in Nat, Dist(a, t) + n <= MASK
  PROVE  Dist(a, Wrap(t + n)) = Dist(a, t) + n
<1> DEFINE w == Wrap(t + n)
<1>1. Dist(a, t) = IF a <= t THEN t - a ELSE t - a + DEPTH BY DistIs
<1>2. w = IF t + n < DEPTH THEN t + n ELSE t + n - DEPTH
  BY <1>1, WrapIs DEF Idx, MASK
<1>3. w \in Idx BY WrapType DEF Idx, MASK
<1> HIDE DEF w
<1>4. Dist(a, w) = IF a <= w THEN w - a ELSE w - a + DEPTH BY <1>3, DistIs
<1>5. Dist(a, w) = Dist(a, t) + n BY <1>1, <1>2, <1>3, <1>4 DEF Idx, MASK
<1> QED BY <1>5 DEF w

\* Moving the near index on shortens it.
LEMMA DistHead ==
  ASSUME NEW a \in Idx, NEW t \in Idx, NEW n \in 0 .. Dist(a, t)
  PROVE  Dist(Wrap(a + n), t) = Dist(a, t) - n
<1> DEFINE w == Wrap(a + n)
<1>1. Dist(a, t) = IF a <= t THEN t - a ELSE t - a + DEPTH BY DistIs
<1>2. w = IF a + n < DEPTH THEN a + n ELSE a + n - DEPTH
  BY <1>1, WrapIs DEF Idx, MASK
<1>3. w \in Idx BY <1>1, WrapType DEF Idx, MASK
<1> HIDE DEF w
<1>4. Dist(w, t) = IF w <= t THEN t - w ELSE t - w + DEPTH BY <1>3, DistIs
<1>5. Dist(w, t) = Dist(a, t) - n BY <1>1, <1>2, <1>3, <1>4 DEF Idx, MASK
<1> QED BY <1>5 DEF w

\* A slot behind tail, as far as there is room, is not one of the slots from a
\* to tail.
LEMMA SlotsApart ==
  ASSUME NEW a \in Idx, NEW t \in Idx, NEW j \in Nat, Dist(a, t) + j + 1 <= MASK,
         NEW k \in 1 .. Dist(a, t)
  PROVE  Wrap(a + k - 1) # Wrap(t + j)
<1>1. Dist(a, t) \in 0 .. MASK /\ MASK \in Nat BY DistType DEF MASK
<1>2. k - 1 \in 0 .. MASK /\ a + (k - 1) = a + k - 1 BY <1>1 DEF Idx, MASK
<1>3. Dist(a, Wrap(a + k - 1)) = k - 1 BY <1>2, DistOf
<1>4. Dist(a, Wrap(t + j)) = Dist(a, t) + j BY <1>1, DistTail
<1> QED BY <1>1, <1>2, <1>3, <1>4

\* The k-th entry from a, past tail, is the one k - Dist(a, tail) past tail.
LEMMA SlotsMeet ==
  ASSUME NEW a \in Idx, NEW t \in Idx, NEW j \in Nat, Dist(a, t) + j <= MASK
  PROVE  Wrap(a + (Dist(a, t) + j)) = Wrap(t + j)
<1>1. Dist(a, t) \in 0 .. MASK /\ MASK \in Nat BY DistType DEF MASK
<1>2. Dist(a, t) + j \in 0 .. MASK BY <1>1
<1>3. Dist(a, Wrap(a + (Dist(a, t) + j))) = Dist(a, t) + j BY <1>2, DistOf
<1>4. Dist(a, Wrap(t + j)) = Dist(a, t) + j BY <1>1, DistTail
<1>5. Wrap(a + (Dist(a, t) + j)) \in Idx /\ Wrap(t + j) \in Idx BY <1>2, WrapType DEF Idx, MASK
<1> QED BY <1>3, <1>4, <1>5, DistInjectiveAhead

\* The room tests of try_push, push, try_push2, try_push_slice and push_batch
\* agree: each lets through exactly the calls that leave one slot empty.
LEMMA FullIsNoRoom ==
  ASSUME NEW c \in AnyCall, NEW t \in Idx, NEW hd \in Idx, c.kind # "publish_tail"
  PROVE  ~Full(c, t, hd) <=> Len(c.ents) + Dist(hd, t) <= MASK
<1>0. Dist(hd, t) = IF hd <= t THEN t - hd ELSE t - hd + DEPTH BY DistIs
<1>a. Wrap(t + 1) = IF t + 1 < DEPTH THEN t + 1 ELSE t + 1 - DEPTH BY WrapIs DEF Idx, MASK
<1>b. Wrap(t + 2) = IF t + 2 < DEPTH THEN t + 2 ELSE t + 2 - DEPTH BY WrapIs DEF Idx, MASK
<1>c. Wrap(hd - t - 1) = IF hd - t - 1 >= 0 THEN hd - t - 1 ELSE hd - t - 1 + DEPTH
  BY WrapIs DEF Idx, MASK
<1>1. CASE c.kind \in {"try_push", "push"}
  <2>1. Len(c.ents) = 1 BY <1>1 DEF AnyCall, NoCall, Singles, Pairs, Slices, Slice, Batches, Batch
  <2>2. Full(c, t, hd) <=> Wrap(t + 1) = hd BY <1>1 DEF Full
  <2> QED BY <2>1, <2>2, <1>0, <1>a DEF Idx, MASK
<1>2. CASE c.kind = "try_push2"
  <2>1. Len(c.ents) = 2 BY <1>2 DEF AnyCall, NoCall, Singles, Pairs, Slices, Slice, Batches, Batch
  <2>2. Full(c, t, hd) <=> Wrap(t + 1) = hd \/ Wrap(t + 2) = hd BY <1>2 DEF Full
  <2> QED BY <2>1, <2>2, <1>0, <1>a, <1>b DEF Idx, MASK
<1>3. CASE c.kind = "try_push_slice"
  <2>1. PICK n \in 1 .. MaxSlice : Len(c.ents) = n BY <1>3 DEF AnyCall, NoCall, Singles, Pairs, Slices, Slice, Batches, Batch
  <2>2. Full(c, t, hd) <=> Wrap(hd - t - 1) < Len(c.ents) BY <1>3 DEF Full
  <2> QED BY <2>1, <2>2, <1>0, <1>c DEF Idx, MASK
<1>4. CASE c.kind = "push_batch"
  <2>1. PICK n \in 0 .. MaxBatch : Len(c.ents) = n + 1 BY <1>4 DEF AnyCall, NoCall, Singles, Pairs, Slices, Slice, Batches, Batch
  <2>2. Full(c, t, hd) <=> MASK - Dist(hd, t) < Len(c.ents) BY <1>4 DEF Full
  <2> QED BY <2>1, <2>2, <1>0 DEF Idx, MASK
<1> QED BY <1>1, <1>2, <1>3, <1>4 DEF AnyCall, NoCall, Singles, Pairs, Slices, Slice, Batches, Batch

-----------------------------------------------------------------------------
(* The inductive invariant *)

\* What the calls have in common.
LEMMA CallFacts ==
  ASSUME NEW c \in Calls \cup {NoCall}
  PROVE  /\ c \in AnyCall
         /\ c.ents \in Seq(Entry)
         /\ Len(c.ents) \in Nat
         /\ c.kind = "publish_tail" => Len(c.ents) = 0
         /\ c.kind # "publish_tail" => Len(c.ents) >= 1
<1>1. c \in AnyCall BY DEF Calls, AnyCall
<1>2. CASE c = NoCall BY <1>1, <1>2 DEF NoCall
<1>3. CASE c \in Singles
  <2>1. PICK v \in Regs : c.ents = <<Reg(v)>> /\ c.kind # "publish_tail" BY <1>3 DEF Singles
  <2>2. Reg(v) \in Entry BY DEF Reg, Entry
  <2> QED BY <1>1, <2>1, <2>2
<1>4. CASE c \in Pairs
  <2>1. PICK v \in Regs, w \in Regs : c.ents = <<Reg(v), Reg(w)>> /\ c.kind # "publish_tail"
    BY <1>4 DEF Pairs
  <2>2. Reg(v) \in Entry /\ Reg(w) \in Entry BY DEF Reg, Entry
  <2> QED BY <1>1, <2>1, <2>2
<1>5. CASE c \in Slices
  <2>1. PICK n \in 1 .. MaxSlice, v \in Regs :
          c.ents = Slice(n, v) /\ c.kind # "publish_tail"
    BY <1>5 DEF Slices
  <2>2. Reg(v) \in Entry BY DEF Reg, Entry
  <2> QED BY <1>1, <2>1, <2>2 DEF Slice
<1>6. CASE c \in Batches
  <2>1. PICK n \in 0 .. MaxBatch, v \in Regs :
          c.ents = Batch(n, v) /\ c.kind # "publish_tail"
    BY <1>6 DEF Batches
  <2>2. Token(n) \in Entry /\ Payload(v) \in Entry BY DEF Token, Payload, Entry, Idx, MASK
  <2> QED BY <1>1, <2>1, <2>2 DEF Batch
<1> QED BY <1>1, <1>2, <1>3, <1>4, <1>5, <1>6 DEF AnyCall

-----------------------------------------------------------------------------
(* Heads and producers *)

USE DEF ring, pvars, cvars, ovars

\* The types of one running head's indices, and of the distances between them.
Indices(h) ==
  /\ head[h] \in Idx /\ local_head[h] \in Idx /\ shadow_tail[h] \in Idx /\ dtail[h] \in Idx
  /\ tail \in Idx /\ shadow_head \in Idx
Numbers(h) ==
  /\ Dist(head[h], tail) \in 0 .. MASK
  /\ Dist(local_head[h], tail) \in 0 .. MASK
  /\ Dist(local_head[h], shadow_tail[h]) \in 0 .. MASK
  /\ Dist(local_head[h], dtail[h]) \in 0 .. MASK
  /\ Dist(shadow_head, tail) \in 0 .. MASK
  /\ MASK \in Nat
  /\ Len(hand[h]) \in Nat /\ Lag(h) \in Nat
  /\ Dist(local_head[h], tail) <= Lag(h)

\* Running heads are heads of the ring.
LEMMA ActiveHeads == IndInv => Active \subseteq Heads /\ 0 \in Active /\ active \in Nat
<1> SUFFICES ASSUME IndInv PROVE Active \subseteq Heads /\ 0 \in Active /\ active \in Nat OBVIOUS
<1>1. active \in 1 .. HEADS BY DEF IndInv, TypeOK, RingTypeOK
<1> QED BY <1>1 DEF Active, Heads

\* What the invariant says of one running head, in numbers.
LEMMA HeadFacts == ASSUME IndInv, NEW h \in Active PROVE Indices(h) /\ Numbers(h)
<1>1. h \in Heads BY ActiveHeads
<1>2. Indices(h) BY <1>1 DEF IndInv, TypeOK, RingTypeOK, ConsumerTypeOK, Indices
<1>3. Len(hand[h]) \in Nat BY <1>1 DEF IndInv, TypeOK, ConsumerTypeOK
<1>4. cpc[h] = "consume" => Len(hand[h]) >= 1 BY DEF IndInv, HeadsOK, HandOK
<1>5. Dist(local_head[h], tail) \in 0 .. MASK /\ MASK \in Nat
  BY <1>2, DistType DEF Indices, MASK
<1>6. Lag(h) \in Nat /\ Dist(local_head[h], tail) <= Lag(h) BY <1>3, <1>4, <1>5 DEF Lag
<1>7. /\ Dist(head[h], tail) \in 0 .. MASK
      /\ Dist(local_head[h], shadow_tail[h]) \in 0 .. MASK
      /\ Dist(local_head[h], dtail[h]) \in 0 .. MASK
      /\ Dist(shadow_head, tail) \in 0 .. MASK
  BY <1>2, DistType DEF Indices
<1> QED BY <1>2, <1>3, <1>5, <1>6, <1>7 DEF Numbers

\* What it says of one producer's call.
LEMMA ProducerFacts ==
  ASSUME IndInv, NEW p \in Producers
  PROVE  /\ call[p] \in AnyCall
         /\ call[p].ents \in Seq(Entry)
         /\ N(p) \in Nat
         /\ call[p].kind = "publish_tail" => N(p) = 0
         /\ call[p].kind # "publish_tail" => N(p) >= 1
         /\ i[p] \in Nat /\ slow[p] \in Idx
<1>1. call[p] \in Calls \cup {NoCall} /\ i[p] \in Nat /\ slow[p] \in Idx
  BY DEF IndInv, TypeOK, ProducerTypeOK
<1> QED BY <1>1, CallFacts DEF N

\* The parts of the type invariant a step does not touch.
LEMMA TypesKept ==
  ASSUME IndInv
  PROVE  /\ UNCHANGED pvars => ProducerTypeOK'
         /\ UNCHANGED cvars => ConsumerTypeOK'
         /\ UNCHANGED ovars => ObserverTypeOK'
         /\ UNCHANGED ring => RingTypeOK'
<1>1. UNCHANGED pvars => ProducerTypeOK' BY DEF IndInv, TypeOK, ProducerTypeOK
<1>2. UNCHANGED cvars => ConsumerTypeOK' BY DEF IndInv, TypeOK, ConsumerTypeOK
<1>3. UNCHANGED ovars => ObserverTypeOK' BY DEF IndInv, TypeOK, ObserverTypeOK
<1>4. UNCHANGED ring => RingTypeOK' BY DEF IndInv, TypeOK, RingTypeOK
<1> QED BY <1>1, <1>2, <1>3, <1>4

\* A step that leaves the indices alone leaves heads and observers as they were.
LEMMA RingKept ==
  ASSUME IndInv, UNCHANGED <<active, head, tail, shadow_head, shadow_tail, local_head, cvars, ovars>>
  PROVE  HeadsOK' /\ ObserversOK' /\ DrainedIsPublished'
<1>1. ASSUME NEW h \in Active PROVE Lag(h)' = Lag(h) BY DEF Lag
<1>2. Active' = Active BY DEF Active
<1>3. HeadsOK' BY <1>1, <1>2, Zenon DEF IndInv, HeadsOK, Ordered, HandOK
<1>4. ObserversOK' BY <1>1, <1>2, Zenon DEF IndInv, ObserversOK, ObserverOK
<1>5. DrainedIsPublished' BY <1>2, Zenon DEF IndInv, DrainedIsPublished
<1> QED BY <1>3, <1>4, <1>5

\* A consumer's step moves the indices of its own head only.
KeepsHead(g) ==
  /\ head'[g] = head[g] /\ local_head'[g] = local_head[g] /\ shadow_tail'[g] = shadow_tail[g]
  /\ cpc'[g] = cpc[g] /\ hand'[g] = hand[g] /\ dtail'[g] = dtail[g]

\* If head h's own indices stay in order and its published head does not fall
\* back, the step preserves the invariant.
LEMMA ConsumerStep ==
  ASSUME IndInv, NEW h \in Active,
         UNCHANGED <<lock, active, tail, shadow_head, buf, pvars>>,
         \A g \in Heads : g # h => KeepsHead(g),
         RingTypeOK', ConsumerTypeOK', ObserverTypeOK', ObserversOK', Ordered(h)', HandOK(h)',
         Dist(head'[h], tail) <= Dist(head[h], tail),
         cpc'[h] \in {"peek", "none", "stopped"} /\ local_head'[h] = tail => head'[h] = tail
  PROVE  IndInv'
<1>1. Active' = Active /\ Active \subseteq Heads /\ h \in Heads BY ActiveHeads, Zenon DEF Active
<1>2. MutualExclusion' BY Zenon DEF IndInv, MutualExclusion, Holding
<1>3. ASSUME NEW g \in Active PROVE Ordered(g)' /\ HandOK(g)'
  <2>1. CASE g # h
    <3>1. Ordered(g) /\ HandOK(g) /\ KeepsHead(g) BY <1>1, <2>1, Zenon DEF IndInv, HeadsOK
    <3> QED BY <3>1, Zenon DEF KeepsHead, Ordered, HandOK, Lag
  <2>2. CASE g = h BY <2>2, Zenon
  <2> QED BY <2>1, <2>2, Zenon
<1>4. ASSUME NEW g \in Active PROVE Dist(head'[g], tail) <= Dist(head[g], tail)
  <2>1. Dist(head[g], tail) \in 0 .. MASK BY HeadFacts, Zenon DEF Numbers
  <2> QED BY <2>1, <1>1 DEF KeepsHead
<1>5. ASSUME NEW q \in Producers PROVE ProducerOK(q)'
  <2>1. ASSUME ppc[q] = "scan", NEW g \in 0 .. i[q] - 1
        PROVE  Dist(head'[g], tail) <= Dist(slow[q], tail)
    <3>1. i[q] \in Active /\ Dist(head[g], tail) <= Dist(slow[q], tail)
      BY <2>1, Zenon DEF IndInv, ProducersOK, ProducerOK
    <3>2. g \in Active /\ g \in Heads BY <3>1, <1>1, ActiveHeads DEF Active
    <3>3. tail \in Idx /\ head[g] \in Idx /\ head'[g] \in Idx
      BY <3>2, Zenon DEF IndInv, TypeOK, RingTypeOK
    <3>4. /\ Dist(head'[g], tail) \in 0 .. MASK /\ Dist(head[g], tail) \in 0 .. MASK
          /\ Dist(slow[q], tail) \in 0 .. MASK
      BY <3>3, DistType, ProducerFacts, Zenon
    <3> QED BY <3>1, <3>2, <3>4, <1>4
  <2>2. ProducerOK(q) BY Zenon DEF IndInv, ProducersOK
  <2> QED BY <2>1, <2>2, <1>1, Zenon DEF ProducerOK, Room, N
<1>6. DrainedIsPublished' BY <1>1, Zenon DEF IndInv, DrainedIsPublished, KeepsHead
<1>7. HeadsOK'
  <2>1. \A g \in Heads \ Active : cpc'[g] = "stopped" BY Zenon DEF IndInv, HeadsOK, KeepsHead
  <2> QED BY <2>1, <1>1, <1>3, Zenon DEF HeadsOK
<1>8. ProducersOK' BY <1>5, Zenon DEF ProducersOK
<1>9. TypeOK' BY TypesKept, Zenon DEF TypeOK
<1> QED BY <1>2, <1>6, <1>7, <1>8, <1>9, Zenon DEF IndInv

\* While nobody's lag changes, what is owed to an observer does not either.
LEMMA SameLag ==
  ASSUME IndInv, UNCHANGED <<active, tail, ovars>>, \A g \in Active : Lag(g)' = Lag(g)
  PROVE  ObserversOK' /\ ObserverTypeOK'
<1>1. ObserversOK' BY Zenon DEF IndInv, ObserversOK, ObserverOK, Active
<1>2. ObserverTypeOK' BY TypesKept, Zenon
<1> QED BY <1>1, <1>2

\* The lag of a head that keeps its place and stays outside "consume".
LEMMA LagKept ==
  ASSUME IndInv, UNCHANGED tail, NEW h \in Heads,
         \A g \in Heads : g # h => KeepsHead(g),
         local_head'[h] = local_head[h],
         cpc'[h] = "consume" <=> cpc[h] = "consume", hand'[h] = hand[h] \/ cpc[h] # "consume"
  PROVE  \A g \in Active : Lag(g)' = Lag(g)
<1> SUFFICES ASSUME NEW g \in Active PROVE Lag(g)' = Lag(g) BY Zenon
<1>1. CASE g = h BY <1>1, Zenon DEF Lag
<1>2. CASE g # h
  <2>1. KeepsHead(g) BY <1>2, ActiveHeads, Zenon
  <2> QED BY <2>1, Zenon DEF Lag, KeepsHead
<1> QED BY <1>1, <1>2, Zenon

-----------------------------------------------------------------------------
(* The steps of a consumer *)

\* peek_at: the cached tail is refreshed when the head has caught up with it.
LEMMA PeekStep == ASSUME IndInv, NEW h \in Heads, Peek(h) PROVE IndInv'
<1> DEFINE t == IF local_head[h] = shadow_tail[h] THEN tail ELSE shadow_tail[h]
           e == buf[local_head[h]]
<1>1. h \in Active BY Zenon DEF IndInv, HeadsOK, Peek
<1>h. Indices(h) /\ Numbers(h) BY <1>1, HeadFacts
<1>2. t \in Idx /\ e \in Entry /\ <<e>> \in Seq(Entry) /\ Len(<<e>>) = 1
  BY <1>h DEF Indices, IndInv, TypeOK, RingTypeOK
<1>3. /\ cpc[h] = "peek" /\ hand[h] = <<>> /\ Ordered(h) BY <1>1, Zenon DEF IndInv, HeadsOK, HandOK, Peek
<1>4. /\ UNCHANGED <<lock, active, head, tail, shadow_head, local_head, buf, dtail, pvars, ovars>>
      /\ shadow_tail' = [shadow_tail EXCEPT ![h] = t]
      /\ \/ /\ local_head[h] = t /\ cpc' = [cpc EXCEPT ![h] = "none"] /\ hand' = hand
         \/ /\ local_head[h] # t /\ cpc' = [cpc EXCEPT ![h] = "have"]
            /\ hand' = [hand EXCEPT ![h] = <<e>>]
  BY Zenon DEF Peek
<1>9a. Dist(local_head[h], t) <= Dist(local_head[h], tail) BY <1>h, <1>3 DEF Ordered, Numbers
<1> HIDE DEF t, e
<1>5. /\ \A g \in Heads : g # h => KeepsHead(g)
      /\ shadow_tail'[h] = t
      /\ \/ local_head[h] = t /\ cpc'[h] = "none" /\ hand'[h] = <<>>
         \/ local_head[h] # t /\ cpc'[h] = "have" /\ hand'[h] = <<e>>
  BY <1>3, <1>4, Zenon DEF IndInv, TypeOK, RingTypeOK, ConsumerTypeOK, KeepsHead
<1>6. RingTypeOK' BY <1>2, <1>4, Zenon DEF IndInv, TypeOK, RingTypeOK
<1>6a. ConsumerTypeOK' BY <1>2, <1>4, Zenon DEF IndInv, TypeOK, ConsumerTypeOK
<1>7. \A g \in Active : Lag(g)' = Lag(g) BY <1>3, <1>4, <1>5, LagKept, Zenon
<1>8. ObserversOK' /\ ObserverTypeOK' BY <1>4, <1>7, SameLag, Zenon
<1>9. Ordered(h)' BY <1>9a, <1>1, <1>3, <1>4, <1>5, <1>7, Zenon DEF Ordered
<1>10. HandOK(h)'
  <2>1. CASE cpc'[h] = "none" BY <2>1, <1>5, Zenon DEF HandOK
  <2>2. CASE cpc'[h] = "have"
    <3>1. Len(hand'[h]) = 1 /\ local_head'[h] # shadow_tail'[h] BY <2>2, <1>2, <1>4, <1>5, Zenon
    <3> QED BY <2>2, <3>1, Zenon DEF HandOK
  <2> QED BY <2>1, <2>2, <1>5, Zenon
<1>11. local_head[h] = tail => head[h] = tail BY <1>1, <1>3, Zenon DEF IndInv, DrainedIsPublished
<1>12. Dist(head'[h], tail) <= Dist(head[h], tail) BY <1>h, <1>4 DEF Numbers
<1> QED BY <1>1, <1>4, <1>5, <1>6, <1>6a, <1>8, <1>9, <1>10, <1>11, <1>12, ConsumerStep, Zenon

\* The two stores of head: the published head catches up with local_head.
Stores(h, c) ==
  /\ cpc[h] \in {"peek", "none", "store"} /\ cpc' = [cpc EXCEPT ![h] = c]
  /\ head' = [head EXCEPT ![h] = local_head[h]]
  /\ UNCHANGED <<lock, active, tail, shadow_head, shadow_tail, local_head, buf, hand, dtail, pvars, ovars>>
\* A store of head keeps the invariant: the published head only catches up.
LEMMA StoreStep ==
  ASSUME IndInv, NEW h \in Active, NEW c \in {"peek", "stopped"}, Stores(h, c)
  PROVE  IndInv'
<1>1. h \in Heads /\ Ordered(h) /\ hand[h] = <<>> BY ActiveHeads, Zenon DEF IndInv, HeadsOK, HandOK, Stores
<1>h. Indices(h) /\ Numbers(h) BY HeadFacts
<1>2. head'[h] = local_head[h] /\ cpc'[h] = c /\ \A g \in Heads : g # h => KeepsHead(g)
  BY <1>1, Zenon DEF IndInv, TypeOK, RingTypeOK, ConsumerTypeOK, KeepsHead, Stores
<1>k. /\ cpc[h] \in {"peek", "none", "store"}
      /\ UNCHANGED <<lock, active, tail, shadow_head, shadow_tail, local_head, buf, hand, dtail, pvars, ovars>>
  BY Zenon DEF Stores
<1>3. RingTypeOK' BY <1>h, Zenon DEF IndInv, TypeOK, RingTypeOK, Indices, Stores
<1>3a. ConsumerTypeOK' BY Zenon DEF IndInv, TypeOK, ConsumerTypeOK, Stores
<1>4. \A g \in Active : Lag(g)' = Lag(g) BY <1>1, <1>2, <1>k, LagKept, Zenon
<1>5. ObserversOK' /\ ObserverTypeOK' BY <1>4, <1>k, SameLag, Zenon
<1>6. Dist(head'[h], tail) <= Dist(head[h], tail) BY <1>1, <1>2, <1>h DEF Ordered, Numbers
<1>7. Lag(h)' = Dist(head'[h], tail) BY <1>2, <1>h, <1>k DEF Lag, Numbers
<1>7a. Dist(head'[h], tail) <= Dist(shadow_head, tail)
  BY <1>1, <1>2, <1>6, <1>h DEF Ordered, Numbers
<1>8. Ordered(h)'
  <2>1. Dist(head'[h], tail) \in 0 .. MASK BY <1>2, <1>h, Zenon DEF Numbers
  <2> QED BY <2>1, <1>1, <1>7, <1>7a, <1>k DEF Ordered
<1>9. HandOK(h)' BY <1>1, <1>2, <1>k, Zenon DEF HandOK
<1> QED BY <1>2, <1>3, <1>3a, <1>5, <1>6, <1>8, <1>9, <1>k, ConsumerStep, Zenon

\* flush_head_at, when peek finds nothing.
LEMMA FlushHeadStep == ASSUME IndInv, NEW h \in Heads, FlushHead(h) PROVE IndInv'
<1>1. h \in Active BY Zenon DEF IndInv, HeadsOK, FlushHead
<1>2. \E c \in {"peek", "stopped"} : Stores(h, c) BY Zenon DEF FlushHead, Stores
<1> QED BY <1>1, <1>2, StoreStep

\* consume_at's store of head.
LEMMA StoreHeadStep == ASSUME IndInv, NEW h \in Heads, StoreHead(h) PROVE IndInv'
<1>1. h \in Active BY Zenon DEF IndInv, HeadsOK, StoreHead
<1>2. \E c \in {"peek", "stopped"} : Stores(h, c) BY Zenon DEF StoreHead, Stores
<1> QED BY <1>1, <1>2, StoreStep

\* A thread that starts or stops without touching an index.
Idles(h, c) ==
  /\ cpc[h] \in {"peek", "stopped"} /\ cpc' = [cpc EXCEPT ![h] = c]
  /\ UNCHANGED <<ring, hand, dtail, pvars, ovars>>
\* So does a start or an exit without one.
LEMMA IdleStep ==
  ASSUME IndInv, NEW h \in Active, NEW c \in {"peek", "stopped"}, Idles(h, c)
  PROVE  IndInv'
<1>1. h \in Heads /\ Ordered(h) /\ hand[h] = <<>> BY ActiveHeads, Zenon DEF IndInv, HeadsOK, HandOK, Idles
<1>h. Numbers(h) BY HeadFacts
<1>2. cpc'[h] = c /\ \A g \in Heads : g # h => KeepsHead(g)
  BY <1>1, Zenon DEF IndInv, TypeOK, ConsumerTypeOK, KeepsHead, Idles
<1>k. cpc[h] \in {"peek", "stopped"} /\ UNCHANGED <<ring, hand, dtail, pvars, ovars>> BY Zenon DEF Idles
<1>3. RingTypeOK' BY <1>k, TypesKept, Zenon
<1>4. ConsumerTypeOK' BY Zenon DEF IndInv, TypeOK, ConsumerTypeOK, Idles
<1>5. \A g \in Active : Lag(g)' = Lag(g) BY <1>1, <1>2, <1>k, LagKept, Zenon
<1>6. ObserversOK' /\ ObserverTypeOK' BY <1>5, <1>k, SameLag, Zenon
<1>7. Ordered(h)' BY <1>1, <1>5, <1>k, Zenon DEF Ordered
<1>8. HandOK(h)' BY <1>1, <1>2, <1>k, Zenon DEF HandOK
<1>9. local_head[h] = tail => head[h] = tail BY <1>k, Zenon DEF IndInv, DrainedIsPublished
<1>10. Dist(head'[h], tail) <= Dist(head[h], tail) BY <1>h, <1>k DEF Numbers
<1> QED BY <1>2, <1>3, <1>4, <1>6, <1>7, <1>8, <1>9, <1>10, <1>k, ConsumerStep, Zenon

\* Leaving the loop, with or without a last flush.
LEMMA ExitStep == ASSUME IndInv, NEW h \in Heads, Exit(h) PROVE IndInv'
<1>1. h \in Active BY Zenon DEF IndInv, HeadsOK, Exit
<1>2. CASE head' = head
  <2>1. \E c \in {"peek", "stopped"} : Idles(h, c) BY <1>2, Zenon DEF Exit, Idles
  <2> QED BY <1>1, <2>1, IdleStep
<1>3. CASE head' = [head EXCEPT ![h] = local_head[h]]
  <2>1. \E c \in {"peek", "stopped"} : Stores(h, c) BY <1>3, Zenon DEF Exit, Stores
  <2> QED BY <1>1, <2>1, StoreStep
<1> QED BY <1>2, <1>3 DEF Exit

\* The consumer thread starts.
LEMMA StartStep == ASSUME IndInv, NEW h \in Heads, Start(h) PROVE IndInv'
<1>1. h \in Active BY Zenon DEF Start
<1>2. \E c \in {"peek", "stopped"} : Idles(h, c) BY Zenon DEF Start, Idles
<1> QED BY <1>1, <1>2, IdleStep

\* Processing an entry; a token starts a drain at the tail it loads.
LEMMA ProcessStep == ASSUME IndInv, NEW h \in Heads, Process(h) PROVE IndInv'
<1>1. h \in Active BY Zenon DEF IndInv, HeadsOK, Process
<1>h. Indices(h) /\ Numbers(h) BY <1>1, HeadFacts
<1>2. cpc[h] = "have" /\ Ordered(h) /\ local_head[h] # shadow_tail[h] /\ Len(hand[h]) = 1
  BY <1>1, Zenon DEF IndInv, HeadsOK, HandOK, Process
<1>3. /\ UNCHANGED <<lock, active, head, tail, shadow_head, shadow_tail, local_head, buf,
                     hand, pvars, ovars>>
      /\ \/ cpc' = [cpc EXCEPT ![h] = "drain"] /\ dtail' = [dtail EXCEPT ![h] = tail]
         \/ cpc' = [cpc EXCEPT ![h] = "consume"] /\ dtail' = dtail
  BY Zenon DEF Process
<1>4. /\ \A g \in Heads : g # h => KeepsHead(g)
      /\ (cpc'[h] = "drain" /\ dtail'[h] = tail) \/ cpc'[h] = "consume"
  BY <1>3, Zenon DEF IndInv, TypeOK, ConsumerTypeOK, KeepsHead
<1>5. RingTypeOK' BY <1>3, TypesKept, Zenon
<1>5a. ConsumerTypeOK' BY <1>3, <1>h, Zenon DEF IndInv, TypeOK, ConsumerTypeOK, Indices
<1>6. ASSUME NEW g \in Active PROVE Lag(g)' = Lag(g)
  <2>1. CASE g = h
    <3>1. Lag(h) = Dist(local_head[h], tail) + 0 BY <1>2, Zenon DEF Lag
    <3>2. cpc'[h] # "consume" \/ Len(hand'[h]) - 1 = 0 BY <1>2, <1>3
    <3>3. Lag(h)' = Dist(local_head[h], tail) + 0 BY <1>3, <3>2, Zenon DEF Lag
    <3> QED BY <2>1, <3>1, <3>3, Zenon
  <2>2. CASE g # h
    <3>1. KeepsHead(g) BY <2>2, <1>4, ActiveHeads, Zenon
    <3> QED BY <3>1, <1>3, Zenon DEF Lag, KeepsHead
  <2> QED BY <2>1, <2>2
<1>7. ObserversOK' /\ ObserverTypeOK' BY <1>3, <1>6, SameLag, Zenon
<1>8. Ordered(h)' BY <1>1, <1>2, <1>3, <1>6, Zenon DEF Ordered
<1>9. 1 <= Dist(local_head[h], tail)
  <2>1. Dist(local_head[h], shadow_tail[h]) # 0 BY <1>2, <1>h, DistType, Zenon DEF Indices
  <2> QED BY <2>1, <1>2, <1>h DEF Ordered, Numbers
<1>10. HandOK(h)'
  <2>0. hand' = hand /\ local_head' = local_head /\ shadow_tail' = shadow_tail /\ tail' = tail
    BY <1>3, Zenon
  <2>1. CASE cpc'[h] = "consume" BY <2>0, <2>1, <1>2 DEF HandOK
  <2>2. CASE cpc'[h] = "drain"
    <3>1. dtail'[h] = tail BY <2>2, <1>4, Zenon
    <3>2. Dist(local_head[h], tail) <= Dist(local_head[h], tail) BY <1>h DEF Numbers
    <3> QED BY <2>0, <2>2, <3>1, <3>2, <1>2, <1>9 DEF HandOK
  <2> QED BY <2>1, <2>2, <1>4, Zenon
<1>11. Dist(head'[h], tail) <= Dist(head[h], tail) BY <1>3, <1>h DEF Numbers
<1> QED BY <1>1, <1>3, <1>4, <1>5, <1>5a, <1>7, <1>8, <1>10, <1>11, ConsumerStep, Zenon

-----------------------------------------------------------------------------
(* Batches *)

\* Every token of a sequence of entries has its payload behind it.
Whole(s) == \A k \in 1 .. Len(s) : s[k].addr = "token" =>
              /\ k + s[k].val <= Len(s)
              /\ \A j \in k + 1 .. k + s[k].val : s[j].addr = "payload"

\* Concatenation, entry by entry.
LEMMA ConcatFacts ==
  ASSUME NEW E, NEW s \in Seq(E), NEW t \in Seq(E)
  PROVE  /\ s \o t \in Seq(E) /\ Len(s \o t) = Len(s) + Len(t)
         /\ \A k \in 1 .. Len(s) + Len(t) :
              (s \o t)[k] = IF k <= Len(s) THEN s[k] ELSE t[k - Len(s)]
  OBVIOUS

\* Every call pushes whole batches.
LEMMA WholeCall == ASSUME NEW c \in Calls \cup {NoCall} PROVE Whole(c.ents)
<1>1. c \in AnyCall BY DEF Calls, AnyCall
<1>2. CASE c = NoCall BY <1>2 DEF NoCall, Whole
<1>3. CASE c \in Singles
  <2>1. PICK v \in Regs : c.ents = <<Reg(v)>> BY <1>3 DEF Singles
  <2> QED BY <2>1 DEF Reg, Whole
<1>4. CASE c \in Pairs
  <2>1. PICK v \in Regs, w \in Regs : c.ents = <<Reg(v), Reg(w)>> BY <1>4 DEF Pairs
  <2> QED BY <2>1 DEF Reg, Whole
<1>5. CASE c \in Slices
  <2>1. PICK n \in 1 .. MaxSlice, v \in Regs : 
          c.ents = Slice(n, v) /\ c.kind # "publish_tail"
    BY <1>5 DEF Slices
  <2> QED BY <2>1 DEF Slice, Reg, Whole
<1>6. CASE c \in Batches
  <2>1. PICK n \in 0 .. MaxBatch, v \in Regs : c.ents = Batch(n, v) BY <1>6 DEF Batches
  <2>2. n \in Nat /\ Len(Batch(n, v)) = n + 1
    <3>1. n \in Nat OBVIOUS
    <3> QED BY <3>1 DEF Batch
  <2>3. \A k \in 1 .. n + 1 : Batch(n, v)[k] = IF k = 1 THEN Token(n) ELSE Payload(v) BY Zenon DEF Batch
  <2>4. /\ Token(n).addr = "token" /\ Token(n).val = n
        /\ Payload(v).addr = "payload" /\ Payload(v).addr # "token"
    BY Zenon DEF Token, Payload
  <2> HIDE DEF Batch, Token, Payload
  <2>5. ASSUME NEW k \in 1 .. n + 1, Batch(n, v)[k].addr = "token"
        PROVE  /\ k + Batch(n, v)[k].val <= n + 1
               /\ \A j \in k + 1 .. k + Batch(n, v)[k].val : Batch(n, v)[j].addr = "payload"
    <3>1. k = 1 BY <2>3, <2>4, <2>5, Zenon
    <3>2. Batch(n, v)[k].val = n BY <3>1, <2>2, <2>3, <2>4, Zenon
    <3>3. \A j \in 2 .. n + 1 : Batch(n, v)[j] = Payload(v) BY <2>2, <2>3
    <3> QED BY <3>1, <3>2, <3>3, <2>2, <2>4
  <2> QED BY <2>1, <2>2, <2>5, Zenon DEF Whole
<1> QED BY <1>1, <1>2, <1>3, <1>4, <1>5, <1>6, Zenon DEF AnyCall

\* The value of a token is a count.
LEMMA TokenValue == ASSUME NEW e \in Entry, e.addr = "token" PROVE e.val \in Nat /\ e.val <= MASK
<1>1. MASK \in Nat BY DEF MASK
<1> QED BY <1>1 DEF Entry, Idx

\* Whole batches behind whole batches.
LEMMA WholeConcat ==
  ASSUME NEW s \in Seq(Entry), NEW t \in Seq(Entry), Whole(s), Whole(t)
  PROVE  Whole(s \o t)
<1> DEFINE u == s \o t
           m == Len(s)
           n == Len(t)
<1>1. m \in Nat /\ n \in Nat /\ u \in Seq(Entry) /\ Len(u) = m + n BY ConcatFacts
<1>2. \A k \in 1 .. m + n : u[k] = IF k <= m THEN s[k] ELSE t[k - m] BY ConcatFacts, Zenon
<1>3. /\ \A k \in 1 .. m : s[k] \in Entry
      /\ \A k \in 1 .. n : t[k] \in Entry
  OBVIOUS
<1> HIDE DEF u
<1>4. ASSUME NEW k \in 1 .. m + n, u[k].addr = "token"
      PROVE  k + u[k].val <= m + n /\ \A j \in k + 1 .. k + u[k].val : u[j].addr = "payload"
  <2>1. CASE k <= m
    <3>1. u[k] = s[k] /\ k \in 1 .. m BY <2>1, <1>1, <1>2
    <3>2. k + s[k].val <= m /\ \A j \in k + 1 .. k + s[k].val : s[j].addr = "payload"
      BY <3>1, <1>4, Zenon DEF Whole
    <3>3. s[k].val \in Nat BY <3>1, <1>3, <1>4, TokenValue, Zenon
    <3>4. ASSUME NEW j \in k + 1 .. k + s[k].val PROVE u[j].addr = "payload"
      <4>1. j \in 1 .. m + n /\ j <= m BY <3>1, <3>2, <3>3, <1>1
      <4> QED BY <4>1, <3>2, <1>2, Zenon
    <3> QED BY <3>1, <3>2, <3>3, <3>4, <1>1
  <2>2. CASE k > m
    <3> DEFINE d == k - m
    <3>1. u[k] = t[d] /\ d \in 1 .. n /\ k = d + m BY <2>2, <1>1, <1>2
    <3> HIDE DEF d
    <3>2. d + t[d].val <= n /\ \A j \in d + 1 .. d + t[d].val : t[j].addr = "payload"
      BY <3>1, <1>4, Zenon DEF Whole
    <3>3. t[d].val \in Nat BY <3>1, <1>3, <1>4, TokenValue, Zenon
    <3>4. ASSUME NEW j \in k + 1 .. k + t[d].val PROVE u[j].addr = "payload"
      <4>1. j \in 1 .. m + n /\ j > m /\ j - m \in d + 1 .. d + t[d].val
        <5> DEFINE x == t[d].val
        <5>1. x \in Nat /\ d + x <= n /\ j \in k + 1 .. k + x BY <3>2, <3>3, Zenon
        <5> HIDE DEF x
        <5>2. j \in 1 .. m + n /\ j > m /\ j - m \in d + 1 .. d + x BY <5>1, <3>1, <1>1
        <5> QED BY <5>2, Zenon DEF x
      <4>2. u[j] = t[j - m] BY <4>1, <1>1, <1>2
      <4> QED BY <4>1, <4>2, <3>2, Zenon
    <3> QED BY <3>1, <3>2, <3>3, <3>4, <1>1
  <2> QED BY <2>1, <2>2, <1>1
<1>5. Whole(u) BY <1>1, <1>4, Zenon DEF Whole
<1> QED BY <1>5 DEF u

\* What is left of whole batches when some entries have left from the front.
LEMMA WholeRest ==
  ASSUME NEW s \in Seq(Entry), NEW m \in Nat, m <= Len(s), Whole(s)
  PROVE  Whole(SubSeq(s, m + 1, Len(s)))
<1> DEFINE r == SubSeq(s, m + 1, Len(s))
           n == Len(s) - m
<1>1. n \in Nat /\ Len(r) = n /\ \A k \in 1 .. n : r[k] = s[m + k] OBVIOUS
<1>2. \A k \in 1 .. Len(s) : s[k] \in Entry OBVIOUS
<1>3. Len(s) = m + n /\ Len(s) \in Nat OBVIOUS
<1> HIDE DEF r, n
<1>4. ASSUME NEW k \in 1 .. n, r[k].addr = "token"
      PROVE  k + r[k].val <= n /\ \A j \in k + 1 .. k + r[k].val : r[j].addr = "payload"
  <2>1. r[k] = s[m + k] /\ m + k \in 1 .. Len(s) BY <1>1, <1>3
  <2>2. s[m + k].val \in Nat BY <2>1, <1>2, <1>4, TokenValue, Zenon
  <2>3. /\ m + k + s[m + k].val <= Len(s)
        /\ \A j \in m + k + 1 .. m + k + s[m + k].val : s[j].addr = "payload"
    BY <2>1, <1>4, Zenon DEF Whole
  <2>4. ASSUME NEW j \in k + 1 .. k + s[m + k].val PROVE r[j].addr = "payload"
    <3>1. m + j \in m + k + 1 .. m + k + s[m + k].val /\ j \in 1 .. n BY <2>2, <2>3, <1>1, <1>3
    <3> QED BY <3>1, <2>3, <1>1, Zenon
  <2> QED BY <2>1, <2>2, <2>3, <2>4, <1>1, <1>3
<1>5. Whole(r) BY <1>1, <1>4, Zenon DEF Whole
<1> QED BY <1>5 DEF r

\* A drain takes the promised count and no more.
DrainOK(h) ==
  /\ cpc[h] = "drain" => Head(hand[h]).addr = "token" /\ Len(hand[h]) <= 1 + Head(hand[h]).val
  /\ cpc[h] = "consume" /\ Head(hand[h]).addr = "token" => Len(hand[h]) = 1 + Head(hand[h]).val
DrainsOK == \A h \in Active : DrainOK(h)

\* A drain goes on until the promised count is in hand.
LEMMA DrainStep ==
  ASSUME IndInv, DrainsOK, [Next]_vars, NEW h \in Active
  PROVE  DrainOK(h)'
<1>1. h \in Heads /\ DrainOK(h) BY ActiveHeads, Zenon DEF DrainsOK
<1>2. ASSUME cpc'[h] = cpc[h], hand'[h] = hand[h] PROVE DrainOK(h)' BY <1>1, <1>2, Zenon DEF DrainOK
<1>3. ASSUME NEW g \in Heads, Consumer(g) \/ Start(g) \/ Exit(g), g # h PROVE DrainOK(h)'
  <2>1. cpc'[h] = cpc[h] /\ hand'[h] = hand[h]
    BY <1>1, <1>3, Zenon DEF Consumer, Peek, FlushHead, Process, DrainPayload, DrainDone, Consume, StoreHead,
       Exit, Start, IndInv, TypeOK, ConsumerTypeOK
  <2> QED BY <2>1, <1>2, Zenon
<1>4. CASE Peek(h) \/ FlushHead(h) \/ Consume(h) \/ StoreHead(h) \/ Exit(h) \/ Start(h)
  <2>1. cpc'[h] \notin {"drain", "consume"}
    BY <1>1, <1>4, Zenon DEF Peek, FlushHead, Consume, StoreHead, Exit, Start, IndInv, TypeOK, ConsumerTypeOK
  <2> QED BY <2>1, Zenon DEF DrainOK
<1>5. hand[h] \in Seq(Entry) /\ Len(hand[h]) \in Nat /\ cpc \in [Heads -> {"stopped", "peek", "none", "have",
        "drain", "consume", "store"}] /\ hand \in [Heads -> Seq(Entry)]
  BY <1>1 DEF IndInv, TypeOK, ConsumerTypeOK
<1>6. cpc[h] = "have" => Len(hand[h]) = 1 BY Zenon DEF IndInv, HeadsOK, HandOK
<1>7. cpc[h] = "drain" => Len(hand[h]) >= 1 BY Zenon DEF IndInv, HeadsOK, HandOK
<1>8. Len(hand[h]) >= 1 /\ Head(hand[h]).addr = "token" => Head(hand[h]).val \in Nat
  <2>1. Len(hand[h]) >= 1 => Head(hand[h]) \in Entry BY <1>5
  <2> QED BY <2>1, TokenValue, Zenon
<1>9. CASE Process(h)
  <2>1. /\ cpc[h] = "have" /\ hand' = hand
        /\ Head(hand[h]).addr = "token" => cpc'[h] = "drain"
        /\ Head(hand[h]).addr # "token" => cpc'[h] = "consume"
    BY <1>1, <1>5, <1>9, Zenon DEF Process
  <2>2. CASE Head(hand[h]).addr = "token"
    <3>1. 1 <= 1 + Head(hand[h]).val BY <2>1, <2>2, <1>6, <1>8
    <3> QED BY <3>1, <2>1, <2>2, <1>6, Zenon DEF DrainOK
  <2>3. CASE Head(hand[h]).addr # "token" BY <2>1, <2>3, Zenon DEF DrainOK
  <2> QED BY <2>2, <2>3, Zenon
<1>10. CASE DrainPayload(h)
  <2> DEFINE x == Wrap(local_head[h] + Len(hand[h]))
  <2>1. /\ cpc[h] = "drain" /\ cpc' = cpc /\ Len(hand[h]) <= Head(hand[h]).val
        /\ hand'[h] = Append(hand[h], buf[x])
    BY <1>1, <1>5, <1>10, Zenon DEF DrainPayload
  <2>2. Head(hand[h]).addr = "token" /\ Head(hand[h]).val \in Nat BY <2>1, <1>1, <1>7, <1>8, Zenon DEF DrainOK
  <2>3. Len(hand'[h]) = Len(hand[h]) + 1 /\ Head(hand'[h]) = Head(hand[h]) BY <2>1, <1>5, <1>7
  <2> QED BY <2>1, <2>2, <2>3, <1>5 DEF DrainOK
<1>11. CASE DrainDone(h)
  <2>1. cpc[h] = "drain" /\ cpc'[h] = "consume" /\ hand' = hand /\ Len(hand[h]) > Head(hand[h]).val
    BY <1>1, <1>5, <1>11, Zenon DEF DrainDone
  <2>2. /\ Head(hand[h]).addr = "token" /\ Head(hand[h]).val \in Nat
        /\ Len(hand[h]) <= 1 + Head(hand[h]).val
    BY <2>1, <1>1, <1>7, <1>8, Zenon DEF DrainOK
  <2>3. Len(hand[h]) = 1 + Head(hand[h]).val BY <2>1, <2>2, <1>5
  <2> QED BY <2>1, <2>3, Zenon DEF DrainOK
<1>12. ASSUME NEW g \in Heads, Consumer(g) \/ Start(g) \/ Exit(g) PROVE DrainOK(h)'
  <2>1. CASE g # h BY <2>1, <1>3, <1>12, Zenon
  <2>2. CASE g = h
    <3>1. Consumer(h) \/ Start(h) \/ Exit(h) BY <2>2, <1>12, Zenon
    <3> QED BY <3>1, <1>4, <1>9, <1>10, <1>11, Zenon DEF Consumer
  <2> QED BY <2>1, <2>2, Zenon
<1>13. ASSUME UNCHANGED cvars PROVE DrainOK(h)' BY <1>2, <1>13, Zenon
<1>14. ASSUME NEW p \in Producers, Producer(p) PROVE DrainOK(h)'
  BY <1>13, <1>14, Zenon DEF Producer, Call, Contended, Lock, Scan, GiveUp, Write, Publish, Unlock, Return
<1>15. ASSUME NEW o \in Observers, Observer(o) PROVE DrainOK(h)'
  BY <1>13, <1>15, Zenon DEF Observer, IsEmpty, LoadHead, Answered
<1>16. Reset \/ UNCHANGED vars => DrainOK(h)' BY <1>13, Zenon DEF Reset, vars
<1> QED BY <1>12, <1>14, <1>15, <1>16, Zenon DEF Next, Step
=============================================================================
