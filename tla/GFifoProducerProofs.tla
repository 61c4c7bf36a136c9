----------------------- MODULE GFifoProducerProofs -----------------------
(* Each step of a producer of the graphics ring preserves the invariant, and *)
(* the slots it writes behind tail hold the front of its call; the steps of  *)
(* the threads that ask is_empty.                                            *)
EXTENDS GFifoConsumerProofs

USE DepthAssumption, HeadsAssumption, PublishAssumption, SizeAssumption
USE DEF ring, pvars, cvars, ovars

\* A producer step that leaves tail and the heads alone is about p only.
KeepsProducer(q) == ppc'[q] = ppc[q] /\ call'[q] = call[q] /\ i'[q] = i[q] /\ slow'[q] = slow[q]
\* Such a step preserves the invariant if it does so for p.
LEMMA ProducerStep ==
  ASSUME IndInv, NEW p \in Producers,
         UNCHANGED <<active, head, tail, shadow_head, shadow_tail, local_head, cvars, ovars>>,
         \A q \in Producers : q # p => KeepsProducer(q),
         RingTypeOK', ProducerTypeOK', MutualExclusion', ProducerOK(p)'
  PROVE  IndInv'
<1>1. ASSUME NEW q \in Producers, q # p PROVE ProducerOK(q)'
  <2>1. ProducerOK(q) /\ KeepsProducer(q) BY <1>1 DEF IndInv, ProducersOK
  <2> QED BY <2>1, Zenon DEF KeepsProducer, ProducerOK, Room, N, Active
<1>2. ProducersOK' BY <1>1 DEF ProducersOK
<1>3. TypeOK' BY TypesKept DEF TypeOK
<1> QED BY <1>2, <1>3, RingKept DEF IndInv

\* A call that starts touches nothing shared.
LEMMA CallStep == ASSUME IndInv, NEW p \in Producers, Call(p) PROVE IndInv'
<1>1. ProducerTypeOK' BY DEF IndInv, TypeOK, ProducerTypeOK, Call
<1>2. RingTypeOK' BY DEF IndInv, TypeOK, RingTypeOK, Call
<1>3. \A q \in Producers : q # p => KeepsProducer(q)
  BY DEF IndInv, TypeOK, ProducerTypeOK, KeepsProducer, Call
<1>4. MutualExclusion' BY DEF IndInv, TypeOK, ProducerTypeOK, MutualExclusion, Holding, Call
<1>5. ProducerOK(p)' BY Zenon DEF IndInv, ProducersOK, TypeOK, ProducerTypeOK, ProducerOK, Room, N, Call
<1> QED BY <1>1, <1>2, <1>3, <1>4, <1>5, ProducerStep DEF Call

\* A contended call returns.
LEMMA ContendedStep == ASSUME IndInv, NEW p \in Producers, Contended(p) PROVE IndInv'
<1>1. ProducerTypeOK' BY DEF IndInv, TypeOK, ProducerTypeOK, Contended
<1>2. RingTypeOK' BY DEF IndInv, TypeOK, RingTypeOK, Contended
<1>3. \A q \in Producers : q # p => KeepsProducer(q)
  BY DEF IndInv, TypeOK, ProducerTypeOK, KeepsProducer, Contended
<1>4. MutualExclusion' BY DEF IndInv, TypeOK, ProducerTypeOK, MutualExclusion, Holding, Contended
<1>5. ProducerOK(p)' BY Zenon DEF IndInv, ProducersOK, TypeOK, ProducerTypeOK, ProducerOK, Room, N, Contended
<1> QED BY <1>1, <1>2, <1>3, <1>4, <1>5, ProducerStep DEF Contended

\* Taking the lock, with the room test of the entry point.
LEMMA LockStep == ASSUME IndInv, NEW p \in Producers, Lock(p) PROVE IndInv'
<1>1. ProducerTypeOK' BY DEF IndInv, TypeOK, ProducerTypeOK, Lock
<1>2. RingTypeOK' BY Zenon DEF IndInv, TypeOK, RingTypeOK, Lock
<1>3. \A q \in Producers : q # p => KeepsProducer(q)
  BY DEF IndInv, TypeOK, ProducerTypeOK, KeepsProducer, Lock
<1>4. MutualExclusion' BY Zenon DEF IndInv, TypeOK, ProducerTypeOK, MutualExclusion, Holding, Lock
<1>5. ProducerOK(p)'
  <2>1. tail \in Idx /\ shadow_head \in Idx BY DEF IndInv, TypeOK, RingTypeOK
  <2>2. call[p].kind # "publish_tail" =>
          (~Full(call[p], tail, shadow_head) <=> N(p) + Dist(shadow_head, tail) <= MASK)
    BY <2>1, ProducerFacts, FullIsNoRoom DEF N
  <2>3. i[p] = 0 BY Zenon DEF IndInv, ProducersOK, ProducerOK, Lock
  <2>4. /\ ppc'[p] = IF call[p].kind = "publish_tail" THEN "publish"
                     ELSE IF call[p].kind = "push_batch" \/ Full(call[p], tail, shadow_head)
                          THEN "scan" ELSE "write"
        /\ UNCHANGED <<active, head, tail, shadow_head, call, i, slow>>
    BY Zenon DEF IndInv, TypeOK, ProducerTypeOK, Lock
  <2>5. CASE ppc'[p] = "publish"
    <3>1. Dist(shadow_head, tail) \in 0 .. MASK BY <2>1, DistType
    <3>2. N(p) = 0 BY <2>4, <2>5, ProducerFacts, Zenon
    <3> QED BY <2>3, <2>4, <2>5, <3>1, <3>2 DEF ProducerOK, Room, N
  <2>6. CASE ppc'[p] = "scan" BY <2>3, <2>4, <2>6, ActiveHeads DEF ProducerOK, Active
  <2>7. CASE ppc'[p] = "write"
    <3>1. N(p) >= 1 /\ N(p) \in Nat /\ N(p) + Dist(shadow_head, tail) <= MASK
      BY <2>2, <2>4, <2>7, ProducerFacts, Zenon
    <3> QED BY <2>3, <2>4, <2>7, <3>1 DEF ProducerOK, Room, N
  <2> QED BY <2>4, <2>5, <2>6, <2>7, Zenon
<1> QED BY <1>1, <1>2, <1>3, <1>4, <1>5, ProducerStep, Zenon DEF Lock

\* A full ring: the lock goes back.
LEMMA GiveUpStep == ASSUME IndInv, NEW p \in Producers, GiveUp(p) PROVE IndInv'
<1>1. ProducerTypeOK' BY Zenon DEF IndInv, TypeOK, ProducerTypeOK, GiveUp
<1>2. RingTypeOK' BY Zenon DEF IndInv, TypeOK, RingTypeOK, GiveUp
<1>3. \A q \in Producers : q # p => KeepsProducer(q)
  BY Zenon DEF IndInv, TypeOK, ProducerTypeOK, KeepsProducer, GiveUp
<1>4. MutualExclusion' BY Zenon DEF IndInv, TypeOK, ProducerTypeOK, MutualExclusion, Holding, GiveUp
<1>5. ProducerOK(p)' BY Zenon DEF IndInv, ProducersOK, TypeOK, ProducerTypeOK, ProducerOK, Room, N, GiveUp
<1> QED BY <1>1, <1>2, <1>3, <1>4, <1>5, ProducerStep, Zenon DEF GiveUp

\* Writing one slot.
LEMMA WriteStep == ASSUME IndInv, NEW p \in Producers, Write(p) PROVE IndInv'
<1>1. ProducerTypeOK'
  <2>1. i[p] \in Nat /\ i \in [Producers -> Nat] BY DEF IndInv, TypeOK, ProducerTypeOK
  <2>2. \E k \in Nat : i' = [i EXCEPT ![p] = k] BY <2>1 DEF Write
  <2>3. i' \in [Producers -> Nat] BY <2>1, <2>2
  <2> QED BY <2>3, Zenon DEF IndInv, TypeOK, ProducerTypeOK, Write
<1>2. RingTypeOK'
  <2> DEFINE x == Wrap(tail + i[p])
             e == call[p].ents[i[p] + 1]
  <2>1. i[p] < N(p) BY Zenon DEF IndInv, ProducersOK, ProducerOK, Write
  <2>2. i[p] + 1 \in 1 .. Len(call[p].ents) BY <2>1, ProducerFacts DEF N
  <2>3. e \in Entry BY <2>2, ProducerFacts
  <2>4. /\ buf' = [buf EXCEPT ![x] = e]
        /\ UNCHANGED <<lock, active, head, tail, shadow_head, shadow_tail, local_head>>
    BY Zenon DEF Write
  <2> HIDE DEF x, e
  <2> QED BY <2>3, <2>4, Zenon DEF IndInv, TypeOK, RingTypeOK
<1>3. \A q \in Producers : q # p => KeepsProducer(q)
  BY Zenon DEF IndInv, TypeOK, ProducerTypeOK, KeepsProducer, Write
<1>4. MutualExclusion' BY Zenon DEF IndInv, TypeOK, ProducerTypeOK, MutualExclusion, Holding, Write
<1>5. ProducerOK(p)'
  <2>1. i[p] < N(p) /\ Room(p) /\ i[p] \in Nat /\ N(p) \in Nat
    BY ProducerFacts, Zenon DEF IndInv, ProducersOK, ProducerOK, Write
  <2>2. \/ i[p] + 1 = N(p) /\ i'[p] = 0 /\ ppc'[p] = "publish"
        \/ i[p] + 1 # N(p) /\ i'[p] = i[p] + 1 /\ ppc'[p] = "write"
    BY <2>1, Zenon DEF IndInv, TypeOK, ProducerTypeOK, Write
  <2>3. UNCHANGED <<tail, shadow_head, call>> BY Zenon DEF Write
  <2> QED BY <2>1, <2>2, <2>3 DEF ProducerOK, Room, N
<1> QED BY <1>1, <1>2, <1>3, <1>4, <1>5, ProducerStep, Zenon DEF Write

\* Dropping the lock.
LEMMA UnlockStep == ASSUME IndInv, NEW p \in Producers, Unlock(p) PROVE IndInv'
<1>1. ProducerTypeOK' BY Zenon DEF IndInv, TypeOK, ProducerTypeOK, Unlock
<1>2. RingTypeOK' BY Zenon DEF IndInv, TypeOK, RingTypeOK, Unlock
<1>3. \A q \in Producers : q # p => KeepsProducer(q)
  BY Zenon DEF IndInv, TypeOK, ProducerTypeOK, KeepsProducer, Unlock
<1>4. MutualExclusion' BY Zenon DEF IndInv, TypeOK, ProducerTypeOK, MutualExclusion, Holding, Unlock
<1>5. ProducerOK(p)' BY Zenon DEF IndInv, ProducersOK, TypeOK, ProducerTypeOK, ProducerOK, Room, N, Unlock
<1> QED BY <1>1, <1>2, <1>3, <1>4, <1>5, ProducerStep DEF Unlock

\* Returning.
LEMMA ReturnStep == ASSUME IndInv, NEW p \in Producers, Return(p) PROVE IndInv'
<1>1. ProducerTypeOK' BY Zenon DEF IndInv, TypeOK, ProducerTypeOK, Return
<1>2. RingTypeOK' BY Zenon DEF IndInv, TypeOK, RingTypeOK, Return
<1>3. \A q \in Producers : q # p => KeepsProducer(q)
  BY Zenon DEF IndInv, TypeOK, ProducerTypeOK, KeepsProducer, Return
<1>4. MutualExclusion' BY Zenon DEF IndInv, TypeOK, ProducerTypeOK, MutualExclusion, Holding, Return
<1>5. ProducerOK(p)' BY Zenon DEF IndInv, ProducersOK, TypeOK, ProducerTypeOK, ProducerOK, Room, N, Return
<1> QED BY <1>1, <1>2, <1>3, <1>4, <1>5, ProducerStep, Zenon DEF Return

\* slowest_head: after the last load the shadow is behind every running head.
LEMMA ScanStep == ASSUME IndInv, NEW p \in Producers, Scan(p) PROVE IndInv'
<1> DEFINE s == IF i[p] = 0 THEN head[0] ELSE Slower(head[i[p]], slow[p])
<1>1. /\ ppc[p] = "scan" /\ i[p] \in Active /\ call[p].kind # "publish_tail"
      /\ \A h \in 0 .. i[p] - 1 : Dist(head[h], tail) <= Dist(slow[p], tail)
  BY Zenon DEF IndInv, ProducersOK, ProducerOK, Scan
<1>2. /\ i[p] \in Nat /\ slow[p] \in Idx /\ active \in Nat /\ i[p] < active
      /\ i[p] \in Heads /\ 0 \in Heads
  BY <1>1, ProducerFacts, ActiveHeads DEF Active
<1>3. head[i[p]] \in Idx /\ head[0] \in Idx /\ tail \in Idx BY <1>2, Zenon DEF IndInv, TypeOK, RingTypeOK
<1>4. s \in Idx BY <1>2, <1>3, Zenon DEF Slower
<1>5. ASSUME NEW h \in 0 .. i[p] PROVE Dist(head[h], tail) <= Dist(s, tail)
  <2>1. /\ Dist(head[i[p]], tail) \in 0 .. MASK /\ Dist(slow[p], tail) \in 0 .. MASK
    BY <1>2, <1>3, DistType, Zenon
  <2>2. CASE i[p] = 0 BY <2>1, <2>2
  <2>3. CASE i[p] # 0 /\ h = i[p] BY <2>1, <2>3 DEF Slower
  <2>4. CASE i[p] # 0 /\ h # i[p]
    <3>1. Dist(head[h], tail) <= Dist(slow[p], tail) BY <2>4, <1>1, <1>2
    <3>2. h \in Heads BY <1>2 DEF Heads
    <3>3. Dist(head[h], tail) \in 0 .. MASK
      BY <3>2, <1>3, DistType, Zenon DEF IndInv, TypeOK, RingTypeOK
    <3> QED BY <2>1, <2>4, <3>1, <3>3 DEF Slower
  <2> QED BY <2>2, <2>3, <2>4, Zenon
<1>6. /\ UNCHANGED <<lock, active, head, tail, shadow_tail, local_head, buf, call, cvars, ovars>>
      /\ \/ /\ shadow_head' = shadow_head /\ i[p] + 1 < active
            /\ i' = [i EXCEPT ![p] = i[p] + 1] /\ slow' = [slow EXCEPT ![p] = s] /\ ppc' = ppc
         \/ /\ shadow_head' = s /\ i[p] + 1 = active
            /\ i' = [i EXCEPT ![p] = 0] /\ slow' = [slow EXCEPT ![p] = 0]
            /\ ppc' = [ppc EXCEPT ![p] = IF Full(call[p], tail, s) THEN "full" ELSE "write"]
  BY <1>2 DEF Scan
<1> HIDE DEF s
<1>7. ProducerTypeOK'
  <2>1. i \in [Producers -> Nat] /\ slow \in [Producers -> Idx] /\ 0 \in Idx
    BY DEF IndInv, TypeOK, ProducerTypeOK, Idx, MASK
  <2>a. i' = [i EXCEPT ![p] = i[p] + 1] \/ i' = [i EXCEPT ![p] = 0] BY <1>6, Zenon
  <2>b. i[p] + 1 \in Nat BY <1>2
  <2>2. \E k \in Nat : i' = [i EXCEPT ![p] = k] BY <2>a, <2>b
  <2>3. \E x \in Idx : slow' = [slow EXCEPT ![p] = x] BY <2>1, <1>4, <1>6, Zenon
  <2>4. i' \in [Producers -> Nat] /\ slow' \in [Producers -> Idx] BY <2>1, <2>2, <2>3
  <2> QED BY <2>4, <1>6, Zenon DEF IndInv, TypeOK, ProducerTypeOK
<1>8. RingTypeOK' BY <1>4, <1>6, Zenon DEF IndInv, TypeOK, RingTypeOK
<1>9. MutualExclusion' BY <1>1, <1>6 DEF IndInv, TypeOK, ProducerTypeOK, MutualExclusion, Holding
<1>10. Active' = Active BY <1>6, Zenon DEF Active
<1>11. ASSUME NEW h \in Active PROVE Ordered(h)' /\ HandOK(h)'
  <2>1. Ordered(h) /\ HandOK(h) BY DEF IndInv, HeadsOK
  <2>2. i[p] + 1 = active => h \in 0 .. i[p] BY <1>2 DEF Active
  <2>3. Dist(head[h], tail) <= Dist(shadow_head', tail) BY <2>1, <2>2, <1>5, <1>6, Zenon DEF Ordered
  <2> QED BY <2>1, <2>3, <1>6, Zenon DEF Ordered, HandOK, Lag
<1>12. HeadsOK' BY <1>6, <1>10, <1>11, Zenon DEF IndInv, HeadsOK
<1>13. ASSUME NEW q \in Producers, q # p PROVE ProducerOK(q)'
  <2>1. ~Holding(q) BY <1>1, <1>13, Zenon DEF IndInv, MutualExclusion, Holding
  <2>2. ppc'[q] = ppc[q] /\ i'[q] = i[q] BY <1>6, <1>13, Zenon DEF IndInv, TypeOK, ProducerTypeOK
  <2> QED BY <2>1, <2>2, Zenon DEF IndInv, ProducersOK, ProducerOK, Holding
<1>14. ProducerOK(p)'
  <2>1. CASE i[p] + 1 < active
    <3>1. i'[p] = i[p] + 1 /\ slow'[p] = s /\ ppc'[p] = "scan"
      BY <2>1, <1>1, <1>6 DEF IndInv, TypeOK, ProducerTypeOK
    <3>2. i'[p] \in Active /\ 0 .. i'[p] - 1 = 0 .. i[p] BY <3>1, <2>1, <1>2 DEF Active
    <3> QED BY <3>1, <3>2, <1>1, <1>5, <1>6, <1>10, Zenon DEF ProducerOK
  <2>2. CASE i[p] + 1 = active
    <3>1. i'[p] = 0 /\ shadow_head' = s /\ ppc'[p] = IF Full(call[p], tail, s) THEN "full" ELSE "write"
      BY <2>2, <1>2, <1>6 DEF IndInv, TypeOK, ProducerTypeOK
    <3>2. ~Full(call[p], tail, s) => N(p) + Dist(s, tail) <= MASK
      BY <1>1, <1>3, <1>4, FullIsNoRoom, ProducerFacts, Zenon DEF N
    <3>3. N(p) >= 1 /\ N(p) \in Nat BY <1>1, ProducerFacts, Zenon
    <3>4. tail' = tail /\ N(p)' = N(p) BY <1>6, Zenon DEF N
    <3>5. CASE Full(call[p], tail, s) BY <3>1, <3>5, Zenon DEF ProducerOK
    <3>6. CASE ~Full(call[p], tail, s)
      <4>1. ppc'[p] = "write" /\ i'[p] < N(p)' BY <3>1, <3>3, <3>4, <3>6
      <4>2. Room(p)' BY <3>1, <3>2, <3>4, <3>6, Zenon DEF Room
      <4> QED BY <4>1, <4>2, Zenon DEF ProducerOK
    <3> QED BY <3>5, <3>6
  <2> QED BY <2>1, <2>2, <1>6, Zenon
<1>15. ObserversOK'
  <2>1. ASSUME NEW h \in Active PROVE Lag(h)' = Lag(h) BY <1>6, Zenon DEF Lag
  <2> QED BY <2>1, <1>6, <1>10 DEF IndInv, ObserversOK, ObserverOK
<1>16. DrainedIsPublished' BY <1>6, <1>10, Zenon DEF IndInv, DrainedIsPublished
<1>17. TypeOK' BY <1>6, <1>7, <1>8, TypesKept, Zenon DEF TypeOK
<1>18. ProducersOK' BY <1>13, <1>14 DEF ProducersOK
<1> QED BY <1>9, <1>12, <1>15, <1>16, <1>17, <1>18 DEF IndInv

\* The store of tail: there was room, so no distance wraps.
LEMMA PublishStep == ASSUME IndInv, NEW p \in Producers, Publish(p) PROVE IndInv'
<1> DEFINE n == N(p)
<1>1. /\ ppc[p] = "publish" /\ ppc' = [ppc EXCEPT ![p] = "unlock"] /\ tail' = Wrap(tail + n)
      /\ UNCHANGED <<lock, active, head, shadow_head, shadow_tail, local_head, buf,
                     call, i, slow, cvars, ovars>>
  BY Zenon DEF Publish
<1>2. tail \in Idx /\ shadow_head \in Idx BY DEF IndInv, TypeOK, RingTypeOK
<1>3. n \in Nat /\ n + Dist(shadow_head, tail) <= MASK
  BY <1>1, ProducerFacts, Zenon DEF IndInv, ProducersOK, ProducerOK, Room
<1> HIDE DEF n
<1>4. tail' \in Idx BY <1>1, <1>2, <1>3, WrapType DEF Idx, MASK
<1>5. ASSUME NEW a \in Idx, Dist(a, tail) <= Dist(shadow_head, tail)
      PROVE  Dist(a, tail') = Dist(a, tail) + n
  <2>1. Dist(a, tail) \in 0 .. MASK /\ Dist(shadow_head, tail) \in 0 .. MASK BY <1>2, DistType
  <2>2. Dist(a, tail) + n <= MASK BY <2>1, <1>3, <1>5 DEF MASK
  <2> QED BY <2>2, <1>1, <1>2, <1>3, DistTail, Zenon
<1>6. ASSUME NEW h \in Active
      PROVE  /\ Dist(head[h], tail') = Dist(head[h], tail) + n
             /\ Dist(local_head[h], tail') = Dist(local_head[h], tail) + n
             /\ Lag(h)' = Lag(h) + n
  <2>1. Ordered(h) /\ Indices(h) /\ Numbers(h) BY HeadFacts, Zenon DEF IndInv, HeadsOK
  <2>2. Dist(head[h], tail') = Dist(head[h], tail) + n BY <2>1, <1>5, Zenon DEF Ordered, Indices
  <2>3. Dist(local_head[h], tail') = Dist(local_head[h], tail) + n
    BY <2>1, <1>5 DEF Ordered, Indices, Numbers
  <2>4. Lag(h)' = Lag(h) + n
    <3>1. Len(hand[h]) \in Nat /\ Dist(local_head[h], tail) \in Nat BY <2>1 DEF Numbers
    <3>2. cpc' = cpc /\ hand' = hand /\ local_head' = local_head BY <1>1
    <3>3. CASE cpc[h] = "consume" BY <3>1, <3>2, <3>3, <2>3, <1>3 DEF Lag
    <3>4. CASE cpc[h] # "consume" BY <3>1, <3>2, <3>4, <2>3, <1>3 DEF Lag
    <3> QED BY <3>3, <3>4
  <2> QED BY <2>2, <2>3, <2>4, Zenon
<1>7. Dist(shadow_head, tail') = Dist(shadow_head, tail) + n
  <2>1. Dist(shadow_head, tail) \in 0 .. MASK BY <1>2, DistType
  <2> QED BY <2>1, <1>2, <1>5
<1>8. RingTypeOK' BY <1>1, <1>4, Zenon DEF IndInv, TypeOK, RingTypeOK
<1>9. ProducerTypeOK' BY <1>1, Zenon DEF IndInv, TypeOK, ProducerTypeOK
<1>10. MutualExclusion' BY <1>1, Zenon DEF IndInv, TypeOK, ProducerTypeOK, MutualExclusion, Holding
<1>11. Active' = Active BY <1>1, Zenon DEF Active
<1>12. ASSUME NEW h \in Active PROVE Ordered(h)' /\ HandOK(h)'
  <2>1. Ordered(h) /\ HandOK(h) /\ Numbers(h) BY HeadFacts, Zenon DEF IndInv, HeadsOK
  <2>c. UNCHANGED <<head, local_head, shadow_head, shadow_tail, dtail, cpc, hand>> BY <1>1, Zenon
  <2>2. Ordered(h)' BY <2>1, <2>c, <1>3, <1>6, <1>7 DEF Ordered, Numbers
  <2>3. HandOK(h)'
    <3>1. UNCHANGED <<cpc, hand, dtail, local_head, shadow_tail>> BY <1>1, Zenon
    <3>2. Dist(local_head[h], tail') = Dist(local_head[h], tail) + n BY <1>6, Zenon
    <3>3. Dist(local_head[h], dtail[h]) <= Dist(local_head[h], tail)
          => Dist(local_head[h], dtail[h]) <= Dist(local_head[h], tail')
      <4>1. /\ Dist(local_head[h], dtail[h]) \in Int
            /\ Dist(local_head[h], tail) \in Int
        BY <2>1 DEF Numbers
      <4>2. n \in Nat BY <1>3
      <4> QED BY <4>1, <4>2, <3>2
    <3> QED BY <3>1, <3>3, <2>1, Zenon DEF HandOK
  <2> QED BY <2>2, <2>3
<1>13. HeadsOK' BY <1>1, <1>11, <1>12, Zenon DEF IndInv, HeadsOK
<1>14. ASSUME NEW q \in Producers PROVE ProducerOK(q)'
  <2>1. CASE q = p BY <2>1, <1>1, Zenon DEF IndInv, TypeOK, ProducerTypeOK, ProducersOK, ProducerOK
  <2>2. CASE q # p
    <3>1. ~Holding(q) BY <2>2, <1>1, Zenon DEF IndInv, MutualExclusion, Holding
    <3>2. ppc'[q] = ppc[q] /\ i'[q] = i[q] BY <2>2, <1>1, Zenon DEF IndInv, TypeOK, ProducerTypeOK
    <3> QED BY <3>1, <3>2, Zenon DEF IndInv, ProducersOK, ProducerOK, Holding
  <2> QED BY <2>1, <2>2, Zenon
<1>15. ASSUME NEW o \in Observers, opc[o] = "heads", NEW h \in Active, owed[o][h] > 0
       PROVE  Dist(otail[o], tail') = Lag(h)' - owed[o][h]
  <2>1. otail[o] \in Idx /\ owed[o][h] \in Nat BY ActiveHeads, Zenon DEF IndInv, TypeOK, ObserverTypeOK
  <2>2. Dist(otail[o], tail) = Lag(h) - owed[o][h] BY <1>15, Zenon DEF IndInv, ObserversOK, ObserverOK
  <2>3. Ordered(h) /\ Numbers(h) BY HeadFacts, Zenon DEF IndInv, HeadsOK
  <2>4. Dist(otail[o], tail) <= Dist(shadow_head, tail)
    BY <2>1, <2>2, <2>3, <1>15 DEF Ordered, Numbers
  <2>5. Dist(otail[o], tail') = Dist(otail[o], tail) + n BY <2>1, <2>4, <1>5, Zenon
  <2>6. Lag(h)' = Lag(h) + n /\ Lag(h) \in Nat BY <2>3, <1>6, Zenon DEF Numbers
  <2> QED BY <2>1, <2>2, <2>5, <2>6, <1>3
<1>16. ObserversOK' BY <1>1, <1>11, <1>15, Zenon DEF IndInv, ObserversOK, ObserverOK
<1>17. DrainedIsPublished'
  <2> SUFFICES ASSUME NEW h \in Active, cpc[h] \in {"peek", "none", "stopped"}, local_head[h] = tail'
               PROVE  head[h] = tail'
    BY <1>1, <1>11, Zenon DEF DrainedIsPublished
  <2>1. Dist(local_head[h], tail') = 0 BY <1>4, DistType, Zenon
  <2>2. Indices(h) /\ Numbers(h) BY HeadFacts, Zenon
  <2>3. Dist(local_head[h], tail) = 0
    <3>1. /\ Dist(local_head[h], tail) \in 0 .. MASK
          /\ Dist(local_head[h], tail') = Dist(local_head[h], tail) + n
      BY <2>2, <1>6, Zenon DEF Numbers
    <3> QED BY <3>1, <2>1, <1>3
  <2>4. local_head[h] = tail BY <2>2, <2>3, DistType, Zenon DEF Indices
  <2> QED BY <2>4, Zenon DEF IndInv, DrainedIsPublished
<1>18. TypeOK' BY <1>1, <1>8, <1>9, TypesKept, Zenon DEF TypeOK
<1>19. ProducersOK' BY <1>14, Zenon DEF ProducersOK
<1> QED BY <1>10, <1>13, <1>16, <1>17, <1>18, <1>19 DEF IndInv

-----------------------------------------------------------------------------
(* The slots behind tail *)

\* Entries of its call a producer has written behind tail.
Written(p) == IF ppc[p] = "write" THEN i[p] ELSE IF ppc[p] = "publish" THEN N(p) ELSE 0
\* They are those of the call.
LandedOK == \A p \in Producers : \A k \in 0 .. Written(p) - 1 :
              buf[Wrap(tail + k)] = call[p].ents[k + 1]

\* Between its room test and its store of tail a call fits behind every queue.
LEMMA CallFits ==
  ASSUME IndInv, NEW p \in Producers, ppc[p] \in {"write", "publish"}, NEW h \in Active
  PROVE  Lag(h) + N(p) <= MASK
<1>1. Room(p) BY Zenon DEF IndInv, ProducersOK, ProducerOK
<1>2. Ordered(h) BY Zenon DEF IndInv, HeadsOK
<1>3. Numbers(h) BY HeadFacts, Zenon
<1>4. N(p) \in Nat BY ProducerFacts, Zenon
<1> QED BY <1>1, <1>2, <1>3, <1>4 DEF Room, Ordered, Numbers

\* Steps that write no slot and move no tail.
LEMMA LandedKept ==
  ASSUME LandedOK, UNCHANGED <<tail, buf>>,
         \A q \in Producers : Written(q)' = 0 \/ (Written(q)' = Written(q) /\ call'[q] = call[q])
  PROVE  LandedOK'
<1> SUFFICES ASSUME NEW q \in Producers, NEW k \in 0 .. Written(q)' - 1
             PROVE  buf'[Wrap(tail' + k)] = call'[q].ents[k + 1]
  BY Zenon DEF LandedOK
<1>1. Written(q)' # 0 OBVIOUS
<1>2. Written(q)' = Written(q) /\ call'[q] = call[q] BY <1>1, Zenon
<1> QED BY <1>2, Zenon DEF LandedOK

\* Only the holder of the lock has written anything.
LEMMA WrittenByHolder ==
  ASSUME IndInv, NEW p \in Producers, Holding(p), NEW q \in Producers, q # p
  PROVE  Written(q) = 0 /\ ~Holding(q)
<1>1. ~Holding(q) BY Zenon DEF IndInv, MutualExclusion
<1> QED BY <1>1, Zenon DEF Written, Holding

\* A producer's step to or from a place where nothing has been written.
LEMMA LandedStep ==
  ASSUME LandedOK, UNCHANGED <<tail, buf>>, NEW p \in Producers, Written(p)' = 0,
         \A q \in Producers : q # p => ppc'[q] = ppc[q] /\ i'[q] = i[q] /\ call'[q] = call[q]
  PROVE  LandedOK'
<1>1. ASSUME NEW q \in Producers, q # p PROVE Written(q)' = Written(q) /\ call'[q] = call[q]
  BY <1>1, Zenon DEF Written, N
<1> QED BY <1>1, LandedKept, Zenon

\* Each written slot holds the entry of the call meant for it.
LEMMA LandedWrite == ASSUME IndInv, LandedOK, NEW p \in Producers, Write(p) PROVE LandedOK'
<1> DEFINE w == Wrap(tail + i[p])
           ents == call[p].ents
<1>1. /\ ppc[p] = "write" /\ UNCHANGED <<tail, call>>
      /\ buf' = [buf EXCEPT ![w] = ents[i[p] + 1]]
      /\ \A q \in Producers : q # p => ppc'[q] = ppc[q] /\ i'[q] = i[q]
  BY Zenon DEF Write, IndInv, TypeOK, ProducerTypeOK
<1>2. i[p] \in Nat /\ N(p) \in Nat /\ i[p] < N(p) /\ Room(p) /\ tail \in Idx /\ buf \in [Idx -> Entry]
  BY <1>1, ProducerFacts, Zenon DEF IndInv, ProducersOK, ProducerOK, TypeOK, RingTypeOK
<1>3. i[p] <= MASK /\ MASK \in Nat /\ w \in Idx
  <2>1. shadow_head \in Idx BY Zenon DEF IndInv, TypeOK, RingTypeOK
  <2>2. Dist(shadow_head, tail) \in 0 .. MASK BY <2>1, <1>2, DistType, Zenon
  <2>3. tail + i[p] \in Int BY <1>2 DEF Idx, MASK
  <2> QED BY <1>2, <2>2, <2>3, WrapType DEF Room, MASK
<1>4. Written(p)' = i[p] + 1 /\ Written(p) = i[p]
  <2>1. \/ i[p] + 1 = N(p) /\ i'[p] = 0 /\ ppc'[p] = "publish"
        \/ i'[p] = i[p] + 1 /\ ppc'[p] = "write"
    BY <1>1, Zenon DEF Write, IndInv, TypeOK, ProducerTypeOK
  <2>2. N(p)' = N(p) BY <1>1, Zenon DEF N
  <2> QED BY <1>1, <2>1, <2>2, Zenon DEF Written
<1>5. ASSUME NEW q \in Producers, q # p PROVE Written(q)' = 0
  <2>1. Written(q) = 0 BY <1>1, <1>5, WrittenByHolder, Zenon DEF Holding
  <2> QED BY <2>1, <1>1, <1>5, Zenon DEF Written, N
<1>6. ASSUME NEW k \in 0 .. i[p] PROVE buf'[Wrap(tail + k)] = ents[k + 1]
  <2>1. CASE k = i[p] BY <2>1, <1>1, <1>2, <1>3, Zenon
  <2>2. CASE k # i[p]
    <3>1. k \in 0 .. i[p] - 1 /\ k \in 0 .. MASK /\ i[p] \in 0 .. MASK /\ tail + k \in Int
      BY <2>2, <1>2, <1>3 DEF Idx, MASK
    <3>2. buf[Wrap(tail + k)] = ents[k + 1] BY <3>1, <1>4, Zenon DEF LandedOK
    <3>3. Dist(tail, Wrap(tail + k)) = k /\ Dist(tail, w) = i[p] BY <3>1, <1>2, DistOf, Zenon
    <3>4. Wrap(tail + k) # w /\ Wrap(tail + k) \in Idx BY <3>1, <3>3, <2>2, WrapType, Zenon
    <3> QED BY <3>2, <3>4, <1>1, <1>2, Zenon
  <2> QED BY <2>1, <2>2, Zenon
<1> HIDE DEF w
<1>7. ASSUME NEW q \in Producers, NEW k \in 0 .. Written(q)' - 1
      PROVE  buf'[Wrap(tail' + k)] = call'[q].ents[k + 1]
  <2>1. q = p BY <1>5, <1>7
  <2>2. k \in 0 .. i[p] BY <2>1, <1>4, <1>2, <1>7
  <2> QED BY <2>1, <2>2, <1>1, <1>6, Zenon
<1> QED BY <1>7, Zenon DEF LandedOK

\* The slots behind tail are the call's until tail moves past them.
LEMMA LandedProducer == ASSUME IndInv, LandedOK, NEW p \in Producers, Producer(p) PROVE LandedOK'
<1>i. i[p] \in Nat /\ (ppc[p] # "scan" /\ ppc[p] # "write" => i[p] = 0)
      /\ (call[p].kind = "publish_tail" => N(p) = 0)
  BY ProducerFacts, Zenon DEF IndInv, ProducersOK, ProducerOK
<1>1. CASE Write(p) BY <1>1, LandedWrite
<1>2. CASE Publish(p)
  <2>1. /\ ppc[p] = "publish" /\ ppc' = [ppc EXCEPT ![p] = "unlock"] /\ UNCHANGED <<call, i>>
    BY <1>2, Zenon DEF Publish
  <2>2. Written(p)' = 0 BY <2>1, Zenon DEF Written, IndInv, TypeOK, ProducerTypeOK
  <2>3. ASSUME NEW q \in Producers, q # p PROVE Written(q)' = 0
    <3>1. Written(q) = 0 BY <2>1, <2>3, WrittenByHolder, Zenon DEF Holding
    <3> QED BY <3>1, <2>1, <2>3, Zenon DEF Written, N, IndInv, TypeOK, ProducerTypeOK
  <2>4. \A q \in Producers : Written(q)' = 0 BY <2>2, <2>3, Zenon
  <2> QED BY <2>4 DEF LandedOK
<1>3. CASE Call(p) \/ Contended(p) \/ GiveUp(p) \/ Unlock(p) \/ Return(p)
  <2>1. /\ ppc'[p] \in {"cas", "false", "true", "idle"} /\ UNCHANGED <<tail, buf>>
        /\ \A q \in Producers : q # p => ppc'[q] = ppc[q] /\ i'[q] = i[q] /\ call'[q] = call[q]
    BY <1>3, Zenon DEF Call, Contended, GiveUp, Unlock, Return, IndInv, TypeOK, ProducerTypeOK
  <2>2. Written(p)' = 0 BY <2>1, Zenon DEF Written
  <2> QED BY <2>1, <2>2, LandedStep, Zenon
<1>4. CASE Lock(p)
  <2>1. /\ ppc[p] = "cas" /\ ppc'[p] \in {"publish", "scan", "write"} /\ UNCHANGED <<tail, buf, i, call>>
        /\ ppc'[p] = "publish" => call[p].kind = "publish_tail"
        /\ \A q \in Producers : q # p => ppc'[q] = ppc[q]
    BY <1>4, Zenon DEF Lock, IndInv, TypeOK, ProducerTypeOK
  <2>2. N(p)' = N(p) BY <2>1, Zenon DEF N
  <2>3. Written(p)' = 0 BY <1>i, <2>1, <2>2, Zenon DEF Written
  <2> QED BY <2>1, <2>3, LandedStep, Zenon
<1>5. CASE Scan(p)
  <2>1. /\ UNCHANGED <<tail, buf, call>>
        /\ ppc'[p] = "scan" \/ (ppc'[p] \in {"full", "write"} /\ i'[p] = 0)
        /\ \A q \in Producers : q # p => ppc'[q] = ppc[q] /\ i'[q] = i[q]
    BY <1>5, Zenon DEF Scan, IndInv, TypeOK, ProducerTypeOK
  <2>2. Written(p)' = 0 BY <2>1, Zenon DEF Written
  <2> QED BY <2>1, <2>2, LandedStep, Zenon
<1> QED BY <1>1, <1>2, <1>3, <1>4, <1>5, Zenon DEF Producer

-----------------------------------------------------------------------------
(* Observers *)

\* A step of an observer moves nothing the rest of the invariant reads.
LEMMA ObserverStep ==
  ASSUME IndInv, UNCHANGED <<ring, pvars, cvars>>, ObserverTypeOK', ObserversOK'
  PROVE  IndInv'
<1>1. TypeOK' BY TypesKept, Zenon DEF TypeOK
<1>2. MutualExclusion' BY Zenon DEF IndInv, MutualExclusion, Holding
<1>3. HeadsOK' BY Zenon DEF IndInv, HeadsOK, Active, Ordered, HandOK, Lag
<1>4. ProducersOK' BY Zenon DEF IndInv, ProducersOK, ProducerOK, Room, N, Active
<1>5. DrainedIsPublished' BY Zenon DEF IndInv, DrainedIsPublished, Active
<1> QED BY <1>1, <1>2, <1>3, <1>4, <1>5, Zenon DEF IndInv

\* is_empty's load of tail: from here on the distance of the sample from tail
\* and the entries owed add up to every head's lag.
LEMMA IsEmptyStep == ASSUME IndInv, NEW o \in Observers, IsEmpty(o) PROVE IndInv'
<1> DEFINE w == [h \in Heads |-> IF h \in Active THEN Lag(h) ELSE 0]
<1>1. /\ opc' = [opc EXCEPT ![o] = "heads"] /\ otail' = [otail EXCEPT ![o] = tail]
      /\ oh' = [oh EXCEPT ![o] = 0] /\ owed' = [owed EXCEPT ![o] = w]
      /\ UNCHANGED <<ring, pvars, cvars>>
  BY Zenon DEF IsEmpty
<1>2. \A h \in Active : Lag(h) \in Nat BY HeadFacts, Zenon DEF Numbers
<1>3. w \in [Heads -> Nat] /\ \A h \in Active : w[h] = Lag(h) BY <1>2, ActiveHeads, Zenon
<1> HIDE DEF w
<1>4. tail \in Idx /\ 0 \in Heads /\ 0 \in Active BY ActiveHeads, Zenon DEF IndInv, TypeOK, RingTypeOK
<1>5. ObserverTypeOK' BY <1>1, <1>3, <1>4, Zenon DEF IndInv, TypeOK, ObserverTypeOK
<1>6. ASSUME NEW h \in Active PROVE Lag(h)' = Lag(h) BY <1>1, Zenon DEF Lag
<1>7. Active' = Active /\ tail' = tail BY <1>1, Zenon DEF Active
<1>8. ASSUME NEW q \in Observers PROVE ObserverOK(q)'
  <2>1. CASE q = o
    <3>1. opc'[o] = "heads" /\ otail'[o] = tail /\ oh'[o] = 0 /\ owed'[o] = w
      BY <1>1, Zenon DEF IndInv, TypeOK, ObserverTypeOK
    <3>2. ASSUME NEW h \in Active PROVE Dist(tail, tail) = Lag(h) - w[h]
      BY <1>2, <1>3, <1>4, DistType
    <3> QED BY <2>1, <3>1, <3>2, <1>4, <1>6, <1>7 DEF ObserverOK
  <2>2. CASE q # o
    <3>1. opc'[q] = opc[q] /\ otail'[q] = otail[q] /\ oh'[q] = oh[q] /\ owed'[q] = owed[q]
      BY <2>2, <1>1, Zenon DEF IndInv, TypeOK, ObserverTypeOK
    <3> QED BY <3>1, <1>6, <1>7, Zenon DEF IndInv, ObserversOK, ObserverOK
  <2> QED BY <2>1, <2>2
<1>9. ObserversOK' BY <1>8 DEF ObserversOK
<1> QED BY <1>1, <1>5, <1>9, ObserverStep, Zenon

\* is_empty's load of one head: one that equals the sample owes nothing, for
\* what it owed lay between the sample and the head.
LEMMA LoadHeadStep == ASSUME IndInv, NEW o \in Observers, LoadHead(o) PROVE IndInv'
<1>1. opc[o] = "heads" /\ oh[o] \in Active /\ ObserverOK(o)
  BY Zenon DEF IndInv, ObserversOK, ObserverOK, LoadHead
<1>2. head[oh[o]] = otail[o] => owed[o][oh[o]] = 0
  <2> SUFFICES ASSUME head[oh[o]] = otail[o], owed[o][oh[o]] # 0 PROVE FALSE BY Zenon
  <2>1. owed[o][oh[o]] \in Nat BY <1>1, ActiveHeads, Zenon DEF IndInv, TypeOK, ObserverTypeOK
  <2>2. Dist(otail[o], tail) = Lag(oh[o]) - owed[o][oh[o]] BY <2>1, <1>1 DEF ObserverOK
  <2>3. Lag(oh[o]) <= Dist(head[oh[o]], tail) BY <1>1, Zenon DEF IndInv, HeadsOK, Ordered
  <2>4. Lag(oh[o]) \in Nat BY <1>1, HeadFacts, Zenon DEF Numbers
  <2> QED BY <2>1, <2>2, <2>3, <2>4
<1>3. /\ UNCHANGED <<ring, pvars, cvars, owed>>
      /\ opc' = [opc EXCEPT ![o] = IF head[oh[o]] # otail[o] THEN "false"
                               ELSE IF oh[o] + 1 = active THEN "true" ELSE "heads"]
      /\ oh' = [oh EXCEPT ![o] = IF opc'[o] = "heads" THEN oh[o] + 1 ELSE 0]
      /\ otail' = [otail EXCEPT ![o] = IF opc'[o] = "heads" THEN otail[o] ELSE 0]
  BY Zenon DEF LoadHead
<1>4. opc'[o] = IF head[oh[o]] # otail[o] THEN "false"
                ELSE IF oh[o] + 1 = active THEN "true" ELSE "heads"
  BY <1>3, Zenon DEF IndInv, TypeOK, ObserverTypeOK
<1>5. active \in 1 .. HEADS /\ oh[o] \in 0 .. active - 1
  BY <1>1, Zenon DEF IndInv, TypeOK, RingTypeOK, Active
<1>6. oh[o] + 1 # active => oh[o] + 1 \in Active /\ oh[o] + 1 \in Heads BY <1>5 DEF Active, Heads
<1>7. 0 \in Heads /\ 0 \in Idx BY <1>5 DEF Heads, Idx, MASK
<1>8. ObserverTypeOK'
  <2>1. opc'[o] = "heads" => oh[o] + 1 \in Heads BY <1>4, <1>6, Zenon
  <2>2. PICK k \in Heads : oh' = [oh EXCEPT ![o] = k] BY <2>1, <1>3, <1>7, Zenon
  <2>3. PICK x \in Idx : otail' = [otail EXCEPT ![o] = x]
    BY <1>3, <1>7, Zenon DEF IndInv, TypeOK, ObserverTypeOK
  <2>4. oh' \in [Observers -> Heads] /\ otail' \in [Observers -> Idx]
    BY <2>2, <2>3, Zenon DEF IndInv, TypeOK, ObserverTypeOK
  <2>5. opc' \in [Observers -> {"idle", "heads", "true", "false"}]
    BY <1>3, Zenon DEF IndInv, TypeOK, ObserverTypeOK
  <2> QED BY <2>4, <2>5, <1>3, Zenon DEF IndInv, TypeOK, ObserverTypeOK
<1>9. ASSUME NEW h \in Active PROVE Lag(h)' = Lag(h) BY <1>3, Zenon DEF Lag
<1>10. Active' = Active /\ tail' = tail /\ owed' = owed BY <1>3, Zenon DEF Active
<1>11. ASSUME NEW q \in Observers PROVE ObserverOK(q)'
  <2>1. CASE q = o
    <3>1. \A h \in 0 .. oh[o] : opc'[o] # "false" => owed[o][h] = 0
      BY <1>1, <1>2, <1>4, <1>5 DEF ObserverOK
    <3>2. CASE opc'[o] = "false" BY <2>1, <3>2, Zenon DEF ObserverOK
    <3>3. CASE opc'[o] = "true"
      <4>1. \A h \in Active : h \in 0 .. oh[o] BY <3>3, <1>4, <1>5 DEF Active
      <4> QED BY <2>1, <3>1, <3>3, <4>1, <1>10, Zenon DEF ObserverOK
    <3>4. CASE opc'[o] = "heads"
      <4>1. oh'[o] = oh[o] + 1 /\ otail'[o] = otail[o] /\ oh'[o] \in Active
        BY <3>4, <1>3, <1>4, <1>6, Zenon DEF IndInv, TypeOK, ObserverTypeOK
      <4>2. 0 .. oh'[o] - 1 = 0 .. oh[o] BY <4>1, <1>5
      <4> QED BY <2>1, <3>1, <3>4, <4>1, <4>2, <1>1, <1>9, <1>10, Zenon DEF ObserverOK
    <3> QED BY <3>2, <3>3, <3>4, <1>4, Zenon
  <2>2. CASE q # o
    <3>1. opc'[q] = opc[q] /\ otail'[q] = otail[q] /\ oh'[q] = oh[q]
      BY <2>2, <1>3, Zenon DEF IndInv, TypeOK, ObserverTypeOK
    <3> QED BY <3>1, <1>9, <1>10, Zenon DEF IndInv, ObserversOK, ObserverOK
  <2> QED BY <2>1, <2>2
<1>12. ObserversOK' BY <1>11 DEF ObserversOK
<1> QED BY <1>3, <1>8, <1>12, ObserverStep, Zenon

\* The observer goes its way.
LEMMA AnsweredStep == ASSUME IndInv, NEW o \in Observers, Answered(o) PROVE IndInv'
<1> DEFINE z == [h \in Heads |-> 0]
<1>1. /\ UNCHANGED <<ring, pvars, cvars, otail, oh>> /\ opc' = [opc EXCEPT ![o] = "idle"]
      /\ owed' = [owed EXCEPT ![o] = z] /\ z \in [Heads -> Nat]
  BY Zenon DEF Answered
<1> HIDE DEF z
<1>l. Active' = Active /\ \A h \in Active : Lag(h)' = Lag(h) BY <1>1, Zenon DEF Active, Lag
<1>2. ObserverTypeOK' BY <1>1, Zenon DEF IndInv, TypeOK, ObserverTypeOK
<1>3. ASSUME NEW q \in Observers PROVE ObserverOK(q)'
  <2>1. CASE q = o BY <2>1, <1>1, Zenon DEF IndInv, TypeOK, ObserverTypeOK, ObserverOK
  <2>2. CASE q # o
    <3>1. opc'[q] = opc[q] /\ otail'[q] = otail[q] /\ oh'[q] = oh[q] /\ owed'[q] = owed[q]
      BY <2>2, <1>1, Zenon DEF IndInv, TypeOK, ObserverTypeOK
    <3>2. ObserverOK(q) /\ tail' = tail BY <1>1, Zenon DEF IndInv, ObserversOK
    <3> QED BY <3>1, <3>2, <1>l, Zenon DEF ObserverOK
  <2> QED BY <2>1, <2>2
<1>4. ObserversOK' BY <1>3 DEF ObserversOK
<1> QED BY <1>1, <1>2, <1>4, ObserverStep, Zenon
=============================================================================
