---------------------------- MODULE GFifoProofs ----------------------------
(* The drain of a batch, consume and reset, and the theorems on the graphics *)
(* ring, for every depth and every set of threads; then what the ring needs  *)
(* to implement the queue, and which queue steps a consumer takes.           *)
EXTENDS GFifoRefinement, GFifoProducerProofs

USE DepthAssumption, HeadsAssumption, PublishAssumption, SizeAssumption
USE DEF ring, pvars, cvars, ovars

\* One payload entry: there is one more between local_head and the tail in use.
LEMMA DrainPayloadStep == ASSUME IndInv, NEW h \in Heads, DrainPayload(h) PROVE IndInv'
<1> DEFINE n == Len(hand[h])
           x == Wrap(local_head[h] + n)
           t == IF x = dtail[h] THEN tail ELSE dtail[h]
<1>1. h \in Active BY Zenon DEF IndInv, HeadsOK, DrainPayload
<1>h. Indices(h) /\ Numbers(h) BY <1>1, HeadFacts
<1>2. /\ cpc[h] = "drain" /\ Ordered(h) /\ n \in Nat /\ 1 <= n
      /\ n <= Dist(local_head[h], dtail[h])
      /\ Dist(local_head[h], dtail[h]) <= Dist(local_head[h], tail)
  BY <1>1, <1>h, Zenon DEF IndInv, HeadsOK, HandOK, DrainPayload, Numbers
<1>3. /\ x # t /\ dtail' = [dtail EXCEPT ![h] = t] /\ hand' = [hand EXCEPT ![h] = Append(hand[h], buf[x])]
      /\ UNCHANGED <<lock, active, head, tail, shadow_head, shadow_tail, local_head, buf,
                     cpc, pvars, ovars>>
  BY Zenon DEF DrainPayload
<1>4. x \in Idx /\ t \in Idx
  <2>1. local_head[h] + n \in Int BY <1>2, <1>h DEF Indices, Idx, MASK
  <2> QED BY <2>1, <1>h, WrapType DEF Indices
<1>5. Dist(local_head[h], x) = n
  <2>1. n \in 0 .. MASK BY <1>2, <1>h DEF Numbers
  <2> QED BY <2>1, <1>h, DistOf, Zenon DEF Indices
<1>6. n + 1 <= Dist(local_head[h], t) /\ Dist(local_head[h], t) <= Dist(local_head[h], tail)
  <2>1. CASE x = dtail[h]
    <3>1. t = tail /\ x # tail BY <2>1, <1>3
    <3>2. Dist(local_head[h], tail) # n BY <3>1, <1>4, <1>5, <1>h, DistInjectiveAhead DEF Indices
    <3> QED BY <3>1, <3>2, <1>2, <1>h DEF Numbers
  <2>2. CASE x # dtail[h]
    <3>1. t = dtail[h] BY <2>2
    <3>2. Dist(local_head[h], dtail[h]) # n
      BY <2>2, <1>4, <1>5, <1>h, DistInjectiveAhead DEF Indices
    <3> QED BY <3>1, <3>2, <1>2, <1>h DEF Numbers
  <2> QED BY <2>1, <2>2
<1>7. buf[x] \in Entry /\ Append(hand[h], buf[x]) \in Seq(Entry) /\ Len(Append(hand[h], buf[x])) = n + 1
  <2>1. hand[h] \in Seq(Entry) BY DEF IndInv, TypeOK, ConsumerTypeOK
  <2>2. buf[x] \in Entry BY <1>4 DEF IndInv, TypeOK, RingTypeOK
  <2> QED BY <2>1, <2>2
<1> HIDE DEF x, t
<1>8. RingTypeOK' BY <1>3, TypesKept
<1>8a. ConsumerTypeOK' BY <1>3, <1>4, <1>7 DEF IndInv, TypeOK, ConsumerTypeOK
<1>9. /\ \A g \in Heads : g # h => KeepsHead(g)
      /\ dtail'[h] = t /\ Len(hand'[h]) = n + 1
  BY <1>3, <1>7 DEF IndInv, TypeOK, ConsumerTypeOK, KeepsHead
<1>10. \A g \in Active : Lag(g)' = Lag(g) BY <1>2, <1>3, <1>9, LagKept, Zenon
<1>11. ObserversOK' /\ ObserverTypeOK' BY <1>3, <1>10, SameLag
<1>12. Ordered(h)' BY <1>1, <1>2, <1>3, <1>10, Zenon DEF Ordered
<1>13. HandOK(h)'
  <2>1. 1 <= n + 1 BY <1>2
  <2> QED BY <2>1, <1>2, <1>3, <1>6, <1>9, Zenon DEF HandOK
<1>14. Dist(head'[h], tail) <= Dist(head[h], tail) BY <1>3, <1>h DEF Numbers
<1> QED BY <1>1, <1>2, <1>3, <1>8, <1>8a, <1>9, <1>11, <1>12, <1>13, <1>14, ConsumerStep, Zenon

\* The end of a drain: local_head moves onto the last entry in hand.
LEMMA DrainDoneStep == ASSUME IndInv, NEW h \in Heads, DrainDone(h) PROVE IndInv'
<1> DEFINE n == Len(hand[h])
           y == Wrap(local_head[h] + n - 1)
<1>1. h \in Active BY Zenon DEF IndInv, HeadsOK, DrainDone
<1>h. Indices(h) /\ Numbers(h) BY <1>1, HeadFacts
<1>2. /\ cpc[h] = "drain" /\ Ordered(h) /\ n \in Nat /\ 1 <= n
      /\ n <= Dist(local_head[h], dtail[h])
      /\ Dist(local_head[h], dtail[h]) <= Dist(local_head[h], tail)
  BY <1>1, <1>h, Zenon DEF IndInv, HeadsOK, HandOK, DrainDone, Numbers
<1>3. /\ shadow_tail' = [shadow_tail EXCEPT ![h] = dtail[h]]
      /\ local_head' = [local_head EXCEPT ![h] = y]
      /\ dtail' = [dtail EXCEPT ![h] = 0] /\ cpc' = [cpc EXCEPT ![h] = "consume"]
      /\ UNCHANGED <<lock, active, head, tail, shadow_head, buf, hand, pvars, ovars>>
  BY DEF DrainDone
<1>4. /\ y \in Idx
      /\ Dist(y, tail) = Dist(local_head[h], tail) - (n - 1)
      /\ Dist(y, dtail[h]) = Dist(local_head[h], dtail[h]) - (n - 1)
  <2>0. local_head[h] \in Int BY <1>h DEF Indices, Idx, MASK
  <2>1. local_head[h] + n - 1 = local_head[h] + (n - 1) /\ local_head[h] + (n - 1) \in Int
    BY <2>0, <1>2
  <2>2. n - 1 \in 0 .. Dist(local_head[h], tail) /\ n - 1 \in 0 .. Dist(local_head[h], dtail[h])
    BY <1>2, <1>h DEF Numbers
  <2>3. y = Wrap(local_head[h] + (n - 1)) BY <2>1
  <2> QED BY <2>1, <2>2, <2>3, <1>h, WrapType, DistHead, Zenon DEF Indices
<1> HIDE DEF y
<1>5. y # dtail[h]
  <2>1. Dist(y, dtail[h]) # 0 BY <1>2, <1>4, <1>h DEF Numbers
  <2> QED BY <2>1, <1>4, <1>h, DistType, Zenon DEF Indices
<1>6. /\ \A g \in Heads : g # h => KeepsHead(g)
      /\ shadow_tail'[h] = dtail[h] /\ local_head'[h] = y /\ cpc'[h] = "consume" /\ hand'[h] = hand[h]
  BY <1>3, Zenon DEF IndInv, TypeOK, RingTypeOK, ConsumerTypeOK, KeepsHead
<1>7. RingTypeOK' BY <1>h, <1>3, <1>4, Zenon DEF IndInv, TypeOK, RingTypeOK, Indices
<1>7a. ConsumerTypeOK'
  <2>1. 0 \in Idx BY DEF Idx, MASK
  <2> QED BY <2>1, <1>3, Zenon DEF IndInv, TypeOK, ConsumerTypeOK
<1>8. ASSUME NEW g \in Active PROVE Lag(g)' = Lag(g)
  <2>1. CASE g = h
    <3>1. Lag(h) = Dist(local_head[h], tail) + 0 BY <1>2, Zenon DEF Lag
    <3>2. Lag(h)' = Dist(y, tail) + (n - 1) BY <1>3, <1>6, Zenon DEF Lag
    <3>3. Dist(local_head[h], tail) \in Int BY <1>h DEF Numbers
    <3> QED BY <2>1, <3>1, <3>2, <3>3, <1>2, <1>4
  <2>2. CASE g # h
    <3>1. KeepsHead(g) BY <2>2, <1>6, ActiveHeads, Zenon
    <3> QED BY <3>1, <1>3, Zenon DEF Lag, KeepsHead
  <2> QED BY <2>1, <2>2
<1>9. ObserversOK' /\ ObserverTypeOK' BY <1>3, <1>8, SameLag
<1>10. Ordered(h)'
  <2>1. Dist(y, dtail[h]) <= Dist(y, tail) BY <1>2, <1>4, <1>h DEF Numbers
  <2> QED BY <2>1, <1>1, <1>2, <1>3, <1>6, <1>8, Zenon DEF Ordered
<1>11. HandOK(h)' BY <1>2, <1>5, <1>6, Zenon DEF HandOK
<1>12. Dist(head'[h], tail) <= Dist(head[h], tail) BY <1>3, <1>h DEF Numbers
<1> QED BY <1>1, <1>3, <1>6, <1>7, <1>7a, <1>9, <1>10, <1>11, <1>12, ConsumerStep, Zenon

\* consume_at: what was in hand is retired, and stops being owed to observers.
LEMMA ConsumeStep == ASSUME IndInv, NEW h \in Heads, Consume(h) PROVE IndInv'
<1> DEFINE n == Len(hand[h])
           next == Wrap(local_head[h] + 1)
           pc == IF next % PublishEvery = 0 \/ next = tail THEN "store" ELSE "peek"
<1>1. h \in Active BY Zenon DEF IndInv, HeadsOK, Consume
<1>h. Indices(h) /\ Numbers(h) BY <1>1, HeadFacts
<1>2. cpc[h] = "consume" /\ Ordered(h) /\ n \in Nat /\ 1 <= n /\ local_head[h] # shadow_tail[h]
  BY <1>1, <1>h, Zenon DEF IndInv, HeadsOK, HandOK, Consume, Numbers
<1>3. /\ local_head' = [local_head EXCEPT ![h] = next] /\ hand' = [hand EXCEPT ![h] = <<>>]
      /\ cpc' = [cpc EXCEPT ![h] = pc]
      /\ owed' = [o \in Observers |-> [owed[o] EXCEPT ![h] =
                    IF owed[o][h] > n THEN owed[o][h] - n ELSE 0]]
      /\ UNCHANGED <<lock, active, head, tail, shadow_head, shadow_tail, buf, dtail, pvars,
                     opc, otail, oh>>
  BY Zenon DEF Consume
<1>4. /\ next \in Idx
      /\ Dist(next, tail) = Dist(local_head[h], tail) - 1
      /\ Dist(next, shadow_tail[h]) = Dist(local_head[h], shadow_tail[h]) - 1
  <2>1. local_head[h] + 1 \in Int BY <1>h DEF Indices, Idx, MASK
  <2>2. Dist(local_head[h], shadow_tail[h]) # 0 BY <1>2, <1>h, DistType, Zenon DEF Indices
  <2>3. 1 \in 0 .. Dist(local_head[h], shadow_tail[h]) /\ 1 \in 0 .. Dist(local_head[h], tail)
    BY <2>2, <1>2, <1>h DEF Ordered, Numbers
  <2> QED BY <2>1, <2>3, <1>h, WrapType, DistHead, Zenon DEF Indices
<1>5. pc \in {"store", "peek"} /\ (next = tail => pc = "store") BY Zenon
<1> HIDE DEF next, pc
<1>6. /\ \A g \in Heads : g # h => KeepsHead(g)
      /\ local_head'[h] = next /\ cpc'[h] = pc /\ hand'[h] = <<>> /\ shadow_tail'[h] = shadow_tail[h]
  BY <1>3, Zenon DEF IndInv, TypeOK, RingTypeOK, ConsumerTypeOK, KeepsHead
<1>7. Lag(h)' = Lag(h) - n
  <2>1. Lag(h) = Dist(local_head[h], tail) + (n - 1) BY <1>2, Zenon DEF Lag
  <2>2. Lag(h)' = Dist(next, tail) + 0 BY <1>3, <1>5, <1>6, Zenon DEF Lag
  <2>3. Dist(local_head[h], tail) \in Int BY <1>h DEF Numbers
  <2> QED BY <2>1, <2>2, <2>3, <1>2, <1>4
<1>8. ASSUME NEW g \in Active, g # h PROVE Lag(g)' = Lag(g)
  <2>1. KeepsHead(g) BY <1>6, <1>8, ActiveHeads, Zenon
  <2> QED BY <2>1, <1>3 DEF Lag, KeepsHead
<1>9. ASSUME NEW o \in Observers
      PROVE  /\ owed'[o] \in [Heads -> Nat]
             /\ \A g \in Heads : g # h => owed'[o][g] = owed[o][g]
             /\ owed'[o][h] = IF owed[o][h] > n THEN owed[o][h] - n ELSE 0
  <2>1. owed[o] \in [Heads -> Nat] BY DEF IndInv, TypeOK, ObserverTypeOK
  <2>2. PICK k \in Nat : k = IF owed[o][h] > n THEN owed[o][h] - n ELSE 0 BY <2>1, <1>2
  <2>3. owed'[o] = [owed[o] EXCEPT ![h] = k] BY <2>2, <1>3, Zenon
  <2> QED BY <2>1, <2>2, <2>3, Zenon
<1>10. ObserverTypeOK'
  <2>1. owed' \in [Observers -> [Heads -> Nat]] BY <1>3, <1>9, Zenon
  <2> QED BY <2>1, <1>3, Zenon DEF IndInv, TypeOK, ObserverTypeOK
<1>10a. ConsumerTypeOK' BY <1>3, <1>5 DEF IndInv, TypeOK, ConsumerTypeOK
<1>10b. RingTypeOK' BY <1>3, <1>4, Zenon DEF IndInv, TypeOK, RingTypeOK
<1>11. ObserversOK'
  <2> SUFFICES ASSUME NEW o \in Observers PROVE ObserverOK(o)' BY DEF ObserversOK
  <2>0. ObserverOK(o) BY DEF IndInv, ObserversOK
  <2>1. ASSUME NEW g \in Active, owed[o][g] = 0 PROVE owed'[o][g] = 0
    <3>1. CASE g = h BY <2>1, <3>1, <1>2, <1>9
    <3>2. CASE g # h BY <2>1, <3>2, <1>9, ActiveHeads, Zenon
    <3> QED BY <3>1, <3>2, Zenon
  <2>2. ASSUME opc[o] = "heads", NEW g \in Active, owed'[o][g] > 0
        PROVE  Dist(otail[o], tail) = Lag(g)' - owed'[o][g]
    <3>0. owed[o][g] \in Nat BY ActiveHeads, Zenon DEF IndInv, TypeOK, ObserverTypeOK
    <3>1. owed[o][g] > 0 BY <3>0, <2>1, <2>2
    <3>2. Dist(otail[o], tail) = Lag(g) - owed[o][g] BY <2>0, <2>2, <3>1, Zenon DEF ObserverOK
    <3>3. CASE g = h
      <4>1. owed'[o][h] = IF owed[o][h] > n THEN owed[o][h] - n ELSE 0 BY <1>9, Zenon
      <4>2. owed'[o][h] = owed[o][h] - n BY <3>0, <3>3, <4>1, <2>2, <1>2
      <4>3. Lag(h) \in Nat BY <1>h, Zenon DEF Numbers
      <4> QED BY <3>0, <3>2, <3>3, <4>2, <4>3, <1>2, <1>7
    <3>4. CASE g # h BY <3>2, <3>4, <1>8, <1>9, ActiveHeads, Zenon
    <3> QED BY <3>3, <3>4, Zenon
  <2>3. opc[o] = "heads" => \A g \in 0 .. oh[o] - 1 : g \in Active
    <3>1. ASSUME opc[o] = "heads" PROVE oh[o] \in 0 .. active - 1 BY <2>0, <3>1, Zenon DEF ObserverOK, Active
    <3> QED BY <3>1, ActiveHeads DEF Active
  <2>4. opc' = opc /\ otail' = otail /\ oh' = oh /\ tail' = tail /\ Active' = Active BY <1>3, Zenon DEF Active
  <2> QED BY <2>0, <2>1, <2>2, <2>3, <2>4, Zenon DEF ObserverOK
<1>12. Ordered(h)'
  <2>1. Lag(h)' <= Dist(head[h], tail) BY <1>2, <1>7, <1>h DEF Ordered, Numbers
  <2>2. Dist(next, shadow_tail[h]) <= Dist(next, tail) BY <1>2, <1>4, <1>h DEF Ordered, Numbers
  <2> QED BY <2>1, <2>2, <1>2, <1>3, <1>6, Zenon DEF Ordered
<1>13. HandOK(h)' BY <1>5, <1>6, Zenon DEF HandOK
<1>14. Dist(head'[h], tail) <= Dist(head[h], tail) BY <1>3, <1>h DEF Numbers
<1> QED BY <1>1, <1>3, <1>5, <1>6, <1>10, <1>10a, <1>10b, <1>11, <1>12, <1>13, <1>14, ConsumerStep, Zenon

\* A ring whose indices all equal tail, with everyone at rest.
AtRest ==
  /\ TypeOK
  /\ \A h \in Heads : cpc[h] = "stopped"
  /\ \A h \in Active : hand[h] = <<>>
  /\ \A p \in Producers : ppc[p] = "idle" /\ i[p] = 0
  /\ \A o \in Observers : opc[o] = "idle"
  /\ \A h \in Heads : head[h] = tail /\ local_head[h] = tail /\ shadow_tail[h] = tail
  /\ shadow_head = tail

\* Such a ring satisfies the invariant.
LEMMA AllEqual == AtRest => IndInv
<1> SUFFICES ASSUME AtRest PROVE IndInv OBVIOUS
<1>0. TypeOK /\ active \in 1 .. HEADS /\ tail \in Idx BY Zenon DEF AtRest, TypeOK, RingTypeOK
<1>1. Active \subseteq Heads BY <1>0 DEF Active, Heads
<1>2. Dist(tail, tail) = 0 BY <1>0, DistType
<1>3. ASSUME NEW h \in Active PROVE Ordered(h) /\ HandOK(h)
  <2>1. /\ cpc[h] = "stopped" /\ hand[h] = <<>> /\ shadow_head = tail
        /\ head[h] = tail /\ local_head[h] = tail /\ shadow_tail[h] = tail
    BY <1>1, Zenon DEF AtRest
  <2>2. Lag(h) = Dist(tail, tail) + 0 BY <2>1, Zenon DEF Lag
  <2> QED BY <2>1, <2>2, <1>2 DEF Ordered, HandOK
<1>4. HeadsOK BY <1>3, Zenon DEF AtRest, HeadsOK
<1>5. MutualExclusion /\ DrainedIsPublished
  BY <1>1, Zenon DEF AtRest, MutualExclusion, Holding, DrainedIsPublished
<1>6. ProducersOK BY Zenon DEF AtRest, ProducersOK, ProducerOK
<1>7. ObserversOK BY Zenon DEF AtRest, ObserversOK, ObserverOK
<1> QED BY <1>0, <1>4, <1>5, <1>6, <1>7 DEF IndInv

\* reset, when everyone has stopped.
LEMMA ResetStep == ASSUME IndInv, Reset PROVE IndInv'
<1>1. RingTypeOK'
  <2>1. tail \in Idx BY Zenon DEF IndInv, TypeOK, RingTypeOK
  <2> QED BY <2>1, Zenon DEF IndInv, TypeOK, RingTypeOK, Reset
<1>2. TypeOK'
  <2>1. UNCHANGED pvars /\ UNCHANGED cvars /\ UNCHANGED ovars BY Zenon DEF Reset
  <2> QED BY <2>1, <1>1, TypesKept, Zenon DEF TypeOK
<1>3. Active' = Active /\ \A h \in Active : hand[h] = <<>>
  BY ActiveHeads, Zenon DEF IndInv, HeadsOK, HandOK, Reset, Active
<1>4. \A p \in Producers : i[p] = 0 BY Zenon DEF IndInv, ProducersOK, ProducerOK, Reset
<1>5. AtRest' BY <1>2, <1>3, <1>4, Zenon DEF Reset, AtRest
<1>6. AtRest' => IndInv' BY AllEqual, PTL
<1> QED BY <1>5, <1>6

\* A new ring satisfies the invariant.
LEMMA InitInv == Init => IndInv
<1> SUFFICES ASSUME Init PROVE IndInv OBVIOUS
<1>1. 0 \in Idx /\ Blank \in Entry BY DEF Idx, MASK, Blank, Reg, Entry
<1>2. <<>> \in Seq(Entry) OBVIOUS
<1>3. [h \in Heads |-> 0] \in [Heads -> Nat] /\ 0 \in Heads BY DEF Heads
<1>4. RingTypeOK BY <1>1, Zenon DEF Init, RingTypeOK
<1>5. ProducerTypeOK BY <1>1, Zenon DEF Init, ProducerTypeOK
<1>6. ConsumerTypeOK BY <1>1, <1>2, Zenon DEF Init, ConsumerTypeOK
<1>7. ObserverTypeOK
  <2>1. owed \in [Observers -> [Heads -> Nat]] BY <1>3, Zenon DEF Init
  <2> QED BY <2>1, <1>1, <1>3, Zenon DEF Init, ObserverTypeOK
<1>8. \A h \in Active : h \in Heads BY DEF Init, Active, Heads
<1>9. AtRest BY <1>4, <1>5, <1>6, <1>7, <1>8, Zenon DEF Init, AtRest, TypeOK
<1> QED BY <1>9, AllEqual, Zenon

\* Stuttering changes nothing the invariant reads.
LEMMA StutterStep == ASSUME IndInv, UNCHANGED vars PROVE IndInv'
<1>1. UNCHANGED <<ring, pvars, cvars>> /\ UNCHANGED ovars BY Zenon DEF vars
<1>2. ObserverTypeOK' BY <1>1, TypesKept, Zenon
<1>3. ObserversOK' BY <1>1, Zenon DEF IndInv, ObserversOK, ObserverOK, Active, Lag
<1> QED BY <1>1, <1>2, <1>3, ObserverStep, Zenon

\* Every reachable state of the ring satisfies the inductive invariant, whatever
\* the depth, the number of heads, producers and observers, and their calls.
THEOREM Invariance == Spec => []IndInv
<1>1. ASSUME IndInv, [Next]_vars PROVE IndInv'
  <2>1. ASSUME NEW p \in Producers, Producer(p) PROVE IndInv'
    BY <1>1, <2>1, CallStep, ContendedStep, LockStep, ScanStep, GiveUpStep, WriteStep,
       PublishStep, UnlockStep, ReturnStep, Zenon DEF Producer
  <2>2. ASSUME NEW h \in Heads, Consumer(h) \/ Start(h) \/ Exit(h) PROVE IndInv'
    BY <1>1, <2>2, PeekStep, FlushHeadStep, ProcessStep, DrainPayloadStep, DrainDoneStep,
       ConsumeStep, StoreHeadStep, ExitStep, StartStep, Zenon DEF Consumer
  <2>3. ASSUME NEW o \in Observers, Observer(o) PROVE IndInv'
    BY <1>1, <2>3, IsEmptyStep, LoadHeadStep, AnsweredStep, Zenon DEF Observer
  <2> QED BY <1>1, <2>1, <2>2, <2>3, ResetStep, StutterStep, Zenon DEF Next, Step
<1> QED BY <1>1, InitInv, PTL DEF Spec

\* The lock keeps producers apart: one of them at a time is between the
\* compare-exchange that took it and the store that releases it.
THEOREM MutualExclusionHolds == Spec => []MutualExclusion
<1>1. IndInv => MutualExclusion BY DEF IndInv
<1> QED BY <1>1, Invariance, PTL

\* is_empty never answers true while an entry that was published when it loaded
\* tail is unread, in processing or unretired at some head.
THEOREM EmptyIsAuthoritativeHolds == Spec => []EmptyIsAuthoritative
<1>1. IndInv => EmptyIsAuthoritative BY Zenon DEF IndInv, ObserversOK, ObserverOK, EmptyIsAuthoritative
<1> QED BY <1>1, Invariance, PTL

\* A consumer that has read everything and is between two entries has also
\* published its head, so is_empty is not left false by a thread at rest.
THEOREM DrainedIsPublishedHolds == Spec => []DrainedIsPublished
<1>1. IndInv => DrainedIsPublished BY DEF IndInv
<1> QED BY <1>1, Invariance, PTL

\* No slot a producer is about to write lies between a running head and tail.
THEOREM NoSlotRaceHolds == Spec => []NoSlotRace
<1>1. IndInv => NoSlotRace
  <2> SUFFICES ASSUME IndInv, NEW p \in Producers, NEW h \in Active, ppc[p] = "write",
                      NEW k \in i[p] .. N(p) - 1,
                      NEW j \in 0 .. Dist(local_head[h], tail) - 1
               PROVE  Wrap(tail + k) # Wrap(local_head[h] + j)
    BY Zenon DEF NoSlotRace, Live
  <2>h. Indices(h) /\ Numbers(h) BY HeadFacts, Zenon
  <2>1. i[p] \in Nat /\ N(p) \in Nat BY ProducerFacts, Zenon
  <2>2. N(p) + Dist(shadow_head, tail) <= MASK BY Zenon DEF IndInv, ProducersOK, ProducerOK, Room
  <2>3. Dist(local_head[h], tail) <= Dist(shadow_head, tail)
    <3>1. Ordered(h) BY Zenon DEF IndInv, HeadsOK
    <3> QED BY <3>1, <2>h DEF Ordered, Numbers
  <2>4. k \in Nat /\ k <= N(p) - 1 /\ j \in Nat /\ j < Dist(local_head[h], tail)
    BY <2>1, <2>h DEF Numbers
  <2>5. Dist(local_head[h], tail) + k <= MASK /\ j \in 0 .. MASK
    BY <2>1, <2>2, <2>3, <2>4, <2>h DEF Numbers
  <2>6. Dist(local_head[h], Wrap(tail + k)) = Dist(local_head[h], tail) + k
    BY <2>4, <2>5, <2>h, DistTail, Zenon DEF Indices
  <2>7. Dist(local_head[h], Wrap(local_head[h] + j)) = j BY <2>5, <2>h, DistOf, Zenon DEF Indices
  <2>8. Dist(local_head[h], tail) \in Nat BY <2>h DEF Numbers
  <2> QED BY <2>4, <2>6, <2>7, <2>8
<1> QED BY <1>1, Invariance, PTL

\* Every variable keeps its type.
THEOREM TypeCorrect == Spec => []TypeOK
<1>1. IndInv => TypeOK BY DEF IndInv
<1> QED BY <1>1, Invariance, PTL

-----------------------------------------------------------------------------
(* What the refinement needs besides *)

\* Heads that do not run have nothing in hand.
SpareOK == \A h \in Heads \ Active : hand[h] = <<>>
RefInv == IndInv /\ LandedOK /\ SpareOK

\* Every step keeps what is written and what idle heads hold.
LEMMA RefInvStep == ASSUME RefInv, [Next]_vars, IndInv' PROVE RefInv'
<1>1. IndInv /\ LandedOK /\ SpareOK BY DEF RefInv
<1>2. active' = active BY Zenon DEF vars, Next, Step, Producer, Consumer, Observer, Call, Contended, Lock, Scan,
        GiveUp, Write, Publish, Unlock, Return, Peek, FlushHead, Process, DrainPayload, DrainDone,
        Consume, StoreHead, Exit, Start, IsEmpty, LoadHead, Answered, Reset
<1>3. Active' = Active BY <1>2 DEF Active
<1>4. ASSUME UNCHANGED <<tail, buf, pvars>> PROVE LandedOK'
  BY <1>1, <1>4, LandedKept, Zenon DEF Written, N
<1>5. ASSUME NEW p \in Producers, Producer(p) PROVE LandedOK' /\ SpareOK'
  <2>1. hand' = hand
    BY <1>5, Zenon DEF Producer, Call, Contended, Lock, Scan, GiveUp, Write, Publish, Unlock, Return
  <2> QED BY <2>1, <1>1, <1>3, <1>5, LandedProducer, Zenon DEF SpareOK
<1>6. ASSUME NEW h \in Heads, Consumer(h) \/ Start(h) \/ Exit(h) PROVE LandedOK' /\ SpareOK'
  <2>1. UNCHANGED <<tail, buf, pvars>>
    BY <1>6, Zenon DEF Consumer, Peek, FlushHead, Process, DrainPayload, DrainDone, Consume, StoreHead, Exit, Start
  <2>2. h \in Active \/ cpc[h] = "stopped" BY <1>1, Zenon DEF IndInv, HeadsOK
  <2>3. \A g \in Heads : g # h => hand'[g] = hand[g]
    BY <1>1, <1>6, Zenon DEF Consumer, Peek, FlushHead, Process, DrainPayload, DrainDone, Consume, StoreHead,
       Exit, Start, IndInv, TypeOK, ConsumerTypeOK
  <2>4. cpc[h] = "stopped" => hand' = hand
    BY <1>6, Zenon DEF Consumer, Peek, FlushHead, Process, DrainPayload, DrainDone, Consume, StoreHead, Exit, Start
  <2>5. SpareOK' BY <2>2, <2>3, <2>4, <1>1, <1>3, Zenon DEF SpareOK
  <2> QED BY <2>1, <2>5, <1>4
<1>7. ASSUME UNCHANGED <<tail, buf, pvars, cvars>> PROVE LandedOK' /\ SpareOK'
  BY <1>1, <1>3, <1>4, <1>7, Zenon DEF SpareOK
<1>8. ASSUME NEW o \in Observers, Observer(o) PROVE LandedOK' /\ SpareOK'
  BY <1>7, <1>8, Zenon DEF Observer, IsEmpty, LoadHead, Answered
<1>9. Reset => LandedOK' /\ SpareOK' BY <1>7, Zenon DEF Reset
<1>10. UNCHANGED vars => LandedOK' /\ SpareOK' BY <1>7, Zenon DEF vars
<1>11. LandedOK' /\ SpareOK' BY <1>5, <1>6, <1>8, <1>9, <1>10, Zenon DEF Next, Step
<1> QED BY <1>11, Zenon DEF RefInv

\* The new ring.
LEMMA RefInit == ASSUME Init PROVE RefInv
<1>1. IndInv BY InitInv, Zenon
<1>2. LandedOK
  <2>1. \A p \in Producers : Written(p) = 0 BY Zenon DEF Init, Written
  <2> QED BY <2>1 DEF LandedOK
<1>3. SpareOK BY Zenon DEF Init, SpareOK
<1> QED BY <1>1, <1>2, <1>3 DEF RefInv

\* What is written behind tail, and what the hands of idle heads hold.
THEOREM RefInvariance == Spec => []RefInv
<1>1. Init => RefInv BY RefInit
<1>2. RefInv /\ IndInv' /\ [Next]_vars => RefInv' BY RefInvStep, Zenon
<1> QED BY <1>1, <1>2, Invariance, PTL DEF Spec

-----------------------------------------------------------------------------
(* Queues as slots of the ring, and what a consumer's step does to them *)

\* The abstract state.
Queues   == [h \in Heads |-> Pending(h)]
Statuses == [p \in Producers |-> Status(p)]

\* A step of the ring is a step of the queue or changes nothing of it.
Simulates == Abstract!Next \/ UNCHANGED <<Active, Queues, hand, Statuses, call>>

\* Where a running head's queue begins, and how long it is.
LEMMA BaseFacts ==
  ASSUME IndInv, NEW h \in Active
  PROVE  Base(h) \in Idx /\ Dist(Base(h), tail) = Lag(h) /\ Lag(h) \in 0 .. MASK
<1>h. Indices(h) /\ Numbers(h) BY HeadFacts, Zenon
<1>1. Lag(h) \in 0 .. MASK
  <2>1. Ordered(h) BY Zenon DEF IndInv, HeadsOK
  <2> QED BY <2>1, <1>h DEF Ordered, Numbers
<1>2. CASE cpc[h] # "consume"
  <2>1. Base(h) = local_head[h] /\ Lag(h) = Dist(local_head[h], tail) + 0 BY <1>2, Zenon DEF Base, Lag
  <2> QED BY <2>1, <1>1, <1>h DEF Indices, Numbers
<1>3. CASE cpc[h] = "consume"
  <2> DEFINE n == Len(hand[h])
             l == local_head[h]
             b == Wrap(l + 1 - n)
  <2>1. n \in Nat /\ n >= 1 BY <1>3, <1>h, Zenon DEF IndInv, HeadsOK, HandOK, Numbers
  <2>2. Lag(h) = Dist(l, tail) + (n - 1) /\ Base(h) = b BY <1>3, Zenon DEF Lag, Base
  <2>3. l \in Idx /\ tail \in Idx /\ Dist(l, tail) \in 0 .. MASK BY <1>h, Zenon DEF Indices, Numbers
  <2> HIDE DEF n, l
  <2>4. n - 1 <= MASK BY <1>1, <2>1, <2>2, <2>3 DEF MASK
  <2>5. b = IF l + 1 - n >= 0 THEN l + 1 - n ELSE l + 1 - n + DEPTH
    BY <2>1, <2>3, <2>4, WrapIs DEF Idx, MASK
  <2>6. b \in Idx BY <2>1, <2>3, WrapType DEF Idx, MASK
  <2>7. Dist(l, tail) = IF l <= tail THEN tail - l ELSE tail - l + DEPTH BY <2>3, DistIs, Zenon
  <2> HIDE DEF b
  <2>8. Dist(b, tail) = IF b <= tail THEN tail - b ELSE tail - b + DEPTH BY <2>3, <2>6, DistIs, Zenon
  <2>9. Dist(b, tail) = Dist(l, tail) + (n - 1)
    BY <1>1, <2>1, <2>2, <2>3, <2>4, <2>5, <2>6, <2>7, <2>8 DEF Idx, MASK
  <2> QED BY <1>1, <2>2, <2>6, <2>9, Zenon
<1> QED BY <1>2, <1>3, Zenon

\* A running head's queue, entry by entry.
LEMMA PendingFacts ==
  ASSUME IndInv, NEW h \in Active
  PROVE  /\ Pending(h) = [k \in 1 .. Lag(h) |-> buf[Wrap(Base(h) + k - 1)]]
         /\ Pending(h) \in Seq(Entry) /\ Len(Pending(h)) = Lag(h)
         /\ \A k \in 1 .. Lag(h) : Pending(h)[k] = buf[Wrap(Base(h) + k - 1)]
<1>1. Base(h) \in Idx /\ Dist(Base(h), tail) = Lag(h) /\ Lag(h) \in 0 .. MASK BY BaseFacts, Zenon
<1>2. Lag(h) \in Nat BY <1>1 DEF MASK
<1>3. Pending(h) = [k \in 1 .. Lag(h) |-> buf[Wrap(Base(h) + k - 1)]] BY <1>1, Zenon DEF Pending
<1>4. ASSUME NEW k \in 1 .. Lag(h) PROVE buf[Wrap(Base(h) + k - 1)] \in Entry
  <2>1. Base(h) + k - 1 \in Int BY <1>1, <1>2 DEF Idx, MASK
  <2>2. Wrap(Base(h) + k - 1) \in Idx BY <2>1, WrapType, Zenon
  <2> QED BY <2>2, Zenon DEF IndInv, TypeOK, RingTypeOK
<1>5. Pending(h) \in [1 .. Lag(h) -> Entry] BY <1>3, <1>4, Zenon
<1>6. Pending(h) \in Seq(Entry) /\ Len(Pending(h)) = Lag(h) BY <1>2, <1>5
<1> QED BY <1>3, <1>6, Zenon

\* A queue keeps its entries while its base, tail and the slots between stay.
LEMMA PendingKept ==
  ASSUME NEW h \in Heads, UNCHANGED <<active, tail, buf>>, h \in Active => Base(h)' = Base(h)
  PROVE  Pending(h)' = Pending(h)
<1>1. Active' = Active BY Zenon DEF Active
<1>2. CASE h \notin Active BY <1>1, <1>2, Zenon DEF Pending
<1>3. CASE h \in Active BY <1>1, <1>3, Zenon DEF Pending
<1> QED BY <1>2, <1>3, Zenon

\* A consumer's step is about its own queue.
LEMMA OthersKept ==
  ASSUME NEW h \in Heads, UNCHANGED <<active, tail, buf>>, \A g \in Heads : g # h => KeepsHead(g)
  PROVE  /\ Active' = Active
         /\ Queues' = [Queues EXCEPT ![h] = Pending(h)']
<1>1. ASSUME NEW g \in Heads, g # h PROVE Pending(g)' = Pending(g)
  <2>1. Base(g)' = Base(g) BY <1>1, Zenon DEF Base, KeepsHead
  <2> QED BY <2>1, PendingKept, Zenon
<1> QED BY <1>1, Zenon DEF Queues, Active

\* If its base stays, nothing of the queues changes.
LEMMA BaseKept ==
  ASSUME NEW h \in Heads, UNCHANGED <<active, tail, buf, pvars>>,
         \A g \in Heads : g # h => KeepsHead(g), Base(h)' = Base(h)
  PROVE  UNCHANGED <<Active, Queues, Statuses, call>>
<1>1. \A g \in Heads : Pending(g)' = Pending(g)
  <2> SUFFICES ASSUME NEW g \in Heads PROVE Pending(g)' = Pending(g) BY Zenon
  <2>1. Base(g)' = Base(g) BY Zenon DEF Base, KeepsHead
  <2> QED BY <2>1, PendingKept, Zenon
<1>2. Queues' = Queues BY <1>1, Zenon DEF Queues
<1>3. Statuses' = Statuses BY DEF Statuses, Status
<1> QED BY <1>2, <1>3, Zenon DEF Active

\* An entry read is an entry taken from the queue.
LEMMA TakeStep ==
  ASSUME IndInv, NEW h \in Heads, h \in Active, UNCHANGED <<active, tail, buf, pvars>>,
         \A g \in Heads : g # h => KeepsHead(g), Base(h)' = Base(h), Len(hand[h]) < Lag(h),
         hand' = [hand EXCEPT ![h] = Append(hand[h], buf[Wrap(Base(h) + Len(hand[h]))])]
  PROVE  Simulates
<1>1. UNCHANGED <<Active, Queues, Statuses, call>> BY BaseKept, Zenon
<1>2. Queues[h] = Pending(h) BY Zenon DEF Queues
<1>3. Len(hand[h]) \in Nat /\ Base(h) \in Int /\ Lag(h) \in Nat
  BY HeadFacts, BaseFacts DEF Numbers, Idx, MASK
<1>4. Len(hand[h]) + 1 \in 1 .. Lag(h) /\ Base(h) + (Len(hand[h]) + 1) - 1 = Base(h) + Len(hand[h])
  BY <1>3
<1>5. Pending(h)[Len(hand[h]) + 1] = buf[Wrap(Base(h) + Len(hand[h]))] /\ Len(Pending(h)) = Lag(h)
  <2>1. /\ Len(Pending(h)) = Lag(h)
        /\ \A k \in 1 .. Lag(h) : Pending(h)[k] = buf[Wrap(Base(h) + k - 1)]
    BY PendingFacts, Zenon
  <2> QED BY <2>1, <1>4, Zenon
<1>6. Abstract!Take(h)
  BY <1>1, <1>2, <1>5, Zenon DEF Abstract!Take, Queues, Statuses
<1> QED BY <1>6, Zenon DEF Simulates, Abstract!Next

\* peek_at takes the entry at local_head, or finds nothing.
LEMMA PeekSim == ASSUME IndInv, NEW h \in Heads, Peek(h) PROVE Simulates
<1> DEFINE t == IF local_head[h] = shadow_tail[h] THEN tail ELSE shadow_tail[h]
<1>1. h \in Active /\ cpc[h] = "peek" /\ hand[h] = <<>> /\ Ordered(h)
  BY Zenon DEF IndInv, HeadsOK, HandOK, Peek
<1>h. Indices(h) /\ Numbers(h) BY <1>1, HeadFacts, Zenon
<1>2. /\ UNCHANGED <<active, tail, buf, local_head, pvars>>
      /\ \A g \in Heads : g # h => KeepsHead(g)
      /\ cpc'[h] \in {"none", "have"}
  BY Zenon DEF Peek, KeepsHead, IndInv, TypeOK, RingTypeOK, ConsumerTypeOK
<1>3. Base(h) = local_head[h] /\ Base(h)' = Base(h) BY <1>1, <1>2, Zenon DEF Base
<1>4. CASE local_head[h] = t
  <2>1. hand' = hand BY <1>4, Zenon DEF Peek
  <2> QED BY <2>1, <1>2, <1>3, BaseKept, Zenon DEF Simulates
<1>5. CASE local_head[h] # t
  <2>1. hand' = [hand EXCEPT ![h] = <<buf[local_head[h]]>>] BY <1>5, Zenon DEF Peek
  <2>2. local_head[h] # tail
    <3>1. CASE local_head[h] = shadow_tail[h] BY <1>5, <3>1, Zenon
    <3>2. CASE local_head[h] # shadow_tail[h]
      <4>1. Dist(local_head[h], shadow_tail[h]) # 0 BY <3>2, <1>h, DistType, Zenon DEF Indices
      <4>2. Dist(local_head[h], tail) # 0 BY <4>1, <1>1, <1>h DEF Ordered, Numbers
      <4> QED BY <4>2, <1>h, DistType, Zenon DEF Indices
    <3> QED BY <3>1, <3>2, Zenon
  <2>3. Lag(h) > 0
    <3>1. Dist(local_head[h], tail) # 0 BY <2>2, <1>h, DistType, Zenon DEF Indices
    <3> QED BY <3>1, <1>h DEF Numbers
  <2>4. Len(hand[h]) = 0 /\ Append(hand[h], buf[local_head[h]]) = <<buf[local_head[h]]>> BY <1>1
  <2>5. Wrap(Base(h) + Len(hand[h])) = local_head[h]
    <3>1. local_head[h] + 0 = local_head[h] /\ Wrap(local_head[h]) = local_head[h]
      BY <1>h, WrapIs DEF Indices, Idx, MASK
    <3> QED BY <3>1, <2>4, <1>3, Zenon
  <2>6. hand' = [hand EXCEPT ![h] = Append(hand[h], buf[Wrap(Base(h) + Len(hand[h]))])]
    BY <2>1, <2>4, <2>5, Zenon
  <2> QED BY <2>3, <2>4, <2>6, <1>1, <1>2, <1>3, TakeStep, Zenon
<1> QED BY <1>4, <1>5, Zenon

\* One payload entry: the next of the queue.
LEMMA DrainPayloadSim == ASSUME IndInv, NEW h \in Heads, DrainPayload(h), IndInv' PROVE Simulates
<1> DEFINE x == Wrap(local_head[h] + Len(hand[h]))
<1>1. h \in Active /\ cpc[h] = "drain" BY Zenon DEF IndInv, HeadsOK, DrainPayload
<1>2. /\ UNCHANGED <<active, tail, buf, local_head, cpc, pvars>>
      /\ \A g \in Heads : g # h => KeepsHead(g)
      /\ hand' = [hand EXCEPT ![h] = Append(hand[h], buf[x])]
  BY Zenon DEF DrainPayload, KeepsHead, IndInv, TypeOK, RingTypeOK, ConsumerTypeOK
<1>3. Base(h) = local_head[h] /\ Base(h)' = Base(h) BY <1>1, <1>2, Zenon DEF Base
<1>4. Len(hand[h]) < Lag(h)
  <2>1. h \in Active' /\ Active' = Active BY <1>1, <1>2, Zenon DEF Active
  <2>2. Len(hand'[h]) <= Dist(local_head[h], dtail'[h]) /\ Dist(local_head[h], dtail'[h]) <= Dist(local_head[h], tail)
    BY <2>1, <1>1, <1>2, Zenon DEF IndInv, HeadsOK, HandOK
  <2>3. Len(hand'[h]) = Len(hand[h]) + 1 /\ Len(hand[h]) \in Nat
    <3>1. hand[h] \in Seq(Entry) /\ hand'[h] = Append(hand[h], buf[x])
      BY <1>2, Zenon DEF IndInv, TypeOK, ConsumerTypeOK
    <3> QED BY <3>1
  <2>4. Dist(local_head[h], tail) \in 0 .. MASK /\ Dist(local_head[h], tail) <= Lag(h) /\ Lag(h) \in Nat
    BY <1>1, HeadFacts, Zenon DEF Numbers
  <2>5. Dist(local_head[h], dtail'[h]) \in Int
    <3>1. dtail'[h] \in Idx /\ local_head[h] \in Idx BY Zenon DEF IndInv, TypeOK, RingTypeOK, ConsumerTypeOK
    <3> QED BY <3>1, DistType
  <2> QED BY <2>2, <2>3, <2>4, <2>5 DEF MASK
<1> QED BY <1>1, <1>2, <1>3, <1>4, TakeStep, Zenon

\* The stores of head, and a thread that starts or leaves, take nothing.
LEMMA RestSim ==
  ASSUME IndInv, NEW h \in Heads, FlushHead(h) \/ StoreHead(h) \/ Exit(h) \/ Start(h)
  PROVE  Simulates
<1>1. /\ UNCHANGED <<active, tail, buf, local_head, hand, pvars>>
      /\ cpc[h] \in {"none", "store", "peek", "stopped"} /\ cpc'[h] \in {"peek", "stopped"}
      /\ \A g \in Heads : g # h => KeepsHead(g)
  <2>1. CASE FlushHead(h) \/ StoreHead(h)
    BY <2>1, Zenon DEF FlushHead, StoreHead, KeepsHead, IndInv, TypeOK, RingTypeOK, ConsumerTypeOK
  <2>2. CASE Exit(h) BY <2>2, Zenon DEF Exit, KeepsHead, IndInv, TypeOK, RingTypeOK, ConsumerTypeOK
  <2>3. CASE Start(h) BY <2>3, Zenon DEF Start, KeepsHead, IndInv, TypeOK, RingTypeOK, ConsumerTypeOK
  <2> QED BY <2>1, <2>2, <2>3, Zenon
<1>2. Base(h)' = Base(h) BY <1>1, Zenon DEF Base
<1> QED BY <1>1, <1>2, BaseKept, Zenon DEF Simulates

\* Processing an entry leaves it in the queue until it is consumed.
LEMMA ProcessSim == ASSUME IndInv, NEW h \in Heads, Process(h) PROVE Simulates
<1>1. h \in Active /\ cpc[h] = "have" /\ Len(hand[h]) = 1 BY Zenon DEF IndInv, HeadsOK, HandOK, Process
<1>2. /\ UNCHANGED <<active, tail, buf, local_head, hand, pvars>>
      /\ \A g \in Heads : g # h => KeepsHead(g)
  BY Zenon DEF Process, KeepsHead, IndInv, TypeOK, ConsumerTypeOK
<1>3. Wrap(local_head[h] + 1 - Len(hand[h])) = local_head[h]
  <2>1. local_head[h] \in Idx BY Zenon DEF IndInv, TypeOK, RingTypeOK
  <2> QED BY <2>1, <1>1, WrapIs DEF Idx, MASK
<1>4. Base(h)' = Base(h) BY <1>1, <1>2, <1>3, Zenon DEF Base
<1> QED BY <1>2, <1>4, BaseKept, Zenon DEF Simulates

\* Nor does the end of a drain, which moves local_head onto the last entry.
LEMMA DrainDoneSim == ASSUME IndInv, NEW h \in Heads, DrainDone(h) PROVE Simulates
<1> DEFINE n == Len(hand[h])
           l == local_head[h]
           y == Wrap(l + n - 1)
<1>1. h \in Active /\ cpc[h] = "drain" BY Zenon DEF IndInv, HeadsOK, DrainDone
<1>h. Indices(h) /\ Numbers(h) BY <1>1, HeadFacts, Zenon
<1>2. /\ UNCHANGED <<active, tail, buf, hand, pvars>>
      /\ \A g \in Heads : g # h => KeepsHead(g)
      /\ cpc'[h] = "consume" /\ local_head'[h] = y
  BY Zenon DEF DrainDone, KeepsHead, IndInv, TypeOK, RingTypeOK, ConsumerTypeOK
<1>3. n \in 1 .. MASK
  <2>1. /\ 1 <= n /\ n <= Dist(local_head[h], dtail[h])
        /\ Dist(local_head[h], dtail[h]) <= Dist(local_head[h], tail)
    BY <1>1, Zenon DEF IndInv, HeadsOK, HandOK
  <2> QED BY <2>1, <1>h DEF Numbers
<1>4. Base(h) = l /\ Base(h)' = Wrap(y + 1 - n) BY <1>1, <1>2, Zenon DEF Base
<1>5. Wrap(y + 1 - n) = l
  <2>1. l \in Idx BY <1>h, Zenon DEF Indices
  <2> HIDE DEF n, l
  <2>2. y = IF l + n - 1 < DEPTH THEN l + n - 1 ELSE l + n - 1 - DEPTH
    BY <2>1, <1>3, WrapIs DEF Idx, MASK
  <2> HIDE DEF y
  <2> QED BY <2>1, <2>2, <1>3, WrapIs DEF Idx, MASK
<1> QED BY <1>2, <1>4, <1>5, BaseKept, Zenon DEF Simulates
=============================================================================
