----------------------- MODULE GFifoRefinementProofs -----------------------
(***************************************************************************)
(* The ring implements the broadcast queue, for every depth and every set  *)
(* of threads: proofs about GFifoRefinement.                               *)
(*                                                                         *)
(* The indices' invariant is not enough.  That Publish commits the call    *)
(* needs to know what the slots behind tail hold by then (LandedOK), and   *)
(* that reset drops queues only needs the hands of idle heads (SpareOK).   *)
(* What the queue promises gives BatchIntact in turn: a token in a queue   *)
(* has its payload behind it, because calls are appended whole and leave   *)
(* from the front.                                                         *)
(***************************************************************************)
EXTENDS GFifoProofs

USE DepthAssumption, HeadsAssumption, PublishAssumption, SizeAssumption
USE DEF ring, pvars, cvars, ovars

\* What a head has in hand is the front of its queue, and the queue is whole.
Taken(h) == /\ Len(hand[h]) <= Len(Pending(h))
            /\ \A k \in 1 .. Len(hand[h]) : hand[h][k] = Pending(h)[k]
QueuesOK == \A h \in Active : Taken(h) /\ Whole(Pending(h))

-----------------------------------------------------------------------------
(* The steps of the ring *)

\* consume_at retires what is in hand.
LEMMA ConsumeSim == ASSUME IndInv, NEW h \in Heads, Consume(h), IndInv' PROVE Simulates
<1> DEFINE n == Len(hand[h])
           b == Base(h)
           L == Lag(h)
           next == Wrap(local_head[h] + 1)
<1>1. h \in Active /\ cpc[h] = "consume" BY DEF IndInv, HeadsOK, Consume
<1>h. Indices(h) /\ Numbers(h) BY <1>1, HeadFacts
<1>2. /\ UNCHANGED <<active, tail, buf, pvars>> /\ hand' = [hand EXCEPT ![h] = <<>>]
      /\ \A g \in Heads : g # h => KeepsHead(g)
      /\ cpc'[h] # "consume" /\ local_head'[h] = next
  BY Zenon DEF Consume, KeepsHead, IndInv, TypeOK, RingTypeOK, ConsumerTypeOK
<1>3. n \in Nat /\ n >= 1 /\ L = Dist(local_head[h], tail) + (n - 1) /\ b = Wrap(local_head[h] + 1 - n)
  BY <1>1, <1>h, Zenon DEF IndInv, HeadsOK, HandOK, Numbers, Lag, Base
<1>4. L \in 0 .. MASK /\ b \in Idx /\ Dist(b, tail) = L /\ L \in Nat BY <1>1, BaseFacts DEF MASK
<1>5. Dist(local_head[h], tail) \in 1 .. MASK
  <2>1. Ordered(h) /\ local_head[h] # shadow_tail[h] BY <1>1, Zenon DEF IndInv, HeadsOK, HandOK
  <2>2. Dist(local_head[h], shadow_tail[h]) # 0 BY <2>1, <1>h, DistType DEF Indices
  <2> QED BY <2>1, <2>2, <1>h DEF Ordered, Numbers
<1>6. n <= L BY <1>3, <1>5
<1>7. Base(h)' = next BY <1>2 DEF Base
<1>8. Active' = Active /\ h \in Active' BY <1>1, <1>2 DEF Active
<1>9. next = Wrap(b + n) /\ Dist(next, tail) = L - n
  <2>1. local_head[h] \in Idx /\ tail \in Idx BY <1>h DEF Indices
  <2>2. Wrap(local_head[h] + 1) = Wrap(b + n)
    <3> DEFINE l == local_head[h]
    <3>1. b = IF l + 1 - n >= 0 THEN l + 1 - n ELSE l + 1 - n + DEPTH
      BY <2>1, <1>3, <1>4, <1>6, WrapIs DEF Idx, MASK
    <3>2. l \in Idx BY <2>1
    <3> HIDE DEF l, b, n, L
    <3>3. Wrap(l + 1) = IF l + 1 < DEPTH THEN l + 1 ELSE l + 1 - DEPTH BY <3>2, WrapIs DEF Idx, MASK
    <3>4. Wrap(b + n) = IF b + n < DEPTH THEN b + n ELSE b + n - DEPTH
      BY <1>3, <1>4, <1>6, WrapIs DEF Idx, MASK
    <3>5. Wrap(l + 1) = Wrap(b + n) BY <3>1, <3>2, <3>3, <3>4, <1>3, <1>4, <1>6 DEF Idx, MASK
    <3> QED BY <3>5 DEF l
  <2>3. n \in 0 .. Dist(b, tail) BY <1>3, <1>4, <1>6
  <2>4. Dist(Wrap(b + n), tail) = Dist(b, tail) - n BY <2>1, <2>3, <1>4, DistHead
  <2> QED BY <2>2, <2>4, <1>4
<1>10. Pending(h)' = SubSeq(Pending(h), n + 1, Len(Pending(h)))
  <2>1. /\ Pending(h) \in Seq(Entry) /\ Len(Pending(h)) = L
        /\ \A k \in 1 .. L : Pending(h)[k] = buf[Wrap(b + k - 1)]
    BY <1>1, PendingFacts
  <2>2. Pending(h)' = [k \in 1 .. L - n |-> buf[Wrap(next + k - 1)]]
    BY <1>2, <1>7, <1>8, <1>9, Zenon DEF Pending
  <2>3. ASSUME NEW k \in 1 .. L - n PROVE Wrap(next + k - 1) = Wrap(b + (n + k) - 1)
    <3>1. b + n \in Int /\ next = IF b + n < DEPTH THEN b + n ELSE b + n - DEPTH
      BY <1>3, <1>4, <1>6, <1>9, WrapIs DEF Idx, MASK
    <3>2. next \in Idx BY <3>1, <1>9, WrapType
    <3> HIDE DEF next, b, n, L
    <3>3. Wrap(next + k - 1) = IF next + k - 1 < DEPTH THEN next + k - 1 ELSE next + k - 1 - DEPTH
      BY <2>3, <3>2, <1>3, <1>4, WrapIs DEF Idx, MASK
    <3>4. Wrap(b + (n + k) - 1) = IF b + (n + k) - 1 < DEPTH THEN b + (n + k) - 1 ELSE b + (n + k) - 1 - DEPTH
      BY <2>3, <1>3, <1>4, WrapIs DEF Idx, MASK
    <3> QED BY <2>3, <3>1, <3>2, <3>3, <3>4, <1>3, <1>4 DEF Idx, MASK
  <2> DEFINE S == SubSeq(Pending(h), n + 1, Len(Pending(h)))
  <2>4. S \in Seq(Entry) /\ Len(S) = L - n /\ \A k \in 1 .. L - n : S[k] = Pending(h)[n + k]
    BY <2>1, <1>3, <1>4, <1>6
  <2>5. \A k \in 1 .. L - n : S[k] = buf[Wrap(next + k - 1)]
    <3> SUFFICES ASSUME NEW k \in 1 .. L - n PROVE S[k] = buf[Wrap(next + k - 1)] BY Zenon
    <3>1. n + k \in 1 .. L BY <1>3, <1>4
    <3> QED BY <3>1, <2>1, <2>3, <2>4, Zenon
  <2> HIDE DEF S
  <2>6. S = [k \in 1 .. L - n |-> buf[Wrap(next + k - 1)]] BY <2>4, <2>5, <1>3, <1>4, <1>6
  <2> QED BY <2>2, <2>6, Zenon DEF S
<1>11. Queues' = [Queues EXCEPT ![h] = SubSeq(Pending(h), n + 1, Len(Pending(h)))]
  BY <1>2, <1>10, OthersKept, Zenon
<1>12. Queues[h] = Pending(h) /\ hand[h] # <<>> /\ Statuses' = Statuses /\ call' = call
  BY <1>2, <1>3 DEF Queues, Statuses, Status
<1>13. Abstract!Retire(h)
  BY <1>1, <1>2, <1>8, <1>11, <1>12, Zenon DEF Abstract!Retire, Queues, Statuses
<1> QED BY <1>13 DEF Simulates, Abstract!Next

\* A producer's step is about its own status.
LEMMA StatusStep ==
  ASSUME IndInv, NEW p \in Producers, NEW c, NEW s, ppc' = [ppc EXCEPT ![p] = c], Status(p)' = s
  PROVE  Statuses' = [Statuses EXCEPT ![p] = s]
<1>1. ASSUME NEW q \in Producers, q # p PROVE Status(q)' = Status(q)
  <2>1. ppc'[q] = ppc[q] BY <1>1 DEF IndInv, TypeOK, ProducerTypeOK
  <2> QED BY <2>1 DEF Status
<1> QED BY <1>1, Zenon DEF Statuses

\* Queues read the indices, the slots and the consumers' places.
LEMMA QueuesKept ==
  ASSUME UNCHANGED <<active, tail, buf, local_head, cvars>>
  PROVE  UNCHANGED <<Active, Queues, hand>>
<1>1. \A h \in Heads : Pending(h)' = Pending(h)
  <2> SUFFICES ASSUME NEW h \in Heads PROVE Pending(h)' = Pending(h) OBVIOUS
  <2>1. Base(h)' = Base(h) BY DEF Base
  <2> QED BY <2>1, PendingKept
<1> QED BY <1>1 DEF Queues, Active

\* A call begins.
LEMMA CallSim == ASSUME IndInv, NEW p \in Producers, Call(p) PROVE Simulates
<1>1. UNCHANGED <<Active, Queues, hand>> BY QueuesKept DEF Call
<1>2. PICK c \in Calls : call' = [call EXCEPT ![p] = c] BY Zenon DEF Call
<1>3. ppc' = [ppc EXCEPT ![p] = "cas"] /\ ppc[p] = "idle" /\ ppc'[p] = "cas"
  BY Zenon DEF Call, IndInv, TypeOK, ProducerTypeOK
<1>4. Status(p)' = "calling" /\ Statuses[p] = "idle" BY <1>3 DEF Status, Statuses
<1>5. Statuses' = [Statuses EXCEPT ![p] = "calling"] BY <1>3, <1>4, StatusStep, Zenon
<1>6. Abstract!Begin(p) BY <1>1, <1>2, <1>4, <1>5, Zenon DEF Abstract!Begin, Queues, Statuses
<1> QED BY <1>6 DEF Simulates, Abstract!Next

\* A step that leaves the status alone is invisible, if the queues are too.
LEMMA HiddenStep ==
  ASSUME IndInv, NEW p \in Producers, NEW c, ppc' = [ppc EXCEPT ![p] = c], Status(p)' = Status(p),
         UNCHANGED <<Active, Queues, hand, call>>
  PROVE  Simulates
<1>1. Statuses' = [Statuses EXCEPT ![p] = Status(p)] BY StatusStep, Zenon
<1>2. Statuses' = Statuses BY <1>1, Zenon DEF Statuses
<1> QED BY <1>2 DEF Simulates

\* Taking the lock, scanning the heads and dropping the lock are invisible.
LEMMA HolderSim ==
  ASSUME IndInv, NEW p \in Producers, Lock(p) \/ Scan(p) \/ Unlock(p)
  PROVE  Simulates
<1>1. UNCHANGED <<Active, Queues, hand>> BY QueuesKept, Zenon DEF Lock, Scan, Unlock
<1>2. PICK c \in {"publish", "scan", "write", "full", "true"} :
        ppc' = [ppc EXCEPT ![p] = c] /\ (c = "true" <=> ppc[p] = "unlock")
  <2>1. CASE Lock(p) BY <2>1, Zenon DEF Lock
  <2>2. CASE Unlock(p) BY <2>2 DEF Unlock
  <2>3. CASE Scan(p)
    <3>1. ppc[p] = "scan" /\ ppc \in [Producers -> {"idle", "cas", "scan", "full", "write", "publish", "unlock", "true", "false"}]
      BY <2>3, Zenon DEF Scan, IndInv, TypeOK, ProducerTypeOK
    <3>2. \/ ppc' = ppc
          \/ ppc' = [ppc EXCEPT ![p] = "full"]
          \/ ppc' = [ppc EXCEPT ![p] = "write"]
      BY <2>3, Zenon DEF Scan
    <3>3. ppc = [ppc EXCEPT ![p] = "scan"] BY <3>1
    <3> QED BY <3>1, <3>2, <3>3
  <2> QED BY <2>1, <2>2, <2>3
<1>3. ppc[p] \in {"cas", "scan", "unlock"} /\ call' = call BY Zenon DEF Lock, Scan, Unlock
<1>4. ppc'[p] = c BY <1>2, Zenon DEF IndInv, TypeOK, ProducerTypeOK
<1>5. Status(p)' = Status(p) BY <1>2, <1>3, <1>4 DEF Status
<1> QED BY <1>1, <1>2, <1>3, <1>5, HiddenStep, Zenon

\* A call reports false, or goes back to the compare-exchange.
LEMMA RefusedSim ==
  ASSUME IndInv, NEW p \in Producers, Contended(p) \/ GiveUp(p)
  PROVE  Simulates
<1>1. UNCHANGED <<Active, Queues, hand>> /\ call' = call BY QueuesKept, Zenon DEF Contended, GiveUp
<1>2. ppc[p] \in {"cas", "full"} BY Zenon DEF Contended, GiveUp
<1>3. Status(p) = "calling" /\ Statuses[p] = "calling" BY <1>2 DEF Status, Statuses
<1>4. \/ ppc' = [ppc EXCEPT ![p] = "cas"]
      \/ ppc' = [ppc EXCEPT ![p] = "false"] /\ ~Spins(call[p])
  BY Zenon DEF Contended, GiveUp
<1>5. CASE ppc' = [ppc EXCEPT ![p] = "cas"]
  <2>1. ppc'[p] = "cas" BY <1>5 DEF IndInv, TypeOK, ProducerTypeOK
  <2>2. Status(p)' = Status(p) BY <2>1, <1>3 DEF Status
  <2> QED BY <2>2, <1>1, <1>5, HiddenStep, Zenon
<1>6. CASE ppc' = [ppc EXCEPT ![p] = "false"] /\ ~Spins(call[p])
  <2>1. ppc'[p] = "false" BY <1>6, Zenon DEF IndInv, TypeOK, ProducerTypeOK
  <2>2. Status(p)' = "refused" BY <2>1 DEF Status
  <2>3. Statuses' = [Statuses EXCEPT ![p] = "refused"] BY <2>2, <1>6, StatusStep, Zenon
  <2>4. Abstract!Refuse(p) BY <2>3, <1>1, <1>3, <1>6 DEF Abstract!Refuse, Queues, Statuses
  <2> QED BY <2>4 DEF Simulates, Abstract!Next
<1> QED BY <1>4, <1>5, <1>6

\* The call returns.
LEMMA ReturnSim == ASSUME IndInv, NEW p \in Producers, Return(p) PROVE Simulates
<1>1. UNCHANGED <<Active, Queues, hand>> BY QueuesKept, Zenon DEF Return
<1>2. /\ ppc[p] \in {"true", "false"} /\ ppc' = [ppc EXCEPT ![p] = "idle"] /\ ppc'[p] = "idle"
      /\ call' = [call EXCEPT ![p] = NoCall]
  BY Zenon DEF Return, IndInv, TypeOK, ProducerTypeOK
<1>3. Status(p)' = "idle" /\ Statuses[p] \in {"done", "refused"} BY <1>2 DEF Status, Statuses
<1>4. Statuses' = [Statuses EXCEPT ![p] = "idle"] BY <1>2, <1>3, StatusStep, Zenon
<1>5. Abstract!End(p) BY <1>1, <1>2, <1>3, <1>4, Zenon DEF Abstract!End, Queues, Statuses
<1> QED BY <1>5 DEF Simulates, Abstract!Next

\* Writing a slot is invisible: it lies behind tail, outside every queue.
LEMMA WriteSim == ASSUME IndInv, NEW p \in Producers, Write(p) PROVE Simulates
<1> DEFINE w == Wrap(tail + i[p])
<1>1. /\ ppc[p] = "write" /\ UNCHANGED <<active, tail, local_head, cvars, call>>
      /\ buf' = [buf EXCEPT ![w] = call[p].ents[i[p] + 1]]
  BY Zenon DEF Write
<1>2. i[p] \in Nat /\ N(p) \in Nat /\ i[p] < N(p)
  BY <1>1, ProducerFacts, Zenon DEF IndInv, ProducersOK, ProducerOK
<1>3. Active' = Active BY <1>1, Zenon DEF Active
<1>4. ASSUME NEW h \in Heads PROVE Pending(h)' = Pending(h)
  <2>1. CASE h \notin Active BY <2>1, <1>3, Zenon DEF Pending
  <2>2. CASE h \in Active
    <3>1. Base(h) \in Idx /\ Dist(Base(h), tail) = Lag(h) /\ Lag(h) \in 0 .. MASK BY <2>2, BaseFacts
    <3>2. Lag(h) + N(p) <= MASK /\ tail \in Idx /\ MASK \in Nat
      BY <1>1, <2>2, CallFits DEF IndInv, TypeOK, RingTypeOK, MASK
    <3>3. Dist(Base(h), tail) + i[p] + 1 <= MASK BY <3>1, <3>2, <1>2
    <3>4. ASSUME NEW k \in 1 .. Dist(Base(h), tail)
          PROVE  buf'[Wrap(Base(h) + k - 1)] = buf[Wrap(Base(h) + k - 1)]
      <4>1. Wrap(Base(h) + k - 1) # w BY <3>1, <3>2, <3>3, <1>2, SlotsApart, Zenon
      <4>2. buf \in [Idx -> Entry] BY Zenon DEF IndInv, TypeOK, RingTypeOK
      <4>3. Wrap(Base(h) + k - 1) \in Idx
        <5>1. Base(h) + k - 1 \in Int BY <3>1 DEF Idx, MASK
        <5> QED BY <5>1, WrapType
      <4> QED BY <4>1, <4>2, <4>3, <1>1, Zenon
    <3>5. Base(h)' = Base(h) BY <1>1, Zenon DEF Base
    <3> QED BY <3>4, <3>5, <1>1, <1>3, <2>2, Zenon DEF Pending
  <2> QED BY <2>1, <2>2
<1>5. Queues' = Queues BY <1>4 DEF Queues
<1>6. Status(p)' = Status(p) /\ \A q \in Producers : q # p => ppc'[q] = ppc[q]
  <2>1. ppc'[p] \in {"write", "publish"} /\ \A q \in Producers : q # p => ppc'[q] = ppc[q]
    BY <1>1, Zenon DEF Write, IndInv, TypeOK, ProducerTypeOK
  <2> QED BY <1>1, <2>1 DEF Status
<1>7. Statuses' = Statuses BY <1>6 DEF Statuses, Status
<1> QED BY <1>1, <1>3, <1>5, <1>7, Zenon DEF Simulates

\* The store of tail commits the call: every running head's queue grows by
\* exactly its entries.
LEMMA PublishSim == ASSUME IndInv, LandedOK, NEW p \in Producers, Publish(p) PROVE Simulates
<1> DEFINE n == N(p)
           ents == call[p].ents
<1>1. /\ ppc[p] = "publish" /\ UNCHANGED <<active, local_head, buf, cvars, call>>
      /\ tail' = Wrap(tail + n) /\ ppc' = [ppc EXCEPT ![p] = "unlock"]
  BY Zenon DEF Publish
<1>2. n \in Nat /\ ents \in Seq(Entry) /\ Len(ents) = n BY ProducerFacts, Zenon DEF N
<1>3. Active' = Active BY <1>1 DEF Active
<1>4. \A k \in 0 .. n - 1 : buf[Wrap(tail + k)] = ents[k + 1] BY <1>1, Zenon DEF LandedOK, Written
<1>5. ASSUME NEW h \in Active
      PROVE  Pending(h)' = Pending(h) \o ents /\ Len(Pending(h)) + n <= MASK
  <2> DEFINE L == Lag(h)
             b == Base(h)
  <2>1. b \in Idx /\ Dist(b, tail) = L /\ L \in Nat /\ tail \in Idx /\ L + n <= MASK
    BY <1>1, BaseFacts, CallFits, HeadFacts, Zenon DEF Indices, Numbers
  <2>2. Base(h)' = b BY <1>1, Zenon DEF Base
  <2> HIDE DEF L, b, n
  <2>3. Dist(b, tail') = L + n BY <1>1, <1>2, <2>1, DistTail, Zenon
  <2>4. Pending(h)' = [k \in 1 .. L + n |-> buf[Wrap(b + k - 1)]] BY <1>1, <1>3, <2>2, <2>3, Zenon DEF Pending
  <2>5. /\ Pending(h) \in Seq(Entry) /\ Len(Pending(h)) = L
        /\ \A k \in 1 .. L : Pending(h)[k] = buf[Wrap(b + k - 1)]
    BY PendingFacts, Zenon DEF L, b
  <2> DEFINE S == Pending(h) \o ents
  <2>6. /\ S \in Seq(Entry) /\ Len(S) = L + n
        /\ \A k \in 1 .. L + n : S[k] = IF k <= L THEN Pending(h)[k] ELSE ents[k - L]
    <3>1. /\ S \in Seq(Entry) /\ Len(S) = Len(Pending(h)) + Len(ents)
          /\ \A k \in 1 .. Len(Pending(h)) + Len(ents) :
               S[k] = IF k <= Len(Pending(h)) THEN Pending(h)[k] ELSE ents[k - Len(Pending(h))]
      BY <1>2, <2>5, ConcatFacts, Zenon
    <3> HIDE DEF S
    <3> QED BY <3>1, <2>5, <1>2, Zenon
  <2>7. ASSUME NEW k \in 1 .. L + n PROVE S[k] = buf[Wrap(b + k - 1)]
    <3>1. CASE k <= L BY <3>1, <2>1, <2>5, <2>6
    <3>2. CASE k > L
      <4> DEFINE j == k - L - 1
      <4>1. j \in 0 .. n - 1 /\ j \in Nat /\ L + j <= MASK /\ k - L = j + 1 /\ b + k - 1 = b + (L + j)
        BY <3>2, <2>1, <1>2 DEF Idx, MASK
      <4> HIDE DEF j
      <4>2. Wrap(b + (L + j)) = Wrap(tail + j) BY <4>1, <2>1, SlotsMeet, Zenon
      <4>3. S[k] = ents[j + 1] BY <3>2, <2>6, <2>1, <4>1
      <4>4. buf[Wrap(tail + j)] = ents[j + 1] BY <4>1, <1>4, Zenon
      <4> QED BY <4>1, <4>2, <4>3, <4>4, Zenon
    <3>3. k <= L \/ k > L BY <2>1, <1>2
    <3> QED BY <3>1, <3>2, <3>3, Zenon DEF S
  <2> HIDE DEF S
  <2>8. S = [k \in 1 .. L + n |-> buf[Wrap(b + k - 1)]] BY <2>1, <1>2, <2>6, <2>7
  <2>9. Pending(h)' = S BY <2>4, <2>8
  <2> QED BY <2>9, <2>1, <2>5, Zenon DEF S
<1>6. ASSUME NEW h \in Heads \ Active PROVE Pending(h)' = Pending(h) BY <1>6, <1>3, Zenon DEF Pending
<1>7. Queues' = [h \in Heads |-> IF h \in Active THEN Queues[h] \o ents ELSE Queues[h]]
  BY <1>5, <1>6, Zenon DEF Queues
<1>8. ppc'[p] = "unlock" BY <1>1, Zenon DEF IndInv, TypeOK, ProducerTypeOK
<1>9. Status(p)' = "done" /\ Statuses[p] = "calling" BY <1>1, <1>8 DEF Status, Statuses
<1>10. Statuses' = [Statuses EXCEPT ![p] = "done"] BY <1>1, <1>9, StatusStep, Zenon
<1>11. \A h \in Active : Len(Queues[h]) + Len(ents) <= DEPTH - 1
  BY <1>2, <1>5, ActiveHeads, Zenon DEF Queues, MASK
<1> HIDE DEF n
<1>12. Abstract!Commit(p)
  BY <1>1, <1>3, <1>7, <1>9, <1>10, <1>11, Zenon DEF Abstract!Commit, Queues, Statuses
<1> QED BY <1>12, Zenon DEF Simulates, Abstract!Next

\* is_empty, and a step of nothing, leave queues and calls alone.
LEMMA LookSim ==
  ASSUME UNCHANGED <<ring, pvars, cvars>>
  PROVE  Simulates
<1>1. UNCHANGED <<Active, Queues, hand>> BY QueuesKept, Zenon
<1>2. Statuses' = Statuses BY DEF Statuses, Status
<1> QED BY <1>1, <1>2, Zenon DEF Simulates

\* reset drops what is queued and nobody has in hand.
LEMMA ResetSim == ASSUME IndInv, SpareOK, Reset PROVE Simulates
<1>1. /\ \A h \in Heads : cpc[h] = "stopped"
      /\ \A p \in Producers : ppc[p] = "idle"
      /\ local_head' = [h \in Heads |-> tail]
      /\ UNCHANGED <<active, tail, buf, pvars, cvars>>
  BY Zenon DEF Reset
<1>2. Active' = Active BY <1>1 DEF Active
<1>3. \A h \in Heads : hand[h] = <<>>
  <2>1. \A h \in Active : cpc[h] = "stopped" => hand[h] = <<>> BY Zenon DEF IndInv, HeadsOK, HandOK
  <2> QED BY <1>1, <2>1, Zenon DEF SpareOK
<1>4. ASSUME NEW h \in Heads PROVE Pending(h)' = <<>>
  <2>1. CASE h \notin Active BY <2>1, <1>2 DEF Pending
  <2>2. CASE h \in Active
    <3>1. Base(h)' = tail BY <1>1, Zenon DEF Base
    <3>2. tail \in Idx BY Zenon DEF IndInv, TypeOK, RingTypeOK
    <3>3. Dist(tail, tail) = 0 BY <3>2, DistType
    <3>4. Pending(h)' = [k \in 1 .. 0 |-> buf'[Wrap(Base(h)' + k - 1)]]
      BY <3>1, <3>3, <2>2, <1>1, <1>2, Zenon DEF Pending
    <3> QED BY <3>4
  <2> QED BY <2>1, <2>2
<1>5. Queues' = [h \in Heads |-> <<>>] BY <1>4 DEF Queues
<1>6. Statuses' = Statuses BY <1>1 DEF Statuses, Status
<1>7. \A p \in Producers : Statuses[p] = "idle" BY <1>1 DEF Statuses, Status
<1>8. Abstract!Drop BY <1>1, <1>2, <1>3, <1>5, <1>6, <1>7, Zenon DEF Abstract!Drop, Queues, Statuses
<1> QED BY <1>8 DEF Simulates, Abstract!Next

\* Every step of the ring is one of the queue.
LEMMA StepSim == ASSUME RefInv, [Next]_vars, IndInv' PROVE Simulates
<1>1. IndInv /\ LandedOK /\ SpareOK BY DEF RefInv
<1>2. ASSUME NEW p \in Producers, Producer(p) PROVE Simulates
  BY <1>1, <1>2, CallSim, HolderSim, RefusedSim, WriteSim, PublishSim, ReturnSim, Zenon DEF Producer
<1>3. ASSUME NEW h \in Heads, Consumer(h) \/ Start(h) \/ Exit(h) PROVE Simulates
  BY <1>1, <1>3, PeekSim, ProcessSim, DrainPayloadSim, DrainDoneSim, ConsumeSim, RestSim, Zenon DEF Consumer
<1>4. ASSUME NEW o \in Observers, Observer(o) PROVE Simulates
  BY <1>4, LookSim, Zenon DEF Observer, IsEmpty, LoadHead, Answered
<1>5. CASE Reset BY <1>1, <1>5, ResetSim
<1>6. CASE UNCHANGED vars BY <1>6, LookSim, Zenon DEF vars
<1> QED BY <1>2, <1>3, <1>4, <1>5, <1>6 DEF Next, Step

\* The new ring is the empty queue.
LEMMA AbstractInit == ASSUME Init PROVE Abstract!Init
<1>4. Active \in {0 .. n : n \in Heads}
  <2>1. active \in 1 .. HEADS BY Zenon DEF Init
  <2>2. active - 1 \in Heads BY <2>1 DEF Heads
  <2> QED BY <2>2 DEF Active
<1>5. Queues = [h \in Heads |-> <<>>]
  <2>1. ASSUME NEW h \in Heads PROVE Pending(h) = <<>>
    <3>1. tail = 0 /\ Base(h) = 0 /\ 0 \in Idx BY DEF Init, Base, Idx, MASK
    <3>2. Dist(Base(h), tail) = 0 BY <3>1, DistType
    <3>3. Pending(h) = <<>> \/ Pending(h) = [k \in 1 .. 0 |-> buf[Wrap(Base(h) + k - 1)]]
      BY <3>2, Zenon DEF Pending
    <3> QED BY <3>3
  <2> QED BY <2>1 DEF Queues
<1>6. Statuses = [p \in Producers |-> "idle"] BY DEF Init, Statuses, Status
<1>7. Abstract!Init BY <1>4, <1>5, <1>6, Zenon DEF Abstract!Init, Init, Queues, Statuses
<1> QED BY <1>7

\* The ring implements the broadcast queue, for every depth, every set of
\* producers and heads, and every interleaving: a call that reports true landed
\* whole and once for every running head, one that reports false left nothing.
THEOREM RingImplementsQueue == Spec => ImplementsQueue
<1>1. Init => Abstract!Init BY AbstractInit
<1>2. RefInv /\ IndInv' /\ [Next]_vars => [Abstract!Next]_(Abstract!vars)
  <2> SUFFICES ASSUME RefInv, IndInv', [Next]_vars PROVE [Abstract!Next]_(Abstract!vars) OBVIOUS
  <2>1. Simulates BY StepSim
  <2> QED BY <2>1, Zenon DEF Simulates, Abstract!vars, Queues, Statuses
<1> QED BY <1>1, <1>2, Invariance, RefInvariance, PTL DEF Spec, ImplementsQueue, Abstract!Spec

-----------------------------------------------------------------------------
(* Batches *)

\* Queues stay whole, and hands stay their fronts.
LEMMA QueuesStep ==
  ASSUME IndInv, QueuesOK, Simulates, IndInv'
  PROVE  QueuesOK'
<1>1. Active \subseteq Heads BY ActiveHeads
<1>2. ASSUME NEW h \in Active
      PROVE  Pending(h) = Queues[h] /\ Pending(h) \in Seq(Entry) /\ Taken(h) /\ Whole(Pending(h))
  BY <1>1, <1>2, PendingFacts, Zenon DEF Queues, QueuesOK
<1>3. Active' = Active
  BY Zenon DEF Simulates, Abstract!Next, Abstract!Begin, Abstract!Commit, Abstract!Refuse, Abstract!End,
     Abstract!Take, Abstract!Retire, Abstract!Drop
<1>4. \A h \in Heads : hand[h] \in Seq(Entry) BY Zenon DEF IndInv, TypeOK, ConsumerTypeOK
<1>5. hand \in [Heads -> Seq(Entry)] BY Zenon DEF IndInv, TypeOK, ConsumerTypeOK
<1>6. \A h \in Heads : Pending(h)' = Queues'[h] BY DEF Queues
<1>7. ASSUME NEW h \in Active, Queues'[h] = Queues[h], hand'[h] = hand[h]
      PROVE  (Taken(h) /\ Whole(Pending(h)))'
  <2>1. Pending(h)' = Pending(h) BY <1>1, <1>2, <1>6, <1>7, Zenon
  <2> QED BY <2>1, <1>2, <1>7 DEF Taken, Whole
<1>8. CASE UNCHANGED <<Queues, hand>> BY <1>3, <1>7, <1>8, Zenon DEF QueuesOK
<1>9. ASSUME NEW p \in Producers, Abstract!Commit(p) PROVE QueuesOK'
  <2> DEFINE ents == call[p].ents
  <2>1. /\ Queues' = [h \in Heads |-> IF h \in Active THEN Queues[h] \o ents ELSE Queues[h]]
        /\ hand' = hand
    BY <1>9, Zenon DEF Abstract!Commit, Queues
  <2>2. ents \in Seq(Entry) /\ Whole(ents)
    <3>1. call[p] \in Calls \cup {NoCall} BY Zenon DEF IndInv, TypeOK, ProducerTypeOK
    <3> QED BY <3>1, WholeCall, ProducerFacts, Zenon
  <2> HIDE DEF ents
  <2>3. ASSUME NEW h \in Active PROVE (Taken(h) /\ Whole(Pending(h)))'
    <3>1. Pending(h)' = Pending(h) \o ents BY <1>1, <1>2, <1>6, <2>1, Zenon
    <3>2. Whole(Pending(h) \o ents) BY <1>2, <2>2, WholeConcat, Zenon
    <3>3. Whole(Pending(h))' BY <3>1, <3>2, Zenon DEF Whole
    <3> DEFINE u == Pending(h) \o ents
    <3>4. /\ Len(u) = Len(Pending(h)) + Len(ents) /\ Len(Pending(h)) \in Nat /\ Len(ents) \in Nat
          /\ \A k \in 1 .. Len(Pending(h)) + Len(ents) : u[k] = IF k <= Len(Pending(h)) THEN Pending(h)[k]
                                                                 ELSE ents[k - Len(Pending(h))]
      BY <1>2, <2>2, ConcatFacts
    <3>5. /\ Len(hand[h]) <= Len(Pending(h)) /\ Len(hand[h]) \in Nat
          /\ \A k \in 1 .. Len(hand[h]) : hand[h][k] = Pending(h)[k]
      BY <1>1, <1>2, <1>4 DEF Taken
    <3> HIDE DEF u
    <3>6. Len(hand[h]) <= Len(u) /\ \A k \in 1 .. Len(hand[h]) : hand[h][k] = u[k] BY <3>4, <3>5
    <3>7. Taken(h)' BY <3>1, <3>6, <2>1, Zenon DEF Taken, u
    <3> QED BY <3>3, <3>7
  <2> QED BY <2>3, <1>3, Zenon DEF QueuesOK
<1>10. ASSUME NEW g \in Heads, Abstract!Take(g) PROVE QueuesOK'
  <2> DEFINE n == Len(hand[g])
  <2>1. /\ g \in Active /\ n < Len(Queues[g]) /\ Queues' = Queues
        /\ hand' = [hand EXCEPT ![g] = Append(hand[g], Queues[g][n + 1])]
    BY <1>10, Zenon DEF Abstract!Take, Queues
  <2>2. ASSUME NEW h \in Active, h # g PROVE (Taken(h) /\ Whole(Pending(h)))'
    BY <1>1, <1>5, <1>7, <2>1, <2>2, Zenon
  <2>3. (Taken(g) /\ Whole(Pending(g)))'
    <3> DEFINE a == Append(hand[g], Queues[g][n + 1])
    <3>1. Pending(g)' = Pending(g) /\ hand'[g] = a BY <1>2, <1>5, <1>6, <2>1, Zenon
    <3>2. Len(a) = n + 1 /\ n \in Nat /\ a[n + 1] = Queues[g][n + 1] /\ \A k \in 1 .. n : a[k] = hand[g][k]
      BY <1>4
    <3>3. Pending(g) = Queues[g] /\ Taken(g) /\ Whole(Pending(g)) /\ Len(Pending(g)) \in Nat BY <1>2, <2>1
    <3> HIDE DEF a, n
    <3>4. Len(a) <= Len(Pending(g)) /\ \A k \in 1 .. Len(a) : a[k] = Pending(g)[k]
      BY <2>1, <3>2, <3>3 DEF Taken, n
    <3> QED BY <3>1, <3>3, <3>4, Zenon DEF Taken, Whole
  <2> QED BY <2>2, <2>3, <1>3, Zenon DEF QueuesOK
<1>11. ASSUME NEW g \in Heads, Abstract!Retire(g) PROVE QueuesOK'
  <2>1. /\ g \in Active /\ hand' = [hand EXCEPT ![g] = <<>>]
        /\ Queues' = [Queues EXCEPT ![g] = SubSeq(Queues[g], Len(hand[g]) + 1, Len(Queues[g]))]
    BY <1>11, Zenon DEF Abstract!Retire, Queues
  <2>2. Queues = [h \in Heads |-> Queues[h]] BY DEF Queues
  <2>3. ASSUME NEW h \in Active, h # g PROVE (Taken(h) /\ Whole(Pending(h)))'
    <3>1. Queues'[h] = Queues[h] /\ hand'[h] = hand[h] BY <1>1, <1>5, <2>1, <2>2, <2>3, Zenon
    <3> QED BY <3>1, <1>7, Zenon
  <2>4. (Taken(g) /\ Whole(Pending(g)))'
    <3> DEFINE r == SubSeq(Pending(g), Len(hand[g]) + 1, Len(Pending(g)))
    <3>1. Pending(g)' = r /\ hand'[g] = <<>> BY <1>2, <1>5, <1>6, <2>1, <2>2, Zenon
    <3>2. Len(hand[g]) \in Nat /\ Len(hand[g]) <= Len(Pending(g)) BY <1>2, <1>4, <2>1 DEF Taken
    <3>3. Whole(r) BY <1>2, <2>1, <3>2, WholeRest, Zenon
    <3>4. Whole(Pending(g))' BY <3>1, <3>3, Zenon DEF Whole
    <3>5. Len(Pending(g)') \in Nat
      <4>1. Pending(g) \in Seq(Entry) BY <1>2, <2>1, Zenon
      <4> QED BY <4>1, <3>1, <3>2
    <3>6. Taken(g)' BY <3>1, <3>5 DEF Taken
    <3> QED BY <3>4, <3>6, Zenon
  <2> QED BY <2>3, <2>4, <1>3 DEF QueuesOK
<1>12. ASSUME Abstract!Drop PROVE QueuesOK'
  <2>1. Queues' = [h \in Heads |-> <<>>] /\ hand' = hand /\ \A h \in Heads : hand[h] = <<>>
    BY <1>12, Zenon DEF Abstract!Drop, Queues
  <2>2. \A h \in Active : Pending(h)' = <<>> /\ hand'[h] = <<>> BY <1>1, <1>6, <2>1, Zenon
  <2> QED BY <2>2, <1>3 DEF QueuesOK, Taken, Whole
<1>13. ASSUME NEW p \in Producers, Abstract!Begin(p) \/ Abstract!Refuse(p) \/ Abstract!End(p)
       PROVE  UNCHANGED <<Queues, hand>>
  BY <1>13, Zenon DEF Abstract!Begin, Abstract!Refuse, Abstract!End, Queues
<1> QED BY <1>8, <1>9, <1>10, <1>11, <1>12, <1>13, Zenon DEF Simulates, Abstract!Next

\* A whole queue whose front is in hand makes a whole batch of the hand.
LEMMA IntactNow == ASSUME IndInv, QueuesOK, DrainsOK PROVE BatchIntact
<1> SUFFICES ASSUME NEW h \in Active
             PROVE  /\ cpc[h] = "consume" /\ Head(hand[h]).addr = "token" =>
                         /\ Len(hand[h]) = 1 + Head(hand[h]).val
                         /\ \A k \in 2 .. Len(hand[h]) : hand[h][k].addr = "payload"
                    /\ cpc[h] = "drain" /\ Len(hand[h]) <= Head(hand[h]).val =>
                         Wrap(local_head[h] + Len(hand[h])) # tail
  BY Zenon DEF BatchIntact
<1> DEFINE v == Head(hand[h]).val
           n == Len(hand[h])
<1>1. h \in Heads /\ DrainOK(h) /\ Taken(h) /\ Whole(Pending(h)) BY ActiveHeads, Zenon DEF DrainsOK, QueuesOK
<1>2. /\ hand[h] \in Seq(Entry) /\ n \in Nat /\ Indices(h) /\ Numbers(h)
      /\ (cpc[h] \in {"consume", "drain"} => n >= 1)
  <2>1. hand[h] \in Seq(Entry) /\ n \in Nat /\ Indices(h) /\ Numbers(h) /\ HandOK(h)
    BY <1>1, HeadFacts, Zenon DEF IndInv, TypeOK, ConsumerTypeOK, HeadsOK, Numbers
  <2> QED BY <2>1 DEF HandOK
<1>3. Pending(h) \in Seq(Entry) /\ Len(Pending(h)) = Lag(h) /\ Lag(h) \in Nat BY <1>2, PendingFacts, Zenon DEF Numbers
<1>4. ASSUME n >= 1, Head(hand[h]).addr = "token"
      PROVE  /\ v \in Nat /\ 1 + v <= Lag(h)
             /\ \A k \in 2 .. 1 + v : Pending(h)[k].addr = "payload"
  <2>1. Head(hand[h]) = hand[h][1] /\ hand[h][1] \in Entry /\ 1 \in 1 .. n BY <1>2, <1>4
  <2>2. hand[h][1] = Pending(h)[1] /\ 1 \in 1 .. Len(Pending(h)) BY <2>1, <1>1, <1>2, <1>3 DEF Taken
  <2>3. v \in Nat BY <2>1, <1>4, TokenValue, Zenon
  <2>4. /\ 1 + Pending(h)[1].val <= Len(Pending(h))
        /\ \A k \in 1 + 1 .. 1 + Pending(h)[1].val : Pending(h)[k].addr = "payload"
    BY <2>1, <2>2, <1>1, <1>4, Zenon DEF Whole
  <2> QED BY <2>1, <2>2, <2>3, <2>4, <1>3
<1>5. ASSUME cpc[h] = "consume", Head(hand[h]).addr = "token"
      PROVE  n = 1 + v /\ \A k \in 2 .. n : hand[h][k].addr = "payload"
  <2>1. n = 1 + v BY <1>1, <1>5, Zenon DEF DrainOK
  <2>2. v \in Nat /\ \A k \in 2 .. 1 + v : Pending(h)[k].addr = "payload" BY <1>2, <1>4, <1>5, Zenon
  <2>3. \A k \in 1 .. n : hand[h][k] = Pending(h)[k] BY <1>1, Zenon DEF Taken
  <2> HIDE DEF n, v
  <2>4. \A k \in 2 .. n : k \in 1 .. n /\ k \in 2 .. 1 + v BY <2>1, <2>2
  <2> QED BY <2>1, <2>2, <2>3, <2>4, Zenon
<1>6. ASSUME cpc[h] = "drain", n <= v PROVE Wrap(local_head[h] + n) # tail
  <2>1. Head(hand[h]).addr = "token" BY <1>1, <1>6, Zenon DEF DrainOK
  <2>2. v \in Nat /\ 1 + v <= Lag(h) BY <2>1, <1>2, <1>4, <1>6, Zenon
  <2>3. Lag(h) = Dist(local_head[h], tail) BY <1>2, <1>6 DEF Lag, Numbers
  <2>4. n \in 0 .. MASK /\ n # Dist(local_head[h], tail)
    <3>1. Dist(local_head[h], tail) \in 0 .. MASK /\ MASK \in Nat BY <1>2, Zenon DEF Numbers
    <3> QED BY <3>1, <2>2, <2>3, <1>2, <1>6
  <2>5. Dist(local_head[h], Wrap(local_head[h] + n)) = n BY <2>4, <1>2, DistOf, Zenon DEF Indices
  <2> QED BY <2>4, <2>5, Zenon
<1> QED BY <1>5, <1>6, Zenon

\* A batch reaches its consumer whole, and no drain waits for tail: whatever
\* the depth, the number of producers that push beside it and the pace of the
\* other heads.
THEOREM BatchesStayWhole == Spec => []BatchIntact
<1> DEFINE Inv == QueuesOK /\ DrainsOK
<1>1. Init => Inv
  <2> SUFFICES ASSUME Init PROVE Inv OBVIOUS
  <2>1. Active \subseteq Heads /\ Queues = [h \in Heads |-> <<>>]
    BY RefInit, AbstractInit, ActiveHeads, Zenon DEF RefInv, Abstract!Init, Queues
  <2>2. \A h \in Active : Pending(h) = <<>> /\ hand[h] = <<>> /\ cpc[h] = "stopped"
    BY <2>1, Zenon DEF Queues, Init
  <2> QED BY <2>2 DEF QueuesOK, DrainsOK, DrainOK, Taken, Whole
<1>2. Inv /\ RefInv /\ IndInv' /\ [Next]_vars => Inv'
  <2> SUFFICES ASSUME Inv, RefInv, IndInv', [Next]_vars PROVE Inv' BY Zenon
  <2>1. IndInv /\ Simulates BY StepSim, Zenon DEF RefInv
  <2>2. QueuesOK' BY <2>1, QueuesStep, Zenon
  <2>3. Active' = Active
    BY <2>1, Zenon DEF Simulates, Abstract!Next, Abstract!Begin, Abstract!Commit, Abstract!Refuse, Abstract!End,
       Abstract!Take, Abstract!Retire, Abstract!Drop
  <2>4. \A h \in Active : DrainOK(h)' BY <2>1, DrainStep
  <2> QED BY <2>2, <2>3, <2>4, Zenon DEF DrainsOK
<1>3. Inv /\ IndInv => BatchIntact BY IntactNow, Zenon
<1> QED BY <1>1, <1>2, <1>3, Invariance, RefInvariance, PTL DEF Spec
=============================================================================
