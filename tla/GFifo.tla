------------------------------- MODULE GFifo -------------------------------
(***************************************************************************)
(* The register-write ring the graphics boards share (src/src/gfifo.rs):   *)
(* several producers serialised by a spinlock, and HEADS consumers that    *)
(* each see every entry at their own pace.                                 *)
(*                                                                         *)
(* One action is one access to a location that another thread may write:   *)
(* the lock word, tail, one head, one slot.  What only the lock holder or  *)
(* only the owner of a head touches is folded into the neighbouring step.  *)
(***************************************************************************)
EXTENDS Integers, Sequences, FiniteSets

CONSTANTS DEPTH,         \* slots of the ring, a power of two in the code
          HEADS,         \* consumer heads the ring has
          PublishEvery,  \* consume publishes head at multiples of this (64)
          Producers,     \* threads that push: CPU, VDMA worker, HQ, stop()
          Observers,     \* threads that ask is_empty
          Regs,          \* register writes, as opaque values
          Kinds,         \* the calls this ring's producers make
          MaxSlice,      \* bound: entries of a try_push_slice
          MaxBatch       \* bound: payload entries of a push_batch

ASSUME DepthAssumption == DEPTH \in Nat /\ DEPTH >= 2
ASSUME HeadsAssumption == HEADS \in Nat \ {0}
ASSUME PublishAssumption == PublishEvery \in Nat \ {0}
\* try_push_slice and push_batch assert that what they push is below DEPTH.
ASSUME SizeAssumption == MaxSlice \in 0 .. DEPTH - 1 /\ MaxBatch \in 0 .. DEPTH - 2

MASK == DEPTH - 1
Idx  == 0 .. MASK
Heads == 0 .. HEADS - 1

\* x & MASK, for the sums and (wrapping) differences of indices
Wrap(x) == x % DEPTH

\* entries from index a up to index b: b.wrapping_sub(a) & MASK
Dist(a, b) == Wrap(b - a)

\* A register write, a batch token (its value is the payload count), and a
\* payload entry behind a token.
Reg(v)     == [addr |-> "reg", val |-> v]
Token(n)   == [addr |-> "token", val |-> n]
Payload(v) == [addr |-> "payload", val |-> v]

\* What the zeroed ring of `new` holds.
Blank == Reg(0)

Entry == [addr : {"reg", "payload"}, val : Regs \cup {0}] \cup [addr : {"token"}, val : Idx]

\* The calls a producer makes.  try_push_slice with no entries returns before
\* it touches the ring and is not a call here.
Slice(n, v) == [k \in 1 .. n |-> Reg(v)]
Batch(n, v) == [k \in 1 .. n + 1 |-> IF k = 1 THEN Token(n) ELSE Payload(v)]
NoCall == [kind |-> "publish_tail", ents |-> <<>>]
Singles == {[kind |-> k, ents |-> <<Reg(v)>>] : k \in {"try_push", "push"}, v \in Regs}
Pairs   == {[kind |-> "try_push2", ents |-> <<Reg(v), Reg(w)>>] : v, w \in Regs}
Slices  == {[kind |-> "try_push_slice", ents |-> Slice(n, v)] : n \in 1 .. MaxSlice, v \in Regs}
Batches == {[kind |-> "push_batch", ents |-> Batch(n, v)] : n \in 0 .. MaxBatch, v \in Regs}
AnyCall == {NoCall} \cup Singles \cup Pairs \cup Slices \cup Batches
Calls == {c \in AnyCall : c.kind \in Kinds}

\* These two spin where the others report false.
Spins(c) == c.kind \in {"push", "push_batch"}

VARIABLES
  lock, active, head, tail, shadow_head, shadow_tail, local_head, buf,
  ppc, call, i, slow,          \* producers: place, call, loop index, slowest head so far
  cpc, hand, dtail,            \* consumers: place, entries read and not yet retired, sampled tail
  opc, otail, oh, owed         \* observers: place, sampled tail, next head, entries owed

ring  == <<lock, active, head, tail, shadow_head, shadow_tail, local_head, buf>>
pvars == <<ppc, call, i, slow>>
cvars == <<cpc, hand, dtail>>
ovars == <<opc, otail, oh, owed>>
vars  == <<ring, pvars, cvars, ovars>>

Active == 0 .. active - 1

N(p) == Len(call[p].ents)

-----------------------------------------------------------------------------
Init ==
  /\ lock = FALSE
  /\ active \in 1 .. HEADS
  /\ head = [h \in Heads |-> 0]
  /\ tail = 0
  /\ shadow_head = 0
  /\ shadow_tail = [h \in Heads |-> 0]
  /\ local_head = [h \in Heads |-> 0]
  /\ buf = [x \in Idx |-> Blank]
  /\ ppc = [p \in Producers |-> "idle"]
  /\ call = [p \in Producers |-> NoCall]
  /\ i = [p \in Producers |-> 0]
  /\ slow = [p \in Producers |-> 0]
  /\ cpc = [h \in Heads |-> "stopped"]
  /\ hand = [h \in Heads |-> <<>>]
  /\ dtail = [h \in Heads |-> 0]
  /\ opc = [o \in Observers |-> "idle"]
  /\ otail = [o \in Observers |-> 0]
  /\ oh = [o \in Observers |-> 0]
  /\ owed = [o \in Observers |-> [h \in Heads |-> 0]]

-----------------------------------------------------------------------------
(* Producers *)

\* (mutant) the room test looks at the first slot only
FullFirstSlotOnly(c, t, hd) == Wrap(t + 1) = hd

\* The room test of each entry point, against the head the producer knows.
Full(c, t, hd) ==
  CASE c.kind \in {"try_push", "push"} -> Wrap(t + 1) = hd
    [] c.kind = "try_push2"            -> Wrap(t + 1) = hd \/ Wrap(t + 2) = hd
    [] c.kind = "try_push_slice"       -> Wrap(hd - t - 1) < Len(c.ents)
    [] c.kind = "push_batch"           -> MASK - Dist(hd, t) < Len(c.ents)
    [] OTHER                           -> FALSE

Call(p) ==
  /\ ppc[p] = "idle"
  /\ \E c \in Calls : call' = [call EXCEPT ![p] = c]
  /\ ppc' = [ppc EXCEPT ![p] = "cas"]
  /\ UNCHANGED <<ring, i, slow, cvars, ovars>>

\* The compare-exchange found the lock taken: false, unless the call spins.
Contended(p) ==
  /\ ppc[p] = "cas" /\ lock /\ ~Spins(call[p])
  /\ ppc' = [ppc EXCEPT ![p] = "false"]
  /\ UNCHANGED <<ring, call, i, slow, cvars, ovars>>

\* The compare-exchange took the lock.  tail and shadow_head belong to the
\* holder, so the first room test is part of the step; push_batch skips it.
Lock(p) ==
  /\ ppc[p] = "cas" /\ ~lock
  /\ lock' = TRUE
  /\ ppc' = [ppc EXCEPT ![p] =
               IF call[p].kind = "publish_tail" THEN "publish"
               ELSE IF call[p].kind = "push_batch" \/ Full(call[p], tail, shadow_head)
                    THEN "scan" ELSE "write"]
  /\ UNCHANGED <<active, head, tail, shadow_head, shadow_tail, local_head, buf,
                 call, i, slow, cvars, ovars>>

\* slowest_head: the heads are loaded one after the other, and the one furthest
\* behind tail wins.  The last load decides whether there is room.
\* (mutant: SlowerSwapped takes the head closest to tail)
SlowerSwapped(a, b) == IF Dist(a, tail) < Dist(b, tail) THEN a ELSE b
Slower(a, b) == IF Dist(a, tail) > Dist(b, tail) THEN a ELSE b

Scan(p) ==
  LET s == IF i[p] = 0 THEN head[0] ELSE Slower(head[i[p]], slow[p])
  IN  /\ ppc[p] = "scan"
      /\ IF i[p] + 1 < active
           THEN /\ i' = [i EXCEPT ![p] = @ + 1]
                /\ slow' = [slow EXCEPT ![p] = s]
                /\ UNCHANGED <<ppc, shadow_head>>
           ELSE /\ i' = [i EXCEPT ![p] = 0]
                /\ slow' = [slow EXCEPT ![p] = 0]
                /\ shadow_head' = s
                /\ ppc' = [ppc EXCEPT ![p] = IF Full(call[p], tail, s) THEN "full" ELSE "write"]
      /\ UNCHANGED <<lock, active, head, tail, shadow_tail, local_head, buf,
                     call, cvars, ovars>>

\* (mutant) a spinning call tries again without dropping the lock
GiveUpHolding(p) ==
  /\ ppc[p] = "full"
  /\ ppc' = [ppc EXCEPT ![p] = IF Spins(call[p]) THEN "cas" ELSE "false"]
  /\ lock' = Spins(call[p])
  /\ UNCHANGED <<active, head, tail, shadow_head, shadow_tail, local_head, buf,
                 call, i, slow, cvars, ovars>>

\* No room: drop the lock and report false, or try again.
GiveUp(p) ==
  /\ ppc[p] = "full"
  /\ lock' = FALSE
  /\ ppc' = [ppc EXCEPT ![p] = IF Spins(call[p]) THEN "cas" ELSE "false"]
  /\ UNCHANGED <<active, head, tail, shadow_head, shadow_tail, local_head, buf,
                 call, i, slow, cvars, ovars>>

\* One slot.
Write(p) ==
  /\ ppc[p] = "write"
  /\ buf' = [buf EXCEPT ![Wrap(tail + i[p])] = call[p].ents[i[p] + 1]]
  /\ IF i[p] + 1 = N(p)
       THEN i' = [i EXCEPT ![p] = 0] /\ ppc' = [ppc EXCEPT ![p] = "publish"]
       ELSE i' = [i EXCEPT ![p] = @ + 1] /\ ppc' = ppc
  /\ UNCHANGED <<lock, active, head, tail, shadow_head, shadow_tail, local_head,
                 call, slow, cvars, ovars>>

\* The one Release store of tail (publish_tail stores the value it loaded).
Publish(p) ==
  /\ ppc[p] = "publish"
  /\ tail' = Wrap(tail + N(p))
  /\ ppc' = [ppc EXCEPT ![p] = "unlock"]
  /\ UNCHANGED <<lock, active, head, shadow_head, shadow_tail, local_head, buf,
                 call, i, slow, cvars, ovars>>

Unlock(p) ==
  /\ ppc[p] = "unlock"
  /\ lock' = FALSE
  /\ ppc' = [ppc EXCEPT ![p] = "true"]
  /\ UNCHANGED <<active, head, tail, shadow_head, shadow_tail, local_head, buf,
                 call, i, slow, cvars, ovars>>

Return(p) ==
  /\ ppc[p] \in {"true", "false"}
  /\ ppc' = [ppc EXCEPT ![p] = "idle"]
  /\ call' = [call EXCEPT ![p] = NoCall]
  /\ UNCHANGED <<ring, i, slow, cvars, ovars>>

Producer(p) == \/ Call(p) \/ Contended(p) \/ Lock(p) \/ Scan(p) \/ GiveUp(p)
               \/ Write(p) \/ Publish(p) \/ Unlock(p) \/ Return(p)

-----------------------------------------------------------------------------
(* Consumers: the loop every user runs, peek - process - consume, or flush   *)
(* the head when there is nothing.                                           *)

\* (mutant) peek trusts its cached tail for ever
PeekStale(h) ==
  /\ cpc[h] = "peek" /\ local_head[h] = shadow_tail[h]
  /\ cpc' = [cpc EXCEPT ![h] = "none"]
  /\ UNCHANGED <<ring, hand, dtail, pvars, ovars>>

Peek(h) ==
  LET t == IF local_head[h] = shadow_tail[h] THEN tail ELSE shadow_tail[h]
  IN  /\ cpc[h] = "peek"
      /\ shadow_tail' = [shadow_tail EXCEPT ![h] = t]
      /\ IF local_head[h] = t
           THEN cpc' = [cpc EXCEPT ![h] = "none"] /\ hand' = hand
           ELSE /\ cpc' = [cpc EXCEPT ![h] = "have"]
                /\ hand' = [hand EXCEPT ![h] = <<buf[local_head[h]]>>]
      /\ UNCHANGED <<lock, active, head, tail, shadow_head, local_head, buf,
                     dtail, pvars, ovars>>

FlushHead(h) ==
  /\ cpc[h] = "none"
  /\ head' = [head EXCEPT ![h] = local_head[h]]
  /\ cpc' = [cpc EXCEPT ![h] = "peek"]
  /\ UNCHANGED <<lock, active, tail, shadow_head, shadow_tail, local_head, buf,
                 hand, dtail, pvars, ovars>>

\* The entry is processed; a token makes the consumer drain its payload.
Process(h) ==
  /\ cpc[h] = "have"
  /\ IF Head(hand[h]).addr = "token"
       THEN /\ cpc' = [cpc EXCEPT ![h] = "drain"]
            /\ dtail' = [dtail EXCEPT ![h] = tail]
       ELSE cpc' = [cpc EXCEPT ![h] = "consume"] /\ dtail' = dtail
  /\ UNCHANGED <<ring, hand, pvars, ovars>>

\* One payload entry of drain_payload_at: the slot after those in hand, once
\* tail is past it (until then the loop spins).
DrainPayload(h) ==
  LET x == Wrap(local_head[h] + Len(hand[h]))
      t == IF x = dtail[h] THEN tail ELSE dtail[h]
  IN  /\ cpc[h] = "drain" /\ Len(hand[h]) <= Head(hand[h]).val
      /\ x # t
      /\ dtail' = [dtail EXCEPT ![h] = t]
      /\ hand' = [hand EXCEPT ![h] = Append(@, buf[x])]
      /\ UNCHANGED <<ring, cpc, pvars, ovars>>

\* (mutant) the drain stops one entry short
DrainDoneShort(h) ==
  /\ cpc[h] = "drain" /\ Len(hand[h]) >= Head(hand[h]).val
  /\ shadow_tail' = [shadow_tail EXCEPT ![h] = dtail[h]]
  /\ local_head' = [local_head EXCEPT ![h] = Wrap(@ + Len(hand[h]) - 1)]
  /\ dtail' = [dtail EXCEPT ![h] = 0]
  /\ cpc' = [cpc EXCEPT ![h] = "consume"]
  /\ UNCHANGED <<lock, active, head, tail, shadow_head, buf, hand, pvars, ovars>>

\* The promised count is in hand: local_head is left on the last payload entry.
DrainDone(h) ==
  /\ cpc[h] = "drain" /\ Len(hand[h]) > Head(hand[h]).val
  /\ shadow_tail' = [shadow_tail EXCEPT ![h] = dtail[h]]
  /\ local_head' = [local_head EXCEPT ![h] = Wrap(@ + Len(hand[h]) - 1)]
  /\ dtail' = [dtail EXCEPT ![h] = 0]
  /\ cpc' = [cpc EXCEPT ![h] = "consume"]
  /\ UNCHANGED <<lock, active, head, tail, shadow_head, buf, hand, pvars, ovars>>

\* consume_at up to its load of tail: the entries in hand are done with.
Consume(h) ==
  LET next == Wrap(local_head[h] + 1)
  IN  /\ cpc[h] = "consume"
      /\ local_head' = [local_head EXCEPT ![h] = next]
      /\ hand' = [hand EXCEPT ![h] = <<>>]
      /\ cpc' = [cpc EXCEPT ![h] =
                   IF next % PublishEvery = 0 \/ next = tail THEN "store" ELSE "peek"]
      /\ owed' = [o \in Observers |-> [owed[o] EXCEPT ![h] =
                    IF @ > Len(hand[h]) THEN @ - Len(hand[h]) ELSE 0]]
      /\ UNCHANGED <<lock, active, head, tail, shadow_head, shadow_tail, buf,
                     dtail, pvars, opc, otail, oh>>

\* ... and its publication of head.
StoreHead(h) ==
  /\ cpc[h] = "store"
  /\ head' = [head EXCEPT ![h] = local_head[h]]
  /\ cpc' = [cpc EXCEPT ![h] = "peek"]
  /\ UNCHANGED <<lock, active, tail, shadow_head, shadow_tail, local_head, buf,
                 hand, dtail, pvars, ovars>>

\* The consumer thread leaves its loop (GR2's without a flush, the others' with).
Exit(h) ==
  /\ cpc[h] = "peek"
  /\ cpc' = [cpc EXCEPT ![h] = "stopped"]
  /\ head' \in {head, [head EXCEPT ![h] = local_head[h]]}
  /\ UNCHANGED <<lock, active, tail, shadow_head, shadow_tail, local_head, buf,
                 hand, dtail, pvars, ovars>>

Start(h) ==
  /\ h \in Active /\ cpc[h] = "stopped"
  /\ cpc' = [cpc EXCEPT ![h] = "peek"]
  /\ UNCHANGED <<ring, hand, dtail, pvars, ovars>>

Consumer(h) == \/ Peek(h) \/ FlushHead(h) \/ Process(h) \/ DrainPayload(h)
               \/ DrainDone(h) \/ Consume(h) \/ StoreHead(h)

-----------------------------------------------------------------------------
(* Observers *)

\* Entries head h has not finished with: while a drained batch waits for its
\* consume, local_head is already on the batch's last entry.
Lag(h) == Dist(local_head[h], tail)
          + (IF cpc[h] = "consume" THEN Len(hand[h]) - 1 ELSE 0)

\* is_empty loads tail, then the heads one by one, and stops at the first that
\* differs.  owed is a history variable: what each head had still to finish
\* when tail was loaded.
IsEmpty(o) ==
  /\ opc[o] = "idle"
  /\ opc' = [opc EXCEPT ![o] = "heads"]
  /\ otail' = [otail EXCEPT ![o] = tail]
  /\ oh' = [oh EXCEPT ![o] = 0]
  /\ owed' = [owed EXCEPT ![o] = [h \in Heads |-> IF h \in Active THEN Lag(h) ELSE 0]]
  /\ UNCHANGED <<ring, pvars, cvars>>

\* (mutant) the answer depends on the first head only
LoadHeadFirstOnly(o) ==
  /\ opc[o] = "heads"
  /\ opc' = [opc EXCEPT ![o] = IF head[0] # otail[o] THEN "false" ELSE "true"]
  /\ otail' = [otail EXCEPT ![o] = 0]
  /\ UNCHANGED <<ring, pvars, cvars, oh, owed>>

LoadHead(o) ==
  /\ opc[o] = "heads"
  /\ opc' = [opc EXCEPT ![o] = IF head[oh[o]] # otail[o] THEN "false"
                               ELSE IF oh[o] + 1 = active THEN "true" ELSE "heads"]
  /\ oh' = [oh EXCEPT ![o] = IF opc'[o] = "heads" THEN @ + 1 ELSE 0]
  /\ otail' = [otail EXCEPT ![o] = IF opc'[o] = "heads" THEN @ ELSE 0]
  /\ UNCHANGED <<ring, pvars, cvars, owed>>

Answered(o) ==
  /\ opc[o] \in {"true", "false"}
  /\ opc' = [opc EXCEPT ![o] = "idle"]
  /\ owed' = [owed EXCEPT ![o] = [h \in Heads |-> 0]]
  /\ UNCHANGED <<ring, pvars, cvars, otail, oh>>

Observer(o) == IsEmpty(o) \/ LoadHead(o) \/ Answered(o)

-----------------------------------------------------------------------------
\* (mutant) reset forgets the consumers' private index
ResetForgetsLocal ==
  /\ \A h \in Heads : cpc[h] = "stopped"
  /\ \A p \in Producers : ppc[p] = "idle"
  /\ \A o \in Observers : opc[o] = "idle"
  /\ head' = [h \in Heads |-> tail]
  /\ UNCHANGED <<lock, active, tail, shadow_head, shadow_tail, local_head, buf,
                 pvars, cvars, ovars>>

\* reset, with the contract its comment states: no consumer or producer runs.
Reset ==
  /\ \A h \in Heads : cpc[h] = "stopped"
  /\ \A p \in Producers : ppc[p] = "idle"
  /\ \A o \in Observers : opc[o] = "idle"
  /\ head' = [h \in Heads |-> tail]
  /\ local_head' = [h \in Heads |-> tail]
  /\ shadow_tail' = [h \in Heads |-> tail]
  /\ shadow_head' = tail
  /\ UNCHANGED <<lock, active, tail, buf, pvars, cvars, ovars>>

Step == \/ \E p \in Producers : Producer(p)
        \/ \E h \in Heads : Consumer(h) \/ Start(h)
        \/ \E o \in Observers : Observer(o)

Next == \/ Step
        \/ \E h \in Heads : Exit(h)
        \/ Reset

Spec == Init /\ [][Next]_vars

\* A thread in the middle of a call keeps running, and so does a consumer.
Fairness == /\ \A p \in Producers : WF_vars(Producer(p) /\ ppc[p] # "idle")
            /\ \A h \in Heads : WF_vars(Consumer(h)) /\ WF_vars(Start(h))

LiveSpec == Init /\ [][Step]_vars /\ Fairness

-----------------------------------------------------------------------------
(* Properties *)

RingTypeOK ==
  /\ lock \in BOOLEAN
  /\ active \in 1 .. HEADS
  /\ head \in [Heads -> Idx]
  /\ tail \in Idx
  /\ shadow_head \in Idx
  /\ shadow_tail \in [Heads -> Idx]
  /\ local_head \in [Heads -> Idx]
  /\ buf \in [Idx -> Entry]
ProducerTypeOK ==
  /\ ppc \in [Producers -> {"idle", "cas", "scan", "full", "write", "publish", "unlock", "true", "false"}]
  /\ call \in [Producers -> Calls \cup {NoCall}]
  /\ i \in [Producers -> Nat]
  /\ slow \in [Producers -> Idx]
ConsumerTypeOK ==
  /\ cpc \in [Heads -> {"stopped", "peek", "none", "have", "drain", "consume", "store"}]
  /\ hand \in [Heads -> Seq(Entry)]
  /\ dtail \in [Heads -> Idx]
ObserverTypeOK ==
  /\ opc \in [Observers -> {"idle", "heads", "true", "false"}]
  /\ otail \in [Observers -> Idx]
  /\ oh \in [Observers -> Heads]
  /\ owed \in [Observers -> [Heads -> Nat]]

\* Every variable has its type: indices stay below DEPTH, heads and loop
\* indices in range, and no slot holds anything but an entry somebody pushed.
TypeOK == RingTypeOK /\ ProducerTypeOK /\ ConsumerTypeOK /\ ObserverTypeOK

\* The slots a consumer may be reading: from local_head up to tail.
Live(h) == {Wrap(local_head[h] + k) : k \in 0 .. Dist(local_head[h], tail) - 1}

\* A slot a producer is writing is never one that a running head has still to
\* read, whatever head the producer cached (the SAFETY comments in try_push,
\* push_batch and peek_at).
NoSlotRace ==
  \A p \in Producers, h \in Active :
    ppc[p] = "write" => \A k \in i[p] .. N(p) - 1 : Wrap(tail + k) \notin Live(h)

\* Producers hold the lock one at a time (tail and shadow_head have one owner).
Holding(p) == ppc[p] \in {"scan", "full", "write", "publish", "unlock"}
MutualExclusion ==
  /\ \A p, q \in Producers : Holding(p) /\ Holding(q) => p = q
  /\ \A p \in Producers : Holding(p) => lock

\* An is_empty that answers true is authoritative: every entry published when
\* it loaded tail has been processed and retired by every running head
\* (is_empty's comment: "it over-reports busy, never under-reports").
EmptyIsAuthoritative ==
  \A o \in Observers : opc[o] = "true" => \A h \in Active : owed[o][h] = 0

\* A consumer at rest that has drained the ring has also published it, so
\* is_empty does not stay false for ever if the thread exits now (the stale
\* head described in consume_at).
DrainedIsPublished ==
  \A h \in Active : cpc[h] \in {"peek", "none", "stopped"} /\ local_head[h] = tail
                      => head[h] = tail

\* A batch reaches the consumer whole: exactly the promised number of payload
\* entries, all of them payload (the corruption drain_payload_at reports); and
\* once its token is seen all of it is: drain_payload_at never waits for tail.
BatchIntact ==
  \A h \in Active :
    /\ cpc[h] = "consume" /\ Head(hand[h]).addr = "token" =>
         /\ Len(hand[h]) = 1 + Head(hand[h]).val
         /\ \A k \in 2 .. Len(hand[h]) : hand[h][k].addr = "payload"
    /\ cpc[h] = "drain" /\ Len(hand[h]) <= Head(hand[h]).val =>
         Wrap(local_head[h] + Len(hand[h])) # tail

-----------------------------------------------------------------------------
(* The inductive invariant behind the safety properties: how far each index *)
(* may lie behind tail.                                                     *)

\* shadow_head is at or behind every published head, that at or behind what the
\* head's thread has finished with; its cached tail is not ahead of tail.
Ordered(h) ==
  /\ Lag(h) <= Dist(head[h], tail)
  /\ Dist(head[h], tail) <= Dist(shadow_head, tail)
  /\ Dist(local_head[h], shadow_tail[h]) <= Dist(local_head[h], tail)

HandOK(h) ==
  /\ cpc[h] = "have" => Len(hand[h]) = 1 /\ local_head[h] # shadow_tail[h]
  /\ cpc[h] = "consume" => Len(hand[h]) >= 1 /\ local_head[h] # shadow_tail[h]
  /\ cpc[h] = "drain" => /\ 1 <= Len(hand[h])
                         /\ Len(hand[h]) <= Dist(local_head[h], dtail[h])
                         /\ Dist(local_head[h], dtail[h]) <= Dist(local_head[h], tail)
  /\ cpc[h] \in {"stopped", "peek", "none", "store"} => hand[h] = <<>>

Room(p) == N(p) + Dist(shadow_head, tail) <= MASK

ProducerOK(p) ==
  /\ ppc[p] = "scan" => /\ i[p] \in Active /\ call[p].kind # "publish_tail"
                        /\ \A h \in 0 .. i[p] - 1 : Dist(head[h], tail) <= Dist(slow[p], tail)
  /\ ppc[p] = "write" => i[p] < N(p) /\ Room(p)
  /\ ppc[p] = "publish" => Room(p)
  /\ ppc[p] # "scan" /\ ppc[p] # "write" => i[p] = 0

ObserverOK(o) ==
  /\ opc[o] = "heads" => /\ oh[o] \in Active
                         /\ \A h \in 0 .. oh[o] - 1 : owed[o][h] = 0
                         /\ \A h \in Active : owed[o][h] > 0 =>
                              Dist(otail[o], tail) = Lag(h) - owed[o][h]
  /\ opc[o] = "true" => \A h \in Active : owed[o][h] = 0

HeadsOK == /\ \A h \in Heads \ Active : cpc[h] = "stopped"
           /\ \A h \in Active : Ordered(h) /\ HandOK(h)
ProducersOK == \A p \in Producers : ProducerOK(p)
ObserversOK == \A o \in Observers : ObserverOK(o)

\* The lock is held by exactly one producer, the indices are in order, and each
\* thread's private view agrees with them.
IndInv ==
  /\ TypeOK
  /\ MutualExclusion
  /\ HeadsOK
  /\ ProducersOK
  /\ ObserversOK
  /\ DrainedIsPublished

-----------------------------------------------------------------------------
\* A running consumer that stays behind tail goes on retiring entries: no
\* cached tail and no published head keeps it from one it has not reached.
EntriesDrain ==
  \A h \in Heads : <>[](h \in Active /\ local_head[h] # tail)
                    => []<><<local_head'[h] # local_head[h]>>_local_head

\* With one producer, a push that spins for room gets it (push, push_batch:
\* the consumer it waits for needs nothing the producer holds).
SpinningPushEnds ==
  \A p \in Producers : (ppc[p] = "cas" /\ Spins(call[p])) ~> (ppc[p] = "true")
=============================================================================
