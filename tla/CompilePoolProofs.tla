-------------------------- MODULE CompilePoolProofs -------------------------
(***************************************************************************)
(* Proofs about World and CompilePool, for any number of CPUs, of other    *)
(* threads and of workers: the machine belongs to one leader at a time,    *)
(* the barrier quiesces the workers, nothing is compiled from what a flush *)
(* threw away, and the page pool is cleared while the CPUs stand still.    *)
(*                                                                         *)
(* World first: WorldTypeOK and LeaderInv together are inductive.  A       *)
(* leader's facts about a CPU are disturbed by that CPU's steps, by the    *)
(* leader's own, and by another leader's; the last cannot happen.          *)
(*                                                                         *)
(* The pool's invariant has three parts.  The workers among themselves:    *)
(* BarrierInv, of which every other fact about them is a consequence.  The *)
(* CPUs among themselves: every step of the pool is a step of World, or    *)
(* clears run flags.  And what ties them: a worker that clears the pool    *)
(* has the machine to itself.                                              *)
(***************************************************************************)
EXTENDS CompilePool, FiniteSetTheorems, TLAPS

USE DEF Threads, Reasons, CpuPlaces, LeadPlaces

-----------------------------------------------------------------------------
(* World: who has the machine *)

\* A machine that starts with some of its CPUs on, and nobody leading.
LEMMA InitOK == ASSUME NEW on \in SUBSET Cpus, WorldInit(on) PROVE WInv
  <1>1. /\ active \in [Cpus -> BOOLEAN] /\ running \in [Cpus -> BOOLEAN]
        /\ \A c \in Cpus : active[c] <=> c \in on
    <2> DEFINE f == [c \in Cpus |-> c \in on]
    <2>4. \A c \in Cpus : (c \in on) \in BOOLEAN
      OBVIOUS
    <2>1. f \in [Cpus -> BOOLEAN]
      BY <2>4, Zenon
    <2>3. \A c \in Cpus : f[c] <=> c \in on
      BY Zenon
    <2>2. active = f /\ running = f
      BY DEF WorldInit
    <2> QED
      BY <2>1, <2>2, <2>3, Zenon
  <1>2. bit \in [Cpus -> BOOLEAN] /\ \A c \in Cpus : bit[c] <=> holds[c] # {}
    BY DEF WorldInit
  <1>3. pc \in [Threads -> {"top", "off", "out"}]
    BY DEF WorldInit
  <1>4. /\ holds \in [Cpus -> SUBSET Reasons] /\ parked \in [Cpus -> BOOLEAN]
        /\ leader = None /\ hook = None /\ stops \in 0 .. MaxStops
        /\ todo \in [Threads -> SUBSET Cpus]
    BY WorldBounds DEF WorldInit
  <1>5. WorldTypeOK
    BY <1>1, <1>2, <1>3, <1>4 DEF WorldTypeOK
  <1>6. \A c \in Cpus : ~parked[c] /\ (active[c] \/ pc[c] = "off")
    BY <1>1 DEF WorldInit
  <1> QED
    BY <1>3, <1>5, <1>6, Zenon DEF WInv, LeaderInv, AsksFor, HasSeen

\* Types, and the bit in the interrupt word, survive every step.
LEMMA TypeStep == ASSUME WorldTypeOK, WorldNext PROVE WorldTypeOK'
  <1> USE WorldAssumption, WorldBounds DEF WorldTypeOK, Goto, slot, run, mark_parked
  <1>1. ASSUME NEW c \in Cpus, Top(c) \/ Batch(c) \/ Doze(c) \/ WakeHeld(c) \/ WakeIrq(c) PROVE WorldTypeOK'
    BY <1>1 DEF Top, Batch, Doze, WakeHeld, WakeIrq
  <1>2. ASSUME NEW c \in Cpus, Park(c) PROVE WorldTypeOK'
    BY <1>2 DEF Park
  <1>3. ASSUME NEW c \in Cpus, Unpark(c) PROVE WorldTypeOK'
    BY <1>3 DEF Unpark
  <1>4. ASSUME NEW c \in Cpus, Exit(c) PROVE WorldTypeOK'
    BY <1>4 DEF Exit
  <1>5. ASSUME NEW c \in Cpus, Start(c) PROVE WorldTypeOK'
    BY <1>5 DEF Start
  <1>6. ASSUME NEW c \in Cpus, Halt(c) PROVE WorldTypeOK'
    BY <1>6 DEF Halt
  <1>7. ASSUME NEW c \in Cpus, Ask(c) PROVE WorldTypeOK'
    BY <1>7 DEF Ask
  <1>8. ASSUME NEW c \in Cpus, Remap(c) \/ Lock(c) PROVE WorldTypeOK'
    BY <1>8 DEF Remap, Lock
  <1>9. ASSUME NEW c \in Cpus, RemapAsk(c) PROVE WorldTypeOK'
    BY <1>9 DEF RemapAsk
  <1>10. ASSUME NEW c \in Cpus, Turn(c) PROVE WorldTypeOK'
    BY <1>10 DEF Turn
  <1>11. ASSUME NEW o \in Others, try_lead(o) PROVE WorldTypeOK'
    BY <1>11 DEF try_lead
  <1>12. ASSUME NEW t \in Threads, Held(t) \/ Wait(t) \/ Alone(t) \/ Unlock(t) \/ Done(t) PROVE WorldTypeOK'
    BY <1>12 DEF Held, Wait, Alone, Unlock, Done
  <1>13. ASSUME NEW c \in Cpus, NEW d \in Cpus, Disable(c, d) PROVE WorldTypeOK'
    BY <1>13 DEF Disable, hold
  <1>14. ASSUME NEW c \in Cpus, NEW d \in Cpus, Enable(c, d) PROVE WorldTypeOK'
    BY <1>14, Zenon DEF Enable, release
  <1>15. ASSUME NEW t \in Threads, Hold(t) PROVE WorldTypeOK'
    BY <1>15 DEF Hold, hold
  <1>16. ASSUME NEW t \in Threads, Drop(t) PROVE WorldTypeOK'
    <2> PICK c \in todo[t] : release(c, "world") /\ todo' = [todo EXCEPT ![t] = @ \ {c}]
      BY <1>16, Zenon DEF Drop
    <2>1. holds' \in [Cpus -> SUBSET Reasons] /\ bit' \in [Cpus -> BOOLEAN]
      BY DEF release
    <2>2. \A d \in Cpus : bit'[d] <=> holds'[d] # {}
      BY Zenon DEF release
    <2> QED
      BY <1>16, <2>1, <2>2, Zenon DEF Drop
  <1> QED
    BY <1>1, <1>2, <1>3, <1>4, <1>5, <1>6, <1>7, <1>8, <1>9, <1>10, <1>11, <1>12, <1>13, <1>14,
       <1>15, <1>16, Zenon DEF WorldNext, Runs, Leads

\* What a leader relies on survives every step, its own and everyone else's.
LEMMA LeaderStep == ASSUME WInv, WorldNext PROVE LeaderInv'
  <1> USE WorldAssumption, WorldBounds
      DEF WInv, WorldTypeOK, LeaderInv, AsksFor, HasSeen, Still, Goto, slot, run, mark_parked, is_parked
  <1>1. ASSUME NEW c \in Cpus, Top(c) PROVE LeaderInv'
    BY <1>1 DEF Top
  <1>2. ASSUME NEW c \in Cpus, Batch(c) \/ Doze(c) \/ WakeHeld(c) \/ WakeIrq(c) \/ Remap(c) PROVE LeaderInv'
    BY <1>2 DEF Batch, Doze, WakeHeld, WakeIrq, Remap
  <1>3. ASSUME NEW c \in Cpus, Park(c) PROVE LeaderInv'
    BY <1>3 DEF Park
  <1>4. ASSUME NEW c \in Cpus, Unpark(c) PROVE LeaderInv'
    BY <1>4 DEF Unpark
  <1>5. ASSUME NEW c \in Cpus, Exit(c) PROVE LeaderInv'
    BY <1>5 DEF Exit
  <1>6. ASSUME NEW c \in Cpus, Start(c) PROVE LeaderInv'
    BY <1>6 DEF Start
  <1>7. ASSUME NEW c \in Cpus, Halt(c) PROVE LeaderInv'
    BY <1>7, Zenon DEF Halt
  <1>8. ASSUME NEW c \in Cpus, Ask(c) PROVE LeaderInv'
    BY <1>8 DEF Ask
  <1>9. ASSUME NEW c \in Cpus, RemapAsk(c) PROVE LeaderInv'
    BY <1>9 DEF RemapAsk
  <1>10. ASSUME NEW c \in Cpus, Lock(c) PROVE LeaderInv'
    BY <1>10 DEF Lock
  <1>11. ASSUME NEW c \in Cpus, Turn(c) PROVE LeaderInv'
    BY <1>11 DEF Turn
  <1>12. ASSUME NEW o \in Others, try_lead(o) PROVE LeaderInv'
    BY <1>12 DEF try_lead
  <1>13. ASSUME NEW t \in Threads, Held(t) PROVE LeaderInv'
    BY <1>13, Zenon DEF Held
  <1>14. ASSUME NEW t \in Threads, Wait(t) PROVE LeaderInv'
    BY <1>14 DEF Wait
  <1>15. ASSUME NEW t \in Threads, Alone(t) PROVE LeaderInv'
    BY <1>15, Zenon DEF Alone
  <1>16. ASSUME NEW t \in Threads, Done(t) PROVE LeaderInv'
    BY <1>16, Zenon DEF Done
  <1>17. ASSUME NEW t \in Threads, Unlock(t) PROVE LeaderInv'
    BY <1>17, Zenon DEF Unlock
  <1>18. ASSUME NEW c \in Cpus, NEW d \in Cpus, Disable(c, d) PROVE LeaderInv'
    BY <1>18 DEF Disable, hold
  <1>19. ASSUME NEW c \in Cpus, NEW d \in Cpus, Enable(c, d) PROVE LeaderInv'
    BY <1>19 DEF Enable, release
  <1>20. ASSUME NEW t \in Threads, Hold(t) PROVE LeaderInv'
    BY <1>20 DEF Hold, hold
  <1>21. ASSUME NEW t \in Threads, Drop(t) PROVE LeaderInv'
    BY <1>21 DEF Drop, release
  <1> QED
    BY <1>1, <1>2, <1>3, <1>4, <1>5, <1>6, <1>7, <1>8, <1>9, <1>10, <1>11, <1>12, <1>13, <1>14,
       <1>15, <1>16, <1>17, <1>18, <1>19, <1>20, <1>21, Zenon DEF WorldNext, Runs, Leads

\* The invariant under stuttering.
LEMMA Unmoved == ASSUME WInv, UNCHANGED worldVars PROVE WInv'
  BY Zenon DEF WInv, WorldTypeOK, LeaderInv, AsksFor, HasSeen, worldVars, slot, run

\* A leader that has the machine to itself really has (World::stop_others,
\* try_lead): no other CPU is in a batch, asleep in one, or leading.
LEMMA AloneIsExclusive == ASSUME WInv PROVE Exclusive
  BY DEF WInv, LeaderInv, Exclusive, HasSeen, Still, Touching

\* For any number of CPUs and other threads: the types, and what a leader can
\* rely on at each step of hold_others, wait_parked and the drop.
THEOREM WorldSafe == WorldSpec => []WInv
  <1>1. WorldInit(Cpus) => WInv
    BY InitOK
  <1>2. WInv /\ [WorldNext]_worldVars => WInv'
    BY TypeStep, LeaderStep, Unmoved DEF WInv
  <1> QED
    BY <1>1, <1>2, PTL DEF WorldSpec

\* While a leader has the machine to itself no other CPU touches guest state,
\* and no other thread is on its way to lead.
THEOREM LeaderIsAlone == WorldSpec => []Exclusive
  <1> QED
    BY WorldSafe, AloneIsExclusive, PTL

\* For any number of CPUs: one that HEART disabled starts no batch at the head
\* of its run loop, whoever holds or releases it for other reasons.
THEOREM DisabledStays == WorldSpec => DisabledStaysStill
  <1> DEFINE Calm == \A c \in Cpus : "heart" \in holds[c] /\ pc[c] = "top" => pc'[c] # "run"
  <1>1. ASSUME WInv, WorldNext PROVE Calm
    <2> USE WorldAssumption DEF WInv, WorldTypeOK, Goto
    <2> SUFFICES ASSUME NEW d \in Cpus, "heart" \in holds[d], pc[d] = "top" PROVE pc'[d] # "run"
      OBVIOUS
    <2>1. ASSUME NEW c \in Cpus, Runs(c) PROVE pc'[d] # "run"
      BY <1>1, <2>1, Zenon DEF Runs, Top, Batch, Doze, WakeHeld, WakeIrq, Park, Unpark, Exit, Disable, Enable
    <2>2. ASSUME NEW c \in Cpus, Start(c) \/ Halt(c) \/ Ask(c) \/ Remap(c) \/ RemapAsk(c) \/ Lock(c) \/ Turn(c)
          PROVE pc'[d] # "run"
      BY <1>1, <2>2, Zenon DEF Start, Halt, Ask, Remap, RemapAsk, Lock, Turn
    <2>3. ASSUME NEW t \in Threads, try_lead(t) \/ Leads(t) \/ Done(t) PROVE pc'[d] # "run"
      BY <1>1, <2>3, Zenon DEF try_lead, Leads, Hold, Held, Wait, Alone, Drop, Unlock, Done
    <2> QED
      BY <1>1, <2>1, <2>2, <2>3, Zenon DEF WorldNext
  <1>2. WInv /\ [WorldNext]_worldVars => [Calm]_worldVars
    BY <1>1
  <1>3. WorldInit(Cpus) => WInv
    BY InitOK
  <1>4. WInv /\ [WorldNext]_worldVars => WInv'
    BY TypeStep, LeaderStep, Unmoved DEF WInv
  <1> QED
    BY <1>2, <1>3, <1>4, PTL DEF WorldSpec, DisabledStaysStill

-----------------------------------------------------------------------------
HIDE DEF Threads, Reasons, CpuPlaces, LeadPlaces

Only == CHOOSE c \in Cpus : TRUE

\* A worker between its flush and the restart of the CPUs.
HasWorld(w) == wpc[w] \in {"publish", "restart"} \/ (wpc[w] = "clear" /\ goal[w] = "flush")

RequestsInv ==
  /\ queue \in Seq({"current"})
  /\ \A w \in Workers : wpc[w] = "compile" => job[w] = "current"

TieInv ==
  /\ \A w \in Workers : HasWorld(w) /\ shared => pc[w] = "alone"
  /\ \A w \in Workers : wpc[w] = "publish" /\ ~shared => \A c \in Cpus : pc[c] = "off"
  /\ \A c \in Cpus : fpc[c] # "none" /\ shared => pc[c] = "alone"
  /\ \A c \in Cpus : (fpc[c] # "none" \/ pc[c] # "off") /\ ~shared => c = Only

PInv == WInv /\ PoolTypeOK /\ BarrierInv /\ RequestsInv /\ TieInv

-----------------------------------------------------------------------------
(* Counting *)

\* The parked workers can be counted.
LEMMA WaitingFinite ==
  /\ IsFiniteSet(Waiting) /\ Cardinality(Waiting) \in Nat
  /\ Cardinality(Workers) \in Nat \ {0}
  <1>1. Waiting \in SUBSET Workers
    BY DEF Waiting
  <1> QED
    BY <1>1, PoolAssumption, FS_Subset, FS_CardinalityType, FS_EmptySet

\* As many waiting as there are others: all the others wait.
LEMMA AllWait ==
  ASSUME NEW w \in Workers, w \notin Waiting, Cardinality(Waiting) >= Cardinality(Workers) - 1
  PROVE  Waiting = Workers \ {w}
  <1> DEFINE Rest == Workers \ {w}
  <1>1. IsFiniteSet(Rest) /\ Cardinality(Rest) = Cardinality(Workers) - 1
    BY PoolAssumption, FS_RemoveElement
  <1>2. Waiting \in SUBSET Rest
    BY DEF Waiting
  <1>3. Cardinality(Waiting) <= Cardinality(Rest)
    BY <1>1, <1>2, FS_Subset
  <1>4. Cardinality(Waiting) = Cardinality(Rest)
    BY <1>1, <1>3, WaitingFinite
  <1> QED
    BY <1>1, <1>2, <1>4, FS_Subset

\* A set of workers without one of them is smaller than the pool.
LEMMA FewerThanAll ==
  ASSUME NEW u \in Workers, NEW S \in SUBSET (Workers \ {u})
  PROVE  Cardinality(S) \in 0 .. Cardinality(Workers) - 1
  <1> DEFINE Rest == Workers \ {u}
  <1>1. IsFiniteSet(Rest) /\ Cardinality(Rest) = Cardinality(Workers) - 1
    BY PoolAssumption, FS_RemoveElement
  <1>2. Cardinality(S) <= Cardinality(Rest) /\ IsFiniteSet(S)
    BY <1>1, FS_Subset
  <1>3. Cardinality(S) \in Nat
    BY <1>2, FS_CardinalityType
  <1> QED
    BY <1>1, <1>2, <1>3, WaitingFinite

-----------------------------------------------------------------------------
(* The CPUs among themselves *)

\* Actions of a worker that leave the CPUs alone.
Inside(w) ==
  \/ Begin(w) \/ Loop(w) \/ Pop(w) \/ Idle(w) \/ Compile(w) \/ Elect(w) \/ Arrive(w) \/ Resume(w)
  \/ GiveUp(w) \/ Gathered(w) \/ Abandon(w) \/ Seal(w) \/ Clear(w) \/ GiveWay(w)
  \/ FlushFromWorker(w) \/ Publish(w)

\* Those actions leave the CPUs alone.
LEMMA InsideUnmoved == ASSUME NEW w \in Workers, Inside(w) PROVE UNCHANGED worldVars
  BY Zenon DEF Inside, Begin, Loop, Pop, Idle, Compile, Elect, Arrive, Resume, GiveUp, Gathered, Abandon,
         Abandoned, Seal, Clear, GiveWay, FlushFromWorker, Publish

\* There is a CPU to be the only one of a machine whose CPUs are not shared.
LEMMA OnlyIsCpu == Only \in Cpus
  BY WorldAssumption DEF Only

\* Every step of the pool is one of World's, leaves World's state alone, or
\* clears the flags of the CPUs' run loops.
LEMMA WorldStep == ASSUME WInv, Next PROVE WInv'
  <1>0. ASSUME WorldNext \/ UNCHANGED worldVars PROVE WInv'
    BY <1>0, TypeStep, LeaderStep, Unmoved DEF WInv
  <1>1. ASSUME NEW w \in Workers, Inside(w) PROVE WInv'
    BY <1>0, <1>1, InsideUnmoved
  <1>2. ASSUME NEW w \in Workers, Lead(w) PROVE WInv'
    BY <1>0, <1>2, PoolAssumption DEF Lead, WorldNext
  <1>3. ASSUME NEW w \in Workers, StopCpu(w) PROVE WInv'
    BY <1>3, Zenon DEF StopCpu, WInv, WorldTypeOK, LeaderInv, AsksFor, HasSeen, slot
  <1>4. ASSUME NEW w \in Workers, Restart(w) PROVE WInv'
    <2>1. Done(w) \/ Start(Only)
      BY <1>4 DEF Restart, Only
    <2> QED
      BY <1>0, <2>1, OnlyIsCpu, PoolAssumption DEF WorldNext, Threads
  <1>5. ASSUME NEW c \in Cpus, CpuStep(c) PROVE WInv'
    BY <1>0, <1>5 DEF CpuStep, WorldNext, Runs
  <1>6. ASSUME NEW c \in Cpus, FlushStep(c) PROVE WInv'
    BY <1>0, <1>6, Zenon DEF FlushStep, FlushFromCpu, NoFlush, Joined, UnlockJit, Return, WorldNext, Threads
  <1>7. ASSUME NEW c \in Cpus, Request(c) PROVE WInv'
    BY <1>0, <1>7, Zenon DEF Request
  <1>8. ASSUME NEW t \in Threads, LeadStep(t) PROVE WInv'
    BY <1>0, <1>8 DEF LeadStep, WorldNext
  <1> QED
    BY <1>1, <1>2, <1>3, <1>4, <1>5, <1>6, <1>7, <1>8, Zenon DEF Next, WorkerStep, Inside

-----------------------------------------------------------------------------
(* The workers among themselves *)

\* Requests are for pages that are still there.
LEMMA RequestsStep == ASSUME PoolTypeOK, BarrierInv, RequestsInv, Next PROVE RequestsInv'
  <1> USE DEF PoolTypeOK, RequestsInv, To, work, barrier, flush
  <1>1. ASSUME NEW w \in Workers, Pop(w) PROVE RequestsInv'
    BY <1>1 DEF Pop
  <1>2. ASSUME NEW w \in Workers, Compile(w) PROVE RequestsInv'
    BY <1>2 DEF Compile
  <1>3. ASSUME NEW w \in Workers, FlushFromWorker(w) PROVE RequestsInv'
    <2>1. \A v \in Workers : wpc[v] # "compile"
      BY <1>3, Zenon DEF FlushFromWorker, BarrierInv, Relying, Waiting
    <2> QED
      BY <1>3, <2>1 DEF FlushFromWorker, mega_flush
  <1>4. ASSUME NEW w \in Workers, NEW p, p # "compile", To(w, p), UNCHANGED <<queue, job>>
        PROVE  RequestsInv'
    BY <1>4, Zenon
  <1>9. ASSUME NEW w \in Workers,
               Begin(w) \/ Loop(w) \/ Idle(w) \/ Elect(w) \/ Arrive(w) \/ Resume(w) \/ GiveUp(w)
        PROVE  \E p : p # "compile" /\ To(w, p) /\ UNCHANGED <<queue, job>>
    BY <1>9, Zenon DEF Begin, Loop, Idle, Elect, Arrive, Resume, GiveUp
  <1>10. ASSUME NEW w \in Workers,
               \/ Gathered(w) \/ Abandon(w) \/ Seal(w) \/ Clear(w) \/ Lead(w) \/ GiveWay(w)
               \/ StopCpu(w) \/ Publish(w) \/ Restart(w)
        PROVE  \E p : p # "compile" /\ To(w, p) /\ UNCHANGED <<queue, job>>
    BY <1>10, Zenon DEF Gathered, Abandon, Abandoned, Seal, Clear, Lead, GiveWay, StopCpu, Publish, Restart
  <1>5. ASSUME NEW c \in Cpus, Joined(c) PROVE RequestsInv'
    BY <1>5 DEF Joined, mega_flush
  <1>6. ASSUME NEW c \in Cpus, FlushFromCpu(c) \/ NoFlush(c) \/ UnlockJit(c) \/ Return(c)
        PROVE  RequestsInv'
    BY <1>6, Zenon DEF FlushFromCpu, NoFlush, UnlockJit, Return
  <1>7. ASSUME NEW c \in Cpus, Request(c) PROVE RequestsInv'
    BY <1>7 DEF Request
  <1>8. ASSUME UNCHANGED poolVars PROVE RequestsInv'
    BY <1>8, Zenon DEF poolVars
  <1> QED
    BY <1>1, <1>2, <1>3, <1>4, <1>5, <1>6, <1>7, <1>8, <1>9, <1>10, Zenon
    DEF Next, WorkerStep, FlushStep, CpuStep, LeadStep

\* A count of workers at the barrier leaves room for the leader.
LEMMA PoolTypeStep == ASSUME PoolTypeOK, BarrierInv, RequestsInv, Next PROVE PoolTypeOK'
  <1> USE PoolAssumption, WaitingFinite DEF PoolTypeOK, To, At, Places, work, barrier, flush
  <1>1. ASSUME NEW w \in Workers, Begin(w) \/ Loop(w) \/ Idle(w) \/ Compile(w) \/ Elect(w) PROVE PoolTypeOK'
    <2>1. CASE Begin(w)
      BY <2>1, Zenon DEF Begin
    <2>2. CASE Loop(w)
      BY <2>2, Zenon DEF Loop
    <2>3. CASE Idle(w)
      BY <2>3, Zenon DEF Idle
    <2>4. CASE Compile(w)
      BY <2>4 DEF Compile
    <2>5. CASE Elect(w)
      BY <2>5, Zenon DEF Elect
    <2> QED
      BY <1>1, <2>1, <2>2, <2>3, <2>4, <2>5, Zenon
  <1>2. ASSUME NEW w \in Workers, Pop(w) PROVE PoolTypeOK'
    <2>1. Head(queue) = "current" /\ Len(queue') <= QueueCap
      BY <1>2 DEF Pop, RequestsInv
    <2> QED
      BY <1>2, <2>1, Zenon DEF Pop
  <1>3. ASSUME NEW w \in Workers, Arrive(w) PROVE PoolTypeOK'
    <2>1. CASE quiesce /\ pool_running
      <3>1. PICK u \in Workers : wpc[u] \in Leading
        BY <2>1, Zenon DEF BarrierInv
      <3>2. Waiting \cup {w} \in SUBSET (Workers \ {u}) /\ w \notin Waiting
        BY <1>3, <3>1, Zenon DEF Arrive, Waiting, Leading
      <3>3. Cardinality(Waiting \cup {w}) = Cardinality(Waiting) + 1
        BY <3>2, FS_AddElement, Zenon
      <3>4. parked_count' \in 0 .. Cardinality(Workers) - 1
        BY <1>3, <2>1, <3>2, <3>3, FewerThanAll DEF Arrive, BarrierInv
      <3> QED
        BY <1>3, <2>1, <3>4, Zenon DEF Arrive
    <2>2. CASE ~(quiesce /\ pool_running)
      BY <1>3, <2>2, Zenon DEF Arrive
    <2> QED
      BY <2>1, <2>2, Zenon
  <1>4. ASSUME NEW w \in Workers, Resume(w) \/ Gathered(w) \/ Clear(w) PROVE PoolTypeOK'
    <2>1. CASE Resume(w)
      BY <2>1, Zenon DEF Resume
    <2>2. CASE Gathered(w)
      BY <2>2, Zenon DEF Gathered
    <2>3. CASE Clear(w)
      BY <2>3, Zenon DEF Clear
    <2> QED
      BY <1>4, <2>1, <2>2, <2>3, Zenon
  <1>5. ASSUME NEW w \in Workers, GiveUp(w) PROVE PoolTypeOK'
    BY <1>5 DEF GiveUp
  <1>16. ASSUME NEW f \in BOOLEAN, Release(f)
         PROVE  parked_count' \in 0 .. Cardinality(Workers) - 1 /\ passed' \subseteq Workers /\ was_flush' \in BOOLEAN
    BY <1>16 DEF Release
  <1>17. ASSUME NEW w \in Workers, Abandoned(w) PROVE PoolTypeOK'
    <2>1. Release(FALSE)
      BY <1>17, Zenon DEF Abandoned
    <2> QED
      BY <1>16, <1>17, <2>1, Zenon DEF Abandoned
  <1>6. ASSUME NEW w \in Workers, Abandon(w) \/ GiveWay(w) \/ Seal(w) PROVE PoolTypeOK'
    <2>1. CASE Seal(w)
      <3>1. Release(FALSE)
        BY <2>1, Zenon DEF Seal
      <3> QED
        BY <1>16, <2>1, <3>1, Zenon DEF Seal
    <2> QED
      BY <1>6, <1>17, <2>1, Zenon DEF Abandon, GiveWay
  <1>7. ASSUME NEW w \in Workers, Publish(w) PROVE PoolTypeOK'
    BY <1>7 DEF Publish, Release
  <1>8. ASSUME NEW w \in Workers, Lead(w) \/ StopCpu(w) \/ Restart(w) PROVE PoolTypeOK'
    BY <1>8 DEF Lead, StopCpu, Restart
  <1>9. ASSUME mega_flush PROVE job' \in [Workers -> {"none", "current", "flushed"}] /\ Len(queue') <= QueueCap
    BY <1>9 DEF mega_flush, Flushed
  <1>10. ASSUME NEW w \in Workers, FlushFromWorker(w) PROVE PoolTypeOK'
    BY <1>9, <1>10, Zenon DEF FlushFromWorker
  <1>11. ASSUME NEW c \in Cpus, Joined(c) PROVE PoolTypeOK'
    BY <1>9, <1>11, Zenon DEF Joined
  <1>12. ASSUME NEW c \in Cpus, FlushFromCpu(c) PROVE PoolTypeOK'
    BY <1>12, Zenon DEF FlushFromCpu
  <1>13. ASSUME NEW c \in Cpus, NoFlush(c) \/ UnlockJit(c) \/ Return(c) PROVE PoolTypeOK'
    BY <1>13, Zenon DEF NoFlush, UnlockJit, Return
  <1>14. ASSUME NEW c \in Cpus, Request(c) PROVE PoolTypeOK'
    <2>1. Len(queue') <= QueueCap
      BY <1>14 DEF Request, RequestsInv
    <2> QED
      BY <1>14, <2>1, Zenon DEF Request
  <1>15. ASSUME UNCHANGED <<shared, poolVars>> PROVE PoolTypeOK'
    BY <1>15, Zenon DEF poolVars
  <1> QED
    BY <1>1, <1>2, <1>3, <1>4, <1>5, <1>6, <1>7, <1>8, <1>10, <1>11, <1>12, <1>13, <1>14, <1>15, Zenon
    DEF Next, WorkerStep, FlushStep, CpuStep, LeadStep

\* A worker goes from one place outside the barrier to another.
LEMMA Elsewhere ==
  ASSUME PoolTypeOK, BarrierInv, NEW w \in Workers, NEW p \in Places,
         wpc[w] \notin Leading \cup {"parked"}, p \notin Leading \cup {"parked"},
         wpc[w] = "loop" => pool_running \/ p = "off",
         wpc[w] # "off", p = "compile" => job'[w] # "flushed",
         To(w, p), UNCHANGED <<pool_running, barrier, codegen>>,
         \A v \in Workers \ {w} : job'[v] = job[v]
  PROVE  BarrierInv'
  <1>1. Waiting' = Waiting
    BY Zenon DEF Waiting, To, PoolTypeOK, barrier
  <1>2. \A v \in Workers : wpc'[v] \in Leading <=> wpc[v] \in Leading
    BY Zenon DEF To, PoolTypeOK
  <1>3. \A v \in Workers : wpc'[v] \in Relying => wpc'[v] = wpc[v]
    BY Zenon DEF To, PoolTypeOK, Relying, Leading
  <1>4. quiesce' = quiesce /\ parked_count' = parked_count /\ passed' = passed /\ was_flush' = was_flush
    BY Zenon DEF barrier
  <1>5. \A u \in Workers : wpc'[u] \in Relying => \A v \in Workers \ {u} :
          v \in Waiting' \/ (~pool_running' /\ wpc'[v] \in {"loop", "off"})
    BY <1>1, <1>3 DEF BarrierInv, To, PoolTypeOK, Waiting
  <1>6. \A u \in Workers : job'[u] = "flushed" => wpc'[u] # "compile"
    BY Zenon DEF BarrierInv, To, PoolTypeOK
  <1>7. \A u \in Workers : codegen'[u] = "flushed" =>
          \/ wpc'[u] = "parked" /\ u \in passed' /\ was_flush'
          \/ wpc'[u] \in {"parked", "loop", "off"} /\ ~pool_running'
    BY <1>4, Zenon DEF BarrierInv, To, PoolTypeOK
  <1> QED
    BY <1>1, <1>2, <1>4, <1>5, <1>6, <1>7, Zenon DEF BarrierInv

\* Every step keeps the barrier: who waits, who has passed, and what the
\* leader of the quiesce knows of the others.
LEMMA BarrierStep == ASSUME PoolTypeOK, BarrierInv, RequestsInv, Next PROVE BarrierInv'
  <1> USE DEF To
  <1>1. ASSUME NEW w \in Workers, Begin(w) \/ Loop(w) \/ Idle(w) PROVE BarrierInv'
    BY <1>1, Elsewhere, Zenon DEF Begin, Loop, Idle, Places, Leading, work
  <1>2. ASSUME NEW w \in Workers, Pop(w) PROVE BarrierInv'
    <2>1. Head(queue) = "current"
      BY <1>2 DEF Pop, RequestsInv
    <2> QED
      BY <1>2, <2>1, Elsewhere, Zenon DEF Pop, Places, Leading, PoolTypeOK
  <1>3. ASSUME NEW w \in Workers, Compile(w) PROVE BarrierInv'
    BY <1>3, Elsewhere, Zenon DEF Compile, Places, Leading, PoolTypeOK
  <1>4. ASSUME NEW w \in Workers, Restart(w) PROVE BarrierInv'
    BY <1>4, Elsewhere, Zenon DEF Restart, Places, Leading
  <1>5. ASSUME NEW w \in Workers, Elect(w) PROVE BarrierInv'
    <2>1. CASE quiesce
      BY <1>5, <2>1, Elsewhere, Zenon DEF Elect, Places, Leading, barrier, PoolTypeOK
    <2>2. CASE ~quiesce
      <3>1. Waiting' = Waiting
        BY <1>5, <2>2, Zenon DEF Elect, Waiting, PoolTypeOK
      <3> QED
        BY <1>5, <2>2, <3>1 DEF Elect, BarrierInv, PoolTypeOK, Leading, Relying
    <2> QED
      BY <2>1, <2>2
  <1>6. ASSUME NEW w \in Workers, Arrive(w) PROVE BarrierInv'
    <2>1. CASE quiesce /\ pool_running
      <3>1. Waiting' = Waiting \cup {w} /\ w \notin Waiting
        BY <1>6, <2>1 DEF Arrive, Waiting, PoolTypeOK
      <3>2. parked_count' = Cardinality(Waiting')
        BY <1>6, <2>1, <3>1, WaitingFinite, FS_AddElement, Zenon DEF Arrive, BarrierInv
      <3> QED
        BY <1>6, <2>1, <3>1, <3>2 DEF Arrive, BarrierInv, PoolTypeOK, Leading, Relying, work
    <2>2. CASE ~(quiesce /\ pool_running)
      <3>1. Waiting' = Waiting
        BY <1>6, <2>2, Zenon DEF Arrive, Waiting, PoolTypeOK
      <3>2. wpc'[w] = "loop" /\ \A v \in Workers : v # w => wpc'[v] = wpc[v] /\ (v \in passed' <=> v \in passed)
        BY <1>6, <2>2, Zenon DEF Arrive, PoolTypeOK
      <3>3. \A v \in Workers : wpc[v] \notin Relying /\ wpc'[v] \notin Relying
        BY <1>6, <3>2, Zenon DEF Arrive, BarrierInv, Relying, Waiting
      <3>4. \A v \in Workers : wpc'[v] \in Leading <=> wpc[v] \in Leading
        BY <1>6, <3>2 DEF Arrive, Leading
      <3>5. codegen[w] # "flushed"
        BY <1>6, Zenon DEF Arrive, BarrierInv
      <3>6. UNCHANGED <<quiesce, parked_count, pool_running, was_flush, job, codegen>>
        BY <1>6, <2>2 DEF Arrive, work
      <3>7. \A v \in Workers : codegen'[v] = "flushed" =>
              \/ wpc'[v] = "parked" /\ v \in passed' /\ was_flush'
              \/ wpc'[v] \in {"parked", "loop", "off"} /\ ~pool_running'
        BY <3>2, <3>5, <3>6, Zenon DEF BarrierInv
      <3> QED
        BY <3>1, <3>2, <3>3, <3>4, <3>6, <3>7 DEF BarrierInv
    <2> QED
      BY <2>1, <2>2
  <1>7. ASSUME NEW w \in Workers, Resume(w) PROVE BarrierInv'
    <2>1. Waiting' = Waiting
      BY <1>7, Zenon DEF Resume, Waiting, PoolTypeOK, barrier
    <2>2. wpc'[w] = "loop" /\ \A v \in Workers : v # w => wpc'[v] = wpc[v] /\ codegen'[v] = codegen[v]
      BY <1>7, Zenon DEF Resume, PoolTypeOK
    <2>3. \A v \in Workers : /\ wpc'[v] \in Leading <=> wpc[v] \in Leading
                             /\ wpc[v] \notin Relying /\ wpc'[v] \notin Relying
      BY <1>7, <2>2, Zenon DEF Resume, BarrierInv, Leading, Relying, Waiting
    <2>4. codegen'[w] = "flushed" => ~pool_running
      BY <1>7, Zenon DEF Resume, BarrierInv, PoolTypeOK
    <2>5. UNCHANGED <<quiesce, parked_count, passed, was_flush, pool_running, job>>
      BY <1>7 DEF Resume, barrier
    <2>6. \A v \in Workers : codegen'[v] = "flushed" =>
            \/ wpc'[v] = "parked" /\ v \in passed' /\ was_flush'
            \/ wpc'[v] \in {"parked", "loop", "off"} /\ ~pool_running'
      BY <2>2, <2>4, <2>5, Zenon DEF BarrierInv
    <2> QED
      BY <2>1, <2>2, <2>3, <2>5, <2>6 DEF BarrierInv
  <1>8. ASSUME NEW w \in Workers, GiveUp(w) PROVE BarrierInv'
    <2>1. Waiting' = Waiting \ {w} /\ w \in Waiting
      BY <1>8, Zenon DEF GiveUp, Waiting, PoolTypeOK
    <2>2. parked_count' = Cardinality(Waiting')
      BY <1>8, <2>1, WaitingFinite, FS_RemoveElement, FS_EmptySet, Zenon DEF GiveUp, BarrierInv
    <2> QED
      BY <1>8, <2>1, <2>2 DEF GiveUp, BarrierInv, PoolTypeOK, Leading, Relying, work
  <1>9. ASSUME NEW w \in Workers, Gathered(w) PROVE BarrierInv'
    <2>1. Waiting' = Waiting
      BY <1>9, Zenon DEF Gathered, Waiting, PoolTypeOK, barrier
    <2>2. Waiting = Workers \ {w}
      BY <1>9, AllWait, Zenon DEF Gathered, BarrierInv, Waiting
    <2> QED
      BY <1>9, <2>1, <2>2 DEF Gathered, BarrierInv, PoolTypeOK, Leading, Relying, barrier
  \* The leader lets everyone go.
  <1>10. ASSUME NEW w \in Workers, NEW f, Release(f), wpc[w] \in Leading, To(w, "clear"),
                UNCHANGED <<quiesce, pool_running, job>>,
                \A v \in Workers : codegen'[v] = "flushed" =>
                  (wpc[v] = "parked" /\ f) \/ (wpc[v] \in {"parked", "loop", "off"} /\ ~pool_running)
         PROVE  BarrierInv'
    <2>1. Waiting' = {}
      BY <1>10, Zenon DEF Release, Waiting, PoolTypeOK
    <2>2. parked_count' = Cardinality(Waiting')
      BY <1>10, <2>1, FS_EmptySet, Zenon DEF Release
    <2>3. \A v \in Workers : v # w => wpc'[v] = wpc[v] /\ wpc[v] \notin Leading
      BY <1>10 DEF BarrierInv, PoolTypeOK
    <2>4. wpc'[w] = "clear"
      BY <1>10, Zenon DEF PoolTypeOK
    <2>5. \A v \in Workers : wpc'[v] \in Leading <=> v = w
      BY <2>3, <2>4 DEF Leading
    <2>6. \A v \in Workers : wpc'[v] \notin Relying
      BY <2>3, <2>4, <2>5 DEF Leading, Relying
    <2>7. \A v \in Workers : codegen'[v] = "flushed" =>
            \/ wpc'[v] = "parked" /\ v \in passed' /\ was_flush'
            \/ wpc'[v] \in {"parked", "loop", "off"} /\ ~pool_running'
      BY <1>10, <2>3, Zenon DEF Release, Leading
    <2>8. quiesce'
      BY <1>10, Zenon DEF BarrierInv
    <2> QED
      BY <1>10, <2>2, <2>3, <2>4, <2>5, <2>6, <2>7, <2>8 DEF BarrierInv
  <1>11. ASSUME NEW w \in Workers, Abandon(w) \/ GiveWay(w) PROVE BarrierInv'
    <2>1. Abandoned(w) /\ ~pool_running /\ wpc[w] \in Leading
      BY <1>11 DEF Abandon, GiveWay, Leading
    <2>2. \A v \in Workers : codegen[v] = "flushed" => wpc[v] \in {"parked", "loop", "off"} /\ ~pool_running
      BY <2>1, Zenon DEF BarrierInv
    <2> QED
      BY <1>10, <2>1, <2>2, Zenon DEF Abandoned
  <1>12. ASSUME NEW w \in Workers, Seal(w) PROVE BarrierInv'
    <2>1. \A v \in Workers : codegen[v] = "flushed" => wpc[v] \in {"parked", "loop", "off"} /\ ~pool_running
      BY <1>12, Zenon DEF Seal, BarrierInv, Relying, Waiting
    <2> QED
      BY <1>10, <1>12, <2>1, Zenon DEF Seal, Leading
  <1>13. ASSUME NEW w \in Workers, Publish(w) PROVE BarrierInv'
    <2>1. \A v \in Workers \ {w} : wpc[v] = "parked" \/ (wpc[v] \in {"loop", "off"} /\ ~pool_running)
      BY <1>13, Zenon DEF Publish, BarrierInv, Relying, Waiting
    <2>2. codegen'[w] # "flushed"
      BY <1>13 DEF Publish
    <2> QED
      BY <1>10, <1>13, <2>1, <2>2, Zenon DEF Publish, Leading
  <1>14. ASSUME NEW w \in Workers, Clear(w) PROVE BarrierInv'
    <2>1. Waiting' = Waiting
      BY <1>14, Zenon DEF Clear, Waiting, PoolTypeOK
    <2>2. \A v \in Workers : wpc'[v] \notin Leading
      BY <1>14, Zenon DEF Clear, BarrierInv, PoolTypeOK, Leading
    <2>3. \A v \in Workers : v # w => wpc'[v] = wpc[v]
      BY <1>14, Zenon DEF Clear, PoolTypeOK
    <2> QED
      BY <1>14, <2>1, <2>2, <2>3 DEF Clear, BarrierInv, PoolTypeOK, Leading, Relying, work
  <1>15. ASSUME NEW w \in Workers, NEW p \in Relying, wpc[w] \in Relying, To(w, p),
                UNCHANGED <<pool_running, barrier, codegen>>,
                \A v \in Workers : job'[v] = "flushed" => wpc[v] # "compile"
         PROVE  BarrierInv'
    <2>1. Waiting' = Waiting
      BY <1>15, Zenon DEF Waiting, PoolTypeOK, barrier, Relying
    <2>2. wpc'[w] = p /\ \A v \in Workers : v # w => wpc'[v] = wpc[v]
      BY <1>15, Zenon DEF PoolTypeOK
    <2>3. \A v \in Workers : (wpc'[v] \in Leading <=> wpc[v] \in Leading) /\ (wpc'[v] \in Relying <=> wpc[v] \in Relying)
      BY <1>15, <2>2, Zenon DEF Leading, Relying
    <2>4. \A v \in Workers : job'[v] = "flushed" => wpc'[v] # "compile"
      BY <1>15, <2>2, Zenon DEF Relying
    <2>5. \A u \in Workers : wpc'[u] \in Relying => \A v \in Workers \ {u} :
            v \in Waiting' \/ (~pool_running' /\ wpc'[v] \in {"loop", "off"})
      BY <1>15, <2>1, <2>2, <2>3, Zenon DEF BarrierInv, Waiting, Relying
    <2>6. \A v \in Workers : codegen'[v] = "flushed" =>
            \/ wpc'[v] = "parked" /\ v \in passed' /\ was_flush'
            \/ wpc'[v] \in {"parked", "loop", "off"} /\ ~pool_running'
      BY <1>15, <2>2, Zenon DEF BarrierInv, barrier, Relying
    <2> QED
      BY <1>15, <2>1, <2>3, <2>4, <2>5, <2>6, Zenon DEF BarrierInv, barrier
  <1>16. ASSUME NEW w \in Workers, Lead(w) \/ StopCpu(w) PROVE BarrierInv'
    BY <1>15, <1>16, Zenon DEF Lead, StopCpu, Relying, work, BarrierInv
  <1>17. ASSUME NEW w \in Workers, FlushFromWorker(w) PROVE BarrierInv'
    <2>1. \A v \in Workers : wpc[v] # "compile"
      BY <1>17, Zenon DEF FlushFromWorker, BarrierInv, Relying, Waiting
    <2> QED
      BY <1>15, <1>17, <2>1, Zenon DEF FlushFromWorker, Relying
  <1>18. ASSUME NEW c \in Cpus, FlushFromCpu(c) PROVE BarrierInv'
    <2>1. Waiting' = Waiting
      BY <1>18, Zenon DEF FlushFromCpu, Waiting, barrier
    <2> QED
      BY <1>18, <2>1, Zenon DEF FlushFromCpu, BarrierInv, barrier, work
  <1>19. ASSUME NEW c \in Cpus, Joined(c) PROVE BarrierInv'
    <2>1. Waiting = {} /\ Waiting' = {}
      BY <1>19 DEF Joined, Waiting
    <2>2. \A v \in Workers : wpc[v] = "off" /\ wpc'[v] = "born" /\ codegen'[v] = "current"
      BY <1>19 DEF Joined
    <2> QED
      BY <1>19, <2>1, <2>2, Zenon DEF Joined, BarrierInv, barrier, Leading, Relying
  <1>20. ASSUME UNCHANGED <<pool_running, barrier, wpc, job, codegen>> PROVE BarrierInv'
    BY <1>20, Zenon DEF BarrierInv, barrier, Waiting
  <1>21. ASSUME NEW c \in Cpus, NoFlush(c) \/ UnlockJit(c) \/ Return(c) \/ Request(c) PROVE BarrierInv'
    BY <1>20, <1>21, Zenon DEF NoFlush, UnlockJit, Return, Request, work
  <1>22. ASSUME UNCHANGED poolVars PROVE BarrierInv'
    BY <1>20, <1>22 DEF poolVars, work
  <1> QED
    BY <1>1, <1>2, <1>3, <1>4, <1>5, <1>6, <1>7, <1>8, <1>9, <1>11, <1>12, <1>13, <1>14, <1>16,
       <1>17, <1>18, <1>19, <1>21, <1>22, Zenon DEF Next, WorkerStep, FlushStep, CpuStep, LeadStep

-----------------------------------------------------------------------------
(* What ties them *)

\* Steps of a worker that leave World's state alone.
LEMMA TieInside ==
  ASSUME PoolTypeOK, TieInv, NEW w \in Workers, Inside(w) PROVE TieInv'
  <1> USE DEF To, PoolTypeOK
  <1>1. UNCHANGED worldVars
    BY InsideUnmoved
  <1>2. UNCHANGED <<shared, fpc>>
    BY Zenon DEF Inside, Begin, Loop, Pop, Idle, Compile, Elect, Arrive, Resume, GiveUp, Gathered, Abandon,
           Abandoned, Seal, Clear, GiveWay, FlushFromWorker, Publish, flush
  <1>3. \A v \in Workers : v # w => wpc'[v] = wpc[v] /\ goal'[v] = goal[v]
    <2>1. CASE Begin(w) \/ Loop(w) \/ Pop(w) \/ Idle(w) \/ Compile(w) \/ Elect(w) \/ Arrive(w)
      BY <2>1, Zenon DEF Begin, Loop, Pop, Idle, Compile, Elect, Arrive, work
    <2>2. CASE Resume(w) \/ GiveUp(w) \/ Gathered(w) \/ Abandon(w) \/ Seal(w)
      BY <2>2, Zenon DEF Resume, GiveUp, Gathered, Abandon, Abandoned, Seal, work
    <2>3. CASE Clear(w) \/ GiveWay(w) \/ FlushFromWorker(w) \/ Publish(w)
      BY <2>3, Zenon DEF Clear, GiveWay, Abandoned, FlushFromWorker, Publish, work
    <2> QED
      BY <2>1, <2>2, <2>3, Zenon DEF Inside
  <1>4. HasWorld(w)' => HasWorld(w) \/ (wpc'[w] = "publish" /\ CpusStill(w))
    <2>1. CASE Begin(w) \/ Loop(w) \/ Pop(w) \/ Idle(w) \/ Compile(w) \/ Elect(w) \/ Arrive(w)
      BY <2>1 DEF Begin, Loop, Pop, Idle, Compile, Elect, Arrive, HasWorld
    <2>2. CASE Resume(w) \/ GiveUp(w) \/ Gathered(w) \/ Abandon(w) \/ Seal(w) \/ GiveWay(w)
      BY <2>2, Zenon DEF Resume, GiveUp, Gathered, Abandon, Abandoned, Seal, GiveWay, HasWorld
    <2>3. CASE Clear(w) \/ FlushFromWorker(w) \/ Publish(w)
      BY <2>3, Zenon DEF Clear, FlushFromWorker, Publish, work, HasWorld
    <2> QED
      BY <2>1, <2>2, <2>3, Zenon DEF Inside
  <1>5. wpc'[w] = "publish" => CpusStill(w)
    <2>1. CASE Begin(w) \/ Loop(w) \/ Pop(w) \/ Idle(w) \/ Compile(w) \/ Elect(w) \/ Arrive(w)
      BY <2>1, Zenon DEF Begin, Loop, Pop, Idle, Compile, Elect, Arrive
    <2>2. CASE Resume(w) \/ GiveUp(w) \/ Gathered(w) \/ Abandon(w) \/ Seal(w) \/ GiveWay(w)
      BY <2>2, Zenon DEF Resume, GiveUp, Gathered, Abandon, Abandoned, Seal, GiveWay
    <2>3. CASE Clear(w) \/ FlushFromWorker(w) \/ Publish(w)
      BY <2>3, Zenon DEF Clear, FlushFromWorker, Publish
    <2> QED
      BY <2>1, <2>2, <2>3, Zenon DEF Inside
  <1>6. pc' = pc
    BY <1>1, Zenon DEF worldVars
  <1>7. \A v \in Workers : v # w => (HasWorld(v)' <=> HasWorld(v))
    BY <1>3, Zenon DEF HasWorld
  <1> QED
    BY <1>2, <1>3, <1>4, <1>5, <1>6, <1>7, Zenon DEF TieInv, CpusStill

\* A worker that clears the pool and a CPU that flushes keep the machine.
LEMMA TieStep == ASSUME WInv, PoolTypeOK, BarrierInv, TieInv, Next PROVE TieInv'
  <1>0. /\ pc \in [Threads -> CpuPlaces \cup LeadPlaces \cup {"out"}]
        /\ Workers \cap Cpus = {} /\ Workers \subseteq Threads /\ Cpus \subseteq Threads
    BY PoolAssumption, WorldAssumption, Zenon DEF WInv, WorldTypeOK, Threads
  <1> USE DEF To, At, Goto, PoolTypeOK
  <1>1. ASSUME NEW w \in Workers, Inside(w) PROVE TieInv'
    BY <1>1, TieInside, Zenon
  <1>2. ASSUME NEW w \in Workers, Lead(w) PROVE TieInv'
    BY <1>0, <1>2, Zenon DEF Lead, try_lead, TieInv, HasWorld, work, flush
  <1>3. ASSUME NEW w \in Workers, StopCpu(w) PROVE TieInv'
    BY <1>3, Zenon DEF StopCpu, TieInv, HasWorld, work, flush
  <1>4. ASSUME NEW w \in Workers, Restart(w) PROVE TieInv'
    <2>1. \A v \in Workers : wpc[v] # "publish"
      BY <1>4, Zenon DEF Restart, BarrierInv, Relying, Waiting
    <2>2. \A v \in Workers : /\ wpc'[v] = IF v = w THEN "loop" ELSE wpc[v]
                             /\ v # w => goal'[v] = goal[v]
      BY <1>4, Zenon DEF Restart
    <2>3. UNCHANGED <<shared, fpc>>
      BY <1>4, Zenon DEF Restart, flush
    <2>4. CASE shared
      BY <1>0, <1>4, <2>1, <2>2, <2>3, <2>4 DEF Restart, Done, TieInv, HasWorld
    <2>5. CASE ~shared
      BY <1>0, <1>4, <2>1, <2>2, <2>3, <2>5 DEF Restart, Start, TieInv, HasWorld, Only
    <2> QED
      BY <2>4, <2>5, Zenon
  <1>5. ASSUME NEW t \in Threads, pc[t] \notin {"off", "alone"}, t \in Cpus => fpc[t] = "none",
               \A u \in Threads \ {t} : pc'[u] = pc[u], UNCHANGED <<shared, poolVars>>
        PROVE  TieInv'
    <2>1. UNCHANGED <<shared, wpc, goal, fpc>>
      BY <1>5, Zenon DEF poolVars, work, flush
    <2> QED
      BY <1>0, <1>5, <2>1 DEF TieInv, HasWorld
  <1>6. ASSUME NEW c \in Cpus, CpuStep(c) PROVE TieInv'
    <2>1. pc[c] \notin {"off", "alone"} /\ \A u \in Threads \ {c} : pc'[u] = pc[u]
      BY <1>0, <1>6, Zenon DEF CpuStep, Top, Batch, Park, Unpark, Exit, Ask, Lock, Turn
    <2> QED
      BY <1>0, <1>5, <1>6, <2>1, Zenon DEF CpuStep
  <1>7. ASSUME NEW t \in Threads, LeadStep(t) PROVE TieInv'
    <2>1. pc[t] \in {"hold", "wait", "drop"} /\ \A u \in Threads \ {t} : pc'[u] = pc[u]
      BY <1>0, <1>7, Zenon DEF LeadStep, Leads, Hold, Held, Wait, Alone, Drop, Unlock
    <2>2. UNCHANGED <<shared, wpc, goal, fpc>>
      BY <1>7, Zenon DEF LeadStep, poolVars, work, flush
    <2>3. \A v \in Workers : HasWorld(v)' <=> HasWorld(v)
      BY <2>2, Zenon DEF HasWorld
    <2> QED
      BY <1>0, <2>1, <2>2, <2>3, Zenon DEF TieInv
  <1>8. ASSUME NEW c \in Cpus, FlushFromCpu(c) \/ NoFlush(c) \/ UnlockJit(c) PROVE TieInv'
    BY <1>8 DEF FlushFromCpu, NoFlush, UnlockJit, TieInv, HasWorld, work, worldVars
  <1>9. ASSUME NEW c \in Cpus, Joined(c) PROVE TieInv'
    BY <1>9, Zenon DEF Joined, TieInv, HasWorld, worldVars
  <1>10. ASSUME NEW c \in Cpus, Return(c) PROVE TieInv'
    BY <1>0, <1>10 DEF Return, Done, TieInv, HasWorld, work, worldVars
  <1>11. ASSUME NEW c \in Cpus, Request(c) PROVE TieInv'
    BY <1>11, Zenon DEF Request, TieInv, HasWorld, worldVars, flush
  <1> QED
    BY <1>1, <1>2, <1>3, <1>4, <1>6, <1>7, <1>8, <1>9, <1>10, <1>11, Zenon
    DEF Next, WorkerStep, FlushStep, Inside

-----------------------------------------------------------------------------
(* Theorems *)

\* A new machine with an idle pool.
LEMMA PoolInit == ASSUME Init PROVE PInv
  <1>1. WInv
    <2>1. {Only} \in SUBSET Cpus /\ Cpus \in SUBSET Cpus
      BY OnlyIsCpu
    <2> QED
      BY <2>1, InitOK DEF Init, Only
  <1>2. /\ wpc = [w \in Workers |-> "born"] /\ fpc = [c \in Cpus |-> "none"] /\ queue = <<>>
        /\ codegen = [w \in Workers |-> "current"] /\ job = [w \in Workers |-> "none"]
        /\ ~quiesce /\ parked_count = 0
    BY DEF Init
  <1>3. Waiting = {}
    BY <1>2 DEF Waiting
  <1>4. PoolTypeOK
    <2>1. shared \in BOOLEAN /\ Len(queue) = 0
      BY <1>2, Zenon DEF Init
    <2>2. pool_running \in BOOLEAN /\ quiesce \in BOOLEAN /\ was_flush \in BOOLEAN
      BY Zenon DEF Init
    <2>3. parked_count \in 0 .. Cardinality(Workers) - 1 /\ passed \subseteq Workers
      BY WaitingFinite DEF Init
    <2>4. /\ wpc \in [Workers -> Places] /\ goal \in [Workers -> {"none", "flush", "seal"}]
          /\ codegen \in [Workers -> {"current", "flushed"}] /\ jit \in Cpus \cup {None}
          /\ job \in [Workers -> {"none", "current", "flushed"}]
          /\ fpc \in [Cpus -> {"none", "join", "locked", "done"}]
      BY Zenon DEF Init, Places
    <2>5. Len(queue) <= QueueCap
      BY <2>1, PoolAssumption
    <2> QED
      BY <2>1, <2>2, <2>3, <2>4, <2>5, Zenon DEF PoolTypeOK
  <1>5. BarrierInv
    BY <1>2, <1>3, FS_EmptySet, Zenon DEF BarrierInv, Leading, Relying
  <1>6. RequestsInv
    BY <1>2 DEF RequestsInv
  <1>7. ASSUME ~shared, NEW c \in Cpus, pc[c] # "off" PROVE c = Only
    BY <1>7, Zenon DEF Init, WorldInit, Only, Threads
  <1>8. TieInv
    BY <1>2, <1>7, Zenon DEF TieInv, HasWorld
  <1> QED
    BY <1>1, <1>4, <1>5, <1>6, <1>8 DEF PInv

\* The invariant of the compile pool, for any number of CPUs and workers: one
\* worker leads while quiesce_in_progress is up, parked_count is the number of
\* followers it can rely on, and the rest of BarrierInv; types included.
THEOREM PoolSafe == Spec => [](PInv /\ PoolInv)
  <1>1. Init => PInv
    BY PoolInit
  <1>2. ASSUME PInv, [Next]_vars PROVE PInv'
    <2>1. CASE Next
      BY <1>2, <2>1, WorldStep, PoolTypeStep, BarrierStep, RequestsStep, TieStep DEF PInv
    <2>2. CASE UNCHANGED vars
      <3>1. UNCHANGED worldVars /\ UNCHANGED <<shared, pool_running, barrier, wpc, work, flush>>
        BY <2>2 DEF vars, poolVars
      <3>2. WInv'
        BY <1>2, <3>1, Unmoved DEF PInv
      <3>3. PoolTypeOK' /\ RequestsInv'
        BY <1>2, <3>1, Zenon DEF PInv, PoolTypeOK, RequestsInv, barrier, work, flush
      <3>4. BarrierInv'
        BY <1>2, <3>1, Zenon DEF PInv, BarrierInv, Waiting, barrier, work
      <3>5. TieInv'
        BY <1>2, <3>1, Zenon DEF PInv, TieInv, HasWorld, worldVars, work, flush
      <3> QED
        BY <3>2, <3>3, <3>4, <3>5 DEF PInv
    <2> QED
      BY <1>2, <2>1, <2>2
  <1> QED
    BY <1>1, <1>2, PTL DEF Spec, PInv, PoolInv

\* No worker of worker_loop compiles a flushed page or into a replaced arena.
THEOREM CompilesHold == Spec => []CompilesCurrent
  <1>1. PInv => CompilesCurrent
    BY Zenon DEF PInv, CompilesCurrent, BarrierInv, RequestsInv, PoolTypeOK
  <1> QED
    BY <1>1, PoolSafe, PTL

\* While run_leader_seal or run_leader_flush works, no other worker compiles,
\* seals or flushes.
THEOREM QuiesceHolds == Spec => []QuiesceAlone
  <1>1. PInv => QuiesceAlone
    BY Zenon DEF PInv, QuiesceAlone, BarrierInv, Relying, Waiting
  <1> QED
    BY <1>1, PoolSafe, PTL

\* A pool that CompileQueue::stop ended starts again with its barrier open.
THEOREM RestartHolds == Spec => []CleanRestart
  <1>1. ASSUME PInv PROVE CleanRestart
    <2> SUFFICES ASSUME \A w \in Workers : wpc[w] \in {"off", "born"} PROVE ~quiesce /\ parked_count = 0
      BY DEF CleanRestart
    <2>1. Waiting = {}
      BY DEF Waiting
    <2>2. ~quiesce
      BY <1>1, Zenon DEF PInv, BarrierInv, Leading
    <2> QED
      BY <1>1, <2>1, <2>2, FS_EmptySet, Zenon DEF PInv, BarrierInv
  <1> QED
    BY <1>1, PoolSafe, PTL

\* While mega_flush clears the page pool, for a worker or a CPU, no other CPU
\* runs compiled code.
THEOREM FlushHolds == Spec => []FlushAlone
  <1>1. ASSUME PInv PROVE FlushAlone
    <2>0. Exclusive /\ Workers \subseteq Threads /\ Workers \cap Cpus = {} /\ Cpus \subseteq Threads
      BY <1>1, AloneIsExclusive, PoolAssumption, WorldAssumption DEF PInv, Threads
    <2>1. ASSUME NEW w \in Workers, wpc[w] = "publish", NEW c \in Cpus PROVE pc[c] \notin Touching
      <3>1. CASE shared
        BY <1>1, <2>0, <2>1, <3>1, Zenon DEF PInv, TieInv, HasWorld, Exclusive
      <3>2. CASE ~shared
        BY <1>1, <2>1, <3>2, Zenon DEF PInv, TieInv, Touching
      <3> QED
        BY <3>1, <3>2
    <2>2. ASSUME NEW c \in Cpus, fpc[c] = "locked", NEW d \in Cpus \ {c} PROVE pc[d] \notin Touching
      <3>1. CASE shared
        BY <1>1, <2>0, <2>2, <3>1, Zenon DEF PInv, TieInv, Exclusive
      <3>2. CASE ~shared
        BY <1>1, <2>2, <3>2, Zenon DEF PInv, TieInv, Touching
      <3> QED
        BY <3>1, <3>2
    <2> QED
      BY <2>1, <2>2, Zenon DEF FlushAlone
  <1> QED
    BY <1>1, PoolSafe, PTL
=============================================================================
