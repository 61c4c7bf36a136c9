----------------------------- MODULE CompilePool ----------------------------
(***************************************************************************)
(* The compile threads of the second JIT (CompileQueue in                  *)
(* src/src/cpu/jitv2/jitv2.rs) among the CPUs of World: workers compile    *)
(* pages the CPUs ask for, quiesce each other at a barrier to seal or to   *)
(* flush, and stop the CPUs to flush; a CPU that runs out of pages stops   *)
(* the other CPUs and the workers to flush.                                *)
(*                                                                         *)
(* A generation of the barrier matters only as equal or passed, a page     *)
(* pool and an arena only as current or flushed since.  How much code is   *)
(* unsealed is left out: a worker may want a seal after any compile, and   *)
(* whenever it is idle.                                                    *)
(***************************************************************************)
EXTENDS World, Sequences

CONSTANTS Workers,
          QueueCap      \* requests the queue holds

ASSUME PoolAssumption == Workers = Others /\ Workers # {} /\ IsFiniteSet(Workers) /\ QueueCap \in Nat

VARIABLES
  shared,                             \* several CPUs share the pool (set_world)
  pool_running, quiesce,              \* CompileQueue::running, quiesce_in_progress
  parked_count, was_flush, passed,    \* BarrierState; workers whose generation has passed
  wpc, goal,                          \* worker: place, what it leads
  queue, job,                         \* requests: "current" or "flushed" page
  codegen,                            \* is a worker's Codegen on the current arena?
  jit, fpc                            \* owner of Mutex<Jitv2>; a CPU's place in a flush

barrier == <<quiesce, parked_count, was_flush, passed>>
work    == <<goal, queue, job, codegen>>
flush   == <<jit, fpc>>
poolVars == <<pool_running, barrier, wpc, work, flush>>
vars == <<worldVars, shared, poolVars>>

\* One CPU knows no world, and workers stop its thread.
Init ==
  /\ \/ shared = TRUE /\ WorldInit(Cpus)
     \/ shared = FALSE /\ WorldInit({CHOOSE c \in Cpus : TRUE})
  /\ pool_running = TRUE /\ quiesce = FALSE
  /\ parked_count = 0 /\ was_flush = FALSE /\ passed = {}
  /\ wpc = [w \in Workers |-> "born"] /\ goal = [w \in Workers |-> "none"]
  /\ queue = <<>> /\ job = [w \in Workers |-> "none"]
  /\ codegen = [w \in Workers |-> "current"]
  /\ jit = None /\ fpc = [c \in Cpus |-> "none"]

To(w, place) == wpc' = [wpc EXCEPT ![w] = place]

Flushed(x) == IF x = "current" THEN "flushed" ELSE x

\* (mutant) requests stay queued
mega_flushUndrained ==
  /\ queue' = [i \in DOMAIN queue |-> Flushed(queue[i])]
  /\ job' = [w \in Workers |-> Flushed(job[w])]

\* Every page is reset; requests were drained before.
mega_flush ==
  /\ queue' = <<>>
  /\ job' = [w \in Workers |-> Flushed(job[w])]

-----------------------------------------------------------------------------
(* The barrier *)

\* The leader ends the generation.
Release(flushed) ==
  /\ parked_count' = 0 /\ was_flush' = flushed
  /\ passed' = {v \in Workers : wpc[v] = "parked"}

\* park_at_barrier
Arrive(w) ==
  /\ wpc[w] = "arrive"
  /\ IF quiesce /\ pool_running
     THEN To(w, "parked") /\ parked_count' = parked_count + 1
     ELSE To(w, "loop") /\ UNCHANGED parked_count
  /\ passed' = passed \ {w}
  /\ UNCHANGED <<shared, worldVars, pool_running, quiesce, was_flush, work, flush>>

\* After a flush a follower rebuilds its Codegen on the new arena.
Resume(w) ==
  /\ wpc[w] = "parked" /\ w \in passed
  /\ codegen' = [codegen EXCEPT ![w] = IF was_flush THEN "current" ELSE @]
  /\ To(w, "loop")
  /\ UNCHANGED <<shared, worldVars, pool_running, barrier, goal, queue, job, flush>>

\* (mutant) the count stays up
GiveUpCounted(w) ==
  /\ wpc[w] = "parked" /\ w \notin passed /\ (~pool_running \/ ~quiesce)
  /\ To(w, "loop")
  /\ UNCHANGED <<shared, worldVars, pool_running, barrier, work, flush>>

\* Stopping, or the cycle ended without it.
GiveUp(w) ==
  /\ wpc[w] = "parked" /\ w \notin passed /\ (~pool_running \/ ~quiesce)
  /\ parked_count' = IF parked_count = 0 THEN 0 ELSE parked_count - 1
  /\ To(w, "loop")
  /\ UNCHANGED <<shared, worldVars, pool_running, quiesce, was_flush, passed, work, flush>>

\* wait_for_followers_or_abandon: everyone is there, ...
Gathered(w) ==
  /\ wpc[w] = "gather" /\ parked_count >= Cardinality(Workers) - 1
  /\ To(w, IF goal[w] = "seal" THEN "seal" ELSE "lead")
  /\ UNCHANGED <<shared, worldVars, pool_running, barrier, goal, queue, job, codegen, flush>>

\* abandon_quiesce
Abandoned(w) ==
  /\ Release(FALSE)
  /\ goal' = [goal EXCEPT ![w] = "none"]
  /\ To(w, "clear")
  /\ UNCHANGED <<shared, worldVars, pool_running, quiesce, queue, job, codegen, flush>>

\* ... or the pool stops first.
Abandon(w) ==
  /\ wpc[w] = "gather" /\ parked_count < Cardinality(Workers) - 1 /\ ~pool_running
  /\ Abandoned(w)

\* force_publish_pending, then everyone goes on in place.
Seal(w) ==
  /\ wpc[w] = "seal"
  /\ Release(FALSE)
  /\ goal' = [goal EXCEPT ![w] = "none"]
  /\ To(w, "clear")
  /\ UNCHANGED <<shared, worldVars, pool_running, quiesce, queue, job, codegen, flush>>

Clear(w) ==
  /\ wpc[w] = "clear"
  /\ quiesce' = FALSE
  /\ To(w, IF goal[w] = "flush" THEN "restart" ELSE "loop")
  /\ UNCHANGED <<shared, worldVars, pool_running, parked_count, was_flush, passed, work, flush>>

-----------------------------------------------------------------------------
(* worker_loop *)

\* A new worker reads the cache's geometry under the lock of Jitv2.
Begin(w) ==
  /\ wpc[w] = "born" /\ jit = None
  /\ To(w, "loop")
  /\ UNCHANGED <<shared, worldVars, pool_running, barrier, work, flush>>

Loop(w) ==
  /\ wpc[w] = "loop" /\ pc[w] = "out"
  /\ To(w, IF ~pool_running THEN "off" ELSE IF quiesce THEN "arrive" ELSE "pop")
  /\ UNCHANGED <<shared, worldVars, pool_running, barrier, goal, queue, job, codegen, flush>>

Pop(w) ==
  /\ wpc[w] = "pop" /\ queue # <<>>
  /\ queue' = Tail(queue)
  /\ job' = [job EXCEPT ![w] = Head(queue)]
  /\ To(w, "compile")
  /\ UNCHANGED <<shared, worldVars, pool_running, barrier, goal, codegen, flush>>

\* Nothing to do: publish what can be, and force a seal after a while.
Idle(w) ==
  /\ wpc[w] = "pop" /\ queue = <<>>
  /\ \/ To(w, "loop") /\ UNCHANGED goal
     \/ To(w, "elect") /\ goal' = [goal EXCEPT ![w] = "seal"]
  /\ UNCHANGED <<shared, worldVars, pool_running, barrier, queue, job, codegen, flush>>

\* handle_request_deferred and what follows it: the arena is full, too much
\* is unsealed, or neither.
Compile(w) ==
  /\ wpc[w] = "compile"
  /\ job' = [job EXCEPT ![w] = "none"]
  /\ \/ To(w, "loop") /\ UNCHANGED goal
     \/ \E g \in {"flush", "seal"} : To(w, "elect") /\ goal' = [goal EXCEPT ![w] = g]
  /\ UNCHANGED <<shared, worldVars, pool_running, barrier, queue, codegen, flush>>

\* (mutant) the flag is set, not exchanged
ElectAnyway(w) ==
  /\ wpc[w] = "elect"
  /\ quiesce' = TRUE
  /\ To(w, "gather")
  /\ UNCHANGED <<shared, worldVars, pool_running, parked_count, was_flush, passed, work, flush>>

\* try_flush and try_force_seal: one leader, for either purpose.
Elect(w) ==
  /\ wpc[w] = "elect"
  /\ quiesce' = TRUE
  /\ To(w, IF quiesce THEN "arrive" ELSE "gather")
  /\ goal' = [goal EXCEPT ![w] = IF quiesce THEN "none" ELSE @]
  /\ UNCHANGED <<shared, worldVars, pool_running, parked_count, was_flush, passed, queue, job, codegen, flush>>

-----------------------------------------------------------------------------
(* run_leader_flush.  Several CPUs are held, ...                             *)

Lead(w) ==
  /\ wpc[w] = "lead" /\ shared
  /\ try_lead(w)
  /\ To(w, "leading")
  /\ UNCHANGED <<shared, pool_running, barrier, work, flush>>

\* (mutant) the worker waits for its turn
GiveWayNever(w) == FALSE /\ UNCHANGED vars

\* ... but a leading CPU may be waiting for this thread to end.
GiveWay(w) ==
  /\ wpc[w] = "lead" /\ shared /\ leader # None /\ ~pool_running
  /\ Abandoned(w)

\* A single CPU is stopped: cpu.stop() clears its flag and joins its thread.
StopCpu(w) ==
  /\ wpc[w] = "lead" /\ ~shared
  /\ running' = [c \in Cpus |-> FALSE]
  /\ To(w, "leading")
  /\ UNCHANGED <<shared, slot, stops, leader, hook, pc, todo, pool_running, barrier, work, flush>>

\* (mutant) the join is not waited for
CpusStillSoon(w) == IF shared THEN pc[w] = "alone" ELSE \A c \in Cpus : ~running[c]

CpusStill(w) == IF shared THEN pc[w] = "alone" ELSE \A c \in Cpus : pc[c] = "off"

\* Then drain_and flush_from_jit_thread under the lock of Jitv2.
FlushFromWorker(w) ==
  /\ wpc[w] = "leading" /\ CpusStill(w) /\ jit = None
  /\ mega_flush
  /\ To(w, "publish")
  /\ UNCHANGED <<shared, worldVars, pool_running, barrier, goal, codegen, flush>>

\* A fresh arena for everyone.
Publish(w) ==
  /\ wpc[w] = "publish"
  /\ codegen' = [v \in Workers |-> IF v = w THEN "current" ELSE "flushed"]
  /\ Release(TRUE)
  /\ To(w, "clear")
  /\ UNCHANGED <<shared, worldVars, pool_running, quiesce, goal, queue, job, flush>>

\* The CPUs go on before the worker does.
Restart(w) ==
  /\ wpc[w] = "restart"
  /\ IF shared THEN Done(w) ELSE Start(CHOOSE c \in Cpus : TRUE)
  /\ goal' = [goal EXCEPT ![w] = "none"]
  /\ To(w, "loop")
  /\ UNCHANGED <<shared, pool_running, barrier, queue, job, codegen, flush>>

-----------------------------------------------------------------------------
(* The CPUs *)

\* push_compile_request drops what does not fit.  The hot lane of
\* push_hot_request is popped before the queue and drained with it: it changes
\* the order of requests only, and they are all alike here.
Request(c) ==
  /\ pc[c] = "run" /\ fpc[c] = "none" /\ Len(queue) < QueueCap
  /\ queue' = Append(queue, "current")
  /\ UNCHANGED <<shared, worldVars, pool_running, barrier, wpc, goal, job, codegen, flush>>

At(c, place) == fpc' = [fpc EXCEPT ![c] = place]

\* jitv2_flush_from_here: one CPU just flushes, several stop the others first.
\* CompileQueue::stop begins, under the lock of Jitv2.
FlushFromCpu(c) ==
  /\ pc[c] = (IF shared THEN "alone" ELSE "run") /\ fpc[c] = "none" /\ jit = None
  /\ jit' = c /\ pool_running' = FALSE /\ At(c, "join")
  /\ UNCHANGED <<shared, worldVars, barrier, wpc, work>>

\* only_if_exhausted: the CPU ahead in line has flushed already.
NoFlush(c) ==
  /\ shared /\ pc[c] = "alone" /\ fpc[c] = "none" /\ jit = None
  /\ At(c, "done")
  /\ UNCHANGED <<shared, worldVars, pool_running, barrier, wpc, work, jit>>

\* The workers are gone; drain, flush, start again on a new arena.
Joined(c) ==
  /\ fpc[c] = "join" /\ \A w \in Workers : wpc[w] = "off"
  /\ mega_flush
  /\ pool_running' = TRUE /\ wpc' = [w \in Workers |-> "born"]
  /\ codegen' = [w \in Workers |-> "current"]
  /\ At(c, "locked")
  /\ UNCHANGED <<shared, worldVars, barrier, goal, jit>>

UnlockJit(c) ==
  /\ fpc[c] = "locked"
  /\ jit' = None /\ At(c, "done")
  /\ UNCHANGED <<shared, worldVars, pool_running, barrier, wpc, work>>

Return(c) ==
  /\ fpc[c] = "done"
  /\ At(c, "none")
  /\ IF shared THEN Done(c) ELSE UNCHANGED worldVars
  /\ UNCHANGED <<shared, pool_running, barrier, wpc, work, jit>>

-----------------------------------------------------------------------------
WorkerStep(w) ==
  \/ Begin(w) \/ Loop(w) \/ Pop(w) \/ Idle(w) \/ Compile(w) \/ Elect(w) \/ Arrive(w) \/ Resume(w)
  \/ GiveUp(w) \/ Gathered(w) \/ Abandon(w) \/ Seal(w) \/ Clear(w) \/ Lead(w) \/ GiveWay(w)
  \/ StopCpu(w) \/ FlushFromWorker(w) \/ Publish(w) \/ Restart(w)
FlushStep(c) == FlushFromCpu(c) \/ NoFlush(c) \/ Joined(c) \/ UnlockJit(c) \/ Return(c)

\* What the CPUs and leaders do by themselves.  A CPU that flushes does not
\* run on.
CpuStep(c) == /\ fpc[c] = "none"
              /\ Top(c) \/ Batch(c) \/ Park(c) \/ Unpark(c) \/ Exit(c) \/ (shared /\ Ask(c))
                 \/ Lock(c) \/ Turn(c)
              /\ UNCHANGED <<shared, poolVars>>
LeadStep(t) == Leads(t) /\ UNCHANGED <<shared, poolVars>>

Next ==
  \/ \E w \in Workers : WorkerStep(w)
  \/ \E c \in Cpus : CpuStep(c) \/ FlushStep(c) \/ Request(c)
  \/ \E t \in Threads : LeadStep(t)

Spec == Init /\ [][Next]_vars

\* Threads run, batches end, compiles end, the leader's lock is eventually fair;
\* a worker that polls for the lead may be passed over for ever.
Fairness ==
  /\ \A w \in Workers : WF_vars(WorkerStep(w))
  /\ \A t \in Threads : WF_vars(LeadStep(t))
  /\ \A c \in Cpus :
       /\ WF_vars(FlushStep(c))
       /\ WF_vars(CpuStep(c) /\ (Top(c) \/ Park(c) \/ Unpark(c) \/ Exit(c) \/ Turn(c)))
       /\ SF_vars(CpuStep(c) /\ Batch(c)) /\ SF_vars(CpuStep(c) /\ Lock(c))

LiveSpec == Spec /\ Fairness

-----------------------------------------------------------------------------
(* Properties *)

Places == {"born", "off", "loop", "pop", "compile", "elect", "arrive", "parked", "gather", "seal", "clear",
           "lead", "leading", "publish", "restart"}

\* Every variable has its type; no more workers are counted at the barrier
\* than there are to wait for.
PoolTypeOK ==
  /\ shared \in BOOLEAN /\ pool_running \in BOOLEAN /\ quiesce \in BOOLEAN /\ was_flush \in BOOLEAN
  /\ parked_count \in 0 .. Cardinality(Workers) - 1 /\ passed \subseteq Workers
  /\ wpc \in [Workers -> Places] /\ goal \in [Workers -> {"none", "flush", "seal"}]
  /\ codegen \in [Workers -> {"current", "flushed"}]
  /\ Len(queue) <= QueueCap /\ job \in [Workers -> {"none", "current", "flushed"}]
  /\ jit \in Cpus \cup {None} /\ fpc \in [Cpus -> {"none", "join", "locked", "done"}]

\* No worker compiles a request for a page that was flushed since, or into an
\* arena that was replaced: the pointers in both would dangle.
CompilesCurrent ==
  \A w \in Workers : wpc[w] = "compile" => job[w] = "current" /\ codegen[w] = "current"

\* While a worker seals or flushes no other worker is in a compile or on its
\* way into one.
QuiesceAlone ==
  \A w, v \in Workers : w # v /\ wpc[w] \in {"seal", "publish"} =>
    wpc[v] \notin {"pop", "compile", "seal", "publish"}

\* While the page pool is cleared, by a worker or from a CPU, no other CPU
\* executes code that may be compiled from it.
FlushAlone ==
  /\ \A w \in Workers : wpc[w] = "publish" => \A c \in Cpus : pc[c] \notin Touching
  /\ \A c \in Cpus : fpc[c] = "locked" => \A d \in Cpus \ {c} : pc[d] \notin Touching

\* A pool that was stopped in the middle of anything starts with its barrier
\* open and empty.
CleanRestart ==
  (\A w \in Workers : wpc[w] \in {"off", "born"}) => ~quiesce /\ parked_count = 0

\* Why: one worker leads while the flag is up; the count is the number of
\* workers the leader can still rely on; those stay parked until it is done,
\* unless the pool stops, and then they do nothing more; an old arena is left
\* only to workers that rebuild it or end.
Leading == {"gather", "seal", "lead", "leading", "publish", "clear"}
Relying == {"seal", "lead", "leading", "publish"}
Waiting == {v \in Workers : wpc[v] = "parked" /\ v \notin passed}
BarrierInv ==
  /\ quiesce <=> \E w \in Workers : wpc[w] \in Leading
  /\ \A w, v \in Workers : wpc[w] \in Leading /\ wpc[v] \in Leading => w = v
  /\ parked_count = Cardinality(Waiting)
  /\ \A w \in Workers : wpc[w] \in Relying => \A v \in Workers \ {w} :
       v \in Waiting \/ (~pool_running /\ wpc[v] \in {"loop", "off"})
  /\ \A w \in Workers : job[w] = "flushed" => wpc[w] # "compile"
  /\ \A w \in Workers : codegen[w] = "flushed" =>
       \/ wpc[w] = "parked" /\ w \in passed /\ was_flush
       \/ wpc[w] \in {"parked", "loop", "off"} /\ ~pool_running

\* Both together: what the leader and the followers of worker_loop leave to
\* each other, counted in range.
PoolInv == PoolTypeOK /\ BarrierInv

Joining == \E c \in Cpus : fpc[c] = "join"

\* Where several CPUs share the pool, a CPU that stops the workers to flush
\* (flush_from_cpu_thread) sees them end, whatever they lead or wait for: a
\* worker that wants to flush gives way to the CPU that joins it.  A worker that
\* is still on its way into its loop is the exception.
SharedFlushEnds == (shared /\ Joining) ~> (~Joining \/ \E w \in Workers : wpc[w] = "born")
=============================================================================
