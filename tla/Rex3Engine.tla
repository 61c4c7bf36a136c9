----------------------------- MODULE Rex3Engine -----------------------------
(***************************************************************************)
(* The drawing engine of the Newport board (src/src/dev/ng1/rex3.rs): the  *)
(* CPU and the VDMA worker queue register writes, the REX3-Processor       *)
(* thread applies them and parks when there are none, reads wait for the   *)
(* pipeline to be idle, and the machine stops and restarts the thread.     *)
(*                                                                         *)
(* The ring itself is GFifo; here it is the queue GFifo implements: a push *)
(* is atomic, an entry leaves when it is retired, is_empty says whether    *)
(* any is left.  A push or publish_tail that finds the ring locked leaves  *)
(* nothing behind and is retried: a stuttering step.                       *)
(***************************************************************************)
EXTENDS Naturals, Sequences

CONSTANTS Cap,            \* entries the ring holds
          MaxGen,         \* bound: processor threads started
          MaxWords,       \* bound: words of one VDMA transfer
          StopWhenHalted, \* may a halted machine be stopped again?
          StoreBuffered   \* may the store to processor_parked linger in a store buffer?

ASSUME CapAssumption == Cap \in Nat \ {0}
ASSUME BoundAssumption == MaxGen \in Nat /\ MaxWords \in Nat
ASSUME FlagAssumption == StopWhenHalted \in BOOLEAN /\ StoreBuffered \in BOOLEAN

\* The guest's CPU thread and the MC-DMA worker.
Clients == {"cpu", "dma"}
Go   == "go"      \* a register write, PURE_GO or batch token: something to execute
Exit == "exit"    \* GFIFO_EXIT

VARIABLES
  running, gfxbusy, fifo,
  processor_parked, unparker,     \* unparker: the thread it wakes, 0 before the first
  ppc, gen, is_busy, token,       \* the processor thread: place, which one, local flag, unpark token
  buffered,                       \* processor_parked = true is still in its store buffer
  applied,                        \* the entry at the head of the ring has been executed
  cpc, owed, todo,                \* clients: place, earlier entries not executed; words left to move
  ctl, handle                     \* the machine controller, and its join handle

engine == <<running, gfxbusy, fifo, applied>>
park   == <<processor_parked, unparker, token, buffered>>
proc   == <<ppc, gen, is_busy>>
client == <<cpc, owed, todo>>
vars   == <<engine, park, proc, client, ctl, handle>>

Init ==
  /\ running = FALSE /\ gfxbusy = FALSE /\ fifo = <<>> /\ applied = FALSE
  /\ processor_parked = FALSE /\ unparker = 0 /\ token = FALSE /\ buffered = FALSE
  /\ ppc = "none" /\ gen = 0 /\ is_busy = FALSE
  /\ cpc = [c \in Clients |-> "idle"]
  /\ owed = [c \in Clients |-> 0]
  /\ todo = 0
  /\ ctl = "halted" /\ handle = FALSE

\* Entries queued and not executed yet.
Unapplied == IF applied THEN Len(fifo) - 1 ELSE Len(fifo)

Goto(c, place) == cpc' = [cpc EXCEPT ![c] = place]

\* The tail of every gfifo_push: wake the consumer if it says it is parked.
WakeConsumer ==
  /\ token' = (token \/ (processor_parked /\ unparker = gen))
  /\ UNCHANGED <<processor_parked, unparker, buffered>>

-----------------------------------------------------------------------------
(* Clients *)

\* bus_write32: try_push; a full ring is BUS_BUSY and the CPU retries.
Write ==
  /\ cpc["cpu"] = "idle" /\ ctl = "run" /\ Len(fifo) < Cap
  /\ fifo' = Append(fifo, Go)
  /\ Goto("cpu", "check")
  /\ UNCHANGED <<running, gfxbusy, applied, park, proc, owed, todo, ctl, handle>>

\* A register with effects on the CPU thread, written with GO, queues PURE_GO
\* with the push that spins.
WriteGo ==
  /\ cpc["cpu"] = "idle" /\ ctl = "run"
  /\ Goto("cpu", "push")
  /\ UNCHANGED <<engine, park, proc, owed, todo, ctl, handle>>

\* bus_read32 of a register behind busy_or_val!
Read ==
  /\ cpc["cpu"] = "idle" /\ ctl = "run"
  /\ owed' = [owed EXCEPT !["cpu"] = Unapplied]
  /\ Goto("cpu", "gate_busy")
  /\ UNCHANGED <<engine, park, proc, todo, ctl, handle>>

\* (mutant) the gate asks gfxbusy only
GateBusyOnly ==
  /\ cpc["cpu"] = "gate_busy"
  /\ Goto("cpu", IF gfxbusy THEN "idle" ELSE "value")
  /\ UNCHANGED <<engine, park, proc, owed, todo, ctl, handle>>

GateBusy ==
  /\ cpc["cpu"] = "gate_busy"
  /\ Goto("cpu", IF gfxbusy THEN "idle" ELSE "gate_empty")
  /\ UNCHANGED <<engine, park, proc, owed, todo, ctl, handle>>

GateEmpty ==
  /\ cpc["cpu"] = "gate_empty"
  /\ Goto("cpu", IF fifo = <<>> THEN "value" ELSE "idle")
  /\ UNCHANGED <<engine, park, proc, owed, todo, ctl, handle>>

\* The value is taken; a GO read queues PURE_GO the same way.
Value ==
  /\ cpc["cpu"] = "value"
  /\ \E next \in {"idle", "push"} : Goto("cpu", next)
  /\ UNCHANGED <<engine, park, proc, owed, todo, ctl, handle>>

\* The guest starts a transfer; the worker moves it a word at a time.
Transfer ==
  /\ ctl = "run" /\ todo = 0 /\ cpc["dma"] = "idle"
  /\ todo' = MaxWords
  /\ UNCHANGED <<engine, park, proc, cpc, owed, ctl, handle>>

Word ==
  /\ cpc["dma"] = "idle" /\ todo > 0
  /\ todo' = todo - 1
  /\ Goto("dma", "push")
  /\ UNCHANGED <<engine, park, proc, owed, ctl, handle>>

\* gfifo_push: spins while the ring is full.
Push(c) ==
  /\ cpc[c] = "push" /\ Len(fifo) < Cap
  /\ fifo' = Append(fifo, Go)
  /\ owed' = [owed EXCEPT ![c] = Unapplied + 1]
  /\ Goto(c, "check")
  /\ UNCHANGED <<running, gfxbusy, applied, park, proc, todo, ctl, handle>>

\* A word to the host waits for its GO (bus_dma_read64); one to the board does not.
Check(c) ==
  /\ cpc[c] = "check"
  /\ WakeConsumer
  /\ \E next \in IF c = "dma" THEN {"wait_busy", "idle"} ELSE {"idle"} : Goto(c, next)
  /\ UNCHANGED <<engine, proc, owed, todo, ctl, handle>>

\* wait_idle
WaitBusy ==
  /\ cpc["dma"] = "wait_busy"
  /\ Goto("dma", IF gfxbusy THEN "wait_run" ELSE "wait_empty")
  /\ UNCHANGED <<engine, park, proc, owed, todo, ctl, handle>>

WaitEmpty ==
  /\ cpc["dma"] = "wait_empty"
  /\ Goto("dma", IF fifo = <<>> THEN "hostrw" ELSE "wait_run")
  /\ UNCHANGED <<engine, park, proc, owed, todo, ctl, handle>>

WaitRun ==
  /\ cpc["dma"] = "wait_run"
  /\ Goto("dma", IF running THEN "wait_busy" ELSE "hostrw")
  /\ UNCHANGED <<engine, park, proc, owed, todo, ctl, handle>>

\* The word the GO latched is read out of the context.
HostRw ==
  /\ cpc["dma"] = "hostrw"
  /\ Goto("dma", "idle")
  /\ UNCHANGED <<engine, park, proc, owed, todo, ctl, handle>>

Client ==
  \/ Write \/ WriteGo \/ Read \/ GateBusy \/ GateEmpty \/ Value
  \/ Transfer \/ Word \/ WaitBusy \/ WaitEmpty \/ WaitRun \/ HostRw
  \/ \E c \in Clients : Push(c) \/ Check(c)

-----------------------------------------------------------------------------
(* register_processor *)

\* The OnceLock keeps the handle of the first thread that sets it.
Spawned ==
  /\ ppc = "spawned"
  /\ unparker' = IF unparker = 0 THEN gen ELSE unparker
  /\ ppc' = "peek"
  /\ UNCHANGED <<engine, processor_parked, token, buffered, gen, is_busy, client, ctl, handle>>

Peek ==
  /\ ppc = "peek"
  /\ ppc' = IF fifo = <<>> THEN "empty" ELSE "apply"
  /\ gfxbusy' = (fifo # <<>> \/ gfxbusy)
  /\ is_busy' = (fifo # <<>> \/ is_busy)
  /\ UNCHANGED <<running, fifo, applied, park, gen, client, ctl, handle>>

\* process_register and execute_go
Apply ==
  /\ ppc = "apply"
  /\ applied' = TRUE
  /\ owed' = [c \in Clients |-> IF owed[c] = 0 THEN 0 ELSE owed[c] - 1]
  /\ ppc' = "consume"
  /\ UNCHANGED <<running, gfxbusy, fifo, park, gen, is_busy, cpc, todo, ctl, handle>>

Consume ==
  /\ ppc = "consume"
  /\ fifo' = Tail(fifo)
  /\ applied' = FALSE
  /\ ppc' = IF Head(fifo) = Exit THEN "leave" ELSE "peek"
  /\ UNCHANGED <<running, gfxbusy, park, gen, is_busy, client, ctl, handle>>

Leave ==
  /\ ppc = "leave"
  /\ gfxbusy' = FALSE
  /\ ppc' = "done"
  /\ UNCHANGED <<running, fifo, applied, park, gen, is_busy, client, ctl, handle>>

\* Nothing queued: not busy any more, then snooze or, once the backoff is
\* complete, park.
Empty ==
  /\ ppc = "empty"
  /\ gfxbusy' = (gfxbusy /\ ~is_busy)
  /\ is_busy' = FALSE
  /\ \E next \in {"peek", "park"} : ppc' = next
  /\ UNCHANGED <<running, fifo, applied, park, gen, client, ctl, handle>>

ParkStore ==
  /\ ppc = "park"
  /\ \/ processor_parked' = TRUE /\ UNCHANGED buffered
     \/ StoreBuffered /\ buffered' = TRUE /\ UNCHANGED processor_parked
  /\ ppc' = "recheck"
  /\ UNCHANGED <<engine, unparker, token, gen, is_busy, client, ctl, handle>>

\* The store buffer drains when it likes.
Drain ==
  /\ buffered
  /\ processor_parked' = TRUE /\ buffered' = FALSE
  /\ UNCHANGED <<engine, unparker, token, proc, client, ctl, handle>>

Recheck ==
  /\ ppc = "recheck"
  /\ ppc' = IF fifo = <<>> THEN "recheck_run" ELSE "unpark"
  /\ UNCHANGED <<engine, park, gen, is_busy, client, ctl, handle>>

\* park_timeout starts with an atomic exchange, which drains the buffer.
RecheckRun ==
  /\ ppc = "recheck_run" /\ ~buffered
  /\ ppc' = IF running THEN "parked" ELSE "unpark"
  /\ UNCHANGED <<engine, park, gen, is_busy, client, ctl, handle>>

\* park_timeout returns: an unpark, or 2 ms are over.
Wake ==
  /\ ppc = "parked"
  /\ ppc' = "unpark" /\ token' = FALSE
  /\ UNCHANGED <<engine, processor_parked, unparker, buffered, gen, is_busy, client, ctl, handle>>

\* (mutant) the flag stays up
UnparkForgets ==
  /\ ppc = "unpark"
  /\ ppc' = "peek"
  /\ UNCHANGED <<engine, park, gen, is_busy, client, ctl, handle>>

\* (mutant) goes back to parking instead of the top of the loop
UnparkStays ==
  /\ ppc = "unpark"
  /\ processor_parked' = FALSE /\ buffered' = FALSE
  /\ ppc' = "park"
  /\ UNCHANGED <<engine, unparker, token, gen, is_busy, client, ctl, handle>>

Unpark ==
  /\ ppc = "unpark"
  /\ processor_parked' = FALSE /\ buffered' = FALSE
  /\ ppc' = "peek"
  /\ UNCHANGED <<engine, unparker, token, gen, is_busy, client, ctl, handle>>

Processor ==
  \/ Spawned \/ Peek \/ Apply \/ Consume \/ Leave \/ Empty
  \/ ParkStore \/ Drain \/ Recheck \/ RecheckRun \/ Wake \/ Unpark

-----------------------------------------------------------------------------
(* Machine::stop, restart_peripherals and load_state, as REX3 sees them *)

\* The CPU thread has been joined; VDMA is only stopped after REX3.
Stop ==
  /\ ctl = "run" \/ (StopWhenHalted /\ ctl = "halted")
  /\ cpc["cpu"] = "idle"
  /\ running' = FALSE
  /\ ctl' = "stop_push"
  /\ UNCHANGED <<gfxbusy, fifo, applied, park, proc, client, handle>>

\* (mutant) EXIT is sent only if there is room at once
StopPushDropsExit ==
  /\ ctl = "stop_push"
  /\ fifo' = IF Len(fifo) < Cap THEN Append(fifo, Exit) ELSE fifo
  /\ ctl' = "stop_check"
  /\ UNCHANGED <<running, gfxbusy, applied, park, proc, client, handle>>

StopPush ==
  /\ ctl = "stop_push" /\ Len(fifo) < Cap
  /\ fifo' = Append(fifo, Exit)
  /\ ctl' = "stop_check"
  /\ UNCHANGED <<running, gfxbusy, applied, park, proc, client, handle>>

StopCheck ==
  /\ ctl = "stop_check"
  /\ WakeConsumer
  /\ ctl' = "join"
  /\ UNCHANGED <<engine, proc, client, handle>>

Join ==
  /\ ctl = "join"
  /\ handle => ppc = "done"
  /\ handle' = FALSE
  /\ ctl' = "stop_mc"
  /\ UNCHANGED <<engine, park, proc, client>>

\* MemoryController::stop joins the worker, which first finishes its transfer.
StopMc ==
  /\ ctl = "stop_mc" /\ cpc["dma"] = "idle" /\ todo = 0
  /\ ctl' = "halted"
  /\ UNCHANGED <<engine, park, proc, client, handle>>

\* load_state resets the ring and gfxbusy.
LoadState ==
  /\ ctl = "halted"
  /\ fifo' = <<>> /\ gfxbusy' = FALSE
  /\ UNCHANGED <<running, applied, park, proc, client, ctl, handle>>

Start ==
  /\ ctl = "halted" /\ gen < MaxGen
  /\ running' = TRUE
  /\ gen' = gen + 1 /\ ppc' = "spawned" /\ is_busy' = FALSE /\ token' = FALSE
  /\ handle' = TRUE
  /\ ctl' = "run"
  /\ UNCHANGED <<gfxbusy, fifo, applied, processor_parked, unparker, buffered, client>>

Stopping == StopPush \/ StopCheck \/ Join \/ StopMc

Next == Client \/ Processor \/ Stop \/ Stopping \/ LoadState \/ Start

Spec == Init /\ [][Next]_vars

\* Every thread that can take a step takes it in the end; whether the guest
\* writes, reads or transfers, and whether the machine is stopped, is free.
Fairness ==
  /\ WF_vars(Processor)
  /\ WF_vars(Stopping)
  /\ WF_vars(GateBusy \/ GateEmpty \/ Value \/ Push("cpu") \/ Check("cpu"))
  /\ WF_vars(Word \/ WaitBusy \/ WaitEmpty \/ WaitRun \/ HostRw \/ Push("dma") \/ Check("dma"))

LiveSpec == Spec /\ Fairness

-----------------------------------------------------------------------------
(* Properties *)

\* Every variable has its type, and the ring never holds more than it can.
TypeOK ==
  /\ running \in BOOLEAN /\ gfxbusy \in BOOLEAN /\ applied \in BOOLEAN
  /\ fifo \in Seq({Go, Exit}) /\ Len(fifo) <= Cap
  /\ processor_parked \in BOOLEAN /\ token \in BOOLEAN /\ buffered \in BOOLEAN
  /\ unparker \in 0 .. MaxGen /\ gen \in 0 .. MaxGen /\ is_busy \in BOOLEAN
  /\ ppc \in {"none", "spawned", "peek", "apply", "consume", "leave", "done", "empty",
              "park", "recheck", "recheck_run", "parked", "unpark"}
  /\ cpc \in [Clients -> {"idle", "check", "push", "gate_busy", "gate_empty", "value",
                          "wait_busy", "wait_empty", "wait_run", "hostrw"}]
  /\ owed \in [Clients -> Nat]
  /\ todo \in 0 .. MaxWords
  /\ ctl \in {"run", "stop_push", "stop_check", "join", "stop_mc", "halted"}
  /\ handle \in BOOLEAN

\* While the machine runs, a register value that busy_or_val! lets through and
\* a word that bus_dma_read64 takes out of the context were read after every
\* entry queued before the read (its own GO included) had been executed.
IdleMeansExecuted ==
  /\ cpc["cpu"] = "value" => owed["cpu"] = 0
  /\ cpc["dma"] = "hostrw" /\ ctl = "run" => owed["dma"] = 0

\* While the machine runs there is a processor thread: start found no EXIT in
\* the ring that an earlier stop left there.
EngineAlive ==
  ctl = "run" => ppc \notin {"none", "leave", "done"}

\* A halted board has no draw half done: the thread has left, nothing is
\* marked busy, and no writer believes there is a sleeper to wake.
HaltedIsQuiet ==
  ctl = "halted" => ppc \in {"none", "done"} /\ ~gfxbusy /\ ~processor_parked

\* A missed unpark costs latency only: while the machine runs, every queued
\* entry is executed.
EntriesExecuted ==
  (ctl = "run" /\ fifo # <<>>) ~> (ppc = "consume" \/ ctl # "run")

\* Machine::stop comes to an end.
StopEnds ==
  (ctl = "stop_push") ~> (ctl = "halted")

-----------------------------------------------------------------------------
(* The inductive invariant, for machines that are not stopped twice *)

\* Who runs in which phase of the machine, and which flags that pins down.
Threads ==
  /\ running <=> (ctl = "run")
  /\ handle <=> (ctl \in {"run", "stop_push", "stop_check", "join"})
  /\ ctl \in {"run", "stop_push"} => ppc \notin {"none", "leave", "done"}
  /\ ctl \in {"stop_check", "join"} => ppc # "none"
  /\ ctl \in {"stop_mc", "halted"} => ppc \in {"none", "done"}
  /\ ctl # "run" => cpc["cpu"] = "idle"
  /\ ctl = "halted" => cpc["dma"] = "idle" /\ todo = 0
  /\ ppc \in {"none", "done"} => ~gfxbusy
  /\ buffered => ppc \in {"recheck", "recheck_run", "unpark"}
  /\ processor_parked => ppc \in {"recheck", "recheck_run", "parked", "unpark"}

NoExit(q) == \A k \in 1 .. Len(q) : q[k] # Exit
OneExit(q) == \E k \in 1 .. Len(q) : q[k] = Exit /\ \A j \in 1 .. Len(q) : q[j] = Exit => j = k

\* The EXIT that stop queued is the only one, and it is in the ring exactly
\* until the thread has retired it.
Exits ==
  /\ ppc \in {"apply", "consume"} => fifo # <<>>
  /\ IF ctl \in {"stop_check", "join"} /\ ppc \notin {"leave", "done"}
     THEN OneExit(fifo)
     ELSE NoExit(fifo)

\* What a waiting client is owed is still in the ring.
Owed ==
  /\ applied <=> (ppc = "consume")
  /\ cpc["cpu"] \in {"gate_busy", "gate_empty", "value"} => owed["cpu"] <= Unapplied
  /\ cpc["dma"] \in {"check", "wait_busy", "wait_empty", "wait_run", "hostrw"}
       => owed["dma"] <= Unapplied
  /\ IdleMeansExecuted

\* The processor thread, its EXIT and the clients' debts fit together in every
\* phase of starting, running and stopping the board.
EngineInv == TypeOK /\ Threads /\ Exits /\ Owed
=============================================================================
