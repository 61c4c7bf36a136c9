------------------------------- MODULE World --------------------------------
(***************************************************************************)
(* Several CPUs in one machine (src/src/cpu/smp.rs) and the run loop of a  *)
(* CPU thread (src/src/cpu/mips_exec.rs): a CPU that is held stops at the  *)
(* next boundary between batches, and one thread at a time, the leader,    *)
(* holds all the others to have the machine to itself.  HEART's MODE       *)
(* register holds CPUs too, for as long as the guest likes.                *)
(*                                                                         *)
(* A slot's fields change under its lock, so each call on a slot is one    *)
(* step; the places of pc lie between the calls.                           *)
(***************************************************************************)
EXTENDS FiniteSets, Naturals

CONSTANTS Cpus,
          Others,        \* threads that lead and run no CPU: the compile workers
          None,
          Disables,      \* does the guest use HEART's disable bits?
          Remappers,     \* CPUs on which the guest moves memory banks
          MaxStops       \* bound: times CPU threads are stopped

ASSUME WorldAssumption == Cpus # {} /\ Cpus \cap Others = {} /\ None \notin Cpus \cup Others
ASSUME WorldBounds == Disables \in BOOLEAN /\ Remappers \subseteq Cpus /\ MaxStops \in Nat

VARIABLES
  holds, parked, active,   \* ParkSlot: why the CPU is held, parked, active
  bit,                     \* HOST_PARK_BIT of the CPU's interrupt word
  running, stops,          \* MipsCpu::running; threads stopped so far
  leader, hook,            \* owners of World::leader and of HEART's memcfg_hook
  pc, todo                 \* place of a thread; slots its loop has yet to visit

slot == <<holds, parked, active, bit>>
run == <<running, stops>>
worldVars == <<slot, run, leader, hook, pc, todo>>

Threads == Cpus \cup Others

\* The machine starts with a thread for each CPU of on.
WorldInit(on) ==
  /\ holds = [c \in Cpus |-> {}] /\ bit = [c \in Cpus |-> FALSE]
  /\ parked = [c \in Cpus |-> FALSE] /\ active = [c \in Cpus |-> c \in on]
  /\ running = [c \in Cpus |-> c \in on]
  /\ stops = 0 /\ leader = None /\ hook = None
  /\ pc = [t \in Threads |-> IF t \in on THEN "top" ELSE IF t \in Cpus THEN "off" ELSE "out"]
  /\ todo = [t \in Threads |-> {}]

Goto(t, place) == pc' = [pc EXCEPT ![t] = place]

-----------------------------------------------------------------------------
(* ParkSlot *)

hold(c, why) ==
  /\ holds' = [holds EXCEPT ![c] = @ \cup {why}]
  /\ bit' = [bit EXCEPT ![c] = TRUE]

\* The bit goes when no reason is left.
release(c, why) ==
  /\ holds' = [holds EXCEPT ![c] = @ \ {why}]
  /\ bit' = [bit EXCEPT ![c] = @ /\ holds'[c] # {}]

is_parked(c) == parked[c] \/ ~active[c]

mark_parked(c, on) == parked' = [parked EXCEPT ![c] = on]

-----------------------------------------------------------------------------
(* A CPU thread.  It touches guest state in a batch, asleep in an idle loop  *)
(* or a WAIT included, and nowhere else.                                     *)

Start(c) ==
  /\ pc[c] = "off"
  /\ running' = [running EXCEPT ![c] = TRUE]
  /\ active' = [active EXCEPT ![c] = TRUE]
  /\ Goto(c, "top")
  /\ UNCHANGED <<holds, parked, bit, stops, leader, hook, todo>>

\* halt clears the flag; the thread it joins sees that in its own time.
Halt(c) ==
  /\ running[c] /\ stops < MaxStops /\ stops' = stops + 1
  /\ running' = [running EXCEPT ![c] = FALSE]
  /\ UNCHANGED <<slot, leader, hook, pc, todo>>

\* (mutant) a CPU looks at the bit only after a batch
TopLate(c) ==
  /\ pc[c] = "top"
  /\ Goto(c, IF ~running[c] THEN "exit" ELSE "run")
  /\ UNCHANGED <<slot, run, leader, hook, todo>>

\* The head of the run loop.
Top(c) ==
  /\ pc[c] = "top"
  /\ Goto(c, IF ~running[c] THEN "exit" ELSE IF bit[c] THEN "leave" ELSE "run")
  /\ UNCHANGED <<slot, run, leader, hook, todo>>

\* A batch ends; one that saw the bit in a preamble ends early.
Batch(c) ==
  /\ pc[c] = "run"
  /\ Goto(c, "top")
  /\ UNCHANGED <<slot, run, leader, hook, todo>>

\* idle_park::park or pace, or park_wait in a WAIT instruction.
Doze(c) ==
  /\ pc[c] = "run"
  /\ Goto(c, "doze")
  /\ UNCHANGED <<slot, run, leader, hook, todo>>

\* (mutant) the sleeper looks for interrupts only
WokenByIrq(c) == FALSE

\* What each of the three loops breaks for, looked at every slice at least.
Woken(c) == bit[c]

WakeHeld(c) ==
  /\ pc[c] = "doze" /\ Woken(c)
  /\ Goto(c, "run")
  /\ UNCHANGED <<slot, run, leader, hook, todo>>

\* An interrupt, the end of the slice of pace, or a cleared running flag, which
\* park and pace look at and park_wait does not.
WakeIrq(c) ==
  /\ pc[c] = "doze" /\ ~Woken(c)
  /\ Goto(c, "run")
  /\ UNCHANGED <<slot, run, leader, hook, todo>>

\* ParkSlot::park, with the executor unlocked.
Park(c) ==
  /\ pc[c] = "leave"
  /\ mark_parked(c, TRUE)
  /\ Goto(c, "park")
  /\ UNCHANGED <<holds, active, bit, run, leader, hook, todo>>

\* (mutant) any notification ends the wait
UnparkAny(c) ==
  /\ pc[c] = "park"
  /\ mark_parked(c, FALSE)
  /\ Goto(c, "top")
  /\ UNCHANGED <<holds, active, bit, run, leader, hook, todo>>

Unpark(c) ==
  /\ pc[c] = "park" /\ (holds[c] = {} \/ ~running[c])
  /\ mark_parked(c, FALSE)
  /\ Goto(c, "top")
  /\ UNCHANGED <<holds, active, bit, run, leader, hook, todo>>

Exit(c) ==
  /\ pc[c] = "exit"
  /\ active' = [active EXCEPT ![c] = FALSE]
  /\ Goto(c, "off")
  /\ UNCHANGED <<holds, parked, bit, run, leader, hook, todo>>

\* HEART's apply_disables: the guest on c holds or releases CPU d.
Disable(c, d) ==
  /\ Disables /\ pc[c] = "run" /\ "heart" \notin holds[d]
  /\ hold(d, "heart")
  /\ UNCHANGED <<parked, active, run, leader, hook, pc, todo>>

Enable(c, d) ==
  /\ Disables /\ pc[c] = "run" /\ "heart" \in holds[d]
  /\ release(d, "heart")
  /\ UNCHANGED <<parked, active, run, leader, hook, pc, todo>>

-----------------------------------------------------------------------------
(* World *)

\* stop_others on a CPU: until its turn comes the CPU counts as parked.
Ask(c) ==
  /\ pc[c] = "run"
  /\ mark_parked(c, TRUE)
  /\ Goto(c, "ask")
  /\ UNCHANGED <<holds, active, bit, run, leader, hook, todo>>

\* HEART's memcfg_changed calls stop_others with its hook locked: the other
\* CPU that writes a descriptor waits for the hook first.
Remap(c) ==
  /\ c \in Remappers /\ pc[c] = "run"
  /\ Goto(c, "hook")
  /\ UNCHANGED <<slot, run, leader, hook, todo>>

RemapAsk(c) ==
  /\ pc[c] = "hook" /\ hook = None
  /\ hook' = c
  /\ mark_parked(c, TRUE)
  /\ Goto(c, "ask")
  /\ UNCHANGED <<holds, active, bit, run, leader, todo>>

Lock(c) ==
  /\ pc[c] = "ask" /\ leader = None
  /\ leader' = c
  /\ Goto(c, "turn")
  /\ UNCHANGED <<slot, run, hook, todo>>

\* Its turn has come; hold_others begins.
Turn(c) ==
  /\ pc[c] = "turn"
  /\ mark_parked(c, FALSE)
  /\ todo' = [todo EXCEPT ![c] = Cpus \ {c}]
  /\ Goto(c, "hold")
  /\ UNCHANGED <<holds, active, bit, run, leader, hook>>

try_lead(o) ==
  /\ pc[o] = "out" /\ leader = None
  /\ leader' = o
  /\ todo' = [todo EXCEPT ![o] = Cpus]
  /\ Goto(o, "hold")
  /\ UNCHANGED <<slot, run, hook>>

\* hold_others asks every other CPU to stop, ...
Hold(t) ==
  /\ pc[t] = "hold"
  /\ \E c \in todo[t] :
       /\ hold(c, "world")
       /\ todo' = [todo EXCEPT ![t] = @ \ {c}]
  /\ UNCHANGED <<parked, active, run, leader, hook, pc>>

\* (mutant) the loop stops short
HeldShort(t) ==
  /\ pc[t] = "hold" /\ Cardinality(todo[t]) <= 1
  /\ todo' = [todo EXCEPT ![t] = Cpus \ {t}]
  /\ Goto(t, "wait")
  /\ UNCHANGED <<slot, run, leader, hook>>

Held(t) ==
  /\ pc[t] = "hold" /\ todo[t] = {}
  /\ todo' = [todo EXCEPT ![t] = Cpus \ {t}]
  /\ Goto(t, "wait")
  /\ UNCHANGED <<slot, run, leader, hook>>

\* (mutant) a thread that is exiting is not waited for
WaitLoose(t) ==
  /\ pc[t] = "wait"
  /\ \E c \in todo[t] : /\ is_parked(c) \/ ~running[c]
                        /\ todo' = [todo EXCEPT ![t] = @ \ {c}]
  /\ UNCHANGED <<slot, run, leader, hook, pc>>

\* ... then waits for each to be parked or to have no thread.
Wait(t) ==
  /\ pc[t] = "wait"
  /\ \E c \in todo[t] : /\ is_parked(c)
                        /\ todo' = [todo EXCEPT ![t] = @ \ {c}]
  /\ UNCHANGED <<slot, run, leader, hook, pc>>

Alone(t) ==
  /\ pc[t] = "wait" /\ todo[t] = {}
  /\ Goto(t, "alone")
  /\ UNCHANGED <<slot, run, leader, hook, todo>>

\* The leader's work is done; WorldHold::drop begins, ...
Done(t) ==
  /\ pc[t] = "alone"
  /\ todo' = [todo EXCEPT ![t] = Cpus \ {t}]
  /\ Goto(t, "drop")
  /\ UNCHANGED <<slot, run, leader, hook>>

Drop(t) ==
  /\ pc[t] = "drop"
  /\ \E c \in todo[t] :
       /\ release(c, "world")
       /\ todo' = [todo EXCEPT ![t] = @ \ {c}]
  /\ UNCHANGED <<parked, active, run, leader, hook, pc>>

\* ... and the leader's lock goes last.
Unlock(t) ==
  /\ pc[t] = "drop" /\ todo[t] = {}
  /\ leader' = None /\ hook' = IF hook = t THEN None ELSE hook
  /\ Goto(t, IF t \in Cpus THEN "run" ELSE "out")
  /\ UNCHANGED <<slot, run, todo>>

-----------------------------------------------------------------------------
Runs(c) == Top(c) \/ Batch(c) \/ Doze(c) \/ WakeHeld(c) \/ WakeIrq(c) \/ Park(c)
           \/ Unpark(c) \/ Exit(c) \/ \E d \in Cpus : Disable(c, d) \/ Enable(c, d)
Leads(t) == Hold(t) \/ Held(t) \/ Wait(t) \/ Alone(t) \/ Drop(t) \/ Unlock(t)

WorldNext ==
  \/ \E c \in Cpus : Runs(c) \/ Start(c) \/ Halt(c) \/ Ask(c) \/ Remap(c) \/ RemapAsk(c) \/ Lock(c) \/ Turn(c)
  \/ \E o \in Others : try_lead(o)
  \/ \E t \in Threads : Leads(t) \/ Done(t)

WorldSpec == WorldInit(Cpus) /\ [][WorldNext]_worldVars

\* Host threads run; a sleeper looks at its word every slice; a batch has so many
\* instructions, sleeps included; the leader's lock (parking_lot's, eventually
\* fair) passes over nobody for ever.  Nobody need
\* start, stop, hold or release a CPU, and no interrupt need come.
WorldFairness ==
  /\ \A c \in Cpus : /\ WF_worldVars(Top(c) \/ Park(c) \/ Unpark(c) \/ Exit(c) \/ Turn(c))
                     /\ WF_worldVars(WakeHeld(c))
                     /\ SF_worldVars(Batch(c)) /\ SF_worldVars(Lock(c)) /\ SF_worldVars(RemapAsk(c))
  /\ \A t \in Threads : WF_worldVars(Leads(t)) /\ WF_worldVars(Done(t))

WorldLive == WorldSpec /\ WorldFairness

-----------------------------------------------------------------------------
(* Properties *)

Reasons == {"heart", "world"}
CpuPlaces == {"off", "top", "run", "doze", "leave", "park", "exit", "hook", "ask", "turn"}
LeadPlaces == {"hold", "wait", "alone", "drop"}
Touching == {"run", "doze", "hook"}

\* Every variable has its type, and the bit in a CPU's word says that its slot
\* has a reason to hold it.
WorldTypeOK ==
  /\ holds \in [Cpus -> SUBSET Reasons]
  /\ parked \in [Cpus -> BOOLEAN] /\ active \in [Cpus -> BOOLEAN] /\ running \in [Cpus -> BOOLEAN]
  /\ bit \in [Cpus -> BOOLEAN] /\ \A c \in Cpus : bit[c] <=> holds[c] # {}
  /\ leader \in Threads \cup {None} /\ hook \in Cpus \cup {None} /\ stops \in 0 .. MaxStops
  /\ pc \in [Threads -> CpuPlaces \cup LeadPlaces \cup {"out"}]
  /\ todo \in [Threads -> SUBSET Cpus]

\* While a leader has the machine to itself no other CPU touches guest state,
\* whoever is stopped, started, disabled, enabled or next in line meanwhile.
Exclusive ==
  \A t \in Threads : pc[t] = "alone" => \A c \in Cpus \ {t} : pc[c] \notin Touching \cup LeadPlaces

\* What a leader can rely on at each step of hold_others and of the drop: it
\* alone leads; the CPUs it has held are held; one it has seen parked or gone
\* stays away from guest state until it is released.
AsksFor(t, c) ==
  \/ pc[t] = "hold" /\ c \notin todo[t]
  \/ pc[t] \in {"wait", "alone"}
  \/ pc[t] = "drop" /\ c \in todo[t]
HasSeen(t, c) == pc[t] = "alone" \/ (pc[t] = "wait" /\ c \notin todo[t])
Still == {"off", "top", "leave", "park", "ask", "exit"}
LeaderInv ==
  /\ \A t \in Threads : pc[t] \in LeadPlaces \cup {"turn"} => leader = t
  /\ \A c \in Cpus : parked[c] => pc[c] \in {"park", "ask", "turn"}
  /\ \A c \in Cpus : active[c] \/ pc[c] = "off"
  /\ \A t \in Threads : \A c \in Cpus \ {t} :
       /\ AsksFor(t, c) => "world" \in holds[c]
       /\ HasSeen(t, c) => pc[c] \in Still

\* Both together are inductive: what hold_others, wait_parked and the drop
\* leave to the next step.
WInv == WorldTypeOK /\ LeaderInv

\* A CPU that HEART disabled starts no batch, though leaders hold and release
\* it in between.
DisabledStaysStill ==
  [][\A c \in Cpus : "heart" \in holds[c] /\ pc[c] = "top" => pc'[c] # "run"]_worldVars

\* A hold that stays takes effect: the CPU parks, whatever it was doing, or its
\* thread is gone.
HoldTakesEffect ==
  \A c \in Cpus : holds[c] # {} ~> (holds[c] = {} \/ is_parked(c))

\* Whoever asks for the machine gets it: leaders take turns and do not wait for
\* each other.
TurnsTaken == \A c \in Cpus : pc[c] = "ask" ~> pc[c] = "alone"
=============================================================================
