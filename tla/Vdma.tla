-------------------------------- MODULE Vdma --------------------------------
(***************************************************************************)
(* The MC-DMA worker (dma_worker in src/src/dev/mc_vdma.rs) and the guest  *)
(* that programs and polls it through the MC's registers (read32 and       *)
(* write32 in src/src/dev/mc.rs).                                          *)
(*                                                                         *)
(* Two locks are modelled: mc is MemoryController::state, which a register *)
(* access holds from beginning to end, and dma is GioDma::state.  A lock   *)
(* that is taken and released within one step need only be free.           *)
(*                                                                         *)
(* reg is the register block; xlate, ie and gio32 come from CTL and        *)
(* GIO64_ARB, bad and cause say what the page tables do not map.  The page *)
(* tables do not change during a transfer.                                 *)
(***************************************************************************)
EXTENDS VdmaWalk

CONSTANTS LineCounts, Widths, Repeats, Strides, MemAdrs, \* values the guest programs
          Counts,                \* values of COUNT: pairs of zoom_count and byte_count
          BadPages,              \* sets of pages that are not mapped
          PollsWithIe            \* does a guest that enabled the interrupt poll as well?

VARIABLES
  reg, run, run_real, cause, bits,   \* DMA registers; bits are RUN's copy of CAUSE
  irq,                               \* the McDma line of the IOC
  mc, dma,                           \* holders of the two locks
  wpc, job, walk,                    \* worker: place, latched job, what it moved
  gpc, seen, outcome                 \* guest: place, last poll; history: how the transfer ended

device == <<reg, run, run_real, cause, bits>>
vars == <<device, irq, mc, dma, wpc, job, walk, gpc, seen, outcome>>

Zeroed == [memadr |-> 0, line_count |-> 0, line_width |-> 0, line_zoom |-> 0, zoom_count |-> 0,
           byte_count |-> 0, stride |-> 0, to_host |-> FALSE, fill |-> FALSE, dir_up |-> FALSE,
           xlate |-> FALSE, ie |-> FALSE, gio32 |-> FALSE, bad |-> {}, cause |-> "none"]
NoWalk == Begin(Zeroed)
NoPoll == [run |-> FALSE, bits |-> {"none"}]
NoOutcome == [bits |-> {}, memadr |-> 0]

Init ==
  /\ reg = Zeroed /\ run = FALSE /\ run_real = FALSE /\ cause = {} /\ bits = {} /\ irq = FALSE
  /\ mc = "free" /\ dma = "free"
  /\ wpc = "wait" /\ job = Zeroed /\ walk = NoWalk
  /\ gpc = "size" /\ seen = NoPoll /\ outcome = NoOutcome

-----------------------------------------------------------------------------
(* The guest programs a transfer.  No transfer is in flight, so a register  *)
(* write is one step.                                                       *)

Programs(from, to) ==
  /\ gpc = from /\ gpc' = to
  /\ UNCHANGED <<run, run_real, cause, bits, irq, mc, dma, wpc, job, walk, seen, outcome>>

\* SIZE also sets the byte count, ...
WriteSize ==
  /\ Programs("size", "stride")
  /\ \E lc \in LineCounts, lw \in Widths :
       reg' = [reg EXCEPT !.line_count = lc, !.line_width = lw, !.byte_count = lw]

\* ... STRIDE the repetitions, ...
WriteStride ==
  /\ Programs("stride", "count")
  /\ \E lz \in Repeats, st \in Strides :
       reg' = [reg EXCEPT !.line_zoom = lz, !.zoom_count = lz, !.stride = st]

\* ... and COUNT, which a driver need not write, both.
WriteCount ==
  /\ Programs("count", "go")
  /\ \E c \in Counts \cup {<<reg.zoom_count, reg.byte_count>>} :
       reg' = [reg EXCEPT !.zoom_count = c[1], !.byte_count = c[2]]

\* MODE, CTL and MEMADR, then GIO_ADRS (STDMA and MEMADRDS alike), which sets
\* the run bit, releases the DMA lock and notifies the worker.  An unreadable
\* page table raises neither cause nor interrupt, so only a guest that polls
\* meets it here; only a transfer into memory meets a clean page.
Go ==
  /\ gpc = "go" /\ mc = "free" /\ dma = "free"
  /\ \E m \in MemAdrs, th, fl, up, xl, ie, g \in BOOLEAN, b \in BadPages, c \in Causes :
       /\ c = "none" /\ b # {} => ~ie
       /\ c = "CLEAN" => th
       /\ b = {} => c = "none"
       /\ b # {} => xl
       /\ reg' = [reg EXCEPT !.memadr = m, !.to_host = th, !.fill = fl, !.dir_up = up,
                             !.xlate = xl, !.ie = ie, !.gio32 = g, !.bad = b, !.cause = c]
       /\ gpc' = IF ie /\ ~PollsWithIe THEN "sleep" ELSE "poll"
  /\ run' = TRUE /\ run_real' = TRUE
  /\ wpc' = IF wpc = "wait" THEN "woken" ELSE wpc
  /\ UNCHANGED <<cause, bits, irq, mc, dma, job, walk, seen, outcome>>

-----------------------------------------------------------------------------
(* The guest waits for the end of the transfer. *)

Interrupt ==
  /\ gpc = "sleep" /\ irq
  /\ gpc' = "poll"
  /\ UNCHANGED <<device, irq, mc, dma, wpc, job, walk, seen, outcome>>

\* read32 takes the MC lock, ...
PollLock ==
  /\ gpc = "poll" /\ mc = "free"
  /\ mc' = "guest"
  /\ gpc' = "poll_dma"
  /\ UNCHANGED <<device, irq, dma, wpc, job, walk, seen, outcome>>

\* (mutant) the run bit is not latched
PollLive ==
  /\ gpc = "poll_dma" /\ dma = "free"
  /\ seen' = [run |-> run_real, bits |-> bits]
  /\ run' = run_real
  /\ mc' = "free"
  /\ gpc' = IF run_real THEN "poll" ELSE "ack"
  /\ UNCHANGED <<reg, run_real, cause, bits, irq, dma, wpc, job, walk, outcome>>

\* ... then the DMA lock for RUN, whose run bit drops only after it was read.
Poll ==
  /\ gpc = "poll_dma" /\ dma = "free"
  /\ seen' = [run |-> run, bits |-> bits]
  /\ run' = (run /\ run_real)
  /\ mc' = "free"
  /\ gpc' = IF run THEN "poll" ELSE "ack"
  /\ UNCHANGED <<reg, run_real, cause, bits, irq, dma, wpc, job, walk, outcome>>

\* CAUSE is written with zero, which lowers the line.
WriteCause ==
  /\ gpc = "ack" /\ mc = "free" /\ dma = "free"
  /\ cause' = {} /\ bits' = {} /\ irq' = FALSE
  /\ gpc' = "reset"
  /\ UNCHANGED <<reg, run, run_real, mc, dma, wpc, job, walk, seen, outcome>>

\* The next transfer starts from the registers of power_on.
PowerOn ==
  /\ gpc = "reset" /\ mc = "free" /\ dma = "free"
  /\ reg' = Zeroed /\ run' = FALSE /\ run_real' = FALSE /\ cause' = {} /\ bits' = {}
  /\ gpc' = "size" /\ seen' = NoPoll /\ outcome' = NoOutcome
  /\ UNCHANGED <<irq, mc, dma, wpc, job, walk>>

Guest == \/ WriteSize \/ WriteStride \/ WriteCount \/ Go
         \/ Interrupt \/ PollLock \/ Poll \/ WriteCause \/ PowerOn

-----------------------------------------------------------------------------
(* dma_worker *)

\* (mutant) a transfer that repeats its lines zero times is latched for ever
LatchSkipsEmpty ==
  /\ wpc = "woken" /\ dma = "free"
  /\ run' = TRUE
  /\ job' = [reg EXCEPT !.gio32 = FALSE]
  /\ wpc' = IF reg.line_zoom = 0 THEN "woken" ELSE "width"
  /\ UNCHANGED <<reg, run_real, cause, bits, irq, mc, dma, walk, gpc, seen, outcome>>

\* The condition variable gives the lock back; the job is latched and the
\* lock released.
Latch ==
  /\ wpc = "woken" /\ dma = "free"
  /\ run' = TRUE
  /\ job' = [reg EXCEPT !.gio32 = FALSE]
  /\ wpc' = "width"
  /\ UNCHANGED <<reg, run_real, cause, bits, irq, mc, dma, walk, gpc, seen, outcome>>

\* GIO64_ARB is read under the MC lock.
SlotWidth ==
  /\ wpc = "width" /\ mc = "free"
  /\ job' = [job EXCEPT !.gio32 = reg.gio32 /\ ~job.fill]
  /\ wpc' = "dispatch"
  /\ UNCHANGED <<device, irq, mc, dma, walk, gpc, seen, outcome>>

\* The transfer.  translate_addr takes the DMA lock for each lookup and notes
\* the cause of a fault under it.
Dispatch ==
  /\ wpc = "dispatch" /\ dma = "free"
  /\ \E w \in {dma_dispatch(job)} :
       LET raised == IF w.exc THEN {job.cause} \ {"none"} ELSE {} IN
       /\ walk' = w
       /\ cause' = cause \cup raised
       /\ outcome' = [bits |-> IF w.exc THEN raised ELSE {"COMPLETE"}, memadr |-> w.mem]
       /\ wpc' = IF raised # {} THEN "fault" ELSE "retire"
  /\ UNCHANGED <<reg, run, run_real, bits, irq, mc, dma, job, gpc, seen>>

\* translate_addr raises the line holding no lock but the MC's.
FaultSignal ==
  /\ wpc = "fault" /\ mc = "free"
  /\ irq' = TRUE
  /\ wpc' = "retire"
  /\ UNCHANGED <<device, mc, dma, job, walk, gpc, seen, outcome>>

\* The worker goes back to wait with run_real down and the causes in RUN.
Finished ==
  /\ run_real' = FALSE
  /\ bits' = bits \cup cause'
  /\ wpc' = "wait"
  /\ job' = Zeroed /\ walk' = NoWalk

\* (mutant) a transfer that faulted is reported complete as well
RetireAlwaysComplete ==
  /\ wpc = "retire" /\ dma = "free"
  /\ reg' = [reg EXCEPT !.memadr = walk.mem, !.line_count = 0, !.zoom_count = 0, !.byte_count = 0]
  /\ cause' = cause \cup {"COMPLETE"}
  /\ IF ~walk.exc /\ job.ie
     THEN dma' = "worker" /\ wpc' = "signal" /\ UNCHANGED <<run_real, bits, job, walk>>
     ELSE Finished /\ UNCHANGED dma
  /\ UNCHANGED <<run, irq, mc, gpc, seen, outcome>>

\* The epilogue, under the DMA lock: a transfer that completed with the
\* interrupt enabled still has to raise the line, for which it needs the MC
\* lock as well.
Retire ==
  /\ wpc = "retire" /\ dma = "free"
  /\ reg' = [reg EXCEPT !.memadr = walk.mem, !.line_count = 0, !.zoom_count = 0, !.byte_count = 0]
  /\ cause' = IF walk.exc THEN cause ELSE cause \cup {"COMPLETE"}
  /\ IF ~walk.exc /\ job.ie
     THEN dma' = "worker" /\ wpc' = "signal" /\ UNCHANGED <<run_real, bits, job, walk>>
     ELSE Finished /\ UNCHANGED dma
  /\ UNCHANGED <<run, irq, mc, gpc, seen, outcome>>

\* signal_dma_interrupt clones the line out of the MC's state.
Signal ==
  /\ wpc = "signal" /\ mc = "free"
  /\ irq' = TRUE
  /\ cause' = cause /\ Finished
  /\ dma' = "free"
  /\ UNCHANGED <<reg, run, mc, gpc, seen, outcome>>

Worker == Latch \/ SlotWidth \/ Dispatch \/ FaultSignal \/ Retire \/ Signal

-----------------------------------------------------------------------------
Next == Guest \/ Worker

Spec == Init /\ [][Next]_vars

\* The worker runs, and so does a CPU that has begun to wait for it; a walk
\* ends, which is weak fairness of Dispatch: nothing else leaves its place.  A
\* thread that waits for the MC's lock gets it even if the other takes it
\* again and again: the locks are parking_lot's, which hand over in time.
Fairness == /\ WF_vars(Latch \/ SlotWidth \/ FaultSignal \/ Retire \/ Signal)
            /\ []<>(wpc # "dispatch")
            /\ WF_vars(Interrupt \/ PollLock \/ Poll)
            /\ SF_vars(SlotWidth \/ FaultSignal \/ Signal)

LiveSpec == Spec /\ Fairness

-----------------------------------------------------------------------------
(* Properties *)

\* Every variable has its type, and each lock is held exactly at the places
\* that span two steps.
TypeOK ==
  /\ {run, run_real, irq, reg.ie, reg.xlate, reg.to_host, reg.fill, reg.dir_up} \subseteq BOOLEAN
  /\ cause \cup bits \subseteq {"TLB_MISS", "FAULT", "CLEAN", "COMPLETE"}
  /\ {reg.line_count, reg.line_width, reg.line_zoom, reg.zoom_count, reg.byte_count} \subseteq Nat
  /\ mc \in {"free", "guest"} /\ (mc = "guest" <=> gpc = "poll_dma")
  /\ dma \in {"free", "worker"} /\ (dma = "worker" <=> wpc = "signal")
  /\ wpc \in {"wait", "woken", "width", "dispatch", "fault", "retire", "signal"}
  /\ gpc \in {"size", "stride", "count", "go", "sleep", "poll", "poll_dma", "ack", "reset"}

\* The shapes for which a shortcut is a shortcut.  The others are told apart
\* by registers a driver programs only on purpose: COUNT written after SIZE
\* and STRIDE, a fill downwards, a stride that equals the width of a line.
Regular(j) ==
  CASE Path(j) = "flat" -> j.stride = 0 \/ j.line_count = 0
    [] Path(j) = "bulk" -> j.byte_count = j.line_width
    [] Path(j) = "fill" -> j.dir_up /\ (j.byte_count = j.line_width \/ j.zoom_count <= 1)
    [] OTHER            -> TRUE

Moved(w) == FlattenSeq(w.txn)

\* A shortcut moves the bytes the reference engine moves, in the same
\* transactions (a 32-bit slot in its own) and order, and ends at the same
\* address: dma_dispatch for a transfer that completes.
PathsAgree ==
  wpc = "retire" /\ ~walk.exc /\ Regular(job) =>
    LET reference == dma_generic_bytes(job) IN
    /\ walk.mem = reference.mem /\ ~reference.exc
    /\ Path(job) = "gio32" => Moved(walk) = Moved(reference)
    /\ Path(job) # "gio32" => walk.txn = reference.txn

\* A translation fault stops every engine at the same address; by then the
\* same bytes have been stored, and a 64-bit shortcut has sent nothing that
\* the reference engine would not have sent.  A 32-bit slot may have taken
\* words of the qword the fault is in, and has taken all before it.
FaultsAgree ==
  wpc = "retire" /\ walk.exc /\ Regular(job) =>
    LET reference == dma_generic_bytes(job) IN
    /\ walk.mem = reference.mem /\ reference.exc
    /\ job.to_host => Moved(walk) = Moved(reference)
    /\ ~job.to_host => IF job.gio32 THEN IsPrefix(Moved(reference), Moved(walk))
                       ELSE IsPrefix(Moved(walk), Moved(reference))

\* A guest that has seen the run bit drop has been told how the transfer
\* ended, MEMADR is where it ended, and nothing is in flight; and the types
\* hold.
StatusIsTrue ==
  /\ TypeOK
  /\ gpc = "ack" => /\ ~run_real /\ wpc = "wait"
                    /\ seen.bits = outcome.bits /\ reg.memadr = outcome.memadr

\* The first poll after a start sees the run bit, however quick the transfer
\* was: the PROM tests for that.
FirstPollSeesRun == [][seen = NoPoll /\ seen' # seen => seen'.run]_vars

\* Every transfer comes to an end the guest can see.
TransferRetires == run_real ~> ~run_real

\* An access of the CPU to a DMA register comes to an end.
AccessEnds == (gpc = "poll_dma") ~> (gpc # "poll_dma")
=============================================================================
