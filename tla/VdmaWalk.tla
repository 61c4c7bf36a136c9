------------------------------ MODULE VdmaWalk ------------------------------
(***************************************************************************)
(* The transfer engines of the MC's virtual DMA (src/src/dev/mc_vdma.rs):  *)
(* the byte-at-a-time reference engine and the shortcuts dma_dispatch puts *)
(* in front of it.                                                         *)
(*                                                                         *)
(* A transfer moves bytes between memory and a GIO port that does not      *)
(* advance, so what an engine does is its walk: the sequence of port       *)
(* transactions, each the sequence of memory addresses it carries, the     *)
(* memory address it ends at and whether a translation fault ended it.     *)
(* A word of a fill is a transaction with the address of the word.  A      *)
(* transaction read from the port and not stored is empty.                 *)
(***************************************************************************)
EXTENDS Integers, SequencesExt

CONSTANTS QWORD,                 \* bytes in a GIO transaction (8)
          WORD,                  \* bytes in a word (4)
          PAGE,                  \* bytes in a page (4096 or 16384)
          VDMA_CHUNK_QWORDS

ASSUME UnitAssumption == /\ WORD \in Nat \ {0} /\ QWORD % WORD = 0 /\ QWORD \in Nat \ {0}
                         /\ PAGE \in Nat \ {0} /\ PAGE % QWORD = 0
ASSUME ChunkAssumption == VDMA_CHUNK_QWORDS \in Nat \ {0}

\* A fold that computes each intermediate walk once.
Run(op(_, _), base, steps) ==
  FoldLeft(LAMBDA t, n : CHOOSE r \in {op(u, n) : u \in {t}} : TRUE, base, steps)

\* The sizes in which n bytes are moved u at a time: a short tail comes last.
Units(n, u) == [k \in 1 .. (n + u - 1) \div u |-> IF k * u <= n THEN u ELSE n % u]

Count(n) == [k \in 1 .. n |-> k]

-----------------------------------------------------------------------------
(* Translation.  bad is the set of pages the walk through the micro-TLB and *)
(* the page table does not map, cause what it finds there; a clean page     *)
(* refuses stores only.                                                     *)

Causes == {"TLB_MISS", "FAULT", "CLEAN", "none"}

Faults(job, a) == /\ job.xlate /\ (a \div PAGE) \in job.bad
                  /\ job.cause = "CLEAN" => job.to_host

-----------------------------------------------------------------------------
(* dma_generic_bytes *)

Step(job, n) == IF job.dir_up THEN n ELSE - n

\* One transaction of n bytes.  Memory is read before the port is written,
\* so a fault leaves the port alone; the port is read before memory is
\* written, so a fault leaves part of the transaction stored.
Move(job, s, n) ==
  LET addr == [k \in 1 .. n |-> s.mem + Step(job, k - 1)]
      f    == SelectInSeq(addr, LAMBDA a : Faults(job, a))
  IN  IF s.exc THEN s
      ELSE IF f = 0 THEN [s EXCEPT !.txn = Append(@, addr), !.mem = @ + Step(job, n)]
      ELSE [s EXCEPT !.txn = IF job.to_host THEN Append(@, SubSeq(addr, 1, f - 1)) ELSE @,
                     !.mem = addr[f], !.exc = TRUE]

\* One word of a fill.
StoreWord(job, s) ==
  IF s.exc THEN s
  ELSE IF Faults(job, s.mem) THEN [s EXCEPT !.exc = TRUE]
  ELSE [s EXCEPT !.txn = Append(@, <<s.mem>>), !.mem = @ + Step(job, WORD)]

Begin(job) == [txn |-> <<>>, mem |-> job.memadr, bytes |-> job.byte_count, exc |-> FALSE]

\* byte_count bytes, u at a time.
Bytes(job, u, s) ==
  IF job.fill /\ job.to_host
  THEN Run(LAMBDA t, n : StoreWord(job, t), s, Units(s.bytes, WORD))
  ELSE Run(LAMBDA t, n : Move(job, t, n), s, Units(s.bytes, u))

\* The repetitions of a line: byte_count reloads from line_width, and every
\* repetition but the last goes back by it.
Zooms(job, u, s, reps) ==
  Run(LAMBDA t, r : LET d == Bytes(job, u, t) IN
             IF d.exc THEN d
             ELSE [d EXCEPT !.bytes = job.line_width,
                            !.mem = IF r < reps THEN @ - Step(job, job.line_width) ELSE @],
           s, Count(reps))

\* The nest of lines, repetitions and transactions.  dma_gio32 is the same
\* nest with the port's transactions one word wide.
Nest(job, u) ==
  Run(LAMBDA t, l :
             LET d == Zooms(job, u, t, IF l = 1 THEN job.zoom_count ELSE job.line_zoom)
             IN  IF d.exc THEN d ELSE [d EXCEPT !.mem = @ + job.stride],
           Begin(job), Count(job.line_count))

dma_generic_bytes(job) == Nest(job, QWORD)
dma_gio32(job) == Nest(job, WORD)

-----------------------------------------------------------------------------
(* dma_fill_phys: always upwards; a repetition rewrites the line from its  *)
(* start.                                                                  *)

FillLine(job, s, reps) ==
  Run(LAMBDA t, r :
             [t EXCEPT !.txn = @ \o [k \in 1 .. t.bytes \div WORD |-> <<s.mem + (k - 1) * WORD>>],
                       !.mem = IF r < reps THEN s.mem ELSE s.mem + t.bytes,
                       !.bytes = job.line_width],
           s, Count(reps))

dma_fill_phys(job) ==
  Run(LAMBDA t, l :
             LET d == FillLine(job, t, IF l = 1 THEN job.zoom_count ELSE job.line_zoom)
             IN  [d EXCEPT !.mem = @ + job.stride],
           Begin(job), Count(job.line_count))

-----------------------------------------------------------------------------
(* dma_mem_to_gio_64 and dma_gio_to_mem_64: one run of whole qwords, staged *)
(* a chunk at a time.                                                       *)

flat_len(job) == IF job.line_count = 0 THEN 0
                 ELSE job.byte_count + (job.line_count - 1) * job.line_width

\* A chunk is gathered whole before any of it is sent.
Gathered(job, s, units) ==
  LET d == Run(LAMBDA t, n : Move(job, t, n), s, units)
  IN  IF d.exc THEN [d EXCEPT !.txn = s.txn] ELSE d

\* (mutant) the address advances before it is translated
ScatteredPast(job, s, units) ==
  Run(LAMBDA t, n : IF t.exc THEN [t EXCEPT !.txn = Append(@, <<>>)]
                    ELSE [Move(job, t, n) EXCEPT !.mem = t.mem + n],
      s, units)

\* A chunk has been read whole before any of it is stored: after a fault the
\* rest of it is dropped.
Scattered(job, s, units) ==
  Run(LAMBDA t, n : IF t.exc THEN [t EXCEPT !.txn = Append(@, <<>>)] ELSE Move(job, t, n),
           s, units)

dma_flat_64(job) ==
  Run(LAMBDA s, m :
             LET units == [k \in 1 .. m |-> QWORD] IN
             IF s.exc THEN s
             ELSE IF job.to_host THEN Scattered(job, s, units) ELSE Gathered(job, s, units),
           Begin(job), Units(flat_len(job) \div QWORD, VDMA_CHUNK_QWORDS))

-----------------------------------------------------------------------------
(* dma_lines_bulk: whole lines are staged, as many as a chunk holds.        *)

qwords_per_line(job) == (job.line_width + QWORD - 1) \div QWORD

total_zoomed_lines(job) == job.zoom_count + (job.line_count - 1) * job.line_zoom

LinesPerChunk(job) == VDMA_CHUNK_QWORDS \div qwords_per_line(job)

\* Where the nest stands: at mem, with reps repetitions of the line to go.
Advance(job, at) ==
  IF at.reps = 1
  THEN [mem |-> at.mem + job.line_width + job.stride, reps |-> job.line_zoom]
  ELSE [at EXCEPT !.reps = @ - 1]

Line(job) == Units(job.line_width, QWORD)

\* scatter_lines replays the nest from where the chunk's first line stood.
scatter_lines(job, s, n, from) ==
  Run(LAMBDA t, l :
             [w  |-> Scattered(job, IF t.w.exc THEN t.w ELSE [t.w EXCEPT !.mem = t.at.mem], Line(job)),
              at |-> Advance(job, t.at)],
           [w |-> s, at |-> from], Count(n)).w

\* (mutant) the replay takes the repetitions of its first line from the register
ResumeFresh(job, next) == [next EXCEPT !.reps = job.line_zoom]

\* Where the next chunk's replay will start: a chunk may end between two
\* repetitions of a line.
Resume(job, next) == next

\* One line is staged, and the chunk flushed when it is full or the last.
\* sent counts the transactions that have left the staging buffer.
StageLine(job, b) ==
  LET g    == Run(LAMBDA t, n : Move(job, t, n), [b.w EXCEPT !.mem = b.at.mem], Line(job))
      next == Advance(job, b.at)
      n    == b.pending + 1
      flush == n = LinesPerChunk(job) \/ b.left = 1
      from == IF flush THEN Resume(job, next) ELSE b.from
  IN  IF b.w.exc THEN b
      ELSE IF job.to_host
      THEN [w |-> IF flush THEN scatter_lines(job, b.w, n, b.from) ELSE b.w,
            at |-> next, from |-> from, pending |-> IF flush THEN 0 ELSE n,
            left |-> b.left - 1, sent |-> 0]
      ELSE [w |-> IF g.exc THEN [g EXCEPT !.txn = SubSeq(@, 1, b.sent)] ELSE g,
            at |-> next, from |-> from, pending |-> IF flush THEN 0 ELSE n,
            left |-> b.left - 1, sent |-> IF flush THEN Len(g.txn) ELSE b.sent]

dma_lines_bulk(job) ==
  LET at  == [mem |-> job.memadr, reps |-> job.zoom_count]
      all == Run(LAMBDA b, l : StageLine(job, b),
                      [w |-> Begin(job), at |-> at, from |-> at, pending |-> 0,
                       left |-> total_zoomed_lines(job), sent |-> 0],
                      Count(total_zoomed_lines(job)))
  IN  IF all.w.exc THEN all.w ELSE [all.w EXCEPT !.mem = all.at.mem]

-----------------------------------------------------------------------------
(* dma_dispatch *)

word_aligned(job) ==
  \A n \in {job.memadr, job.stride, job.line_width, job.byte_count} : n % WORD = 0

flat_run(job) ==
  /\ job.dir_up /\ job.zoom_count = 1 /\ job.line_zoom = 1
  /\ job.stride \in {0, job.line_width}
  /\ job.line_count > 1 => job.byte_count = job.line_width /\ job.line_width % QWORD = 0

qword_flat(job) ==
  flat_run(job) /\ job.memadr % QWORD = 0 /\ flat_len(job) % QWORD = 0

line_bulk_ok(job) ==
  /\ job.dir_up /\ ~job.fill /\ job.line_count > 0 /\ job.line_width > 0
  /\ job.zoom_count > 0 /\ job.line_zoom > 0
  /\ qwords_per_line(job) <= VDMA_CHUNK_QWORDS

Path(job) ==
  CASE job.gio32                                                             -> "gio32"
    [] ~job.gio32 /\ word_aligned(job) /\ job.fill /\ job.to_host /\ ~job.xlate -> "fill"
    [] ~job.gio32 /\ qword_flat(job) /\ ~job.fill                            -> "flat"
    [] ~job.gio32 /\ ~qword_flat(job) /\ line_bulk_ok(job)                   -> "bulk"
    [] OTHER                                                                 -> "generic"

dma_dispatch(job) ==
  CASE Path(job) = "gio32"   -> dma_gio32(job)
    [] Path(job) = "fill"    -> dma_fill_phys(job)
    [] Path(job) = "flat"    -> dma_flat_64(job)
    [] Path(job) = "bulk"    -> dma_lines_bulk(job)
    [] Path(job) = "generic" -> dma_generic_bytes(job)
=============================================================================
