--------------------------- MODULE HpTimerProofs ----------------------------
(***************************************************************************)
(* Proofs about HpTimer: for every set of clients, periods and results a   *)
(* callback may return, slots are neither lost nor freed twice, a callback *)
(* in flight never lands in another timer, and a timer marked as queued is *)
(* in the queue once.                                                      *)
(***************************************************************************)
EXTENDS HpTimer, TLAPS

Ids == [idx : Nat, gen : Nat]
Calls == [idx : Nat, gen : Nat, callback : Nat, catch_up : 0 .. MAX_CATCHUP - 1]

Types ==
  /\ slots \in Seq(Timers) /\ free_indices \in Seq(Nat) /\ fifo \in Seq(Ids)
  /\ stop \in BOOLEAN /\ new_timer_added \in BOOLEAN /\ token \in BOOLEAN /\ registered \in BOOLEAN
  /\ wpc \in {"new", "scan", "calling", "wait", "check", "parked", "done"}
  /\ call \in Calls /\ id \in [Clients -> Ids]

\* The free list holds each free slot once, and a free slot is blank.
FreeOK ==
  /\ IsInjective(free_indices)
  /\ Range(free_indices) = {i \in DOMAIN slots : ~slots[i].used}
  /\ \A i \in DOMAIN slots : ~slots[i].used => slots[i] = Freed(slots[i].gen)

\* An entry names a generation its slot has had; the one its slot has now is
\* in the queue at most once, there if and only if it is marked, and due.
QueueOK ==
  /\ \A k \in DOMAIN fifo : /\ fifo[k].idx \in DOMAIN slots
                            /\ fifo[k].gen <= slots[fifo[k].idx].gen
  /\ \A j, k \in DOMAIN fifo : fifo[j] = fifo[k] /\ Is(fifo[j]) => j = k
  /\ \A k \in DOMAIN fifo : Is(fifo[k]) => slots[fifo[k].idx].in_fifo
  /\ \A i \in DOMAIN slots : slots[i].in_fifo =>
       slots[i].left <= 0 /\ \E k \in DOMAIN fifo : fifo[k] = [idx |-> i, gen |-> slots[i].gen]

\* The call in hand is of a generation its slot has had; while it is the one
\* the slot has now, the timer is due, not queued, and lends its callback.
CallOK ==
  /\ wpc # "calling" => call = NoCall
  /\ wpc = "calling" =>
       /\ call.idx \in DOMAIN slots /\ call.gen <= slots[call.idx].gen /\ call.callback = call.gen
       /\ Is(call) => slots[call.idx].left <= 0 /\ ~slots[call.idx].in_fifo
  /\ \A i \in DOMAIN slots : slots[i].used /\ ~stop =>
       \/ slots[i].callback = slots[i].gen
       \/ slots[i].callback = None /\ wpc = "calling" /\ call.idx = i /\ call.gen = slots[i].gen

TimerInv == Types /\ FreeOK /\ QueueOK /\ CallOK
-----------------------------------------------------------------------------
(* Slots *)

\* An arena is a function on its slots, and a slot is a timer.
LEMMA SlotFacts ==
  ASSUME Types
  PROVE  /\ Len(slots) \in Nat /\ DOMAIN slots = 1 .. Len(slots)
         /\ \A i \in DOMAIN slots : slots[i] \in Timers
         /\ Len(fifo) \in Nat /\ DOMAIN fifo = 1 .. Len(fifo) /\ \A k \in DOMAIN fifo : fifo[k] \in Ids
BY DEF Types

\* A function on the same slots is an arena again.
LEMMA SameArena ==
  ASSUME Types, NEW f, DOMAIN f = DOMAIN slots, f = [i \in DOMAIN slots |-> f[i]],
         \A i \in DOMAIN slots : f[i] \in Timers
  PROVE  f \in Seq(Timers)
<1>1. Len(slots) \in Nat /\ DOMAIN slots = 1 .. Len(slots)
  BY SlotFacts
<1>2. f \in [1 .. Len(slots) -> Timers]
  BY <1>1
<1> QED
  BY <1>1, <1>2

\* A free slot is not marked.
LEMMA BlankSlots ==
  ASSUME FreeOK
  PROVE  \A i \in DOMAIN slots : ~slots[i].used => slots[i].in_fifo = FALSE
<1>1. \A n : Freed(n).in_fifo = FALSE
  BY DEF Freed
<1> QED
  BY <1>1, Zenon DEF FreeOK

\* So is one with one timer replaced.
LEMMA OneReplaced ==
  ASSUME NEW s \in Seq(Timers), NEW n \in 1 .. Len(s), NEW e \in Timers
  PROVE  [s EXCEPT ![n] = e] \in Seq(Timers)
OBVIOUS

\* A timer with one field changed is a timer with its other fields.
LEMMA WithEnabled ==
  ASSUME NEW t \in Timers, NEW x \in BOOLEAN
  PROVE  LET s == [t EXCEPT !.enabled = x]
         IN  /\ s \in Timers /\ s.enabled = x
             /\ s.gen = t.gen /\ s.used = t.used /\ s.left = t.left
             /\ s.period = t.period /\ s.in_fifo = t.in_fifo /\ s.callback = t.callback
BY DEF Timers

\* The same for the mark, ...
LEMMA WithMark ==
  ASSUME NEW t \in Timers, NEW x \in BOOLEAN
  PROVE  LET s == [t EXCEPT !.in_fifo = x]
         IN  /\ s \in Timers /\ s.in_fifo = x
             /\ s.gen = t.gen /\ s.used = t.used /\ s.left = t.left
             /\ s.period = t.period /\ s.enabled = t.enabled /\ s.callback = t.callback
BY DEF Timers

\* ... the time left, ...
LEMMA WithLeft ==
  ASSUME NEW t \in Timers, NEW x \in {n \in Int : - MaxLate <= n}
  PROVE  LET s == [t EXCEPT !.left = x]
         IN  /\ s \in Timers /\ s.left = x
             /\ s.gen = t.gen /\ s.used = t.used /\ s.period = t.period
             /\ s.enabled = t.enabled /\ s.in_fifo = t.in_fifo /\ s.callback = t.callback
BY DEF Timers

\* ... the period, ...
LEMMA WithPeriod ==
  ASSUME NEW t \in Timers, NEW x \in Periods \cup {None}
  PROVE  LET s == [t EXCEPT !.period = x]
         IN  /\ s \in Timers /\ s.period = x
             /\ s.gen = t.gen /\ s.used = t.used /\ s.left = t.left
             /\ s.enabled = t.enabled /\ s.in_fifo = t.in_fifo /\ s.callback = t.callback
BY DEF Timers

\* ... and the callback.
LEMMA WithCallback ==
  ASSUME NEW t \in Timers, NEW x \in Nat
  PROVE  LET s == [t EXCEPT !.callback = x]
         IN  /\ s \in Timers /\ s.callback = x
             /\ s.gen = t.gen /\ s.used = t.used /\ s.left = t.left
             /\ s.period = t.period /\ s.enabled = t.enabled /\ s.in_fifo = t.in_fifo
BY DEF Timers

\* A step that leaves a slot's generation, use and mark alone, and a queued
\* timer due, disturbs neither the free list nor the queue.
LEMMA SlotStep ==
  ASSUME TimerInv, UNCHANGED <<free_indices, fifo>>, DOMAIN slots' = DOMAIN slots,
         \A i \in DOMAIN slots : /\ slots'[i].gen = slots[i].gen /\ slots'[i].used = slots[i].used
                                 /\ slots'[i].in_fifo = slots[i].in_fifo
                                 /\ ~slots[i].used => slots'[i] = slots[i]
                                 /\ slots[i].in_fifo => slots'[i].left <= 0
  PROVE  FreeOK' /\ QueueOK'
<1>1. FreeOK'
  BY DEF TimerInv, FreeOK, Freed
<1>2. \A k \in DOMAIN fifo : fifo[k].idx \in DOMAIN slots /\ (Is(fifo[k])' <=> Is(fifo[k]))
  BY DEF TimerInv, QueueOK, Is
<1>3. QueueOK'
  BY <1>2 DEF TimerInv, QueueOK
<1> QED
  BY <1>1, <1>3

-----------------------------------------------------------------------------
(* Steps that leave the arena alone *)

\* The arena and the queue as they were, the call as well or given up.
LEMMA ArenaSame ==
  ASSUME TimerInv, UNCHANGED <<slots, free_indices, fifo>>, stop => stop',
         \/ UNCHANGED call /\ (wpc' = "calling" <=> wpc = "calling")
         \/ call' = NoCall /\ wpc' # "calling" /\ (stop' \/ ~Is(call))
  PROVE  FreeOK' /\ QueueOK' /\ CallOK'
<1>1. FreeOK'
  BY DEF TimerInv, FreeOK, Freed
<1>2. QueueOK'
  BY DEF TimerInv, QueueOK, Is
<1>3. CallOK'
  BY DEF TimerInv, CallOK, Is
<1> QED
  BY <1>1, <1>2, <1>3

\* wake_up and the registration of the worker; stop; the waits.
LEMMA QuietStep ==
  ASSUME TimerInv,
         \/ \E c \in Clients : Ends(c)
         \/ Stop \/ StopFlag \/ StopUnpark \/ Register \/ ScanStopped \/ ReturnDropped
         \/ WaitEnd \/ WaitWoken \/ CheckFlag \/ Parked
  PROVE  TimerInv'
<1>0. NoCall \in Calls
  BY TimeAssumption DEF NoCall, Calls, None
<1>1. CASE \E c \in Clients : Ends(c)
  <2>1. PICK c \in Clients : WakeFlag(c) \/ WakeUnpark(c)
    BY <1>1 DEF Ends
  <2>2. Types'
    BY <2>1, Zenon DEF TimerInv, Types, WakeFlag, WakeUnpark, Unpark, inner, worker
  <2>3. FreeOK' /\ QueueOK' /\ CallOK'
    BY <2>1, ArenaSame DEF WakeFlag, WakeUnpark, inner, worker
  <2> QED
    BY <2>2, <2>3 DEF TimerInv
<1>2. CASE Stop \/ StopFlag \/ StopUnpark
  <2>1. Types'
    BY <1>2, Zenon DEF TimerInv, Types, Stop, StopFlag, StopUnpark, Unpark, inner, worker
  <2>2. FreeOK' /\ QueueOK' /\ CallOK'
    BY <1>2, ArenaSame DEF Stop, StopFlag, StopUnpark, inner, worker
  <2> QED
    BY <2>1, <2>2 DEF TimerInv
<1>3. CASE ReturnDropped
  <2>1. Types'
    BY <1>0, <1>3 DEF TimerInv, Types, ReturnDropped, inner, client
  <2>2. FreeOK' /\ QueueOK' /\ CallOK'
    BY <1>3, ArenaSame DEF ReturnDropped, CallIsStale, inner, client
  <2> QED
    BY <2>1, <2>2 DEF TimerInv
<1>4. CASE Register \/ ScanStopped \/ WaitEnd \/ WaitWoken \/ CheckFlag \/ Parked
  <2>1. Types'
    BY <1>4, Zenon DEF TimerInv, Types, Register, ScanStopped, WaitEnd, WaitWoken, CheckFlag, Parked, inner, worker, client
  <2>2. FreeOK' /\ QueueOK' /\ CallOK'
    BY <1>4, ArenaSame DEF Register, ScanStopped, WaitEnd, WaitWoken, CheckFlag, Parked, inner, worker, client
  <2> QED
    BY <2>1, <2>2 DEF TimerInv
<1> QED
  BY <1>1, <1>2, <1>3, <1>4

-----------------------------------------------------------------------------
(* Steps that change timers in place *)

\* enable and disable move neither the timer's time nor its callback.
LEMMA EnableStep == ASSUME TimerInv, NEW c \in Clients, enable(c) \/ disable(c) PROVE TimerInv'
<1>1. PICK e \in BOOLEAN : slots' = [slots EXCEPT ![id[c].idx].enabled = e]
  BY Zenon DEF enable, disable
<1>2. id[c].idx \in DOMAIN slots /\ UNCHANGED <<free_indices, fifo, stop, call, wpc, id>>
  BY Zenon DEF enable, disable, Is, worker, client
<1>3. /\ DOMAIN slots' = DOMAIN slots
      /\ \A i \in DOMAIN slots : i # id[c].idx => slots'[i] = slots[i]
      /\ slots'[id[c].idx] = [slots[id[c].idx] EXCEPT !.enabled = e]
  BY <1>1, <1>2
<1>4. slots[id[c].idx].used
  BY Zenon DEF enable, disable, Is
<1>4a. \A i \in DOMAIN slots : slots[i] \in Timers
  BY SlotFacts DEF TimerInv
<1>4b. LET s == slots[id[c].idx] t == slots'[id[c].idx]
       IN  /\ t \in Timers /\ t.gen = s.gen /\ t.used = s.used /\ t.in_fifo = s.in_fifo
           /\ t.left = s.left /\ t.callback = s.callback
  BY <1>2, <1>3, <1>4a, WithEnabled
<1>5. \A i \in DOMAIN slots :
        /\ slots'[i] \in Timers /\ (~slots[i].used => slots'[i] = slots[i])
        /\ slots'[i].gen = slots[i].gen /\ slots'[i].used = slots[i].used
        /\ slots'[i].in_fifo = slots[i].in_fifo /\ slots'[i].left = slots[i].left
        /\ slots'[i].callback = slots[i].callback
  BY <1>2, <1>3, <1>4, <1>4a, <1>4b, Zenon
<1>6. slots' \in Seq(Timers)
  BY <1>1, <1>3, <1>5, SameArena, Zenon DEF TimerInv
<1>7. Types'
  BY <1>2, <1>6 DEF Types, enable, disable, TimerInv
<1>8. FreeOK' /\ QueueOK'
  BY <1>2, <1>3, <1>5, SlotStep, Zenon DEF QueueOK, TimerInv
<1>9. CallOK'
  BY <1>2, <1>3, <1>5 DEF CallOK, Is, TimerInv
<1> QED
  BY <1>7, <1>8, <1>9 DEF TimerInv

\* As time passes a timer that is due stays due.
LEMMA TickStep == ASSUME TimerInv, Tick PROVE TimerInv'
<1>1. /\ DOMAIN slots' = DOMAIN slots
      /\ \A i \in DOMAIN slots : slots'[i] = IF slots[i].used /\ slots[i].left > - MaxLate
                                             THEN [slots[i] EXCEPT !.left = @ - 1] ELSE slots[i]
      /\ UNCHANGED <<free_indices, fifo, stop, new_timer_added, token, registered, wpc, call, id>>
  BY DEF Tick, client
<1>2. \A i \in DOMAIN slots :
        /\ slots'[i] \in Timers /\ (~slots[i].used => slots'[i] = slots[i])
        /\ slots'[i].gen = slots[i].gen /\ slots'[i].used = slots[i].used
        /\ slots'[i].in_fifo = slots[i].in_fifo /\ slots'[i].left <= slots[i].left
        /\ slots'[i].callback = slots[i].callback /\ slots[i].left \in Int /\ slots'[i].left \in Int
  <2> SUFFICES ASSUME NEW i \in DOMAIN slots
               PROVE  /\ slots'[i] \in Timers /\ (~slots[i].used => slots'[i] = slots[i])
                      /\ slots'[i].gen = slots[i].gen /\ slots'[i].used = slots[i].used
                      /\ slots'[i].in_fifo = slots[i].in_fifo /\ slots'[i].left <= slots[i].left
                      /\ slots'[i].callback = slots[i].callback
                      /\ slots[i].left \in Int /\ slots'[i].left \in Int
    OBVIOUS
  <2>1. slots[i] \in Timers
    BY SlotFacts DEF TimerInv
  <2>2. slots[i].left \in Int /\ - MaxLate <= slots[i].left
    BY <2>1 DEF Timers
  <2>3. CASE slots[i].used /\ slots[i].left > - MaxLate
    <3>1. slots[i].left - 1 \in {n \in Int : - MaxLate <= n}
      BY <2>2, <2>3, TimeAssumption
    <3>2. slots'[i] = [slots[i] EXCEPT !.left = slots[i].left - 1]
      BY <1>1, <2>3
    <3>3. /\ slots'[i] \in Timers /\ slots'[i].left = slots[i].left - 1
          /\ slots'[i].gen = slots[i].gen /\ slots'[i].used = slots[i].used
          /\ slots'[i].in_fifo = slots[i].in_fifo /\ slots'[i].callback = slots[i].callback
      BY <2>1, <3>1, <3>2, WithLeft
    <3> QED
      BY <2>2, <2>3, <3>3
  <2>4. CASE ~(slots[i].used /\ slots[i].left > - MaxLate)
    BY <1>1, <2>1, <2>2, <2>4
  <2> QED
    BY <2>3, <2>4
<1>3. slots' \in Seq(Timers)
  BY <1>1, <1>2, SameArena, Zenon DEF Tick, TimerInv
<1>4. Types'
  BY <1>1, <1>3 DEF Types, TimerInv
<1>5. \A i \in DOMAIN slots : slots[i].in_fifo => slots'[i].left <= 0
  BY <1>2 DEF QueueOK, TimerInv
<1>6. FreeOK' /\ QueueOK'
  BY <1>1, <1>2, <1>5, SlotStep
<1>7. CallOK'
  BY <1>1, <1>2 DEF CallOK, Is, TimerInv
<1> QED
  BY <1>4, <1>6, <1>7 DEF TimerInv

\* Whatever its callback returned, short of deleting it, a timer is the same
\* timer, with its callback, its mark and its place.
LEMMA RescheduledFacts ==
  ASSUME NEW t \in Timers, NEW r \in Results \ {"Delete"}, NEW d \in Periods,
         r = "Continue" => t.period # None
  PROVE  LET s == Rescheduled(t, r, d)
         IN  /\ s \in Timers /\ s.gen = t.gen /\ s.used = t.used
             /\ s.in_fifo = t.in_fifo /\ s.callback = t.callback
<1> DEFINE s == Rescheduled(t, r, d)
<1> SUFFICES /\ s \in Timers /\ s.gen = t.gen /\ s.used = t.used
             /\ s.in_fifo = t.in_fifo /\ s.callback = t.callback
  OBVIOUS
<1>1. /\ t.left \in Int /\ - MaxLate <= t.left /\ t.period \in Periods \cup {None}
      /\ d \in Nat \ {0} /\ MaxLate \in Nat
  BY TimeAssumption DEF Timers
<1>2. CASE r = "Continue"
  <2>0. t.period \in Nat
    BY <1>1, <1>2, TimeAssumption, Zenon
  <2>1. t.left + t.period \in {n \in Int : - MaxLate <= n}
    BY <1>1, <2>0
  <2>2. s = [t EXCEPT !.left = t.left + t.period]
    BY <1>2 DEF Rescheduled
  <2> HIDE DEF s
  <2> QED
    BY <2>1, <2>2, WithLeft, Zenon
<1>3. CASE r = "Disable"
  <2>1. s = [t EXCEPT !.enabled = FALSE]
    BY <1>3 DEF Rescheduled
  <2>2. FALSE \in BOOLEAN
    OBVIOUS
  <2> HIDE DEF s
  <2> QED
    BY <2>1, <2>2, WithEnabled, Zenon
<1>4. CASE r = "RescheduleOneShot" \/ r = "RescheduleRecurring"
  <2>1. PICK x, p : /\ x \in {n \in Int : - MaxLate <= n} /\ p \in Periods \cup {None}
                    /\ s = [[t EXCEPT !.left = x] EXCEPT !.period = p]
    <3>1. CASE r = "RescheduleOneShot"
      <4>1. d \in {n \in Int : - MaxLate <= n} /\ None \in Periods \cup {None}
        BY <1>1 DEF None
      <4>2. s = [[t EXCEPT !.left = d] EXCEPT !.period = None]
        BY <3>1 DEF Rescheduled
      <4> QED
        BY <4>1, <4>2, Zenon
    <3>2. CASE r = "RescheduleRecurring"
      <4>1. t.left + d \in {n \in Int : - MaxLate <= n} /\ d \in Periods \cup {None}
        BY <1>1
      <4>2. s = [[t EXCEPT !.left = t.left + d] EXCEPT !.period = d]
        BY <3>2 DEF Rescheduled
      <4> QED
        BY <4>1, <4>2, Zenon
    <3> QED
      BY <1>4, <3>1, <3>2, Zenon
  <2> HIDE DEF s
  <2>2. LET u == [t EXCEPT !.left = x]
        IN  /\ u \in Timers /\ u.gen = t.gen /\ u.used = t.used
            /\ u.in_fifo = t.in_fifo /\ u.callback = t.callback
    BY <2>1, WithLeft, Zenon
  <2>3. PICK u \in Timers : /\ u = [t EXCEPT !.left = x] /\ u.gen = t.gen /\ u.used = t.used
                            /\ u.in_fifo = t.in_fifo /\ u.callback = t.callback
    BY <2>2, Zenon
  <2>4. s = [u EXCEPT !.period = p]
    BY <2>1, <2>3, Zenon
  <2>5. s \in Timers /\ s.gen = u.gen /\ s.used = u.used /\ s.in_fifo = u.in_fifo /\ s.callback = u.callback
    <3>1. u \in Timers /\ p \in Periods \cup {None}
      BY <2>1, <2>3
    <3> QED
      BY <2>4, <3>1, WithPeriod
  <2> QED
    BY <2>3, <2>5, Zenon
<1> QED
  BY <1>2, <1>3, <1>4, ResultAssumption

\* A callback that returns puts itself back into its own timer, or is called
\* again because that is still due.
LEMMA KeptStep == ASSUME TimerInv, ReturnKept PROVE TimerInv'
<1> DEFINE ci == call.idx
           t1 == [slots[ci] EXCEPT !.callback = call.callback]
<1>1. /\ wpc = "calling" /\ ~stop /\ ci \in DOMAIN slots /\ slots[ci].gen = call.gen /\ slots[ci].used
      /\ call.callback = call.gen /\ ~slots[ci].in_fifo /\ slots[ci] \in Timers
      /\ call \in Calls /\ call.callback \in Nat
  BY SlotFacts DEF TimerInv, CallOK, ReturnKept, CallIsStale, Is, Types, Calls
<1>2. PICK r \in Results \ {"Delete"}, d \in Periods :
        LET s     == Rescheduled(t1, r, d)
            again == r = "Continue" /\ CatchesUp(s)
        IN  /\ r = "Continue" => slots[ci].period # None
            /\ slots' = [slots EXCEPT ![ci] = IF again THEN [s EXCEPT !.callback = None] ELSE s]
            /\ call' = IF again THEN [call EXCEPT !.catch_up = @ + 1] ELSE NoCall
            /\ wpc' = IF again THEN "calling" ELSE "scan"
  BY Zenon DEF ReturnKept
<1> DEFINE s == Rescheduled(t1, r, d)
           again == r = "Continue" /\ CatchesUp(s)
           t2 == IF again THEN [s EXCEPT !.callback = None] ELSE s
<1>3. /\ t1 \in Timers /\ t1.gen = slots[ci].gen /\ t1.used = slots[ci].used /\ t1.period = slots[ci].period
      /\ t1.in_fifo = slots[ci].in_fifo /\ t1.callback = call.callback
  BY <1>1, WithCallback, Zenon
<1>4. /\ r = "Continue" => t1.period # None
      /\ slots' = [slots EXCEPT ![ci] = t2]
      /\ call' = IF again THEN [call EXCEPT !.catch_up = @ + 1] ELSE NoCall
      /\ wpc' = IF again THEN "calling" ELSE "scan"
  BY <1>2, <1>3, Zenon
<1> HIDE DEF t1
<1>5. /\ s \in Timers /\ s.gen = t1.gen /\ s.used = t1.used
      /\ s.in_fifo = t1.in_fifo /\ s.callback = t1.callback
  BY <1>3, <1>4, RescheduledFacts, Zenon
<1>6. again => s.left <= 0 /\ call.catch_up + 1 < MAX_CATCHUP
  BY DEF CatchesUp
<1> HIDE DEF s, again
<1>7. t2 \in Timers /\ t2.gen = s.gen /\ t2.used = s.used /\ t2.in_fifo = s.in_fifo
  <2>1. CASE again
    <3>1. t2 = [s EXCEPT !.callback = None] /\ None \in Nat
      BY <2>1 DEF None
    <3> HIDE DEF t2
    <3> QED
      BY <1>5, <3>1, WithCallback, Zenon
  <2>2. CASE ~again
    BY <1>5, <2>2
  <2> QED
    BY <2>1, <2>2
<1>8. (again => t2.callback = None /\ t2.left = s.left) /\ (~again => t2.callback = s.callback)
  <2>1. CASE again
    <3>1. t2 = [s EXCEPT !.callback = None] /\ None \in Nat
      BY <2>1 DEF None
    <3> HIDE DEF t2
    <3> QED
      BY <1>5, <2>1, <3>1, WithCallback, Zenon
  <2>2. CASE ~again
    BY <2>2
  <2> QED
    BY <2>1, <2>2
<1> HIDE DEF t2
<1>9. /\ DOMAIN slots' = DOMAIN slots /\ slots'[ci] = t2
      /\ \A i \in DOMAIN slots : i # ci => slots'[i] = slots[i]
      /\ UNCHANGED <<free_indices, fifo, stop, new_timer_added, token, registered, id>>
  BY <1>1, <1>4 DEF ReturnKept, client
<1>10. call' \in Calls
  <2>1. CASE again
    <3>1. call.catch_up + 1 \in 0 .. MAX_CATCHUP - 1
      BY <1>1, <1>6, <2>1, TimeAssumption DEF Calls
    <3>2. call' = [call EXCEPT !.catch_up = call.catch_up + 1]
      BY <1>4, <2>1
    <3> QED
      BY <1>1, <3>1, <3>2 DEF Calls
  <2>2. CASE ~again
    BY <1>4, <2>2, TimeAssumption DEF Calls, NoCall, None
  <2> QED
    BY <2>1, <2>2
<1>11. again => call'.idx = ci /\ call'.gen = call.gen /\ call'.callback = call.callback
  <2>1. again => call' = [call EXCEPT !.catch_up = call.catch_up + 1]
    BY <1>4
  <2> QED
    BY <1>1, <2>1 DEF Calls
<1>12. slots' \in Seq(Timers)
  BY <1>1, <1>4, <1>7, SlotFacts, OneReplaced DEF TimerInv, Types
<1>13. Types'
  BY <1>4, <1>9, <1>10, <1>12 DEF TimerInv, Types
<1>14. FreeOK' /\ QueueOK'
  <2>1. \A i \in DOMAIN slots : /\ slots'[i].gen = slots[i].gen /\ slots'[i].used = slots[i].used
                                /\ slots'[i].in_fifo = slots[i].in_fifo
                                /\ ~slots[i].used => slots'[i] = slots[i]
                                /\ slots[i].in_fifo => slots'[i].left <= 0
    BY <1>1, <1>3, <1>5, <1>7, <1>9, Zenon DEF TimerInv, QueueOK
  <2> QED
    BY <1>9, <2>1, SlotStep
<1>15. CallOK'
  <2>1. CASE again
    BY <1>1, <1>3, <1>4, <1>5, <1>6, <1>7, <1>8, <1>9, <1>11, <2>1 DEF TimerInv, CallOK, Is
  <2>2. CASE ~again
    BY <1>1, <1>3, <1>4, <1>5, <1>7, <1>8, <1>9, <2>2 DEF TimerInv, CallOK, Is
  <2> QED
    BY <2>1, <2>2
<1> QED
  BY <1>13, <1>14, <1>15 DEF TimerInv

-----------------------------------------------------------------------------
(* Slots come and go *)

\* What freeing a slot does to a list that holds each slot once, ...
LEMMA AppendFree ==
  ASSUME NEW f \in Seq(Nat), NEW x \in Nat, IsInjective(f), x \notin Range(f)
  PROVE  IsInjective(Append(f, x)) /\ Range(Append(f, x)) = Range(f) \cup {x}
<1> DEFINE g == Append(f, x)
           n == Len(f)
<1>1. /\ n \in Nat /\ DOMAIN f = 1 .. n /\ DOMAIN g = 1 .. n + 1
      /\ g[n + 1] = x /\ \A k \in 1 .. n : g[k] = f[k]
  OBVIOUS
<1> HIDE DEF g, n
<1>2. \A k \in 1 .. n : f[k] # x
  BY <1>1 DEF Range
<1>3. \A a, b \in 1 .. n : f[a] = f[b] => a = b
  BY <1>1, Zenon DEF IsInjective
<1>4. \A k \in 1 .. n + 1 : k \in 1 .. n \/ k = n + 1
  BY <1>1
<1>5. IsInjective(g)
  BY <1>1, <1>2, <1>3, <1>4 DEF IsInjective
<1>6. Range(g) = Range(f) \cup {x}
  <2>1. \A k \in DOMAIN f : k \in DOMAIN g /\ g[k] = f[k]
    BY <1>1
  <2>2. n + 1 \in DOMAIN g
    BY <1>1
  <2> QED
    BY <1>1, <1>4, <2>1, <2>2, Zenon DEF Range
<1> QED
  BY <1>5, <1>6 DEF g

\* ... and taking the last one of them.
LEMMA FrontFree ==
  ASSUME NEW f \in Seq(Nat), f # <<>>, IsInjective(f)
  PROVE  /\ SubSeq(f, 1, Len(f) - 1) \in Seq(Nat) /\ IsInjective(SubSeq(f, 1, Len(f) - 1))
         /\ f[Len(f)] \in Range(f) /\ Range(SubSeq(f, 1, Len(f) - 1)) = Range(f) \ {f[Len(f)]}
<1> DEFINE g == SubSeq(f, 1, Len(f) - 1)
           n == Len(f)
<1>0. n \in Nat \ {0} /\ f \in [1 .. n -> Nat] /\ DOMAIN f = 1 .. n
  OBVIOUS
<1>1. g \in Seq(Nat) /\ Len(g) = n - 1 /\ \A k \in 1 .. n - 1 : g[k] = f[k]
  BY <1>0
<1>2. DOMAIN g = 1 .. n - 1
  BY <1>1
<1> HIDE DEF g, n
<1>3. \A a, b \in 1 .. n : f[a] = f[b] => a = b
  BY <1>0 DEF IsInjective
<1>4. \A k \in 1 .. n : k \in 1 .. n - 1 \/ k = n
  BY <1>0
<1>5. n \in 1 .. n /\ n \notin 1 .. n - 1 /\ \A k \in 1 .. n - 1 : k \in 1 .. n
  BY <1>0
<1>6. IsInjective(g)
  BY <1>1, <1>2, <1>3, <1>5, Zenon DEF IsInjective
<1>7. f[n] \in Range(f)
  BY <1>0, <1>5 DEF Range
<1>8. \A k \in 1 .. n - 1 : f[k] # f[n]
  BY <1>3, <1>5
<1>9. Range(g) = Range(f) \ {f[n]}
  <2>1. \A x : x \in Range(g) <=> \E k \in 1 .. n - 1 : x = f[k]
    BY <1>1, <1>2, Zenon DEF Range
  <2>2. \A x : x \in Range(f) <=> \E k \in 1 .. n : x = f[k]
    BY <1>0 DEF Range
  <2> QED
    BY <1>4, <1>5, <1>8, <2>1, <2>2, Zenon
<1> QED
  BY <1>1, <1>6, <1>7, <1>9 DEF g, n

\* Freeing a slot that is in use adds it to the free list, once; the entries
\* and the call that name its timer are stale from then on.
LEMMA Deallocates ==
  ASSUME TimerInv, NEW n \in Ids, Is(n), deallocate(n), UNCHANGED <<fifo, stop>>,
         \/ UNCHANGED <<call, wpc>>
         \/ call' = NoCall /\ wpc' # "calling" /\ n.idx = call.idx
  PROVE  slots' \in Seq(Timers) /\ free_indices' \in Seq(Nat) /\ FreeOK' /\ QueueOK' /\ CallOK'
<1> DEFINE ni == n.idx
           blank == Freed(slots[ni].gen)
<1>1. /\ ni \in DOMAIN slots /\ slots[ni].used /\ slots[ni].gen = n.gen /\ slots[ni] \in Timers /\ ni \in Nat
      /\ slots' = [slots EXCEPT ![ni] = blank] /\ free_indices' = Append(free_indices, ni)
  BY SlotFacts DEF Is, deallocate, Ids, TimerInv
<1>2. /\ blank \in Timers /\ blank.gen = slots[ni].gen /\ ~blank.used /\ ~blank.in_fifo
  BY <1>1, TimeAssumption DEF Timers, Freed, None
<1>2a. blank = Freed(blank.gen)
  BY <1>2
<1> HIDE DEF blank
<1>3. /\ slots' \in Seq(Timers) /\ DOMAIN slots' = DOMAIN slots /\ slots'[ni] = blank
      /\ \A i \in DOMAIN slots : i # ni => slots'[i] = slots[i]
  BY <1>1, <1>2, OneReplaced DEF Types, TimerInv
<1>4. free_indices \in Seq(Nat) /\ free_indices' \in Seq(Nat)
  BY <1>1 DEF Types, TimerInv
<1>5. ni \notin Range(free_indices)
  BY <1>1 DEF FreeOK, TimerInv
<1>6. IsInjective(free_indices') /\ Range(free_indices') = Range(free_indices) \cup {ni}
  BY <1>1, <1>4, <1>5, AppendFree, Zenon DEF FreeOK, TimerInv
<1>8. FreeOK'
  <2>1. {i \in DOMAIN slots : ~slots[i].used} \cup {ni} = {i \in DOMAIN slots' : ~slots'[i].used}
    BY <1>1, <1>2, <1>3
  <2>2. \A i \in DOMAIN slots' : ~slots'[i].used => slots'[i] = Freed(slots'[i].gen)
    BY <1>2a, <1>3 DEF FreeOK, Freed, TimerInv
  <2> QED
    BY <1>6, <2>1, <2>2, Zenon DEF FreeOK, Freed, TimerInv
<1>9. \A m : Is(m)' <=> Is(m) /\ m.idx # ni
  BY <1>1, <1>2, <1>3, Zenon DEF Is
<1>10. \A i \in DOMAIN slots : slots'[i].gen = slots[i].gen
  BY <1>1, <1>2, <1>3
<1>11. QueueOK'
  BY <1>1, <1>2, <1>3, <1>9, <1>10 DEF QueueOK, Is, TimerInv
<1>12. CallOK'
  BY <1>1, <1>2, <1>3, <1>9, <1>10 DEF CallOK, Is, TimerInv
<1> QED
  BY <1>3, <1>4, <1>8, <1>11, <1>12

\* A client removes its timer, or an id that is out of date.
LEMMA RemoveStep == ASSUME TimerInv, NEW c \in Clients, remove(c) PROVE TimerInv'
<1>1. /\ deallocate(id[c]) /\ id' = [id EXCEPT ![c] = NoId]
      /\ UNCHANGED <<fifo, stop, new_timer_added, token, registered, call, wpc>>
  BY DEF remove, worker
<1>2. id[c] \in Ids /\ id' \in [Clients -> Ids]
  BY <1>1 DEF TimerInv, Types, Ids, NoId
<1>3. slots' \in Seq(Timers) /\ free_indices' \in Seq(Nat) /\ FreeOK' /\ QueueOK' /\ CallOK'
  <2>1. CASE Is(id[c])
    BY <1>1, <1>2, <2>1, Deallocates
  <2>2. CASE ~Is(id[c])
    <3>1. UNCHANGED <<slots, free_indices>>
      BY <1>1, <2>2 DEF deallocate
    <3> QED
      BY <1>1, <3>1, ArenaSame DEF TimerInv, Types
  <2> QED
    BY <2>1, <2>2
<1>4. Types'
  BY <1>1, <1>2, <1>3 DEF TimerInv, Types
<1> QED
  BY <1>3, <1>4 DEF TimerInv

\* A callback that asks for it, or a one-shot's, ends its timer.
LEMMA DeletedStep == ASSUME TimerInv, ReturnDeleted PROVE TimerInv'
<1>1. /\ deallocate(call) /\ Is(call) /\ wpc' = "scan" /\ call' = NoCall
      /\ UNCHANGED <<fifo, stop, new_timer_added, token, registered, id>>
  BY DEF ReturnDeleted, CallIsStale, client
<1>2. call' \in Calls
  BY <1>1, TimeAssumption DEF Calls, NoCall, None
<1>3. slots' \in Seq(Timers) /\ free_indices' \in Seq(Nat) /\ FreeOK' /\ QueueOK' /\ CallOK'
  <2> DEFINE n == [idx |-> call.idx, gen |-> call.gen]
  <2>1. n \in Ids /\ n.idx = call.idx /\ n.gen = call.gen
    BY DEF TimerInv, Types, Calls, Ids
  <2>2. Is(n) /\ deallocate(n)
    BY <1>1, <2>1, Zenon DEF Is, deallocate
  <2> QED
    BY <1>1, <2>1, <2>2, Deallocates
<1>4. Types'
  BY <1>1, <1>2, <1>3 DEF TimerInv, Types
<1> QED
  BY <1>3, <1>4 DEF TimerInv

\* A timer that takes a free slot or a new one has a generation that neither
\* an entry of the queue nor the call in hand can name.
LEMMA Allocates ==
  ASSUME TimerInv, UNCHANGED <<fifo, stop, call, wpc>>,
         NEW n, NEW entry \in Timers, DOMAIN slots' = DOMAIN slots \cup {n}, slots'[n] = entry,
         \A i \in DOMAIN slots : i # n => slots'[i] = slots[i],
         n \in DOMAIN slots => ~slots[n].used /\ slots[n].gen < entry.gen,
         entry.used, ~entry.in_fifo, entry.callback = entry.gen
  PROVE  /\ QueueOK' /\ CallOK'
         /\ \A i \in DOMAIN slots' : ~slots'[i].used => slots'[i] = Freed(slots'[i].gen)
<1>1. ASSUME NEW m, m.idx \in DOMAIN slots, m.gen \in Nat, m.gen <= slots[m.idx].gen
      PROVE  /\ m.idx \in DOMAIN slots' /\ m.gen <= slots'[m.idx].gen
             /\ Is(m)' => Is(m) /\ slots'[m.idx] = slots[m.idx]
  <2>1. slots[m.idx].gen \in Nat /\ entry.gen \in Nat
    BY <1>1, SlotFacts DEF Timers, TimerInv
  <2>2. CASE m.idx = n
    <3>1. m.gen < entry.gen
      BY <1>1, <2>1, <2>2
    <3> QED
      BY <1>1, <2>1, <2>2, <3>1 DEF Is
  <2>3. CASE m.idx # n
    BY <1>1, <2>3, Zenon DEF Is
  <2> QED
    BY <2>2, <2>3, Zenon
<1>2. ASSUME NEW k \in DOMAIN fifo
      PROVE  /\ fifo[k].idx \in DOMAIN slots' /\ fifo[k].gen <= slots'[fifo[k].idx].gen
             /\ Is(fifo[k])' => Is(fifo[k]) /\ slots'[fifo[k].idx] = slots[fifo[k].idx]
  <2>1. fifo[k].idx \in DOMAIN slots /\ fifo[k].gen \in Nat /\ fifo[k].gen <= slots[fifo[k].idx].gen
    BY SlotFacts, Zenon DEF QueueOK, Ids, TimerInv
  <2>2. Is(fifo[k])' <=> fifo[k].idx \in DOMAIN slots' /\ slots'[fifo[k].idx].gen = fifo[k].gen /\ slots'[fifo[k].idx].used
    BY Zenon DEF Is
  <2>3. \A m : Is(m)' <=> m.idx \in DOMAIN slots' /\ slots'[m.idx].gen = m.gen /\ slots'[m.idx].used
    BY DEF Is
  <2> QED
    BY <1>1, <2>1, <2>2, <2>3, Zenon
<1>3. ASSUME NEW i \in DOMAIN slots', slots'[i].in_fifo
      PROVE  i \in DOMAIN slots /\ slots'[i] = slots[i]
  BY <1>3
<1>4. QueueOK'
  <2>1. \A k \in DOMAIN fifo : Is(fifo[k])' => slots'[fifo[k].idx].in_fifo
    BY <1>2, Zenon DEF QueueOK, TimerInv
  <2>2. \A j, k \in DOMAIN fifo : fifo[j] = fifo[k] /\ Is(fifo[j])' => j = k
    BY <1>2, Zenon DEF QueueOK, TimerInv
  <2>3. \A i \in DOMAIN slots' : slots'[i].in_fifo =>
          slots'[i].left <= 0 /\ \E k \in DOMAIN fifo : fifo[k] = [idx |-> i, gen |-> slots'[i].gen]
    BY <1>3 DEF QueueOK, TimerInv
  <2> QED
    BY <1>2, <2>1, <2>2, <2>3, Zenon DEF QueueOK
<1>5. CallOK'
  <2>1. wpc = "calling" => /\ call.idx \in DOMAIN slots' /\ call.gen <= slots'[call.idx].gen
                           /\ Is(call)' => Is(call) /\ slots'[call.idx] = slots[call.idx]
    <3>1. wpc = "calling" => call.idx \in DOMAIN slots /\ call.gen \in Nat /\ call.gen <= slots[call.idx].gen
      BY Zenon DEF CallOK, Types, Calls, TimerInv
    <3>2. Is(call)' <=> call.idx \in DOMAIN slots' /\ slots'[call.idx].gen = call.gen /\ slots'[call.idx].used
      BY Zenon DEF Is
    <3>3. \A m : Is(m)' <=> m.idx \in DOMAIN slots' /\ slots'[m.idx].gen = m.gen /\ slots'[m.idx].used
      BY Zenon DEF Is
    <3> QED
      BY <1>1, <3>1, <3>2, <3>3, Zenon
  <2> QED
    BY <2>1 DEF CallOK, TimerInv
<1>6. \A i \in DOMAIN slots' : ~slots'[i].used => slots'[i] = Freed(slots'[i].gen)
  BY Zenon DEF FreeOK, Freed, TimerInv
<1> QED
  BY <1>4, <1>5, <1>6, Zenon

\* add_one_shot and add_recurring.
LEMMA AddStep == ASSUME TimerInv, NEW c \in Clients, Add(c) PROVE TimerInv'
<1> DEFINE reuse == free_indices # <<>>
           n     == IF reuse THEN free_indices[Len(free_indices)] ELSE Len(slots) + 1
           gen   == IF reuse THEN slots[n].gen + 1 ELSE 1
           front == SubSeq(free_indices, 1, Len(free_indices) - 1)
<1>1. PICK left \in Periods, period \in Periods \cup {None} : allocate(c, left, period)
  BY DEF Add
<1> DEFINE entry == [gen |-> gen, used |-> TRUE, left |-> left, period |-> period,
                     enabled |-> TRUE, in_fifo |-> FALSE, callback |-> gen]
<1>2. /\ slots' = IF reuse THEN [slots EXCEPT ![n] = entry] ELSE Append(slots, entry)
      /\ free_indices' = IF reuse THEN front ELSE free_indices
      /\ id' = [id EXCEPT ![c] = [idx |-> n, gen |-> gen]]
      /\ UNCHANGED <<fifo, stop, new_timer_added, token, registered, call, wpc>>
  BY <1>1, Zenon DEF allocate, Add, worker
<1>3. reuse => /\ n \in DOMAIN slots /\ ~slots[n].used /\ slots[n].gen \in Nat /\ n = free_indices[Len(free_indices)]
               /\ IsInjective(front) /\ front \in Seq(Nat)
               /\ Range(front) = Range(free_indices) \ {n}
  <2>1. reuse => free_indices[Len(free_indices)] \in {i \in DOMAIN slots : ~slots[i].used}
    BY FrontFree, Zenon DEF FreeOK, Types, TimerInv
  <2> QED
    BY <2>1, FrontFree, SlotFacts, Zenon DEF FreeOK, Types, Timers, TimerInv
<1>4. ~reuse => n = Len(slots) + 1 /\ n \notin DOMAIN slots
  BY SlotFacts
<1>5. n \in Nat /\ gen \in Nat \ {0}
  BY <1>3, <1>4, SlotFacts
<1>6. entry \in Timers /\ entry.used /\ ~entry.in_fifo /\ entry.callback = entry.gen /\ entry.gen = gen
  BY <1>5, TimeAssumption DEF Timers, None
<1>6a. reuse => slots[n].gen < gen
  BY <1>3
<1> HIDE DEF n, entry, gen
<1>7. /\ slots' \in Seq(Timers) /\ DOMAIN slots' = DOMAIN slots \cup {n} /\ slots'[n] = entry
      /\ \A i \in DOMAIN slots : i # n => slots'[i] = slots[i]
  <2>1. CASE reuse
    <3>1. slots \in Seq(Timers) /\ n \in 1 .. Len(slots) /\ slots' = [slots EXCEPT ![n] = entry]
      BY <1>2, <1>3, <2>1 DEF Types, TimerInv
    <3>2. entry \in Timers
      BY <1>6
    <3>3. slots' \in Seq(Timers)
      BY <3>1, <3>2, OneReplaced
    <3> QED
      BY <3>1, <3>3, SlotFacts DEF TimerInv
  <2>2. CASE ~reuse
    <3>1. /\ slots' \in Seq(Timers) /\ Len(slots') = Len(slots) + 1 /\ slots'[Len(slots) + 1] = entry
          /\ \A i \in 1 .. Len(slots) : slots'[i] = slots[i]
      BY <1>2, <1>6, <2>2 DEF Types, TimerInv
    <3> QED
      BY <1>4, <2>2, <3>1
  <2> QED
    BY <2>1, <2>2, Zenon
<1>8. n \in DOMAIN slots => ~slots[n].used /\ slots[n].gen < entry.gen
  BY <1>3, <1>4, <1>6, <1>6a, Zenon
<1>9. /\ QueueOK' /\ CallOK'
      /\ \A i \in DOMAIN slots' : ~slots'[i].used => slots'[i] = Freed(slots'[i].gen)
  BY <1>2, <1>6, <1>7, <1>8, Allocates, Zenon
<1>10. IsInjective(free_indices') /\ Range(free_indices') = {i \in DOMAIN slots' : ~slots'[i].used}
  <2>1. {i \in DOMAIN slots' : ~slots'[i].used} = {i \in DOMAIN slots : ~slots[i].used} \ {n}
    BY <1>6, <1>7
  <2>2. ~reuse => n \notin Range(free_indices)
    BY <1>4 DEF FreeOK, TimerInv
  <2> QED
    BY <1>2, <1>3, <2>1, <2>2, Zenon DEF FreeOK, TimerInv
<1>11. FreeOK'
  BY <1>9, <1>10, Zenon DEF FreeOK, Freed
<1>12. Types'
  <2>1. free_indices' \in Seq(Nat)
    BY <1>2, <1>3 DEF Types, TimerInv
  <2>2. id' \in [Clients -> Ids]
    BY <1>2, <1>5 DEF Types, Ids, TimerInv
  <2> QED
    BY <1>2, <1>7, <2>1, <2>2, Zenon DEF Types, TimerInv
<1> QED
  BY <1>9, <1>11, <1>12 DEF TimerInv

-----------------------------------------------------------------------------
(* The scan *)

\* QueueOK of any arena and queue.
Live(sl, m) == m.idx \in DOMAIN sl /\ sl[m.idx].gen = m.gen /\ sl[m.idx].used
Queued(sl, q) ==
  /\ \A k \in DOMAIN q : q[k].idx \in DOMAIN sl /\ q[k].gen <= sl[q[k].idx].gen
  /\ \A j, k \in DOMAIN q : q[j] = q[k] /\ Live(sl, q[j]) => j = k
  /\ \A k \in DOMAIN q : Live(sl, q[k]) => sl[q[k].idx].in_fifo
  /\ \A i \in DOMAIN sl : sl[i].in_fifo =>
       sl[i].left <= 0 /\ \E k \in DOMAIN q : q[k] = [idx |-> i, gen |-> sl[i].gen]

\* It says of the arena and the queue what QueueOK does.
LEMMA QueuedIs == (QueueOK <=> Queued(slots, fifo)) /\ (QueueOK' <=> Queued(slots', fifo'))
BY Zenon DEF QueueOK, Queued, Live, Is

\* The expired timers, in slot order: each once, and no other.
LEMMA OrderFacts ==
  ASSUME Types, NEW S, S \subseteq DOMAIN slots, NEW order \in InSlotOrder(S)
  PROVE  /\ Len(order) \in Nat /\ order \in [1 .. Len(order) -> S]
         /\ \A j, k \in 1 .. Len(order) : order[j] = order[k] => j = k
         /\ \A i \in S : \E k \in 1 .. Len(order) : order[k] = i
<1>1. Len(order) \in Nat /\ order \in [1 .. Len(order) -> S]
  <2>1. PICK n \in 0 .. Len(slots) : order \in [1 .. n -> S]
    BY DEF InSlotOrder
  <2>2. n \in Nat /\ Len(order) = n
    BY <2>1, SlotFacts
  <2> QED
    BY <2>1, <2>2
<1>2. order \in [1 .. Len(order) -> S] /\ Range(order) = S
  BY <1>1 DEF InSlotOrder
<1>3. \A j, k \in 1 .. Len(order) : j < k => order[j] < order[k]
  BY <1>2 DEF InSlotOrder
<1>4. S \subseteq Nat
  BY SlotFacts
<1>5. \A j \in 1 .. Len(order) : order[j] \in Nat
  BY <1>2, <1>4
<1>6. \A j, k \in 1 .. Len(order) : order[j] = order[k] => j = k
  BY <1>1, <1>3, <1>5
<1>7. \A i \in S : \E k \in 1 .. Len(order) : order[k] = i
  BY <1>2 DEF Range
<1> QED
  BY <1>1, <1>2, <1>6, <1>7

\* One sequence after the other.
LEMMA Joined ==
  ASSUME NEW S, NEW s \in Seq(S), NEW t \in Seq(S)
  PROVE  /\ s \o t \in Seq(S) /\ Len(s \o t) = Len(s) + Len(t)
         /\ \A k \in 1 .. Len(s) + Len(t) : (s \o t)[k] = IF k <= Len(s) THEN s[k] ELSE t[k - Len(s)]
OBVIOUS

\* A queue with the expired timers behind what it held.
LEMMA QueueFacts ==
  ASSUME Types, NEW S, S \subseteq DOMAIN slots, NEW order \in InSlotOrder(S)
  PROVE  /\ Queue(order) \in Seq(Ids) /\ Len(Queue(order)) = Len(fifo) + Len(order)
         /\ \A k \in 1 .. Len(fifo) : Queue(order)[k] = fifo[k]
         /\ \A k \in 1 .. Len(order) :
              Queue(order)[Len(fifo) + k] = [idx |-> order[k], gen |-> slots[order[k]].gen]
<1> DEFINE n == Len(order)
           ids == [k \in DOMAIN order |-> [idx |-> order[k], gen |-> slots[order[k]].gen]]
<1>1. n \in Nat /\ order \in [1 .. n -> S] /\ DOMAIN order = 1 .. n
  BY OrderFacts
<1> HIDE DEF n
<1>2. \A k \in 1 .. n : [idx |-> order[k], gen |-> slots[order[k]].gen] \in Ids
  <2> SUFFICES ASSUME NEW k \in 1 .. n PROVE [idx |-> order[k], gen |-> slots[order[k]].gen] \in Ids
    OBVIOUS
  <2>1. order[k] \in DOMAIN slots /\ order[k] \in Nat
    BY <1>1, SlotFacts
  <2>2. slots[order[k]].gen \in Nat
    BY <2>1, SlotFacts DEF Timers
  <2> QED
    BY <2>1, <2>2, Zenon DEF Ids
<1>3. ids \in Seq(Ids) /\ Len(ids) = n /\ \A k \in 1 .. n : ids[k] = [idx |-> order[k], gen |-> slots[order[k]].gen]
  BY <1>1, <1>2
<1>4. fifo \in Seq(Ids) /\ Len(fifo) \in Nat /\ Queue(order) = fifo \o ids
  BY DEF Types, Queue
<1> HIDE DEF ids
<1>5. /\ Queue(order) \in Seq(Ids) /\ Len(Queue(order)) = Len(fifo) + n
      /\ \A k \in 1 .. Len(fifo) + n : Queue(order)[k] = IF k <= Len(fifo) THEN fifo[k] ELSE ids[k - Len(fifo)]
  <2>1. ids \in Seq(Ids) /\ Len(ids) = n /\ n \in Nat
    BY <1>1, <1>3
  <2>2. /\ fifo \o ids \in Seq(Ids) /\ Len(fifo \o ids) = Len(fifo) + Len(ids)
        /\ \A k \in 1 .. Len(fifo) + Len(ids) :
             (fifo \o ids)[k] = IF k <= Len(fifo) THEN fifo[k] ELSE ids[k - Len(fifo)]
    BY <1>4, <2>1, Joined, Zenon
  <2> QED
    BY <1>4, <2>1, <2>2, Zenon
<1>6. \A k \in 1 .. Len(fifo) : Queue(order)[k] = fifo[k]
  BY <1>1, <1>4, <1>5
<1>7. ASSUME NEW k \in 1 .. n PROVE Queue(order)[Len(fifo) + k] = [idx |-> order[k], gen |-> slots[order[k]].gen]
  <2>1. Len(fifo) + k \in 1 .. Len(fifo) + n /\ ~(Len(fifo) + k <= Len(fifo)) /\ (Len(fifo) + k) - Len(fifo) = k
    BY <1>1, <1>4
  <2> QED
    BY <1>3, <1>5, <2>1, Zenon
<1> QED
  BY <1>5, <1>6, <1>7, Zenon DEF n

\* The expired timers marked, and queued behind the others.
LEMMA Marking ==
  ASSUME TimerInv, NEW lag \in {0, 1}, NEW order \in InSlotOrder(Expired(lag)),
         NEW marked, DOMAIN marked = DOMAIN slots, \A i \in DOMAIN slots : marked[i] \in Timers,
         \A i \in DOMAIN slots : /\ marked[i].gen = slots[i].gen /\ marked[i].used = slots[i].used
                                 /\ marked[i].left = slots[i].left
                                 /\ marked[i].in_fifo = (slots[i].in_fifo \/ i \in Expired(lag))
  PROVE  Queued(marked, Queue(order))
<1> DEFINE E == Expired(lag)
           n == Len(order)
           q == Queue(order)
           l == Len(fifo)
<1>1. E \subseteq DOMAIN slots /\ Types
  BY Zenon DEF Expired, TimerInv
<1>2. \A i \in E : slots[i].used /\ ~slots[i].in_fifo /\ slots[i].left + lag <= 0
  BY Zenon DEF Expired
<1>3. /\ n \in Nat /\ order \in [1 .. n -> E]
      /\ \A j, k \in 1 .. n : order[j] = order[k] => j = k
      /\ \A i \in E : \E k \in 1 .. n : order[k] = i
  BY <1>1, OrderFacts, Zenon
<1>4. /\ q \in Seq(Ids) /\ Len(q) = l + n /\ \A k \in 1 .. l : q[k] = fifo[k]
      /\ \A k \in 1 .. n : q[l + k] = [idx |-> order[k], gen |-> slots[order[k]].gen]
  BY <1>1, QueueFacts, Zenon
<1>5. /\ l \in Nat /\ DOMAIN fifo = 1 .. l /\ DOMAIN q = 1 .. l + n
      /\ \A i \in DOMAIN slots : slots[i] \in Timers /\ slots[i].gen \in Nat /\ slots[i].left \in Int
  BY <1>1, <1>4, SlotFacts DEF Timers
<1> HIDE DEF E, n, q, l
<1>6. Queued(slots, fifo)
  BY QueuedIs, Zenon DEF TimerInv
<1>7. \A m : Live(marked, m) <=> Live(slots, m)
  BY Zenon DEF Live
<1>8. ASSUME NEW k \in DOMAIN q
      PROVE  \/ k \in DOMAIN fifo /\ q[k] = fifo[k]
             \/ \E j \in 1 .. n : /\ k = l + j /\ order[j] \in E
                                  /\ q[k] = [idx |-> order[j], gen |-> slots[order[j]].gen]
  <2>1. CASE k <= l
    BY <1>4, <1>5, <2>1
  <2>2. CASE k > l
    <3>1. k - l \in 1 .. n /\ k = l + (k - l)
      BY <1>3, <1>5, <2>2
    <3>2. order[k - l] \in E
      BY <1>3, <3>1, Zenon
    <3> QED
      BY <1>4, <3>1, <3>2, Zenon
  <2> QED
    BY <1>3, <1>5, <2>1, <2>2
<1>9. \A k \in DOMAIN q : q[k].idx \in DOMAIN marked /\ q[k].gen <= marked[q[k].idx].gen
  BY <1>1, <1>5, <1>6, <1>8 DEF Queued, E
<1>10. ASSUME NEW k \in DOMAIN q, Live(marked, q[k]) PROVE marked[q[k].idx].in_fifo
  <2>1. q[k].idx \in DOMAIN slots /\ Live(slots, q[k])
    BY <1>7, <1>10, Zenon DEF Live
  <2>2. CASE k \in DOMAIN fifo /\ q[k] = fifo[k]
    BY <1>6, <2>1, <2>2, Zenon DEF Queued
  <2>3. ASSUME NEW j \in 1 .. n, order[j] \in E, q[k] = [idx |-> order[j], gen |-> slots[order[j]].gen]
        PROVE  marked[q[k].idx].in_fifo
    <3>1. q[k].idx \in E
      BY <2>3
    <3> QED
      BY <2>1, <3>1, Zenon DEF E
  <2> QED
    BY <1>8, <2>2, <2>3, Zenon
<1>11. ASSUME NEW j \in DOMAIN q, NEW k \in DOMAIN q, q[j] = q[k], Live(marked, q[j])
       PROVE  j = k
  <2>1. ASSUME NEW a \in DOMAIN fifo, NEW b \in 1 .. n, order[b] \in E,
               fifo[a] = [idx |-> order[b], gen |-> slots[order[b]].gen]
        PROVE  FALSE
    <3>1. fifo[a].idx = order[b] /\ fifo[a].gen = slots[order[b]].gen
      BY <2>1
    <3>2. Live(slots, fifo[a])
      BY <1>1, <1>2, <2>1, <3>1, Zenon DEF Live, E
    <3> QED
      BY <1>2, <1>6, <2>1, <3>1, <3>2, Zenon DEF Queued, E
  <2>2. ASSUME NEW a \in 1 .. n, NEW b \in 1 .. n,
               [idx |-> order[a], gen |-> slots[order[a]].gen] = [idx |-> order[b], gen |-> slots[order[b]].gen]
        PROVE  a = b
    <3>1. order[a] = order[b]
      BY <2>2, Zenon
    <3> QED
      BY <1>3, <3>1, Zenon
  <2>3. CASE j \in DOMAIN fifo /\ q[j] = fifo[j] /\ k \in DOMAIN fifo /\ q[k] = fifo[k]
    BY <1>6, <1>7, <1>11, <2>3, Zenon DEF Queued
  <2> QED
    BY <1>8, <1>11, <2>1, <2>2, <2>3
<1>12. ASSUME NEW i \in DOMAIN marked, marked[i].in_fifo
       PROVE  marked[i].left <= 0 /\ \E k \in DOMAIN q : q[k] = [idx |-> i, gen |-> marked[i].gen]
  <2>1. CASE slots[i].in_fifo
    <3>1. slots[i].left <= 0 /\ \E k \in DOMAIN fifo : fifo[k] = [idx |-> i, gen |-> slots[i].gen]
      BY <1>6, <2>1, Zenon DEF Queued
    <3>2. \A k \in DOMAIN fifo : k \in DOMAIN q /\ q[k] = fifo[k]
      BY <1>3, <1>4, <1>5
    <3> QED
      BY <3>1, <3>2, Zenon
  <2>2. CASE i \in E
    <3>1. slots[i].left <= 0
      BY <1>2, <1>5, <2>2 DEF E
    <3>2. PICK k \in 1 .. n : order[k] = i
      BY <1>3, <2>2, Zenon
    <3>3. l + k \in DOMAIN q
      BY <1>3, <1>5
    <3>4. q[l + k] = [idx |-> i, gen |-> slots[i].gen]
      BY <1>4, <3>2, Zenon
    <3>5. marked[i].gen = slots[i].gen /\ marked[i].left = slots[i].left
      BY Zenon
    <3> QED
      BY <3>1, <3>3, <3>4, <3>5, Zenon
  <2> QED
    BY <1>12, <2>1, <2>2, Zenon DEF E
<1>13. Queued(marked, q)
  BY <1>9, <1>10, <1>11, <1>12, Zenon DEF Queued
<1> QED
  BY <1>13, Zenon DEF q

\* The head leaves the queue, and its timer loses the mark if it still lives.
LEMMA Popping ==
  ASSUME NEW sl, NEW q \in Seq(Ids), q # <<>>, Queued(sl, q), NEW af, DOMAIN af = DOMAIN sl,
         \A i \in DOMAIN sl : /\ af[i].gen = sl[i].gen /\ af[i].used = sl[i].used /\ af[i].left = sl[i].left
                              /\ sl[i].in_fifo \in BOOLEAN
                              /\ af[i].in_fifo = (sl[i].in_fifo /\ ~(Live(sl, Head(q)) /\ i = Head(q).idx)),
         \A i \in DOMAIN sl : ~sl[i].used => ~sl[i].in_fifo
  PROVE  Queued(af, Tail(q))
<1> DEFINE t == Tail(q)
           n == Len(q)
<1>1. /\ n \in Nat \ {0} /\ DOMAIN q = 1 .. n /\ DOMAIN t = 1 .. n - 1 /\ Head(q) = q[1]
      /\ \A k \in 1 .. n - 1 : t[k] = q[k + 1] /\ k + 1 \in 1 .. n
      /\ \A k \in 1 .. n : q[k] \in Ids
  OBVIOUS
<1> HIDE DEF t, n
<1>2. \A m : Live(af, m) <=> Live(sl, m)
  BY Zenon DEF Live
<1>3. \A k \in DOMAIN t : t[k].idx \in DOMAIN af /\ t[k].gen <= af[t[k].idx].gen
  BY <1>1 DEF Queued
<1>4. \A j, k \in DOMAIN t : t[j] = t[k] /\ Live(af, t[j]) => j = k
  <2> SUFFICES ASSUME NEW j \in DOMAIN t, NEW k \in DOMAIN t, t[j] = t[k], Live(af, t[j]) PROVE j = k
    BY Zenon
  <2>1. j + 1 \in DOMAIN q /\ k + 1 \in DOMAIN q /\ q[j + 1] = q[k + 1] /\ Live(sl, q[j + 1])
    BY <1>1, <1>2, Zenon
  <2>2. j + 1 = k + 1
    BY <2>1, Zenon DEF Queued
  <2> QED
    BY <1>1, <2>2
<1>5. ASSUME NEW k \in DOMAIN t, Live(af, t[k]) PROVE af[t[k].idx].in_fifo
  <2>1. k + 1 \in DOMAIN q /\ t[k] = q[k + 1] /\ k + 1 # 1 /\ 1 \in DOMAIN q /\ q[1] \in Ids /\ q[k + 1] \in Ids
    BY <1>1
  <2>2. Live(sl, q[k + 1])
    BY <1>2, <1>5, <2>1, Zenon
  <2>3. sl[q[k + 1].idx].in_fifo /\ q[k + 1].idx \in DOMAIN sl
    BY <2>1, <2>2, Zenon DEF Queued
  <2>4. ~(Live(sl, q[1]) /\ q[k + 1].idx = q[1].idx)
    <3>1. SUFFICES ASSUME Live(sl, q[1]), q[k + 1].idx = q[1].idx PROVE FALSE
      BY Zenon
    <3>2. q[k + 1].gen = q[1].gen
      BY <2>2, <3>1, Zenon DEF Live
    <3>3. q[k + 1] = q[1]
      BY <2>1, <3>1, <3>2 DEF Ids
    <3> QED
      BY <2>1, <2>2, <3>3, Zenon DEF Queued
  <2> QED
    BY <1>1, <2>1, <2>3, <2>4, Zenon
<1>6. ASSUME NEW i \in DOMAIN af, af[i].in_fifo
      PROVE  af[i].left <= 0 /\ \E k \in DOMAIN t : t[k] = [idx |-> i, gen |-> af[i].gen]
  <2>1. sl[i].in_fifo /\ ~(Live(sl, q[1]) /\ i = q[1].idx) /\ sl[i].used
    BY <1>1, <1>6, Zenon
  <2>2. sl[i].left <= 0 /\ \E k \in DOMAIN q : q[k] = [idx |-> i, gen |-> sl[i].gen]
    BY <2>1, Zenon DEF Queued
  <2>3. PICK k \in DOMAIN q : q[k] = [idx |-> i, gen |-> sl[i].gen]
    BY <2>2, Zenon
  <2>4. q[k].idx = i /\ q[k].gen = sl[i].gen
    BY <2>3
  <2>5. k # 1
    BY <2>1, <2>4, Zenon DEF Live
  <2>6. k - 1 \in DOMAIN t /\ t[k - 1] = q[k]
    <3>1. k - 1 \in 1 .. n - 1 /\ (k - 1) + 1 = k
      BY <1>1, <2>5
    <3> QED
      BY <1>1, <3>1, Zenon
  <2> QED
    BY <2>2, <2>3, <2>6, Zenon
<1>7. Queued(af, t)
  BY <1>3, <1>4, <1>5, <1>6, Zenon DEF Queued
<1> QED
  BY <1>7, Zenon DEF t

\* Timers that agree on every field are equal.
LEMMA TimerEqual ==
  ASSUME NEW s \in Timers, NEW t \in Timers, s.gen = t.gen, s.used = t.used, s.left = t.left,
         s.period = t.period, s.enabled = t.enabled, s.in_fifo = t.in_fifo, s.callback = t.callback
  PROVE  s = t
BY DEF Timers

\* The timer at the head when it leaves the queue.
LEMMA PoppedFacts ==
  ASSUME NEW t \in Timers, NEW take \in BOOLEAN
  PROVE  LET s == Popped(t, take)
         IN  /\ s \in Timers /\ s.gen = t.gen /\ s.used = t.used /\ s.left = t.left /\ s.period = t.period
             /\ s.enabled = t.enabled /\ ~s.in_fifo /\ s.callback = IF take THEN None ELSE t.callback
<1> DEFINE s == Popped(t, take)
<1> SUFFICES /\ s \in Timers /\ s.gen = t.gen /\ s.used = t.used /\ s.left = t.left /\ s.period = t.period
             /\ s.enabled = t.enabled /\ ~s.in_fifo /\ s.callback = IF take THEN None ELSE t.callback
  BY Zenon
<1>1. PICK x \in Nat : x = IF take THEN None ELSE t.callback
  BY DEF Timers, None
<1>2. s = [[t EXCEPT !.callback = x] EXCEPT !.in_fifo = FALSE]
  BY <1>1 DEF Popped
<1>3. LET u == [t EXCEPT !.callback = x]
      IN  /\ u \in Timers /\ u.gen = t.gen /\ u.used = t.used /\ u.left = t.left
          /\ u.period = t.period /\ u.enabled = t.enabled /\ u.callback = x
  BY <1>1, WithCallback, Zenon
<1>4. PICK u \in Timers : /\ u = [t EXCEPT !.callback = x] /\ u.gen = t.gen /\ u.used = t.used /\ u.left = t.left
                          /\ u.period = t.period /\ u.enabled = t.enabled /\ u.callback = x
  BY <1>3, Zenon
<1> HIDE DEF s
<1>5. s = [u EXCEPT !.in_fifo = FALSE] /\ u \in Timers /\ FALSE \in BOOLEAN
  BY <1>2, <1>4, Zenon
<1>6. /\ s \in Timers /\ s.in_fifo = FALSE /\ s.gen = u.gen /\ s.used = u.used /\ s.left = u.left
      /\ s.period = u.period /\ s.enabled = u.enabled /\ s.callback = u.callback
  BY <1>5, WithMark, Zenon
<1> QED
  BY <1>1, <1>4, <1>6, Zenon

\* The arena with the expired timers marked.
LEMMA MarkedFacts ==
  ASSUME Types, NEW lag
  PROVE  /\ DOMAIN Marked(lag) = DOMAIN slots
         /\ Marked(lag) = [i \in DOMAIN slots |-> Marked(lag)[i]]
         /\ \A i \in DOMAIN slots :
              /\ Marked(lag)[i] \in Timers
              /\ Marked(lag)[i].gen = slots[i].gen /\ Marked(lag)[i].used = slots[i].used
              /\ Marked(lag)[i].left = slots[i].left /\ Marked(lag)[i].period = slots[i].period
              /\ Marked(lag)[i].enabled = slots[i].enabled /\ Marked(lag)[i].callback = slots[i].callback
              /\ Marked(lag)[i].in_fifo = (slots[i].in_fifo \/ i \in Expired(lag))
<1>0. DOMAIN Marked(lag) = DOMAIN slots /\ Marked(lag) = [i \in DOMAIN slots |-> Marked(lag)[i]]
  BY DEF Marked
<1> SUFFICES ASSUME NEW i \in DOMAIN slots
             PROVE  /\ Marked(lag)[i] \in Timers
                    /\ Marked(lag)[i].gen = slots[i].gen /\ Marked(lag)[i].used = slots[i].used
                    /\ Marked(lag)[i].left = slots[i].left /\ Marked(lag)[i].period = slots[i].period
                    /\ Marked(lag)[i].enabled = slots[i].enabled /\ Marked(lag)[i].callback = slots[i].callback
                    /\ Marked(lag)[i].in_fifo = (slots[i].in_fifo \/ i \in Expired(lag))
  BY <1>0, Zenon
<1>1. slots[i] \in Timers
  BY SlotFacts
<1>2. PICK x \in BOOLEAN : x = (slots[i].in_fifo \/ i \in Expired(lag))
  BY <1>1, Zenon DEF Timers
<1>3. Marked(lag)[i] = [slots[i] EXCEPT !.in_fifo = x]
  BY <1>2 DEF Marked
<1>4. LET t == Marked(lag)[i]
          s == slots[i]
      IN  /\ t \in Timers /\ t.gen = s.gen /\ t.used = s.used /\ t.left = s.left /\ t.period = s.period
          /\ t.enabled = s.enabled /\ t.callback = s.callback /\ t.in_fifo = x
  BY <1>1, <1>3, WithMark
<1> QED
  BY <1>2, <1>4, Zenon

\* The arena after a scan whose queue was q: every timer is the same but for
\* the marks, and the callback of the head if it is lent to a call.
Scanned(af, lag, q, take) ==
  /\ DOMAIN af = DOMAIN slots
  /\ \A i \in DOMAIN slots :
       /\ af[i] \in Timers /\ af[i].gen = slots[i].gen /\ af[i].used = slots[i].used /\ af[i].left = slots[i].left
       /\ af[i].period = slots[i].period /\ af[i].enabled = slots[i].enabled
       /\ af[i].in_fifo = ((slots[i].in_fifo \/ i \in Expired(lag))
                             /\ ~(q # <<>> /\ Is(Head(q)) /\ i = Head(q).idx))
       /\ af[i].callback = IF take /\ i = Head(q).idx THEN None ELSE slots[i].callback

After(lag, q, take) ==
  IF q # <<>> /\ Is(Head(q)) THEN [Marked(lag) EXCEPT ![Head(q).idx] = Popped(@, take)] ELSE Marked(lag)

\* A pass of the loop leaves the arena as Scanned says.
LEMMA ScanArena ==
  ASSUME Types, NEW lag \in {0, 1}, NEW q, NEW take \in BOOLEAN, take => q # <<>> /\ Is(Head(q))
  PROVE  /\ Scanned(After(lag, q, take), lag, q, take)
         /\ After(lag, q, take) = [i \in DOMAIN slots |-> After(lag, q, take)[i]]
<1> DEFINE marked == Marked(lag)
           live   == q # <<>> /\ Is(Head(q))
           h      == Head(q).idx
           after  == After(lag, q, take)
<1>1. \A i \in DOMAIN slots :
        /\ marked[i] \in Timers /\ marked[i].gen = slots[i].gen /\ marked[i].used = slots[i].used
        /\ marked[i].left = slots[i].left /\ marked[i].period = slots[i].period
        /\ marked[i].enabled = slots[i].enabled /\ marked[i].callback = slots[i].callback
        /\ marked[i].in_fifo = (slots[i].in_fifo \/ i \in Expired(lag))
  BY MarkedFacts
<1>2. DOMAIN marked = DOMAIN slots /\ marked = [i \in DOMAIN slots |-> marked[i]]
  BY MarkedFacts, Zenon
<1>0. after = IF live THEN [marked EXCEPT ![h] = Popped(marked[h], take)] ELSE marked
  BY Zenon DEF After
<1> HIDE DEF marked, after
<1> SUFFICES Scanned(after, lag, q, take) /\ after = [i \in DOMAIN slots |-> after[i]]
  BY DEF after
<1>3. CASE live
  <2>1. h \in DOMAIN slots /\ after = [marked EXCEPT ![h] = Popped(marked[h], take)]
    BY <1>0, <1>3, Zenon DEF Is
  <2>2. /\ DOMAIN after = DOMAIN slots /\ after[h] = Popped(marked[h], take)
        /\ \A i \in DOMAIN slots : i # h => after[i] = marked[i]
        /\ after = [i \in DOMAIN slots |-> after[i]]
    BY <1>2, <2>1, Zenon
  <2>3. LET s == after[h]
            t == marked[h]
        IN  /\ s \in Timers /\ s.gen = t.gen /\ s.used = t.used /\ s.left = t.left /\ s.period = t.period
            /\ s.enabled = t.enabled /\ ~s.in_fifo /\ s.callback = IF take THEN None ELSE t.callback
    BY <1>1, <2>1, <2>2, PoppedFacts
  <2>4. ASSUME NEW i \in DOMAIN slots
        PROVE  /\ after[i] \in Timers /\ after[i].gen = slots[i].gen /\ after[i].used = slots[i].used
               /\ after[i].left = slots[i].left
               /\ after[i].period = slots[i].period /\ after[i].enabled = slots[i].enabled
               /\ after[i].in_fifo = ((slots[i].in_fifo \/ i \in Expired(lag)) /\ ~(live /\ i = h))
               /\ after[i].callback = IF take /\ i = h THEN None ELSE slots[i].callback
    <3>1. CASE i = h
      <4>1. after[i].in_fifo = FALSE
        BY <2>3, <3>1, Zenon DEF Timers
      <4> QED
        BY <1>1, <1>3, <2>3, <3>1, <4>1, Zenon
    <3>2. CASE i # h
      <4>1. after[i] = marked[i]
        BY <2>2, <3>2
      <4>2. marked[i].in_fifo \in BOOLEAN
        BY <1>1, Zenon DEF Timers
      <4> QED
        BY <1>1, <3>2, <4>1, <4>2, Zenon
    <3> QED
      BY <3>1, <3>2, Zenon
  <2> QED
    BY <2>2, <2>4, Zenon DEF Scanned
<1>4. CASE ~live
  <2>1. after = marked /\ take = FALSE
    BY <1>0, <1>4, Zenon
  <2>4. ASSUME NEW i \in DOMAIN slots
        PROVE  after[i].in_fifo = ((slots[i].in_fifo \/ i \in Expired(lag)) /\ ~(live /\ i = h))
    <3>1. marked[i].in_fifo \in BOOLEAN
      BY <1>1 DEF Timers
    <3> QED
      BY <1>1, <1>4, <2>1, <3>1, Zenon
  <2>5. \A i \in DOMAIN slots :
          after[i].callback = IF take /\ i = h THEN None ELSE slots[i].callback
    BY <1>1, <2>1, Zenon
  <2>6. Scanned(after, lag, q, take) /\ after = [i \in DOMAIN slots |-> after[i]]
    BY <1>1, <1>2, <2>1, <2>4, <2>5, Zenon DEF Scanned
  <2> QED
    BY <2>6
<1> QED
  BY <1>3, <1>4

\* A pass of the worker under the lock.
LEMMA ScanStep == ASSUME TimerInv, Scan PROVE TimerInv'
<1>1. /\ wpc = "scan" /\ ~stop /\ new_timer_added' = FALSE
      /\ UNCHANGED <<free_indices, stop, token, registered, id>>
  BY Zenon DEF Scan, client
<1>0. PICK lag \in {0, 1} : \E order \in InSlotOrder(Expired(lag)) :
        LET queue  == Queue(order)
            head   == Head(queue)
            live   == queue # <<>> /\ Is(head)
            take   == live /\ slots[head.idx].enabled
            after  == IF live THEN [Marked(lag) EXCEPT ![head.idx] = Popped(@, take)] ELSE Marked(lag)
            waits  == {after[i].left : i \in {j \in DOMAIN slots : /\ after[j].used /\ after[j].enabled
                                                                   /\ ~after[j].in_fifo}}
        IN  /\ slots' = after
            /\ fifo' = IF queue = <<>> THEN <<>> ELSE Tail(queue)
            /\ IF take /\ slots[head.idx].callback # None
               THEN /\ wpc' = "calling" /\ UNCHANGED target
                    /\ call' = [idx |-> head.idx, gen |-> head.gen,
                                callback |-> slots[head.idx].callback, catch_up |-> 0]
               ELSE /\ UNCHANGED call
                    /\ wpc' = IF take THEN "scan" ELSE IF waits = {} THEN "check" ELSE "wait"
                    /\ target' = IF ~take /\ waits # {} THEN Min(waits) ELSE 0
  BY Zenon DEF Scan
<1>2. PICK order \in InSlotOrder(Expired(lag)) :
        LET queue  == Queue(order)
            head   == Head(queue)
            live   == queue # <<>> /\ Is(head)
            take   == live /\ slots[head.idx].enabled
            after  == IF live THEN [Marked(lag) EXCEPT ![head.idx] = Popped(@, take)] ELSE Marked(lag)
            waits  == {after[i].left : i \in {j \in DOMAIN slots : /\ after[j].used /\ after[j].enabled
                                                                   /\ ~after[j].in_fifo}}
        IN  /\ slots' = after
            /\ fifo' = IF queue = <<>> THEN <<>> ELSE Tail(queue)
            /\ IF take /\ slots[head.idx].callback # None
               THEN /\ wpc' = "calling" /\ UNCHANGED target
                    /\ call' = [idx |-> head.idx, gen |-> head.gen,
                                callback |-> slots[head.idx].callback, catch_up |-> 0]
               ELSE /\ UNCHANGED call
                    /\ wpc' = IF take THEN "scan" ELSE IF waits = {} THEN "check" ELSE "wait"
                    /\ target' = IF ~take /\ waits # {} THEN Min(waits) ELSE 0
  BY <1>0, Zenon
<1> DEFINE q    == Queue(order)
           live == q # <<>> /\ Is(Head(q))
           take == live /\ slots[Head(q).idx].enabled
<1>3. take \in BOOLEAN /\ (take => q # <<>> /\ Is(Head(q)))
  <2>1. live => slots[Head(q).idx].enabled \in BOOLEAN
    BY SlotFacts, Zenon DEF TimerInv, Is, Timers
  <2> QED
    BY <2>1, Zenon
<1>3a. slots' = After(lag, q, take)
  BY <1>2, Zenon DEF After
<1>5. /\ fifo' = IF q = <<>> THEN <<>> ELSE Tail(q)
      /\ IF take /\ slots[Head(q).idx].callback # None
         THEN /\ wpc' = "calling"
              /\ call' = [idx |-> Head(q).idx, gen |-> Head(q).gen,
                          callback |-> slots[Head(q).idx].callback, catch_up |-> 0]
         ELSE UNCHANGED call /\ wpc' \in {"scan", "check", "wait"}
  BY <1>2, Zenon
<1>4. Scanned(slots', lag, q, take) /\ slots' = [i \in DOMAIN slots |-> slots'[i]]
  <2>1. Types
    BY DEF TimerInv
  <2> HIDE DEF q, take
  <2>2. Scanned(After(lag, q, take), lag, q, take) /\ After(lag, q, take) = [i \in DOMAIN slots |-> After(lag, q, take)[i]]
    BY <1>3, <2>1, ScanArena
  <2> QED
    BY <1>3a, <2>2, Zenon
<1>5a. Expired(lag) \subseteq DOMAIN slots /\ \A i \in Expired(lag) : slots[i].used
  BY Zenon DEF Expired
<1>5b. q \in Seq(Ids)
  BY <1>5a, QueueFacts, Zenon DEF TimerInv
<1> DEFINE marked == Marked(lag)
<1> HIDE DEF q
<1>6. /\ DOMAIN marked = DOMAIN slots
      /\ \A i \in DOMAIN slots :
           /\ marked[i] \in Timers /\ marked[i].gen = slots[i].gen /\ marked[i].used = slots[i].used
           /\ marked[i].left = slots[i].left
           /\ marked[i].in_fifo = (slots[i].in_fifo \/ i \in Expired(lag))
  BY MarkedFacts, Zenon DEF TimerInv
<1> HIDE DEF marked
<1>7. Queued(marked, q)
  BY <1>6, Marking, Zenon DEF q
<1>8. Queued(slots', fifo')
  <2>1. CASE q = <<>>
    BY <1>4, <1>5, <1>6, <1>7, <2>1 DEF Queued, Scanned, Live
  <2>2. CASE q # <<>>
    <3>1. \A m : Live(marked, m) <=> Is(m)
      BY <1>6, Zenon DEF Live, Is
    <3>2. \A i \in DOMAIN slots : marked[i].in_fifo \in BOOLEAN
      BY <1>6, Zenon DEF Timers
    <3>3. \A i \in DOMAIN slots :
            /\ slots'[i].gen = marked[i].gen /\ slots'[i].used = marked[i].used
            /\ slots'[i].left = marked[i].left
            /\ slots'[i].in_fifo = (marked[i].in_fifo /\ ~(Live(marked, Head(q)) /\ i = Head(q).idx))
      BY <1>4, <1>6, <2>2, <3>1, Zenon DEF Scanned
    <3>4. \A i \in DOMAIN slots : ~slots[i].used => ~slots[i].in_fifo /\ i \notin Expired(lag)
      BY <1>5a, BlankSlots, Zenon DEF Expired, TimerInv
    <3>5. \A i \in DOMAIN slots : ~marked[i].used => ~marked[i].in_fifo
      BY <1>6, <3>4, Zenon
    <3>6. DOMAIN slots' = DOMAIN marked
      BY <1>4, <1>6, Zenon DEF Scanned
    <3>7. Queued(slots', Tail(q))
      BY <1>5b, <1>6, <1>7, <2>2, <3>2, <3>3, <3>5, <3>6, Popping, Zenon
    <3> QED
      BY <1>5, <2>2, <3>7, Zenon
  <2> QED
    BY <2>1, <2>2
<1>9. QueueOK'
  BY <1>8, QueuedIs
<1>10. /\ DOMAIN slots' = DOMAIN slots /\ slots' \in Seq(Timers)
       /\ \A i \in DOMAIN slots :
            /\ slots'[i].gen = slots[i].gen /\ slots'[i].used = slots[i].used /\ slots'[i].left = slots[i].left
            /\ slots'[i].callback = IF take /\ i = Head(q).idx THEN None ELSE slots[i].callback
  <2>1. DOMAIN slots' = DOMAIN slots /\ \A i \in DOMAIN slots : slots'[i] \in Timers
    BY <1>4, Zenon DEF Scanned
  <2> QED
    BY <1>4, <2>1, SameArena DEF Scanned
<1>11. FreeOK'
  <2>1. ASSUME NEW i \in DOMAIN slots, ~slots[i].used PROVE slots'[i] = slots[i]
    <3>1. slots[i].in_fifo = FALSE /\ i \notin Expired(lag) /\ slots[i] \in Timers
      BY <1>5a, <2>1, BlankSlots, SlotFacts, Zenon DEF Expired, TimerInv
    <3>2. take => Head(q).idx # i
      BY <2>1, Zenon DEF Is
    <3>3. /\ slots'[i] \in Timers /\ slots'[i].gen = slots[i].gen /\ slots'[i].used = slots[i].used
          /\ slots'[i].left = slots[i].left /\ slots'[i].period = slots[i].period
          /\ slots'[i].enabled = slots[i].enabled /\ slots'[i].callback = slots[i].callback
      BY <1>4, <3>2, Zenon DEF Scanned
    <3>4. slots'[i].in_fifo = slots[i].in_fifo
      BY <1>4, <3>1, Zenon DEF Scanned
    <3> QED
      BY <3>1, <3>3, <3>4, TimerEqual, Zenon
  <2>2. {i \in DOMAIN slots' : ~slots'[i].used} = {i \in DOMAIN slots : ~slots[i].used}
    BY <1>10
  <2>3. \A i \in DOMAIN slots' : ~slots'[i].used => slots'[i] = Freed(slots'[i].gen)
    BY <1>10, <2>1, Zenon DEF FreeOK, Freed, TimerInv
  <2> QED
    BY <1>1, <2>2, <2>3, Zenon DEF FreeOK, Freed, TimerInv
<1>12. fifo' \in Seq(Ids)
  BY <1>5, <1>5b
<1>13. ASSUME take
       PROVE  /\ Head(q).idx \in DOMAIN slots /\ slots[Head(q).idx].used /\ slots[Head(q).idx].gen = Head(q).gen
              /\ slots[Head(q).idx].callback = Head(q).gen /\ Head(q).gen \in Nat \ {0}
              /\ slots[Head(q).idx].left <= 0 /\ slots'[Head(q).idx].in_fifo = FALSE
              /\ Head(q).idx \in Nat
  <2> DEFINE h == Head(q)
  <2>1. q # <<>> /\ h.idx \in DOMAIN slots /\ slots[h.idx].used /\ slots[h.idx].gen = h.gen
    BY <1>13, Zenon DEF Is
  <2>2. slots[h.idx].callback = h.gen
    BY <1>1, <2>1, Zenon DEF CallOK, TimerInv
  <2>3. h.gen \in Nat \ {0} /\ h.idx \in Nat
    BY <2>1, SlotFacts DEF Timers, TimerInv
  <2>4. Live(marked, h) /\ 1 \in DOMAIN q /\ h = q[1]
    BY <1>5b, <1>6, <2>1 DEF Live
  <2>5. marked[h.idx].in_fifo
    BY <1>7, <2>4, Zenon DEF Queued
  <2>6. slots[h.idx].left <= 0
    BY <1>6, <1>7, <2>1, <2>5, Zenon DEF Queued
  <2>7. slots'[h.idx].in_fifo = FALSE
    BY <1>4, <1>13, <2>1, Zenon DEF Scanned
  <2> QED
    BY <2>1, <2>2, <2>3, <2>6, <2>7, Zenon
<1>14. CASE take
  <2>1. /\ wpc' = "calling" /\ call'.idx = Head(q).idx /\ call'.gen = Head(q).gen
        /\ call'.callback = Head(q).gen /\ call' \in Calls
    <3>1. slots[Head(q).idx].callback # None
      BY <1>13, <1>14, Zenon DEF None
    <3>2. /\ wpc' = "calling"
          /\ call' = [idx |-> Head(q).idx, gen |-> Head(q).gen, callback |-> Head(q).gen, catch_up |-> 0]
      BY <1>5, <1>13, <1>14, <3>1, Zenon
    <3>3. 0 \in 0 .. MAX_CATCHUP - 1
      BY TimeAssumption
    <3> QED
      BY <1>13, <1>14, <3>2, <3>3, Zenon DEF Calls
  <2>2. CallOK'
    <3> DEFINE h == Head(q)
    <3>1. /\ h.idx \in DOMAIN slots' /\ slots'[h.idx].gen = h.gen /\ slots'[h.idx].left <= 0
          /\ slots'[h.idx].in_fifo = FALSE /\ slots'[h.idx].callback = None /\ h.gen \in Nat
      BY <1>10, <1>13, <1>14, Zenon
    <3>2. \A i \in DOMAIN slots' : slots'[i].used /\ i # h.idx => slots'[i].callback = slots'[i].gen
      BY <1>1, <1>10, Zenon DEF CallOK, TimerInv
    <3> HIDE DEF h
    <3>3. call'.idx = h.idx /\ call'.gen = h.gen /\ call'.callback = h.gen /\ wpc' = "calling"
      BY <2>1, Zenon DEF h
    <3> QED
      BY <3>1, <3>2, <3>3 DEF CallOK
  <2>3. Types'
    BY <1>1, <1>10, <1>12, <2>1, Zenon DEF Types, TimerInv
  <2> QED
    BY <1>9, <1>11, <2>2, <2>3 DEF TimerInv
<1>15. CASE ~take
  <2>1. UNCHANGED call /\ wpc' \in {"scan", "check", "wait"}
    BY <1>5, <1>15, Zenon
  <2>2. CallOK'
    BY <1>1, <1>10, <1>15, <2>1, Zenon DEF CallOK, Is, TimerInv
  <2>3. Types'
    BY <1>1, <1>10, <1>12, <2>1, Zenon DEF Types, TimerInv
  <2> QED
    BY <1>9, <1>11, <2>2, <2>3 DEF TimerInv
<1> QED
  BY <1>14, <1>15, Zenon

-----------------------------------------------------------------------------
(* Theorems *)

\* A new manager has no slots and nothing queued.
LEMMA InitOK == Init => TimerInv
<1> SUFFICES ASSUME Init PROVE TimerInv
  OBVIOUS
<1>1. Types
  <2>1. NoId \in Ids /\ NoCall \in Calls
    BY TimeAssumption DEF Ids, Calls, NoId, NoCall, None
  <2>2. slots \in Seq(Timers) /\ free_indices \in Seq(Nat) /\ fifo \in Seq(Ids)
    BY DEF Init
  <2>3. call \in Calls /\ id \in [Clients -> Ids]
    BY <2>1 DEF Init
  <2>4. /\ stop \in BOOLEAN /\ new_timer_added \in BOOLEAN /\ token \in BOOLEAN /\ registered \in BOOLEAN
        /\ wpc \in {"new", "scan", "calling", "wait", "check", "parked", "done"}
    BY Zenon DEF Init
  <2> QED
    BY <2>2, <2>3, <2>4, Zenon DEF Types
<1>2. FreeOK
  BY DEF Init, FreeOK, IsInjective, Range
<1>3. QueueOK /\ CallOK
  BY DEF Init, QueueOK, CallOK
<1> QED
  BY <1>1, <1>2, <1>3 DEF TimerInv

\* Every step of a client, of a callback and of the timer thread keeps the
\* invariant.
LEMMA NextOK == TimerInv /\ [Next]_vars => TimerInv'
<1> SUFFICES ASSUME TimerInv, [Next]_vars PROVE TimerInv'
  OBVIOUS
<1>1. CASE UNCHANGED vars
  <2>1. FreeOK' /\ QueueOK' /\ CallOK'
    BY <1>1, ArenaSame DEF vars, inner, worker
  <2>2. Types'
    BY <1>1, Zenon DEF TimerInv, Types, vars, inner, worker, client
  <2> QED
    BY <2>1, <2>2 DEF TimerInv
<1>2. ASSUME NEW c \in Clients, Add(c) \/ remove(c) \/ enable(c) \/ disable(c) \/ Ends(c) PROVE TimerInv'
  BY <1>2, AddStep, RemoveStep, EnableStep, QuietStep
<1>3. CASE Stop \/ StopFlag \/ StopUnpark \/ Waits \/ WaitWoken \/ Parked
  BY <1>3, QuietStep DEF Waits
<1>4. CASE Scans
  BY <1>4, QuietStep, ScanStep, DeletedStep, KeptStep DEF Scans
<1>5. CASE Tick
  BY <1>5, TickStep
<1> QED
  BY <1>1, <1>2, <1>3, <1>4, <1>5, Zenon DEF Next

\* Every reachable state of the timer manager satisfies it.
LEMMA Invariance == Spec => []TimerInv
<1> QED
  BY InitOK, NextOK, PTL DEF Spec

\* TimerManagerInner::allocate and deallocate: whatever the clients and the
\* callbacks do, every slot is in use or on the free list, once.
THEOREM SlotsAreAccounted == Spec => []SlotsAccounted
<1>1. TimerInv => SlotsAccounted
  <2> SUFFICES ASSUME TimerInv PROVE SlotsAccounted
    OBVIOUS
  <2>1. TypeOK
    BY SlotFacts, Zenon DEF TimerInv, Types, TypeOK, Calls
  <2> QED
    BY <2>1 DEF TimerInv, FreeOK, SlotsAccounted
<1> QED
  BY <1>1, Invariance, PTL

\* timer_thread_loop: until the manager stops no timer loses its callback or
\* gets another's, and none is called early.
THEOREM CallbacksStayHome == Spec => []OwnCallback
<1>1. TimerInv => OwnCallback
  BY Zenon DEF TimerInv, CallOK, OwnCallback
<1> QED
  BY <1>1, Invariance, PTL

\* timer_thread_loop: the mark of a timer and its entry come and go together.
THEOREM MarkedIsQueued == Spec => []QueuedOnce
<1>1. ASSUME TimerInv, NEW i \in DOMAIN slots, slots[i].used
      PROVE  LET entries == {k \in DOMAIN fifo : fifo[k] = [idx |-> i, gen |-> slots[i].gen]}
             IN  IF slots[i].in_fifo THEN \E k \in DOMAIN fifo : entries = {k} ELSE entries = {}
  <2> DEFINE m == [idx |-> i, gen |-> slots[i].gen]
             K == {k \in DOMAIN fifo : fifo[k] = m}
  <2>1. Is(m) /\ m.idx = i
    BY <1>1, Zenon DEF Is
  <2> SUFFICES IF slots[i].in_fifo THEN \E k \in DOMAIN fifo : K = {k} ELSE K = {}
    BY Zenon
  <2>2. slots[i].in_fifo => \E k \in DOMAIN fifo : fifo[k] = m
    BY <1>1, Zenon DEF TimerInv, QueueOK
  <2> HIDE DEF m
  <2>3. CASE slots[i].in_fifo
    <3>1. PICK k \in DOMAIN fifo : fifo[k] = m
      BY <2>2, <2>3
    <3>2. K = {k}
      BY <1>1, <2>1, <3>1, Zenon DEF TimerInv, QueueOK
    <3> QED
      BY <2>3, <3>2
  <2>4. CASE ~slots[i].in_fifo
    BY <1>1, <2>1, <2>4 DEF TimerInv, QueueOK
  <2> QED
    BY <2>3, <2>4, Zenon
<1>2. TimerInv => QueuedOnce
  BY <1>1, Zenon DEF QueuedOnce
<1> QED
  BY <1>2, Invariance, PTL
=============================================================================
