------------------------------ MODULE HpTimer -------------------------------
(***************************************************************************)
(* The timer manager (src/src/hptimer.rs): an arena of timers behind one   *)
(* lock, the worker thread that calls their callbacks with the lock        *)
(* released, and the devices that add, enable, disable and remove timers.  *)
(*                                                                         *)
(* Time is relative: left is the time to a timer's expiration, negative    *)
(* when it is late, and Tick lets it pass.  Lateness saturates at MaxLate. *)
(* A callback is represented by the generation of the timer it was added   *)
(* with, so that one that ends up in another timer's slot shows.           *)
(***************************************************************************)
EXTENDS Integers, Sequences, FiniteSetsExt

CONSTANTS Clients,       \* threads that use the manager, each with one timer at a time
          Periods,       \* of recurring timers, and delays of one-shots
          Results,       \* what a callback may return
          MAX_CATCHUP,
          MaxAllocs, MaxLate

ASSUME TimeAssumption == /\ Periods \subseteq Nat \ {0} /\ MaxLate \in Nat \ {0}
                         /\ MAX_CATCHUP \in Nat \ {0} /\ MaxAllocs \in Nat
ASSUME ResultAssumption ==
  Results \subseteq {"Continue", "Disable", "Delete", "RescheduleOneShot", "RescheduleRecurring"}

VARIABLES
  slots,                 \* sequence of [gen, used, left, period, enabled, in_fifo, callback]
  free_indices, fifo, stop,
  new_timer_added, token,   \* the flag, and the worker's park token
  registered,            \* worker_thread is set
  wpc, call, target,     \* worker: place, callback in hand, next_wakeup
  cpc, id, spc           \* clients: place, timer id; place of the owner's stop

inner == <<slots, free_indices, fifo, stop>>
worker == <<wpc, call, target>>
client == <<cpc, id, spc>>
vars == <<inner, new_timer_added, token, registered, worker, client>>

None == 0                \* no period, no callback, no id
NoId == [idx |-> 0, gen |-> 0]
NoCall == [idx |-> 0, gen |-> 0, callback |-> None, catch_up |-> 0]

Init ==
  /\ slots = <<>> /\ free_indices = <<>> /\ fifo = <<>> /\ stop = FALSE
  /\ new_timer_added = FALSE /\ token = FALSE /\ registered = FALSE
  /\ wpc = "new" /\ call = NoCall /\ target = None
  /\ cpc = [c \in Clients |-> "idle"] /\ id = [c \in Clients |-> NoId]
  /\ spc = "open"

Freed(gen) == [gen |-> gen, used |-> FALSE, left |-> 0, period |-> None,
               enabled |-> FALSE, in_fifo |-> FALSE, callback |-> None]

Is(i) == i.idx \in DOMAIN slots /\ slots[i.idx].gen = i.gen /\ slots[i.idx].used

-----------------------------------------------------------------------------
(* The arena *)

Allocs == FoldFunction(LAMBDA s, n : s.gen + n, 0, slots)

\* A freed slot is taken before a new one, under its next generation.
allocate(c, left, period) ==
  LET reuse == free_indices # <<>>
      idx   == IF reuse THEN free_indices[Len(free_indices)] ELSE Len(slots) + 1
      gen   == IF reuse THEN slots[idx].gen + 1 ELSE 1
      entry == [gen |-> gen, used |-> TRUE, left |-> left, period |-> period,
                enabled |-> TRUE, in_fifo |-> FALSE, callback |-> gen]
  IN  /\ slots' = IF reuse THEN [slots EXCEPT ![idx] = entry] ELSE Append(slots, entry)
      /\ free_indices' = IF reuse THEN SubSeq(free_indices, 1, Len(free_indices) - 1)
                         ELSE free_indices
      /\ id' = [id EXCEPT ![c] = [idx |-> idx, gen |-> gen]]

\* (mutant) the id is not looked up
deallocateAnyway(i) ==
  /\ slots' = [slots EXCEPT ![i.idx] = Freed(@.gen)]
  /\ free_indices' = Append(free_indices, i.idx)

\* The entry goes and its slot is free; an id that is out of date is ignored.
deallocate(i) ==
  IF Is(i) THEN /\ slots' = [slots EXCEPT ![i.idx] = Freed(@.gen)]
                /\ free_indices' = Append(free_indices, i.idx)
  ELSE UNCHANGED <<slots, free_indices>>

-----------------------------------------------------------------------------
(* Devices.  stop takes the manager by mutable reference: no call is under  *)
(* way then, and none comes after.                                          *)

Goto(c, place) == cpc' = [cpc EXCEPT ![c] = place]

\* add_one_shot and add_recurring
Add(c) ==
  /\ cpc[c] = "idle" /\ id[c] = NoId /\ ~stop /\ Allocs < MaxAllocs
  /\ \E left \in Periods, period \in Periods \cup {None} : allocate(c, left, period)
  /\ Goto(c, "added")
  /\ UNCHANGED <<fifo, stop, new_timer_added, token, registered, worker, spc>>

remove(c) ==
  /\ cpc[c] = "idle" /\ id[c] # NoId /\ ~stop
  /\ deallocate(id[c])
  /\ id' = [id EXCEPT ![c] = NoId]
  /\ UNCHANGED <<fifo, stop, new_timer_added, token, registered, worker, cpc, spc>>

enable(c) ==
  /\ cpc[c] = "idle" /\ Is(id[c]) /\ ~stop
  /\ slots' = [slots EXCEPT ![id[c].idx].enabled = TRUE]
  /\ Goto(c, "added")
  /\ UNCHANGED <<free_indices, fifo, stop, new_timer_added, token, registered, worker, id, spc>>

disable(c) ==
  /\ cpc[c] = "idle" /\ Is(id[c]) /\ ~stop
  /\ slots' = [slots EXCEPT ![id[c].idx].enabled = FALSE]
  /\ UNCHANGED <<free_indices, fifo, stop, new_timer_added, token, registered, worker, client>>

\* (mutant) the worker is not unparked
UnparkForgotten == UNCHANGED token

\* The second half of wake_up.
Unpark == token' = (token \/ registered)

\* wake_up raises the flag, ...
WakeFlag(c) ==
  /\ cpc[c] = "added"
  /\ new_timer_added' = TRUE
  /\ Goto(c, "unpark")
  /\ UNCHANGED <<inner, token, registered, worker, id, spc>>

\* ... then unparks the worker under the lock.
WakeUnpark(c) ==
  /\ cpc[c] = "unpark"
  /\ Unpark
  /\ Goto(c, "idle")
  /\ UNCHANGED <<inner, new_timer_added, registered, worker, id, spc>>

\* stop: the flag under the lock, then wake_up, then the join.
Stop ==
  /\ spc = "open" /\ \A c \in Clients : cpc[c] = "idle"
  /\ stop' = TRUE
  /\ spc' = "set"
  /\ UNCHANGED <<slots, free_indices, fifo, new_timer_added, token, registered, worker, cpc, id>>

StopFlag ==
  /\ spc = "set"
  /\ new_timer_added' = TRUE
  /\ spc' = "unpark"
  /\ UNCHANGED <<inner, token, registered, worker, cpc, id>>

StopUnpark ==
  /\ spc = "unpark"
  /\ Unpark
  /\ spc' = "join"
  /\ UNCHANGED <<inner, new_timer_added, registered, worker, cpc, id>>

-----------------------------------------------------------------------------
(* timer_thread_loop *)

Register ==
  /\ wpc = "new"
  /\ registered' = TRUE
  /\ wpc' = "scan"
  /\ UNCHANGED <<inner, new_timer_added, token, call, target, client>>

ScanStopped ==
  /\ wpc = "scan" /\ stop
  /\ wpc' = "done"
  /\ UNCHANGED <<inner, new_timer_added, token, registered, call, target, client>>

\* Timers that have expired join the queue in the order of their slots.
Expired(lag) == {i \in DOMAIN slots : /\ slots[i].used /\ slots[i].enabled /\ ~slots[i].in_fifo
                                      /\ slots[i].left + lag <= 0}
InSlotOrder(S) == {q \in UNION {[1 .. n -> S] : n \in 0 .. Len(slots)} :
                     Range(q) = S /\ \A j, k \in DOMAIN q : j < k => q[j] < q[k]}
Queue(order) == fifo \o [k \in DOMAIN order |-> [idx |-> order[k], gen |-> slots[order[k]].gen]]
Marked(lag) == [i \in DOMAIN slots |-> [slots[i] EXCEPT !.in_fifo = @ \/ i \in Expired(lag)]]

\* (mutant) a timer stays marked as queued while it is called
PoppedMarked(s, take) ==
  [s EXCEPT !.callback = IF take THEN None ELSE @]

\* The timer at the head leaves the queue, and lends its callback to the call.
Popped(s, take) ==
  [s EXCEPT !.callback = IF take THEN None ELSE @, !.in_fifo = FALSE]

\* One pass under the lock.  The head of the queue may be a timer that was
\* removed or disabled since; then nothing is called.  now was read before
\* the lock was taken and may be behind by then.
Scan ==
  /\ wpc = "scan" /\ ~stop
  /\ UNCHANGED <<free_indices, stop, token, registered, client>>
  /\ new_timer_added' = FALSE
  /\ \E lag \in {0, 1} : \E order \in InSlotOrder(Expired(lag)) :
     LET queue  == Queue(order)
         head   == Head(queue)
         live   == queue # <<>> /\ Is(head)
         take   == live /\ slots[head.idx].enabled
         after  == IF live THEN [Marked(lag) EXCEPT ![head.idx] = Popped(@, take)] ELSE Marked(lag)
         waits  == {after[i].left : i \in {j \in DOMAIN slots : /\ after[j].used /\ after[j].enabled
                                                                /\ ~after[j].in_fifo}}
     IN  /\ slots' = after
         /\ fifo' = IF queue = <<>> THEN <<>> ELSE Tail(queue)
         /\ IF take /\ slots[head.idx].callback # None
            THEN /\ wpc' = "calling" /\ UNCHANGED target
                 /\ call' = [idx |-> head.idx, gen |-> head.gen,
                             callback |-> slots[head.idx].callback, catch_up |-> 0]
            ELSE /\ UNCHANGED call
                 /\ wpc' = IF take THEN "scan" ELSE IF waits = {} THEN "check" ELSE "wait"
                 /\ target' = IF ~take /\ waits # {} THEN Min(waits) ELSE 0

\* (mutant) any timer in the slot will do
CallIsStaleLoose == stop \/ ~slots[call.idx].used

\* While the callback ran the manager was stopped or its timer removed.
CallIsStale == stop \/ ~Is(call)

\* Then it is dropped.
ReturnDropped ==
  /\ wpc = "calling" /\ CallIsStale
  /\ wpc' = "scan" /\ call' = NoCall
  /\ UNCHANGED <<inner, new_timer_added, token, registered, target, client>>

\* A recurring timer that is behind is called again at once, so often.
CatchesUp(s) == call.catch_up + 1 < MAX_CATCHUP /\ s.enabled /\ s.left <= 0

\* The timer after a callback returned r, its callback back in place.
Rescheduled(s, r, d) ==
  CASE r = "Continue"            -> [s EXCEPT !.left = @ + s.period]
    [] r = "Disable"             -> [s EXCEPT !.enabled = FALSE]
    [] r = "RescheduleOneShot"   -> [s EXCEPT !.left = d, !.period = None]
    [] r = "RescheduleRecurring" -> [s EXCEPT !.left = @ + d, !.period = d]

ReturnDeleted ==
  /\ wpc = "calling" /\ ~CallIsStale
  /\ \/ "Delete" \in Results
     \/ "Continue" \in Results /\ slots[call.idx].period = None
  /\ deallocate(call)
  /\ wpc' = "scan" /\ call' = NoCall
  /\ UNCHANGED <<fifo, stop, new_timer_added, token, registered, target, client>>

ReturnKept ==
  /\ wpc = "calling" /\ ~CallIsStale
  /\ \E r \in Results \ {"Delete"}, d \in Periods :
       LET s     == Rescheduled([slots[call.idx] EXCEPT !.callback = call.callback], r, d)
           again == r = "Continue" /\ CatchesUp(s)
       IN  /\ r = "Continue" => slots[call.idx].period # None
           /\ slots' = [slots EXCEPT ![call.idx] = IF again THEN [s EXCEPT !.callback = None] ELSE s]
           /\ call' = IF again THEN [call EXCEPT !.catch_up = @ + 1] ELSE NoCall
           /\ wpc' = IF again THEN "calling" ELSE "scan"
  /\ UNCHANGED <<free_indices, fifo, stop, new_timer_added, token, registered, target, client>>

\* (mutant) only the flag ends the wait
WaitEndFlagged ==
  /\ wpc = "wait" /\ new_timer_added
  /\ wpc' = "scan" /\ target' = 0
  /\ UNCHANGED <<inner, new_timer_added, token, registered, call, client>>

\* The wait for the next expiration ends when it is reached or the flag is up.
WaitEnd ==
  /\ wpc = "wait" /\ (target <= 0 \/ new_timer_added)
  /\ wpc' = "scan" /\ target' = 0
  /\ UNCHANGED <<inner, new_timer_added, token, registered, call, client>>

\* park_timeout takes the token; the loop looks at the clock and the flag.
WaitWoken ==
  /\ wpc = "wait" /\ token
  /\ token' = FALSE
  /\ UNCHANGED <<inner, new_timer_added, registered, worker, client>>

CheckFlag ==
  /\ wpc = "check"
  /\ wpc' = IF new_timer_added THEN "scan" ELSE "parked"
  /\ UNCHANGED <<inner, new_timer_added, token, registered, call, target, client>>

\* park returns with the token, or for no reason.
Parked ==
  /\ wpc = "parked"
  /\ wpc' = "scan" /\ token' = FALSE
  /\ UNCHANGED <<inner, new_timer_added, registered, call, target, client>>

-----------------------------------------------------------------------------
Tick ==
  /\ slots' = [i \in DOMAIN slots |->
                 IF slots[i].used /\ slots[i].left > - MaxLate THEN [slots[i] EXCEPT !.left = @ - 1]
                 ELSE slots[i]]
  /\ target' = IF target > 0 THEN target - 1 ELSE target
  /\ UNCHANGED <<free_indices, fifo, stop, new_timer_added, token, registered, wpc, call, client>>

Scans == ScanStopped \/ Scan \/ ReturnDropped \/ ReturnDeleted \/ ReturnKept
Waits == Register \/ WaitEnd \/ CheckFlag
Ends(c) == WakeFlag(c) \/ WakeUnpark(c)

Next ==
  \/ \E c \in Clients : Add(c) \/ remove(c) \/ enable(c) \/ disable(c) \/ Ends(c)
  \/ Stop \/ StopFlag \/ StopUnpark
  \/ Scans \/ Waits \/ WaitWoken \/ Parked \/ Tick

Spec == Init /\ [][Next]_vars

\* Time passes, callbacks return, the worker runs unless it is parked without
\* a token, and a call of a client ends.  The second line is weak fairness of
\* Scans, which is enabled exactly at those two places.
Fairness ==
  /\ WF_vars(Tick) /\ WF_vars(Waits) /\ WF_vars(token /\ Parked)
  /\ []<>(wpc \notin {"scan", "calling"}) \/ []<><<Scans>>_vars
  /\ WF_vars(StopFlag \/ StopUnpark)
  /\ \A c \in Clients : WF_vars(Ends(c))

LiveSpec == Spec /\ Fairness

-----------------------------------------------------------------------------
(* Properties *)

Timers == [gen : Nat \ {0}, used : BOOLEAN, left : {n \in Int : - MaxLate <= n},
           period : Periods \cup {None}, enabled : BOOLEAN, in_fifo : BOOLEAN, callback : Nat]

\* Every variable has its type; a recurring timer that is behind is called at
\* most MAX_CATCHUP times in a row.
TypeOK ==
  /\ \A i \in DOMAIN slots : slots[i] \in Timers
  /\ {stop, new_timer_added, token, registered} \subseteq BOOLEAN
  /\ wpc \in {"new", "scan", "calling", "wait", "check", "parked", "done"}
  /\ call.catch_up \in 0 .. MAX_CATCHUP - 1

\* Types hold, and a slot holds a timer or is free, never both and never twice free: the
\* one-shot that ends by itself and the device that removes it do not free it
\* twice.
SlotsAccounted ==
  /\ TypeOK
  /\ IsInjective(free_indices)
  /\ Range(free_indices) = {i \in DOMAIN slots : ~slots[i].used}

\* Until the manager stops, a timer has its own callback, or the worker is
\* calling it: a callback that was in flight while its timer was removed and
\* the slot reused goes nowhere.  And no timer is called before its time,
\* catching up included.
OwnCallback ==
  /\ \A i \in DOMAIN slots : slots[i].used /\ ~stop =>
       \/ slots[i].callback = slots[i].gen
       \/ slots[i].callback = None /\ wpc = "calling" /\ call.idx = i /\ call.gen = slots[i].gen
  /\ wpc = "calling" /\ Is(call) => slots[call.idx].left <= 0

\* A timer marked as queued is in the queue, once; a mark without an entry
\* would keep it from ever being called again.
QueuedOnce ==
  \A i \in DOMAIN slots : slots[i].used =>
    LET entries == {k \in DOMAIN fifo : fifo[k] = [idx |-> i, gen |-> slots[i].gen]}
    IN  IF slots[i].in_fifo THEN \E k \in DOMAIN fifo : entries = {k} ELSE entries = {}

Due(i) == i \in DOMAIN slots /\ slots[i].used /\ slots[i].enabled /\ slots[i].left <= 0 /\ ~stop

\* A timer whose time has come is called, as long as the worker does not park
\* for want of a deadline.
DueFires ==
  \A i \in 1 .. Cardinality(Clients) :
    Due(i) ~> (~Due(i) \/ (wpc = "calling" /\ call.idx = i) \/ wpc = "parked")

\* A stop ends the worker thread, parked or not, whatever is in flight.
StopEnds == stop ~> (wpc = "done")
=============================================================================
