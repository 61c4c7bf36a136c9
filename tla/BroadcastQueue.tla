--------------------------- MODULE BroadcastQueue ---------------------------
(***************************************************************************)
(* What the graphics ring promises its users: one bounded queue per        *)
(* running head.  A call that reports true has appended all its entries,   *)
(* once and contiguously, to every head's queue; one that reports false    *)
(* has appended nothing.  A head takes entries in order, and only those it *)
(* has taken leave its queue.                                              *)
(***************************************************************************)
EXTENDS Naturals, Sequences

CONSTANTS Heads,      \* consumer heads
          Producers,
          Calls,      \* records with the entries to append (ents)
          Spins(_),   \* calls that wait instead of reporting false
          Capacity,   \* entries a head may lag by
          NoCall      \* the call of an idle producer

VARIABLES active,     \* heads in use
          queue,      \* per head: entries not yet retired
          hand,       \* per head: the prefix of queue it is processing
          status,     \* per producer: idle, calling, done or refused
          call

vars == <<active, queue, hand, status, call>>

Init ==
  /\ active \in {0 .. n : n \in Heads}
  /\ queue = [h \in Heads |-> <<>>]
  /\ hand = [h \in Heads |-> <<>>]
  /\ status = [p \in Producers |-> "idle"]
  /\ call = [p \in Producers |-> NoCall]

Begin(p) ==
  /\ status[p] = "idle"
  /\ \E c \in Calls : call' = [call EXCEPT ![p] = c]
  /\ status' = [status EXCEPT ![p] = "calling"]
  /\ UNCHANGED <<active, queue, hand>>

\* Every running head gets the whole call at once.
Commit(p) ==
  LET ents == call[p].ents
  IN  /\ status[p] = "calling"
      /\ \A h \in active : Len(queue[h]) + Len(ents) <= Capacity
      /\ queue' = [h \in Heads |-> IF h \in active THEN queue[h] \o ents ELSE queue[h]]
      /\ status' = [status EXCEPT ![p] = "done"]
      /\ UNCHANGED <<active, hand, call>>

Refuse(p) ==
  /\ status[p] = "calling" /\ ~Spins(call[p])
  /\ status' = [status EXCEPT ![p] = "refused"]
  /\ UNCHANGED <<active, queue, hand, call>>

End(p) ==
  /\ status[p] \in {"done", "refused"}
  /\ status' = [status EXCEPT ![p] = "idle"]
  /\ call' = [call EXCEPT ![p] = NoCall]
  /\ UNCHANGED <<active, queue, hand>>

Take(h) ==
  /\ h \in active /\ Len(hand[h]) < Len(queue[h])
  /\ hand' = [hand EXCEPT ![h] = Append(@, queue[h][Len(@) + 1])]
  /\ UNCHANGED <<active, queue, status, call>>

Retire(h) ==
  /\ h \in active /\ hand[h] # <<>>
  /\ queue' = [queue EXCEPT ![h] = SubSeq(@, Len(hand[h]) + 1, Len(@))]
  /\ hand' = [hand EXCEPT ![h] = <<>>]
  /\ UNCHANGED <<active, status, call>>

\* A reset of the stopped ring drops what is queued.
Drop ==
  /\ \A p \in Producers : status[p] = "idle"
  /\ \A h \in Heads : hand[h] = <<>>
  /\ queue' = [h \in Heads |-> <<>>]
  /\ UNCHANGED <<active, hand, status, call>>

Next == \/ \E p \in Producers : Begin(p) \/ Commit(p) \/ Refuse(p) \/ End(p)
        \/ \E h \in Heads : Take(h) \/ Retire(h)
        \/ Drop

Spec == Init /\ [][Next]_vars
=============================================================================
