--------------------------- MODULE GFifoRefinement ---------------------------
(* The ring implements the broadcast queue: what lies between a head's base *)
(* index and tail is that head's queue, and storing tail is the commit.     *)
EXTENDS GFifo

Base(h) == IF cpc[h] = "consume" THEN Wrap(local_head[h] + 1 - Len(hand[h]))
           ELSE local_head[h]

Pending(h) == IF h \in Active
              THEN [k \in 1 .. Dist(Base(h), tail) |-> buf[Wrap(Base(h) + k - 1)]]
              ELSE <<>>

Status(p) == CASE ppc[p] = "idle"             -> "idle"
               [] ppc[p] \in {"unlock", "true"} -> "done"
               [] ppc[p] = "false"            -> "refused"
               [] OTHER                       -> "calling"

Abstract == INSTANCE BroadcastQueue WITH
              Capacity <- DEPTH - 1,
              active   <- Active,
              queue    <- [h \in Heads |-> Pending(h)],
              status   <- [p \in Producers |-> Status(p)]

\* Every behaviour of the ring is one of the broadcast queue: a call that
\* reports false (BUS_BUSY, so the CPU re-executes the store) left nothing in
\* the ring, one that reports true landed whole, once, for every head, and
\* heads see the entries in the order of the tail stores.
ImplementsQueue == Abstract!Spec
=============================================================================
