------------------------- MODULE Rex3EngineProofs -------------------------
(***************************************************************************)
(* Proofs about Rex3Engine: for every ring size, every number of restarts  *)
(* and every length of transfer, a machine that is only stopped while it   *)
(* runs keeps its processor thread, halts quietly, and lets no read through*)
(* before what was queued ahead of it has been executed.                   *)
(***************************************************************************)
EXTENDS Rex3Engine, TLAPS

\* A halted machine is not stopped again.
StoppedOnce == StopWhenHalted = FALSE

\* What a push does to the EXIT entries of a ring.
LEMMA AppendExit ==
  ASSUME NEW q \in Seq({Go, Exit})
  PROVE  /\ NoExit(q) => NoExit(Append(q, Go)) /\ OneExit(Append(q, Exit))
         /\ OneExit(q) => OneExit(Append(q, Go))
<1>1. /\ Len(Append(q, Go)) = Len(q) + 1 /\ Len(Append(q, Exit)) = Len(q) + 1
      /\ Append(q, Go)[Len(q) + 1] = Go /\ Append(q, Exit)[Len(q) + 1] = Exit
      /\ \A k \in 1 .. Len(q) : Append(q, Go)[k] = q[k] /\ Append(q, Exit)[k] = q[k]
      /\ Len(q) \in Nat
  BY DEF Go, Exit
<1>2. ASSUME NoExit(q)
      PROVE  NoExit(Append(q, Go))
  BY <1>1, <1>2 DEF NoExit, Go, Exit
<1>3. ASSUME NoExit(q)
      PROVE  OneExit(Append(q, Exit))
  BY <1>1, <1>3 DEF NoExit, OneExit, Go, Exit
<1>4. ASSUME OneExit(q)
      PROVE  OneExit(Append(q, Go))
  BY <1>1, <1>4 DEF OneExit, Go, Exit
<1>5. QED
  BY <1>2, <1>3, <1>4

\* What retiring the entry at the head does to them.
LEMMA TailExit ==
  ASSUME NEW q \in Seq({Go, Exit}), q # <<>>
  PROVE  /\ NoExit(q) => Head(q) # Exit /\ NoExit(Tail(q))
         /\ OneExit(q) /\ Head(q) = Exit => NoExit(Tail(q))
         /\ OneExit(q) /\ Head(q) # Exit => OneExit(Tail(q))
<1>1. /\ Len(q) \in Nat \ {0} /\ Len(Tail(q)) = Len(q) - 1 /\ Head(q) = q[1]
      /\ \A k \in 1 .. Len(q) - 1 : Tail(q)[k] = q[k + 1]
  OBVIOUS
<1>2. ASSUME NoExit(q)
      PROVE  Head(q) # Exit /\ NoExit(Tail(q))
  BY <1>1, <1>2 DEF NoExit
<1>3. ASSUME OneExit(q), Head(q) = Exit
      PROVE  NoExit(Tail(q))
  BY <1>1, <1>3 DEF OneExit, NoExit
<1>4. ASSUME OneExit(q), Head(q) # Exit
      PROVE  OneExit(Tail(q))
  <2>1. PICK k \in 1 .. Len(q) : q[k] = Exit /\ \A j \in 1 .. Len(q) : q[j] = Exit => j = k
    BY <1>4 DEF OneExit
  <2>2. k - 1 \in 1 .. Len(Tail(q)) /\ Tail(q)[k - 1] = Exit
    BY <1>1, <1>4, <2>1
  <2>3. \A j \in 1 .. Len(Tail(q)) : Tail(q)[j] = Exit => j = k - 1
    BY <1>1, <2>1
  <2>4. QED
    BY <2>2, <2>3 DEF OneExit
<1>5. QED
  BY <1>2, <1>3, <1>4

\* Every state the board starts in satisfies the invariant.
LEMMA EngineInit == Init => EngineInv
<1>1. SUFFICES ASSUME Init
               PROVE  EngineInv
  OBVIOUS
<1>2. fifo \in Seq({Go, Exit}) /\ Len(fifo) = 0 /\ NoExit(fifo)
  BY <1>1 DEF Init, NoExit
<1>3. TypeOK
  <2>1. unparker \in 0 .. MaxGen /\ gen \in 0 .. MaxGen /\ todo \in 0 .. MaxWords
    BY <1>1, BoundAssumption DEF Init
  <2>2. owed \in [Clients -> Nat] /\ cpc \in [Clients -> {"idle"}]
    BY <1>1 DEF Init
  <2>3. Len(fifo) <= Cap
    BY <1>2, CapAssumption
  <2>4. QED
    BY <1>1, <1>2, <2>1, <2>2, <2>3, Zenon DEF Init, TypeOK
<1>4. Threads
  <2>1. /\ running <=> (ctl = "run")
        /\ handle <=> (ctl \in {"run", "stop_push", "stop_check", "join"})
    BY <1>1 DEF Init
  <2>2. cpc["cpu"] = "idle" /\ cpc["dma"] = "idle"
    BY <1>1 DEF Init, Clients
  <2>3. QED
    BY <1>1, <2>1, <2>2 DEF Init, Threads
<1>5. Exits
  BY <1>1, <1>2 DEF Init, Exits
<1>6. Owed
  BY <1>1 DEF Init, Owed, IdleMeansExecuted, Clients
<1>7. QED
  BY <1>3, <1>4, <1>5, <1>6 DEF EngineInv

\* The entries not executed yet are a number: an executed entry is still there.
LEMMA UnappliedNat ==
  ASSUME EngineInv
  PROVE  /\ Unapplied \in Nat
         /\ fifo = <<>> => Unapplied = 0
<1>1. applied => fifo # <<>>
  BY DEF EngineInv, Exits, Owed
<1>2. fifo \in Seq({Go, Exit})
  BY DEF EngineInv, TypeOK
<1>3. CASE applied
  BY <1>1, <1>2, <1>3 DEF Unapplied
<1>4. CASE ~applied
  BY <1>2, <1>4 DEF Unapplied
<1>5. QED
  BY <1>3, <1>4

\* Every step keeps the types; the ring grows only when it has room.
LEMMA TypeOKStep ==
  ASSUME StoppedOnce, EngineInv, [Next]_vars
  PROVE  TypeOK'
<1>. USE DEF EngineInv, TypeOK, Clients, Go, Exit,
             engine, park, proc, client
<1>1. CASE Write
  BY <1>1, CapAssumption, BoundAssumption DEF Write, Goto
<1>2. CASE WriteGo
  BY <1>2, CapAssumption, BoundAssumption DEF WriteGo, Goto
<1>3. CASE Read
  BY <1>3, UnappliedNat DEF Read, Goto, EngineInv, TypeOK, Clients, engine, park, proc
<1>4. CASE GateBusy
  BY <1>4, CapAssumption, BoundAssumption DEF GateBusy, Goto
<1>5. CASE GateEmpty
  BY <1>5, CapAssumption, BoundAssumption DEF GateEmpty, Goto
<1>6. CASE Value
  BY <1>6, CapAssumption, BoundAssumption DEF Value, Goto
<1>7. CASE Transfer
  BY <1>7, CapAssumption, BoundAssumption DEF Transfer
<1>8. CASE Word
  BY <1>8, CapAssumption, BoundAssumption DEF Word, Goto
<1>9. CASE WaitBusy
  BY <1>9, CapAssumption, BoundAssumption DEF WaitBusy, Goto
<1>10. CASE WaitEmpty
  BY <1>10, CapAssumption, BoundAssumption DEF WaitEmpty, Goto
<1>11. CASE WaitRun
  BY <1>11, CapAssumption, BoundAssumption DEF WaitRun, Goto
<1>12. CASE HostRw
  BY <1>12, CapAssumption, BoundAssumption DEF HostRw, Goto
<1>13. ASSUME NEW c \in Clients, Push(c)
      PROVE  TypeOK'
  <2>1. Unapplied + 1 \in Nat
    BY UnappliedNat
  <2>2. fifo' \in Seq({Go, Exit}) /\ Len(fifo') <= Cap
    BY <1>13, CapAssumption DEF Push, EngineInv, TypeOK
  <2>3. owed' \in [Clients -> Nat] /\ cpc' = [cpc EXCEPT ![c] = "check"]
    BY <1>13, <2>1 DEF Push, Goto, EngineInv, TypeOK
  <2>4. QED
    BY <1>13, <2>2, <2>3 DEF Push, EngineInv, TypeOK, park, proc
<1>14. ASSUME NEW c \in Clients, Check(c)
      PROVE  TypeOK'
  BY <1>14, CapAssumption, BoundAssumption DEF Check, Goto, WakeConsumer
<1>15. CASE Spawned
  BY <1>15, CapAssumption, BoundAssumption DEF Spawned
<1>16. CASE Peek
  BY <1>16, CapAssumption, BoundAssumption DEF Peek
<1>17. CASE Apply
  BY <1>17, CapAssumption, BoundAssumption DEF Apply
<1>18. CASE Consume
  <2>1. fifo' \in Seq({Go, Exit}) /\ Len(fifo') <= Cap
    BY <1>18, CapAssumption DEF Consume, EngineInv, TypeOK, Exits
  <2>2. QED
    BY <1>18, <2>1, Zenon DEF Consume, EngineInv, TypeOK, park, client
<1>19. CASE Leave
  BY <1>19, CapAssumption, BoundAssumption, ZenonT(30) DEF Leave
<1>20. CASE Empty
  BY <1>20, CapAssumption, BoundAssumption, ZenonT(30) DEF Empty
<1>21. CASE ParkStore
  <2>1. /\ processor_parked' \in BOOLEAN /\ buffered' \in BOOLEAN
        /\ ppc' = "recheck"
        /\ UNCHANGED <<engine, unparker, token, gen, is_busy, client, ctl, handle>>
    BY <1>21, Zenon DEF ParkStore, EngineInv, TypeOK
  <2>2. QED
    BY <2>1 DEF EngineInv, TypeOK, engine, client
<1>22. CASE Drain
  <2>1. /\ processor_parked' = TRUE /\ buffered' = FALSE
        /\ UNCHANGED <<engine, unparker, token, proc, client, ctl, handle>>
    BY <1>22 DEF Drain
  <2>2. processor_parked' \in BOOLEAN /\ buffered' \in BOOLEAN
    BY <2>1, Zenon
  <2>3. QED
    BY <2>1, <2>2 DEF EngineInv, TypeOK, engine, proc, client
<1>23. CASE Recheck
  BY <1>23, CapAssumption, BoundAssumption DEF Recheck
<1>24. CASE RecheckRun
  BY <1>24, CapAssumption, BoundAssumption DEF RecheckRun
<1>25. CASE Wake
  BY <1>25, CapAssumption, BoundAssumption, Zenon DEF Wake
<1>26. CASE Unpark
  BY <1>26, CapAssumption, BoundAssumption, Zenon DEF Unpark
<1>27. CASE Stop
  BY <1>27, CapAssumption, BoundAssumption, ZenonT(30) DEF Stop, StoppedOnce
<1>28. CASE StopPush
  BY <1>28, CapAssumption, BoundAssumption DEF StopPush
<1>29. CASE StopCheck
  BY <1>29, CapAssumption, BoundAssumption DEF StopCheck, WakeConsumer
<1>30. CASE Join
  BY <1>30, CapAssumption, BoundAssumption, ZenonT(30) DEF Join
<1>31. CASE StopMc
  BY <1>31, CapAssumption, BoundAssumption DEF StopMc
<1>32. CASE LoadState
  <2>1. fifo' \in Seq({Go, Exit}) /\ Len(fifo') <= Cap
    BY <1>32, CapAssumption DEF LoadState
  <2>2. QED
    BY <1>32, <2>1, ZenonT(30) DEF LoadState, EngineInv, TypeOK, park, proc, client
<1>33. CASE Start
  <2>1. gen' \in 0 .. MaxGen
    BY <1>33, BoundAssumption DEF Start, EngineInv, TypeOK
  <2>2. QED
    BY <1>33, <2>1, Zenon DEF Start, EngineInv, TypeOK, client
<1>34. CASE UNCHANGED vars
  BY <1>34 DEF vars
<1>35. QED
  BY <1>1, <1>2, <1>3, <1>4, <1>5, <1>6, <1>7, <1>8, <1>9, <1>10,
     <1>11, <1>12, <1>13, <1>14, <1>15, <1>16, <1>17, <1>18, <1>19, <1>20,
     <1>21, <1>22, <1>23, <1>24, <1>25, <1>26, <1>27, <1>28, <1>29, <1>30,
     <1>31, <1>32, <1>33, <1>34, Zenon
  DEF Next, Client, Processor, Stopping

\* Every step keeps the threads and the phases of the machine together.
LEMMA ThreadsStep ==
  ASSUME StoppedOnce, EngineInv, [Next]_vars
  PROVE  Threads'
<1>. USE DEF EngineInv, TypeOK, Threads, Clients,
             engine, park, proc, client
<1>1. CASE Write
  BY <1>1 DEF Write, Goto
<1>2. CASE WriteGo
  BY <1>2 DEF WriteGo, Goto
<1>3. CASE Read
  BY <1>3 DEF Read, Goto
<1>4. CASE GateBusy
  BY <1>4 DEF GateBusy, Goto
<1>5. CASE GateEmpty
  BY <1>5 DEF GateEmpty, Goto
<1>6. CASE Value
  BY <1>6 DEF Value, Goto
<1>7. CASE Transfer
  BY <1>7 DEF Transfer
<1>8. CASE Word
  BY <1>8 DEF Word, Goto
<1>9. CASE WaitBusy
  BY <1>9 DEF WaitBusy, Goto
<1>10. CASE WaitEmpty
  BY <1>10 DEF WaitEmpty, Goto
<1>11. CASE WaitRun
  BY <1>11 DEF WaitRun, Goto
<1>12. CASE HostRw
  BY <1>12 DEF HostRw, Goto
<1>13. ASSUME NEW c \in Clients, Push(c)
      PROVE  Threads'
  BY <1>13 DEF Push, Goto
<1>14. ASSUME NEW c \in Clients, Check(c)
      PROVE  Threads'
  BY <1>14 DEF Check, Goto, WakeConsumer
<1>15. CASE Spawned
  BY <1>15 DEF Spawned
<1>16. CASE Peek
  BY <1>16 DEF Peek
<1>17. CASE Apply
  BY <1>17 DEF Apply
<1>18. CASE Consume
  <2>1. ctl \in {"run", "stop_push"} => Head(fifo) # Exit
    BY <1>18, TailExit DEF Consume, EngineInv, TypeOK, Exits
  <2>2. QED
    BY <1>18, <2>1 DEF Consume, EngineInv, Threads, park, client
<1>19. CASE Leave
  BY <1>19 DEF Leave
<1>20. CASE Empty
  BY <1>20 DEF Empty
<1>21. CASE ParkStore
  BY <1>21 DEF ParkStore
<1>22. CASE Drain
  BY <1>22 DEF Drain
<1>23. CASE Recheck
  BY <1>23 DEF Recheck
<1>24. CASE RecheckRun
  BY <1>24 DEF RecheckRun
<1>25. CASE Wake
  BY <1>25 DEF Wake
<1>26. CASE Unpark
  BY <1>26 DEF Unpark
<1>27. CASE Stop
  BY <1>27 DEF Stop, StoppedOnce
<1>28. CASE StopPush
  BY <1>28 DEF StopPush
<1>29. CASE StopCheck
  BY <1>29 DEF StopCheck, WakeConsumer
<1>30. CASE Join
  <2>1. handle
    BY <1>30 DEF Join, EngineInv, Threads
  <2>2. ppc = "done"
    BY <1>30, <2>1 DEF Join
  <2>3. /\ ctl = "join" /\ ctl' = "stop_mc" /\ handle' = FALSE
        /\ UNCHANGED <<engine, park, proc, client>>
    BY <1>30 DEF Join
  <2>4. /\ running' <=> (ctl' = "run")
        /\ handle' <=> (ctl' \in {"run", "stop_push", "stop_check", "join"})
    BY <2>3 DEF EngineInv, Threads, engine
  <2>5. QED
    BY <2>2, <2>3, <2>4 DEF EngineInv, Threads, engine, park, proc, client
<1>31. CASE StopMc
  BY <1>31 DEF StopMc
<1>32. CASE LoadState
  BY <1>32 DEF LoadState
<1>33. CASE Start
  BY <1>33 DEF Start
<1>34. CASE UNCHANGED vars
  BY <1>34 DEF vars
<1>35. QED
  BY <1>1, <1>2, <1>3, <1>4, <1>5, <1>6, <1>7, <1>8, <1>9, <1>10,
     <1>11, <1>12, <1>13, <1>14, <1>15, <1>16, <1>17, <1>18, <1>19, <1>20,
     <1>21, <1>22, <1>23, <1>24, <1>25, <1>26, <1>27, <1>28, <1>29, <1>30,
     <1>31, <1>32, <1>33, <1>34, Zenon
  DEF Next, Client, Processor, Stopping

\* Every step keeps the ring free of stray EXIT entries.
LEMMA ExitsStep ==
  ASSUME StoppedOnce, EngineInv, [Next]_vars
  PROVE  Exits'
<1>. USE DEF EngineInv, Threads, Exits,
             engine, park, proc, client
<1>1. CASE Write
  <2>1. fifo \in Seq({Go, Exit}) /\ fifo' = Append(fifo, Go) /\ fifo' # <<>>
    BY <1>1 DEF Write, EngineInv, TypeOK
  <2>2. (NoExit(fifo) => NoExit(fifo')) /\ (OneExit(fifo) => OneExit(fifo'))
    BY <2>1, AppendExit
  <2>3. ctl' = ctl /\ ppc' = ppc
    BY <1>1 DEF Write, proc
  <2>4. QED
    BY <2>1, <2>2, <2>3 DEF EngineInv, Exits
<1>2. CASE WriteGo
  BY <1>2 DEF WriteGo, Goto
<1>3. CASE Read
  BY <1>3 DEF Read, Goto
<1>4. CASE GateBusy
  BY <1>4 DEF GateBusy, Goto
<1>5. CASE GateEmpty
  BY <1>5 DEF GateEmpty, Goto
<1>6. CASE Value
  BY <1>6 DEF Value, Goto
<1>7. CASE Transfer
  BY <1>7 DEF Transfer
<1>8. CASE Word
  BY <1>8 DEF Word, Goto
<1>9. CASE WaitBusy
  BY <1>9 DEF WaitBusy, Goto
<1>10. CASE WaitEmpty
  BY <1>10 DEF WaitEmpty, Goto
<1>11. CASE WaitRun
  BY <1>11 DEF WaitRun, Goto
<1>12. CASE HostRw
  BY <1>12 DEF HostRw, Goto
<1>13. ASSUME NEW c \in Clients, Push(c)
      PROVE  Exits'
  <2>1. fifo \in Seq({Go, Exit}) /\ fifo' = Append(fifo, Go) /\ fifo' # <<>>
    BY <1>13 DEF Push, EngineInv, TypeOK
  <2>2. (NoExit(fifo) => NoExit(fifo')) /\ (OneExit(fifo) => OneExit(fifo'))
    BY <2>1, AppendExit
  <2>3. ctl' = ctl /\ ppc' = ppc
    BY <1>13 DEF Push, proc
  <2>4. QED
    BY <2>1, <2>2, <2>3 DEF EngineInv, Exits
<1>14. ASSUME NEW c \in Clients, Check(c)
      PROVE  Exits'
  BY <1>14 DEF Check, Goto, WakeConsumer
<1>15. CASE Spawned
  BY <1>15 DEF Spawned
<1>16. CASE Peek
  BY <1>16 DEF Peek
<1>17. CASE Apply
  BY <1>17 DEF Apply
<1>18. CASE Consume
  <2>1. fifo \in Seq({Go, Exit}) /\ fifo # <<>> /\ fifo' = Tail(fifo) /\ ctl' = ctl
    BY <1>18 DEF Consume, EngineInv, TypeOK, Exits
  <2>2. CASE ctl \in {"stop_check", "join"}
    <3>1. OneExit(fifo)
      BY <1>18, <2>2 DEF Consume, EngineInv, Exits
    <3>2. CASE Head(fifo) = Exit
      BY <1>18, <2>1, <3>1, <3>2, TailExit DEF Consume, Exits
    <3>3. CASE Head(fifo) # Exit
      BY <1>18, <2>1, <2>2, <3>1, <3>3, TailExit DEF Consume, Exits
    <3>4. QED
      BY <3>2, <3>3
  <2>3. CASE ctl \notin {"stop_check", "join"}
    <3>1. NoExit(fifo)
      BY <2>3 DEF EngineInv, Exits
    <3>2. NoExit(fifo') /\ ppc' = "peek"
      BY <1>18, <2>1, <3>1, TailExit DEF Consume
    <3>3. QED
      BY <2>1, <2>3, <3>2 DEF Exits
  <2>4. QED
    BY <2>2, <2>3
<1>19. CASE Leave
  BY <1>19 DEF Leave
<1>20. CASE Empty
  BY <1>20 DEF Empty
<1>21. CASE ParkStore
  BY <1>21 DEF ParkStore
<1>22. CASE Drain
  BY <1>22 DEF Drain
<1>23. CASE Recheck
  BY <1>23 DEF Recheck
<1>24. CASE RecheckRun
  BY <1>24 DEF RecheckRun
<1>25. CASE Wake
  BY <1>25 DEF Wake
<1>26. CASE Unpark
  BY <1>26 DEF Unpark
<1>27. CASE Stop
  BY <1>27 DEF Stop, StoppedOnce
<1>28. CASE StopPush
  <2>1. fifo \in Seq({Go, Exit}) /\ fifo' = Append(fifo, Exit) /\ fifo' # <<>>
    BY <1>28 DEF StopPush, EngineInv, TypeOK
  <2>2. OneExit(fifo')
    BY <1>28, <2>1, AppendExit DEF StopPush, EngineInv, Exits
  <2>3. QED
    BY <1>28, <2>1, <2>2 DEF StopPush, EngineInv, Threads, Exits, proc
<1>29. CASE StopCheck
  BY <1>29 DEF StopCheck, WakeConsumer
<1>30. CASE Join
  BY <1>30 DEF Join
<1>31. CASE StopMc
  BY <1>31 DEF StopMc
<1>32. CASE LoadState
  <2>1. fifo' = <<>> /\ NoExit(fifo')
    BY <1>32 DEF LoadState, NoExit
  <2>2. QED
    BY <1>32, <2>1 DEF LoadState, EngineInv, Threads, Exits, proc
<1>33. CASE Start
  BY <1>33 DEF Start
<1>34. CASE UNCHANGED vars
  BY <1>34 DEF vars
<1>35. QED
  BY <1>1, <1>2, <1>3, <1>4, <1>5, <1>6, <1>7, <1>8, <1>9, <1>10,
     <1>11, <1>12, <1>13, <1>14, <1>15, <1>16, <1>17, <1>18, <1>19, <1>20,
     <1>21, <1>22, <1>23, <1>24, <1>25, <1>26, <1>27, <1>28, <1>29, <1>30,
     <1>31, <1>32, <1>33, <1>34, Zenon
  DEF Next, Client, Processor, Stopping

\* Every step keeps what the clients are owed within what the ring holds.
LEMMA OwedStep ==
  ASSUME StoppedOnce, EngineInv, [Next]_vars
  PROVE  Owed'
<1>. USE DEF EngineInv, TypeOK, Threads, Exits, Owed, IdleMeansExecuted, Unapplied, Clients,
             engine, park, proc, client
<1>1. CASE Write
  BY <1>1 DEF Write, Goto
<1>2. CASE WriteGo
  BY <1>2 DEF WriteGo, Goto
<1>3. CASE Read
  BY <1>3 DEF Read, Goto
<1>4. CASE GateBusy
  BY <1>4 DEF GateBusy, Goto
<1>5. CASE GateEmpty
  BY <1>5 DEF GateEmpty, Goto
<1>6. CASE Value
  BY <1>6, Zenon DEF Value, Goto
<1>7. CASE Transfer
  BY <1>7, Zenon DEF Transfer
<1>8. CASE Word
  BY <1>8, Zenon DEF Word, Goto
<1>9. CASE WaitBusy
  BY <1>9 DEF WaitBusy, Goto
<1>10. CASE WaitEmpty
  BY <1>10 DEF WaitEmpty, Goto
<1>11. CASE WaitRun
  BY <1>11 DEF WaitRun, Goto
<1>12. CASE HostRw
  BY <1>12 DEF HostRw, Goto
<1>13. ASSUME NEW c \in Clients, Push(c)
      PROVE  Owed'
  BY <1>13 DEF Push, Goto
<1>14. ASSUME NEW c \in Clients, Check(c)
      PROVE  Owed'
  BY <1>14, Zenon DEF Check, Goto, WakeConsumer
<1>15. CASE Spawned
  BY <1>15, Zenon DEF Spawned
<1>16. CASE Peek
  BY <1>16, Zenon DEF Peek
<1>17. CASE Apply
  <2>. HIDE DEF Unapplied
  <2>1. /\ fifo \in Seq({Go, Exit}) /\ fifo # <<>> /\ ~applied
        /\ owed \in [Clients -> Nat]
    BY <1>17 DEF Apply, EngineInv, TypeOK, Exits, Owed
  <2>2. Unapplied' = Unapplied - 1 /\ Unapplied \in Nat \ {0}
    BY <1>17, <2>1 DEF Apply, Unapplied
  <2>3. /\ owed'["cpu"] = IF owed["cpu"] = 0 THEN 0 ELSE owed["cpu"] - 1
        /\ owed'["dma"] = IF owed["dma"] = 0 THEN 0 ELSE owed["dma"] - 1
        /\ owed["cpu"] \in Nat /\ owed["dma"] \in Nat
    BY <1>17, <2>1, Zenon DEF Apply, Clients
  <2>4. cpc' = cpc /\ ctl' = ctl /\ applied' = TRUE /\ ppc' = "consume"
    BY <1>17 DEF Apply
  <2>5. applied' <=> (ppc' = "consume")
    BY <2>4
  <2>6. /\ owed["cpu"] <= Unapplied => owed'["cpu"] <= Unapplied'
        /\ owed["dma"] <= Unapplied => owed'["dma"] <= Unapplied'
    BY <2>2, <2>3
  <2>7. IdleMeansExecuted'
    BY <2>3, <2>4, Zenon DEF EngineInv, Owed, IdleMeansExecuted
  <2>8. QED
    BY <2>4, <2>5, <2>6, <2>7, Zenon DEF EngineInv, Owed
<1>18. CASE Consume
  <2>1. fifo \in Seq({Go, Exit}) /\ fifo # <<>> /\ applied = TRUE
    BY <1>18 DEF Consume, EngineInv, TypeOK, Exits, Owed
  <2>2. Unapplied' = Unapplied
    BY <1>18, <2>1 DEF Consume, Unapplied
  <2>3. QED
    BY <1>18, <2>2, Zenon DEF Consume, EngineInv, Owed, IdleMeansExecuted, client
<1>19. CASE Leave
  BY <1>19, Zenon DEF Leave
<1>20. CASE Empty
  BY <1>20, Zenon DEF Empty
<1>21. CASE ParkStore
  BY <1>21 DEF ParkStore
<1>22. CASE Drain
  BY <1>22, Zenon DEF Drain
<1>23. CASE Recheck
  BY <1>23, Zenon DEF Recheck
<1>24. CASE RecheckRun
  BY <1>24, Zenon DEF RecheckRun
<1>25. CASE Wake
  BY <1>25, Zenon DEF Wake
<1>26. CASE Unpark
  BY <1>26, Zenon DEF Unpark
<1>27. CASE Stop
  BY <1>27, Zenon DEF Stop, StoppedOnce
<1>28. CASE StopPush
  BY <1>28 DEF StopPush
<1>29. CASE StopCheck
  BY <1>29, Zenon DEF StopCheck, WakeConsumer
<1>30. CASE Join
  BY <1>30, Zenon DEF Join
<1>31. CASE StopMc
  BY <1>31, Zenon DEF StopMc
<1>32. CASE LoadState
  BY <1>32, Zenon DEF LoadState
<1>33. CASE Start
  BY <1>33, Zenon DEF Start
<1>34. CASE UNCHANGED vars
  BY <1>34, Zenon DEF vars
<1>35. QED
  BY <1>1, <1>2, <1>3, <1>4, <1>5, <1>6, <1>7, <1>8, <1>9, <1>10,
     <1>11, <1>12, <1>13, <1>14, <1>15, <1>16, <1>17, <1>18, <1>19, <1>20,
     <1>21, <1>22, <1>23, <1>24, <1>25, <1>26, <1>27, <1>28, <1>29, <1>30,
     <1>31, <1>32, <1>33, <1>34, Zenon
  DEF Next, Client, Processor, Stopping

\* Whatever the sizes of the ring and the transfers, the invariant holds in
\* every state of a machine that is only stopped while it runs.
THEOREM EngineInvariance ==
  ASSUME StoppedOnce
  PROVE  Spec => []EngineInv
<1>1. ASSUME EngineInv, [Next]_vars
      PROVE  EngineInv'
  BY <1>1, TypeOKStep, ThreadsStep, ExitsStep, OwedStep DEF EngineInv
<1>2. QED
  BY <1>1, EngineInit, PTL DEF Spec

\* register_processor does not leave while the machine runs: no EXIT of an
\* earlier stop reaches the thread that start spawns.
THEOREM EngineAliveHolds ==
  ASSUME StoppedOnce
  PROVE  Spec => []EngineAlive
<1>1. EngineInv => EngineAlive
  BY DEF EngineInv, Threads, EngineAlive
<1>2. QED
  BY <1>1, EngineInvariance, PTL

\* After stop the thread has left, gfxbusy is down and nobody is marked parked.
THEOREM HaltedIsQuietHolds ==
  ASSUME StoppedOnce
  PROVE  Spec => []HaltedIsQuiet
<1>1. EngineInv => HaltedIsQuiet
  BY DEF EngineInv, Threads, HaltedIsQuiet
<1>2. QED
  BY <1>1, EngineInvariance, PTL

\* busy_or_val! and wait_idle let a running machine's reads through only when
\* every entry queued before them has been executed.
THEOREM IdleMeansExecutedHolds ==
  ASSUME StoppedOnce
  PROVE  Spec => []IdleMeansExecuted
<1>1. EngineInv => IdleMeansExecuted
  BY DEF EngineInv, Owed
<1>2. QED
  BY <1>1, EngineInvariance, PTL
=============================================================================
